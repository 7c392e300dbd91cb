------------------------------ MODULE Condvar ------------------------------
(***************************************************************************)
(* The condition variable of the libc port (musl) between the threads of   *)
(* one process: pthread_cond_timedwait, pthread_cond_signal and            *)
(* pthread_cond_broadcast, the mutex they are used with, and the futexes   *)
(* of the kernel.  Each action is one access to shared memory or one       *)
(* system call, with what follows it in the thread itself.                 *)
(*                                                                         *)
(* A waiter is a node on the stack of the waiting thread.  The list of     *)
(* waiters starts at c_head with the newest; next leads to older ones.  A  *)
(* signal splits off the oldest nodes; they go on one after the other,     *)
(* each held back by its barrier, which is a lock.                         *)
(***************************************************************************)
EXTENDS Integers, Sequences, FiniteSets, Functions

CONSTANTS
    Waiters,        \* the threads that wait
    Signalers,      \* the threads that signal, broadcast, and destroy the variable
    Null,           \* the null pointer
    Starts,         \* how the program may start: how many threads already wait, how many
                    \*   will, and how many times each signaler signals
    MaxBreaks       \* bound: how many sleeps end because of time, cancellation or a signal handler

Threads == Waiters \cup Signalers

ASSUME CondvarAssumption ==
    /\ Null \notin Threads
    /\ Starts \subseteq [blocked : Nat, coming : Nat, signals : Nat]
    /\ MaxBreaks \in Nat

(***************************************************************************)
(* The words that threads lock and sleep on.  A lock is 0, 1, or 2 if some *)
(* thread sleeps; for the mutex, 1 is EBUSY and 2 is EBUSY | 0x80000000.   *)
(***************************************************************************)
Mutex == <<"_m_lock", Null>>
CLock == <<"_c_lock", Null>>
Barrier(t) == <<"barrier", t>>      \* in the node of t
Ref(t) == <<"ref", t>>              \* on the stack of t, which signals
Word == {Mutex, CLock} \cup {Barrier(t) : t \in Threads} \cup {Ref(t) : t \in Threads}
NoWord == <<"none", Null>>

VARIABLES
    word,           \* the words
    m_waiters,      \* _m_waiters of the mutex
    c_head, c_tail, \* the list of the condition variable
    destroyed,      \* TRUE once the condition variable is destroyed
    node,           \* the node of each thread
    th,             \* the registers of each thread
    breaks          \* how many sleeps ended so far that nobody woke

vars == <<word, m_waiters, c_head, c_tail, destroyed, node, th, breaks>>
list == <<c_head, c_tail>>

Pointer == Threads \cup {Null}

\* A node is live from the call of pthread_cond_timedwait until it returns.
NoNode == [live |-> FALSE, prev |-> Null, next |-> Null, state |-> "WAITING", notify |-> Null]

\* pc: where the thread is; at: the word that lock() or unlock() works on, and ret
\* where they return to; then: where the mutex functions, or the signal, return to;
\* fut: the word on which the thread sleeps; val, n, p and first
\* as in the code (n is what is left of it while the call lasts, and 0 otherwise);
\* waits and signals: the calls that are left.
Idle(waits, signals) ==
    [pc |-> "idle", ret |-> "idle", then |-> "idle", at |-> NoWord, fut |-> NoWord,
     val |-> 0, n |-> 0, p |-> Null, first |-> Null, waits |-> waits, signals |-> signals]

\* The program starts with some of the threads asleep in pthread_cond_timedwait,
\* q[1] the first that came; those after them in q have yet to come.
Init ==
    \E s \in Starts : \E q \in Injection(1..(s.blocked + s.coming), Waiters) :
       LET Blocks(t) == \E i \in 1..s.blocked : q[i] = t
           Comes(t) == \E i \in DOMAIN q : i > s.blocked /\ q[i] = t
           Place(t) == CHOOSE i \in DOMAIN q : q[i] = t
           Nth(i) == IF i \in 1..s.blocked THEN q[i] ELSE Null
       IN  /\ word = [w \in Word |-> IF \E t \in Threads : Blocks(t) /\ w = Barrier(t) THEN 2 ELSE 0]
           /\ m_waiters = 0
           /\ c_head = Nth(s.blocked) /\ c_tail = Nth(1)
           /\ destroyed = FALSE /\ breaks = 0
           /\ node = [t \in Threads |->
                 IF ~Blocks(t) THEN NoNode
                 ELSE [NoNode EXCEPT !.live = TRUE, !.prev = Nth(Place(t) + 1), !.next = Nth(Place(t) - 1)]]
           /\ th = [t \in Threads |->
                 IF t \notin Waiters THEN Idle(0, s.signals)
                 ELSE IF ~Blocks(t) THEN Idle(IF Comes(t) THEN 1 ELSE 0, 0)
                 ELSE [Idle(0, 0) EXCEPT
                         !.pc = "block", !.ret = "mutex_unlock", !.then = "block",
                         !.at = CLock, !.fut = Barrier(t)]]

At(t, pc) == th[t].pc = pc /\ th[t].fut = NoWord

Goto(t, pc) == th' = [th EXCEPT ![t].pc = pc]

\* Calls lock() or unlock() of w, which return to ret, and then to the place "then".
Call(t, pc, w, ret, then) ==
    th' = [th EXCEPT ![t].pc = pc, ![t].at = w, ![t].ret = ret, ![t].then = then]

(***************************************************************************)
(* The futexes.  A thread sleeps only if the word has the value it expects.*)
(***************************************************************************)
SleepUnless(t, w, expected, pc) ==
    th' = IF word[w] = expected THEN [th EXCEPT ![t].fut = w] ELSE [th EXCEPT ![t].pc = pc]

Sleepers(w) == {t \in Threads : th[t].fut = w}

\* FUTEX_WAKE of one thread; t goes on at pc.
WakeOne(t, w, pc) ==
    IF Sleepers(w) = {} THEN Goto(t, pc)
    ELSE \E s \in Sleepers(w) : th' = [th EXCEPT ![t].pc = pc, ![s].fut = NoWord]

\* FUTEX_REQUEUE of one thread from the word w to the word r.
Requeue(t, w, r, pc) ==
    IF Sleepers(w) = {} THEN Goto(t, pc)
    ELSE \E s \in Sleepers(w) : th' = [th EXCEPT ![t].pc = pc, ![s].fut = r]

\* A signal handler interrupts the sleep, or it ends for no reason.
Interrupt(t) ==
    /\ breaks < MaxBreaks /\ breaks' = breaks + 1
    /\ th[t].fut # NoWord
    /\ th' = [th EXCEPT ![t].fut = NoWord]
    /\ UNCHANGED <<word, m_waiters, list, destroyed, node>>

(***************************************************************************)
(* lock() and unlock() of pthread_cond_timedwait.c.                        *)
(***************************************************************************)
memory == <<m_waiters, list, destroyed, node, breaks>>

LockTry(t) ==
    /\ At(t, "lock")
    /\ IF word[th[t].at] = 0
       THEN word' = [word EXCEPT ![th[t].at] = 1] /\ Goto(t, th[t].ret)
       ELSE UNCHANGED word /\ Goto(t, "lock_mark")
    /\ UNCHANGED memory

LockMark(t) ==
    /\ At(t, "lock_mark")
    /\ word' = [word EXCEPT ![th[t].at] = IF @ = 1 THEN 2 ELSE @]
    /\ Goto(t, "lock_wait")
    /\ UNCHANGED memory

LockWait(t) ==
    /\ At(t, "lock_wait")
    /\ SleepUnless(t, th[t].at, 2, "lock_retry")
    /\ UNCHANGED <<word, memory>>

LockRetry(t) ==
    /\ At(t, "lock_retry")
    /\ IF word[th[t].at] = 0
       THEN word' = [word EXCEPT ![th[t].at] = 2] /\ Goto(t, th[t].ret)
       ELSE UNCHANGED word /\ Goto(t, "lock_wait")
    /\ UNCHANGED memory

Unlock(t) ==
    /\ At(t, "unlock")
    /\ word' = [word EXCEPT ![th[t].at] = 0]
    /\ Goto(t, IF word[th[t].at] = 2 THEN "unlock_wake" ELSE th[t].ret)
    /\ UNCHANGED memory

UnlockWake(t) ==
    /\ At(t, "unlock_wake")
    /\ WakeOne(t, th[t].at, th[t].ret)
    /\ UNCHANGED <<word, memory>>

(***************************************************************************)
(* pthread_mutex_lock and pthread_mutex_unlock of a normal mutex.          *)
(***************************************************************************)
MutexTry(t) ==
    /\ At(t, "mutex_lock")
    /\ IF word[Mutex] = 0
       THEN word' = [word EXCEPT ![Mutex] = 1] /\ Goto(t, th[t].then)
       ELSE UNCHANGED word /\ Goto(t, "mutex_read")
    /\ UNCHANGED memory

MutexRead(t) ==
    /\ At(t, "mutex_read")
    /\ IF word[Mutex] = 0
       THEN Goto(t, "mutex_lock")
       ELSE th' = [th EXCEPT ![t].pc = "mutex_inc", ![t].val = word[Mutex]]
    /\ UNCHANGED <<word, memory>>

MutexInc(t) ==
    /\ At(t, "mutex_inc")
    /\ m_waiters' = m_waiters + 1
    /\ Goto(t, "mutex_mark")
    /\ UNCHANGED <<word, list, destroyed, node, breaks>>

MutexMark(t) ==
    /\ At(t, "mutex_mark")
    /\ word' = [word EXCEPT ![Mutex] = IF @ = th[t].val THEN 2 ELSE @]
    /\ th' = [th EXCEPT ![t].pc = "mutex_wait", ![t].val = 0]
    /\ UNCHANGED memory

\* One futex call: however it ends, the loop starts again.
MutexWait(t) ==
    /\ At(t, "mutex_wait")
    /\ th' = [th EXCEPT ![t].pc = "mutex_dec",
                        ![t].fut = IF word[Mutex] = 2 THEN Mutex ELSE NoWord]
    /\ UNCHANGED <<word, memory>>

MutexDec(t) ==
    /\ At(t, "mutex_dec")
    /\ m_waiters' = m_waiters - 1
    /\ Goto(t, "mutex_lock")
    /\ UNCHANGED <<word, list, destroyed, node, breaks>>

UnlockRead(t) ==
    /\ At(t, "mutex_unlock")
    /\ th' = [th EXCEPT ![t].pc = "mutex_swap", ![t].val = m_waiters]
    /\ UNCHANGED <<word, memory>>

UnlockSwap_Mut(t) ==
    /\ At(t, "mutex_swap")
    /\ word' = [word EXCEPT ![Mutex] = 0]
    /\ th' = [th EXCEPT ![t].pc = IF word[Mutex] = 2 THEN "mutex_wake" ELSE th[t].then,
                        ![t].val = 0]
    /\ UNCHANGED memory

UnlockSwap(t) ==
    /\ At(t, "mutex_swap")
    /\ word' = [word EXCEPT ![Mutex] = 0]
    /\ th' = [th EXCEPT ![t].pc = IF th[t].val # 0 \/ word[Mutex] = 2 THEN "mutex_wake" ELSE th[t].then,
                        ![t].val = 0]
    /\ UNCHANGED memory

MutexWake(t) ==
    /\ At(t, "mutex_wake")
    /\ WakeOne(t, Mutex, th[t].then)
    /\ UNCHANGED <<word, memory>>

(***************************************************************************)
(* pthread_cond_timedwait.                                                 *)
(***************************************************************************)
Wait(t) ==
    /\ At(t, "held") /\ th[t].waits > 0 /\ ~destroyed
    /\ th' = [th EXCEPT ![t].pc = "lock", ![t].at = CLock, ![t].ret = "enqueue", ![t].waits = @ - 1]
    /\ node' = [node EXCEPT ![t] = [NoNode EXCEPT !.live = TRUE]]
    /\ UNCHANGED <<word, m_waiters, list, destroyed, breaks>>

Enqueue(t) ==
    /\ At(t, "enqueue")
    /\ word' = [word EXCEPT ![Barrier(t)] = 2]
    /\ node' = [q \in Threads |->
          IF q = t THEN [node[t] EXCEPT !.state = "WAITING", !.next = c_head]
          ELSE IF c_tail # Null /\ q = c_head THEN [node[q] EXCEPT !.prev = t]
          ELSE node[q]]
    /\ c_head' = t
    /\ c_tail' = IF c_tail = Null THEN t ELSE c_tail
    /\ Call(t, "unlock", CLock, "mutex_unlock", "block")
    /\ UNCHANGED <<m_waiters, destroyed, breaks>>

Block(t) ==
    /\ At(t, "block")
    /\ SleepUnless(t, Barrier(t), 2, "leave")
    /\ UNCHANGED <<word, memory>>

\* The time is over, or the thread is cancelled, on whichever futex it now sleeps.
GiveUp(t) ==
    /\ breaks < MaxBreaks /\ breaks' = breaks + 1
    /\ th[t].pc = "block"
    /\ th' = [th EXCEPT ![t].pc = "leave", ![t].fut = NoWord]
    /\ UNCHANGED <<word, m_waiters, list, destroyed, node>>

Leave(t) ==
    /\ At(t, "leave")
    /\ IF node[t].state = "WAITING"
       THEN node' = [node EXCEPT ![t].state = "LEAVING"] /\ Call(t, "lock", CLock, "unlink", "done")
       ELSE UNCHANGED node /\ Call(t, "lock", Barrier(t), "mutex_lock", "first_of_group")
    /\ UNCHANGED <<word, m_waiters, list, destroyed, breaks>>

Unlink(t) ==
    /\ At(t, "unlink")
    /\ c_head' = IF c_head = t THEN node[t].next ELSE c_head
    /\ c_tail' = IF c_tail = t THEN node[t].prev ELSE c_tail
    /\ node' = [q \in Threads |->
          IF c_head # t /\ q = node[t].prev THEN [node[q] EXCEPT !.next = node[t].next]
          ELSE IF c_tail # t /\ q = node[t].next THEN [node[q] EXCEPT !.prev = node[t].prev]
          ELSE node[q]]
    /\ Call(t, "unlock", CLock, "notify", "done")
    /\ UNCHANGED <<word, m_waiters, destroyed, breaks>>

Notify(t) ==
    /\ At(t, "notify")
    /\ LET r == Ref(node[t].notify)
           wakes == node[t].notify # Null /\ word[r] = 1
       IN  /\ word' = IF node[t].notify = Null THEN word ELSE [word EXCEPT ![r] = @ - 1]
           /\ Goto(t, IF wakes THEN "notify_wake" ELSE "mutex_lock")
    /\ UNCHANGED memory

NotifyWake(t) ==
    /\ At(t, "notify_wake")
    /\ WakeOne(t, Ref(node[t].notify), "mutex_lock")
    /\ UNCHANGED <<word, memory>>

FirstOfGroup_Mut(t) ==
    /\ At(t, "first_of_group")
    /\ Goto(t, IF node[t].prev = Null THEN "last_of_group" ELSE "mark")
    /\ UNCHANGED <<word, memory>>

FirstOfGroup(t) ==
    /\ At(t, "first_of_group")
    /\ m_waiters' = IF node[t].next = Null THEN m_waiters + 1 ELSE m_waiters
    /\ Goto(t, IF node[t].prev = Null THEN "last_of_group" ELSE "mark")
    /\ UNCHANGED <<word, list, destroyed, node, breaks>>

\* The thread holds the mutex, so the word it reads can only change from 1 to 2.
Mark(t) ==
    /\ At(t, "mark")
    /\ word' = [word EXCEPT ![Mutex] = IF @ = 1 THEN 2 ELSE @]
    /\ Goto(t, "unlock_next")
    /\ UNCHANGED memory

UnlockNext(t) ==
    /\ At(t, "unlock_next")
    /\ word' = [word EXCEPT ![Barrier(node[t].prev)] = 0]
    /\ Goto(t, "requeue")
    /\ UNCHANGED memory

RequeueNext(t) ==
    /\ At(t, "requeue")
    /\ Requeue(t, Barrier(node[t].prev), Mutex, "done")
    /\ UNCHANGED <<word, memory>>

LastOfGroup_Mut(t) ==
    /\ At(t, "last_of_group")
    /\ Goto(t, "done")
    /\ UNCHANGED <<word, memory>>

LastOfGroup(t) ==
    /\ At(t, "last_of_group")
    /\ m_waiters' = m_waiters - 1
    /\ Goto(t, "done")
    /\ UNCHANGED <<word, list, destroyed, node, breaks>>

Done(t) ==
    /\ At(t, "done")
    /\ node' = [node EXCEPT ![t] = NoNode]
    /\ word' = [word EXCEPT ![Barrier(t)] = 0]
    /\ th' = [th EXCEPT ![t].pc = "held", ![t].ret = "idle", ![t].then = "idle", ![t].at = NoWord]
    /\ UNCHANGED <<m_waiters, list, destroyed, breaks>>

(***************************************************************************)
(* __private_cond_signal, with n = 1 for a signal and -1 for a broadcast.  *)
(* The steps from ScanStart to Split are made with the lock of the         *)
(* condition variable held.                                                *)
(***************************************************************************)
ScanStart(t) ==
    /\ At(t, "scan_start")
    /\ th' = [th EXCEPT ![t].pc = "scan", ![t].p = c_tail]
    /\ UNCHANGED <<word, memory>>

Scan_Mut(t) ==
    LET p == th[t].p IN
    /\ At(t, "scan") /\ th[t].n # 0 /\ p # Null
    /\ node' = [node EXCEPT ![p].state = "SIGNALED"]
    /\ th' = [th EXCEPT ![t].n = @ - 1, ![t].first = IF @ = Null THEN p ELSE @,
                        ![t].p = node[p].prev]
    /\ UNCHANGED <<word, m_waiters, list, destroyed, breaks>>

Scan(t) ==
    LET p == th[t].p IN
    /\ At(t, "scan") /\ th[t].n # 0 /\ p # Null
    /\ IF node[p].state = "WAITING"
       THEN /\ node' = [node EXCEPT ![p].state = "SIGNALED"]
            /\ th' = [th EXCEPT ![t].n = @ - 1, ![t].first = IF @ = Null THEN p ELSE @,
                                ![t].p = node[p].prev]
            /\ UNCHANGED word
       ELSE /\ node' = [node EXCEPT ![p].notify = t]
            /\ word' = [word EXCEPT ![Ref(t)] = @ + 1]
            /\ th' = [th EXCEPT ![t].p = node[p].prev]
    /\ UNCHANGED <<m_waiters, list, destroyed, breaks>>

Split(t) ==
    LET p == th[t].p IN
    /\ At(t, "scan") /\ (th[t].n = 0 \/ p = Null)
    /\ node' = [q \in Threads |->
          IF p # Null /\ q = node[p].next THEN [node[q] EXCEPT !.prev = Null]
          ELSE IF q = p THEN [node[q] EXCEPT !.next = Null]
          ELSE node[q]]
    /\ c_head' = IF p = Null THEN Null ELSE c_head
    /\ c_tail' = p
    /\ th' = [th EXCEPT ![t].pc = "unlock", ![t].ret = "await_leaving", ![t].n = 0, ![t].p = Null]
    /\ UNCHANGED <<word, m_waiters, destroyed, breaks>>

AwaitLeaving_Mut(t) ==
    /\ At(t, "await_leaving")
    /\ th' = IF th[t].first # Null
             THEN [th EXCEPT ![t].pc = "unlock", ![t].at = Barrier(th[t].first), ![t].ret = "signaled"]
             ELSE [th EXCEPT ![t].pc = "signaled"]
    /\ UNCHANGED <<word, memory>>

AwaitLeaving(t) ==
    /\ At(t, "await_leaving")
    /\ th' = IF word[Ref(t)] # 0 THEN [th EXCEPT ![t].fut = Ref(t)]
             ELSE IF th[t].first # Null
             THEN [th EXCEPT ![t].pc = "unlock", ![t].at = Barrier(th[t].first), ![t].ret = "signaled"]
             ELSE [th EXCEPT ![t].pc = "signaled"]
    /\ UNCHANGED <<word, memory>>

Signaled(t) ==
    /\ At(t, "signaled")
    /\ th' = [th EXCEPT ![t] = [Idle(th[t].waits, th[t].signals) EXCEPT !.pc = th[t].then]]
    /\ UNCHANGED <<word, memory>>

(***************************************************************************)
(* The program that uses them.  A thread waits with the mutex held; it     *)
(* signals with or without it.  A thread may destroy the condition         *)
(* variable at once after a broadcast, if it held the mutex throughout:    *)
(* no thread is blocked on it then, and none may use it afterwards.        *)
(***************************************************************************)
LockMutex(t) ==
    /\ At(t, "idle") /\ th[t].waits + th[t].signals > 0 /\ ~destroyed
    /\ th' = [th EXCEPT ![t].pc = "mutex_lock", ![t].then = "held"]
    /\ UNCHANGED <<word, memory>>

UnlockMutex(t) ==
    /\ At(t, "held")
    /\ th' = [th EXCEPT ![t].pc = "mutex_unlock", ![t].then = "idle"]
    /\ UNCHANGED <<word, memory>>

Signal(t) ==
    /\ \E pc \in {"idle", "held"}, n \in {1, -1} :
          /\ At(t, pc)
          /\ th' = [th EXCEPT ![t].pc = "lock", ![t].at = CLock, ![t].ret = "scan_start",
                              ![t].then = pc, ![t].n = n, ![t].signals = @ - 1]
    /\ th[t].signals > 0 /\ ~destroyed
    /\ UNCHANGED <<word, memory>>

BroadcastAndDestroy(t) ==
    /\ At(t, "held") /\ th[t].signals > 0 /\ ~destroyed
    /\ th' = [th EXCEPT ![t].pc = "lock", ![t].at = CLock, ![t].ret = "scan_start",
                        ![t].then = "destroy", ![t].n = -1, ![t].signals = @ - 1]
    /\ UNCHANGED <<word, memory>>

\* The position of a thread in a call of signal or broadcast.
InSignal(t) == \/ th[t].ret \in {"scan_start", "await_leaving", "signaled"}
               \/ th[t].pc = "signaled"

Destroy(t) ==
    /\ At(t, "destroy")
    /\ Goto(t, "held")
    /\ destroyed' = \A q \in Threads \ {t} : ~InSignal(q)
    /\ UNCHANGED <<word, m_waiters, list, node, breaks>>

Library(t) ==
    \/ LockTry(t) \/ LockMark(t) \/ LockWait(t) \/ LockRetry(t) \/ Unlock(t) \/ UnlockWake(t)
    \/ MutexTry(t) \/ MutexRead(t) \/ MutexInc(t) \/ MutexMark(t) \/ MutexWait(t) \/ MutexDec(t)
    \/ UnlockRead(t) \/ UnlockSwap(t) \/ MutexWake(t)
    \/ Enqueue(t) \/ Block(t) \/ Leave(t) \/ Unlink(t) \/ Notify(t) \/ NotifyWake(t)
    \/ FirstOfGroup(t) \/ Mark(t) \/ UnlockNext(t) \/ RequeueNext(t) \/ LastOfGroup(t) \/ Done(t)
    \/ ScanStart(t) \/ Scan(t) \/ Split(t) \/ AwaitLeaving(t) \/ Signaled(t)

Program(t) ==
    LockMutex(t) \/ UnlockMutex(t) \/ Wait(t) \/ Signal(t) \/ BroadcastAndDestroy(t) \/ Destroy(t)

Next == \E t \in Threads : Library(t) \/ Program(t) \/ GiveUp(t) \/ Interrupt(t)

Spec == Init /\ [][Next]_vars

-----------------------------------------------------------------------------
(***************************************************************************)
(* Properties.                                                             *)
(***************************************************************************)
PCs == {"idle", "held", "lock", "lock_mark", "lock_wait", "lock_retry", "unlock", "unlock_wake",
        "mutex_lock", "mutex_read", "mutex_inc", "mutex_mark", "mutex_wait", "mutex_dec",
        "mutex_unlock", "mutex_swap", "mutex_wake", "enqueue", "block", "leave", "unlink",
        "notify", "notify_wake", "first_of_group", "mark", "unlock_next", "requeue",
        "last_of_group", "done", "scan_start", "scan", "await_leaving", "signaled", "destroy"}

\* Types of the variables.  The count of waiters of the mutex is never negative, and
\* every thread that sleeps does so on a word.
TypeOK ==
    /\ word \in [Word -> 0..Cardinality(Threads) + 2]
    /\ m_waiters \in Nat
    /\ c_head \in Pointer /\ c_tail \in Pointer
    /\ destroyed \in BOOLEAN /\ breaks \in 0..MaxBreaks
    /\ node \in [Threads -> [live : BOOLEAN, prev : Pointer, next : Pointer,
                             state : {"WAITING", "SIGNALED", "LEAVING"}, notify : Pointer]]
    /\ \A t \in Threads :
          /\ {th[t].pc, th[t].ret, th[t].then} \subseteq PCs
          /\ {th[t].at, th[t].fut} \subseteq Word \cup {NoWord}
          /\ {th[t].p, th[t].first} \subseteq Pointer
          /\ th[t].val \in Nat /\ th[t].n \in Int
          /\ th[t].waits \in Nat /\ th[t].signals \in Nat

\* The nodes, signals and condition variables that the next step of thread t reads or
\* writes through a pointer.  A system call is given an address, but reads only a word
\* on which a thread may sleep: a wake of memory that is gone wakes nobody.
NodesTouched(t) ==
    LET n == node[t]
        p == th[t].p
    IN  CASE th[t].pc = "enqueue" /\ c_tail # Null -> {c_head}
          [] th[t].pc = "unlink" -> (IF c_head # t THEN {n.prev} ELSE {})
                                       \cup (IF c_tail # t THEN {n.next} ELSE {})
          [] th[t].pc = "unlock_next" -> {n.prev}
          [] th[t].pc = "scan" -> {p} \cup (IF p # Null /\ th[t].n = 0 THEN {node[p].next} ELSE {})
          [] th[t].pc = "unlock" /\ th[t].ret = "signaled" -> {th[t].first}
          [] OTHER -> {}

TouchesVariable(t) ==
    \/ th[t].pc \in {"enqueue", "unlink", "scan_start", "scan"}
    \/ th[t].pc \in {"lock", "lock_mark", "lock_wait", "lock_retry", "unlock"} /\ th[t].at = CLock

\* No thread follows a pointer to memory that is gone: to the node of a waiter that has
\* returned, to the counter of a signal that has returned, or to a condition variable
\* that was destroyed after a broadcast, as the comments on the notify futex and on
\* self-synchronized destruction claim.
NoDangling ==
    \A t \in Threads :
       /\ \A q \in NodesTouched(t) \ {Null} : node[q].live
       /\ th[t].pc = "notify" /\ node[t].notify # Null => InSignal(node[t].notify)
       /\ destroyed => ~TouchesVariable(t)

\* No wake-up is lost: when every thread is out of the library or asleep, those asleep
\* wait on the condition variable and were not signaled.  In particular a signaled
\* waiter that was moved to the futex of the mutex is woken by an unlock.
NoLostWakeup ==
    (\A t \in Threads : th[t].pc = "idle" \/ th[t].fut # NoWord)
       => \A t \in Threads : th[t].pc = "idle" \/ (th[t].pc = "block" /\ node[t].state = "WAITING")

\* The count of waiters of the mutex, which every group of signaled waiters takes once
\* and gives back once, is zero when no thread is inside the library.
WaitersBalanced ==
    (\A t \in Threads : th[t].pc \in {"idle", "held"} \/ (th[t].fut # NoWord /\ node[t].state = "WAITING"
                                                         /\ th[t].pc = "block"))
       => m_waiters = 0

\* The waiters on the list from the tail on, the oldest first, that nobody signaled.
Unsignaled ==
    LET Len0 == Cardinality(Threads)
        At0[i \in 1..Len0] == IF i = 1 THEN c_tail
                              ELSE IF At0[i - 1] = Null THEN Null ELSE node[At0[i - 1]].prev
    IN  SelectSeq(At0, LAMBDA t : t # Null /\ node[t].state = "WAITING")

Enqueued(t) == node[t].live /\ th[t].ret # "enqueue"

Queue == INSTANCE WaitQueue WITH
    queue  <- Unsignaled,
    status <- [t \in Threads |->
                 IF ~Enqueued(t) THEN "out"
                 ELSE CASE node[t].state = "WAITING" -> "waiting"
                        [] node[t].state = "SIGNALED" -> "taken"
                        [] node[t].state = "LEAVING" -> "gaveup"],
    calls  <- [t \in Threads |->
                 IF th[t].n = 0 THEN "none" ELSE IF th[t].n > 0 THEN "signal" ELSE "broadcast"]

\* The condition variable is a queue: a signal takes the thread that has waited longest
\* and has not given up, if there is one; a broadcast takes all of them; nobody returns
\* who was neither taken nor gave up; and a thread that gives up while a signal is on
\* its way either is taken or leaves the signal to the next thread.
ImplementsQueue == Queue!Spec

=============================================================================
