----------------------------- MODULE WaitQueue -----------------------------
(***************************************************************************)
(* What a condition variable of the libc port (musl) promises its users,   *)
(* with no locks, lists or futexes: a queue.  A thread that waits is       *)
(* appended.  A signal takes the first thread from the queue, if there is  *)
(* one, and a broadcast takes thread after thread until it is empty.  A    *)
(* thread returns from its wait only if it was taken or gave up: there are *)
(* no spurious returns, and a thread that gave up takes no signal along.   *)
(***************************************************************************)
EXTENDS Naturals, Sequences, SequencesExt

CONSTANT Threads

VARIABLES
    queue,      \* the threads that wait, the one that came first at the head
    status,     \* of each thread: "out", "waiting", "taken" or "gaveup"
    calls       \* of each thread: the call it makes, "none", "signal" or "broadcast"

vars == <<queue, status, calls>>

TypeOK ==
    /\ queue \in Seq(Threads)
    /\ status \in [Threads -> {"out", "waiting", "taken", "gaveup"}]
    /\ calls \in [Threads -> {"none", "signal", "broadcast"}]

\* Some threads may wait already.
Init ==
    /\ queue \in Seq(Threads) /\ IsInjective(queue)
    /\ status = [t \in Threads |-> IF Contains(queue, t) THEN "waiting" ELSE "out"]
    /\ calls = [t \in Threads |-> "none"]

Wait(t) ==
    /\ status[t] = "out"
    /\ status' = [status EXCEPT ![t] = "waiting"]
    /\ queue' = Append(queue, t)
    /\ UNCHANGED calls

GiveUp(t) ==
    /\ status[t] = "waiting"
    /\ status' = [status EXCEPT ![t] = "gaveup"]
    /\ queue' = SelectSeq(queue, LAMBDA q : q # t)
    /\ UNCHANGED calls

Return(t) ==
    /\ status[t] \in {"taken", "gaveup"}
    /\ status' = [status EXCEPT ![t] = "out"]
    /\ UNCHANGED <<queue, calls>>

Call(t) ==
    /\ calls[t] = "none"
    /\ \E kind \in {"signal", "broadcast"} : calls' = [calls EXCEPT ![t] = kind]
    /\ UNCHANGED <<queue, status>>

\* A call by t takes a thread; that is all that a signal does.
Take(t) ==
    /\ calls[t] # "none" /\ queue # <<>>
    /\ queue' = Tail(queue)
    /\ status' = [status EXCEPT ![Head(queue)] = "taken"]
    /\ calls' = [calls EXCEPT ![t] = IF @ = "signal" THEN "none" ELSE @]

\* There is nobody to take.
Nobody(t) ==
    /\ calls[t] # "none" /\ queue = <<>>
    /\ calls' = [calls EXCEPT ![t] = "none"]
    /\ UNCHANGED <<queue, status>>

Next == \E t \in Threads : Wait(t) \/ GiveUp(t) \/ Return(t) \/ Call(t) \/ Take(t) \/ Nobody(t)

Spec == Init /\ [][Next]_vars

=============================================================================
