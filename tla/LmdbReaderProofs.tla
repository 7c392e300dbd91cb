-------------------------- MODULE LmdbReaderProofs --------------------------
(*************************************************************************)
(* Proofs about the readers of Lmdb, for any number of processes and     *)
(* slots: every step keeps Inv, and the steps of readers keep PageInv.   *)
(*************************************************************************)
EXTENDS LmdbInv, TLAPS

(***************************************************************************)
(* The least element of a set of numbers.                                  *)
(***************************************************************************)
\* A set of numbers that is not empty has a least element, and Min is one.
LEMMA MinOfSet ==
    ASSUME WellOrdered, NEW S, S \subseteq Nat, S # {}
    PROVE  Min(S) \in S /\ \A y \in S : Min(S) <= y
    BY Zenon DEF WellOrdered, Min

\* Two processes never have the same slot.
LEMMA SlotsApart ==
    ASSUME Inv, NEW p \in Procs, NEW q \in Procs \ {p}, env[q].slot # NoSlot
    PROVE  env[q].slot # env[p].slot /\ env[q].slot \in Slot /\ env[q].slot < numreaders
           /\ readers[env[q].slot].pid = q /\ q # NoProc /\ env[q].pidlock
    BY LmdbAssumption DEF Inv, Shape, IsProcess, Owns

\* What a closed process has.
LEMMA ClosedProcess ==
    /\ IsProcess(Closed) /\ Closed.pc = "closed" /\ Closed.slot = NoSlot /\ Closed.pgoldest = 0
    BY Zenon DEF Closed, IsProcess

\* The oldest reader is not younger than one that has seen its txnid.
LEMMA FindOldestSafe ==
    ASSUME WellOrdered, Inv, NEW t, t.id = mti_txnid + 1
    PROVE  /\ FindOldest(t) \in Nat /\ FindOldest(t) <= mti_txnid
           /\ \A p \in Procs : env[p].pc \in Seen => FindOldest(t) <= readers[env[p].slot].txnid
    <1> DEFINE S == {t.id - 1} \cup {readers[i].txnid :
                        i \in {j \in Slot : j < numreaders /\ readers[j].pid # NoProc}}
    <1>1. S \subseteq Nat /\ S # {} /\ mti_txnid \in S
        BY DEF Inv, Shape, IsTable
    <1>2. FindOldest(t) = Min(S)
        BY Zenon DEF FindOldest
    <1>3. Min(S) \in S /\ \A y \in S : Min(S) <= y
        <2> HIDE DEF S
        <2> QED BY Zenon, <1>1, MinOfSet
    <1>4. ASSUME NEW p \in Procs, env[p].pc \in Seen PROVE readers[env[p].slot].txnid \in S
        <2>1. env[p].slot # NoSlot /\ env[p].slot \in Slot
            BY Zenon, <1>4 DEF Inv, Shape, Owns, IsProcess, Seen, Reading
        <2>2. env[p].slot < numreaders /\ readers[env[p].slot].pid # NoProc
            BY <2>1, LmdbAssumption DEF Inv, Owns
        <2> QED BY Zenon, <2>1, <2>2
    <1> HIDE DEF S
    <1> QED BY Zenon, <1>1, <1>2, <1>3, <1>4

\* A write transaction that has no id keeps nobody waiting.
LEMMA NoTransactionHasId == "id" \in DOMAIN NoTransaction
    BY Zenon DEF NoTransaction

\* The empty reader table.
LEMMA EmptyTable == IsTable(NoReaders)
    BY LmdbAssumption DEF NoReaders, IsTable, NoTxn

\* Inv holds at first.
LEMMA InitInv == Init => Inv
    <1> SUFFICES ASSUME Init PROVE Inv
        BY SMTT(30)
    <1>1. PICK n, m \in Leaves :
              metas = [i \in 0..1 |-> IF i = 0 THEN Second(n, m) ELSE First(n)]
        BY SMTT(30) DEF Init
    <1>2. "txnid" \in DOMAIN NoMeta
        BY Zenon DEF NoMeta
    <1>3. HaveIds(metas)
        <2>1. "txnid" \in DOMAIN First(n) /\ First(n).txnid = 1
            BY Zenon, <1>2 DEF First
        <2>2. Second(n, m).txnid = 2
            BY SMTT(30), <2>1 DEF Second
        <2> QED BY <1>1, <2>1, <2>2 DEF HaveIds
    <1>4. /\ dmetas = metas /\ mti_txnid = 0 /\ readers = NoReaders /\ numreaders = 0
          /\ env = [p \in Procs |-> Closed] /\ txn = NoTransaction
        BY Zenon DEF Init
    <1>5. Shape
        BY SMTT(30), <1>3, <1>4, EmptyTable, ClosedProcess, NoTransactionHasId, LmdbAssumption
           DEF Shape
    <1>6. ASSUME NEW p \in Procs PROVE Owns(p) /\ Writes(p) /\ Protects(p)
        BY SMTT(30), <1>4, ClosedProcess DEF Owns, Writes, Protects, Reading, Writing, Seen
    <1> QED BY Zenon, <1>5, <1>6 DEF Inv

\* Every step keeps Inv.  TableStep, LocalStep, ReaderStep and WriterStep say what a step of one
\* process has to keep; the steps after them are the actions.
LEMMA NextInv == WellOrdered => (Inv /\ [Next]_vars => Inv')
    <1> HAVE WellOrdered
    \* If the others keep their slots, and what p does with the table is its own affair.
    <1>TableStep.
        ASSUME Inv, NEW p \in Procs, Others(p), IsProcess(env'[p]), IsTable(readers'),
               numreaders' \in 0..MaxReaders, numreaders' >= numreaders,
               \A q \in Procs \ {p} :
                   env[q].slot # NoSlot => readers'[env[q].slot] = readers[env[q].slot],
               env'[p].pc \notin Writing \cup {"end"}, env'[p].pgoldest \in {env[p].pgoldest, 0},
               env'[p].pc # "closed" => env[p].pc # "closed",
               UNCHANGED <<files, mti_txnid, wmutex, txn>>,
               Owns(p)', env'[p].pc \notin {"copy", "read"}
        PROVE  Inv'
        <2> USE <1>TableStep
        <2>1. Shape'
            BY SMTT(30) DEF Inv, Shape, Others, files, HaveIds
        <2>2. ASSUME NEW q \in Procs
              PROVE  env'[q].pgoldest <= env[q].pgoldest /\ env'[q].pgoldest \in Nat
            BY SMTT(30) DEF Inv, Shape, IsProcess, Others
        <2>3. ASSUME NEW q \in Procs \ {p} PROVE Owns(q)'
            <3>1. env'[q] = env[q] /\ env[q].slot \in Slot \cup {NoSlot}
                BY SMTT(30) DEF Inv, Shape, IsProcess, Others
            <3>2. env[q].slot # NoSlot => env[q].slot < numreaders'
                BY <3>1, LmdbAssumption DEF Inv, Shape, Owns, Slot, NoSlot
            <3> QED BY SMTT(30), <3>1, <3>2 DEF Inv, Owns
        <2>4. ASSUME NEW q \in Procs PROVE Writes(q)'
            <3>1. env'[q].pgoldest <= mti_txnid
                <4>1. /\ env[q].pgoldest <= mti_txnid /\ mti_txnid \in Nat
                      /\ env[q].pgoldest \in Nat
                    BY SMTT(30) DEF Inv, Shape, IsProcess, Writes
                <4> QED BY <2>2, <4>1
            <3>2. CASE q = p
                BY SMTT(30), <3>1, <3>2 DEF Inv, Writes, files, Writing
            <3>3. CASE q # p
                BY SMTT(30), <3>1, <3>3 DEF Inv, Writes, Others, files
            <3> QED BY Zenon, <3>2, <3>3
        <2>5. ASSUME NEW q \in Procs PROVE Protects(q)'
            <3>1. CASE q = p
                BY SMTT(30), <3>1 DEF Protects, Seen
            <3>2. CASE q # p /\ env[q].pc \in Seen
                <4>1. env'[q] = env[q] /\ env[q].slot # NoSlot
                    BY SMTT(30), <3>2 DEF Inv, Owns, Others, Seen, Reading
                <4>2. readers'[env[q].slot] = readers[env[q].slot]
                    BY SMTT(30), <3>2, <4>1
                <4>3. readers[env[q].slot].txnid \in Nat
                    BY SMTT(30), <4>1 DEF Inv, Shape, IsProcess, IsTable
                <4>4. \A x \in Procs : env'[x].pgoldest <= readers[env[q].slot].txnid
                    <5> TAKE x \in Procs
                    <5>1. env[x].pgoldest <= readers[env[q].slot].txnid /\ env[x].pgoldest \in Nat
                        BY ZenonT(30), <3>2 DEF Inv, Shape, IsProcess, Protects
                    <5> QED BY SMTT(30), <2>2, <4>3, <5>1
                <4> QED BY SMTT(30), <3>2, <4>1, <4>2, <4>4 DEF Inv, Protects
            <3>3. CASE q # p /\ env[q].pc \notin Seen
                BY SMTT(30), <3>3 DEF Protects, Others, Seen
            <3> QED BY SMTT(30), <3>1, <3>2, <3>3
        <2> QED BY SMTT(30), <2>1, <2>3, <2>4, <2>5 DEF Inv
    \* A claimed slot belonged to nobody.
    <1>ClaimStep. ASSUME Inv, NEW p \in Procs, ReadClaim(p) PROVE Inv'
        <2> USE <1>ClaimStep
        <2> DEFINE S == {numreaders} \cup {j \in Slot : j < numreaders /\ readers[j].pid = NoProc}
                   i == Min(S)
        <2>0. /\ IsProcess(env[p]) /\ DOMAIN env = Procs /\ env[p].pc = "claim" /\ env[p].pidlock
              /\ numreaders \in 0..MaxReaders /\ IsTable(readers) /\ MaxReaders \in Nat
            BY SMTT(30), LmdbAssumption DEF Inv, Shape, Owns, ReadClaim
        <2>1. S \subseteq Nat /\ S # {}
            BY <2>0, LmdbAssumption DEF Slot
        <2>2. i \in S /\ i <= numreaders
            <3> HIDE DEF S
            <3>1. i \in S /\ \A y \in S : i <= y
                BY Zenon, <2>1, MinOfSet
            <3>2. numreaders \in S
                BY Zenon DEF S
            <3> QED BY Zenon, <3>1, <3>2
        <2>3. CASE i = MaxReaders
            <3>1. /\ env' = [env EXCEPT ![p].pc = "idle", ![p].floor = 0]
                  /\ UNCHANGED <<locks, files, txn>>
                BY Zenon, <2>3 DEF ReadClaim
            <3>2. /\ Others(p) /\ IsProcess(env'[p]) /\ env'[p].slot = env[p].slot
                  /\ env'[p].pidlock = env[p].pidlock /\ env'[p].pc = "idle"
                  /\ env'[p].pgoldest = env[p].pgoldest
                BY Zenon, <2>0, <3>1 DEF Others, IsProcess
            <3>3. Owns(p)'
                BY Zenon, <3>1, <3>2 DEF Inv, Owns, locks, Reading
            <3> QED BY SMTT(30), <2>0, <3>1, <3>2, <3>3, <1>TableStep DEF locks, Writing
        <2>4. CASE i # MaxReaders
            <3>1. /\ readers' = [readers EXCEPT ![i] = [pid |-> p, txnid |-> NoTxn]]
                  /\ numreaders' = IF i = numreaders THEN numreaders + 1 ELSE numreaders
                  /\ env' = [env EXCEPT ![p].pc = "load", ![p].slot = i]
                  /\ UNCHANGED <<mti_txnid, wmutex, files, txn>>
                BY SMTT(30), <2>4 DEF ReadClaim
            <3> HIDE DEF i
            <3>2. i \in Slot /\ i \in Nat
                BY SMTT(30), <2>0, <2>2, <2>4, LmdbAssumption DEF Slot
            <3>3. NoTxn \in Nat
                BY LmdbAssumption DEF NoTxn
            <3>4. /\ numreaders' \in 0..MaxReaders /\ numreaders' >= numreaders /\ i < numreaders'
                <4>1. i + 1 \in 0..MaxReaders /\ i + 1 \in Nat /\ numreaders \in Nat
                    BY SMTT(30), <2>0, <3>2 DEF Slot
                <4> QED BY SMTT(30), <2>0, <2>2, <3>1, <3>2, <4>1
            <3>5. /\ Others(p) /\ IsProcess(env'[p]) /\ env'[p].slot = i
                  /\ env'[p].pidlock = env[p].pidlock /\ env'[p].pc = "load"
                  /\ env'[p].pgoldest = env[p].pgoldest
                BY ZenonT(30), <2>0, <3>1, <3>2 DEF Others, IsProcess
            <3>6. /\ IsTable(readers') /\ readers'[i].pid = p
                  /\ \A j \in Slot \ {i} : readers'[j] = readers[j]
                BY SMTT(30), <2>0, <3>1, <3>2, <3>3 DEF IsTable
            <3>7. Owns(p)'
                BY SMTT(30), <2>0, <3>2, <3>4, <3>5, <3>6, LmdbAssumption DEF Owns, Slot, NoSlot
            <3>8. ASSUME NEW q \in Procs \ {p}, env[q].slot # NoSlot
                  PROVE  readers'[env[q].slot] = readers[env[q].slot]
                <4>1. /\ env[q].slot \in Slot /\ env[q].slot < numreaders
                      /\ readers[env[q].slot].pid # NoProc
                    BY SMTT(30), <3>8, SlotsApart
                <4>2. i = numreaders \/ readers[i].pid = NoProc
                    BY SMTT(30), <2>2
                <4>3. env[q].slot # i
                    BY SMTT(30), <2>0, <4>1, <4>2
                <4> QED BY SMTT(30), <3>6, <4>1, <4>3
            <3> QED BY Zenon, <2>0, <3>1, <3>4, <3>5, <3>6, <3>7, <3>8, <1>TableStep DEF Writing
        <2> QED BY Zenon, <2>3, <2>4
    \* A reader writes only to its own slot.
    <1>StoreStep. ASSUME Inv, NEW p \in Procs, ReadStore(p) PROVE Inv'
        <2> USE <1>StoreStep
        <2>1. /\ IsProcess(env[p]) /\ DOMAIN env = Procs /\ env[p].pc = "store" /\ IsTable(readers)
              /\ env[p].slot # NoSlot /\ env[p].slot \in Slot /\ numreaders \in 0..MaxReaders
            BY Zenon DEF Inv, Shape, IsProcess, Owns, ReadStore, Reading
        <2>2. /\ readers' = [readers EXCEPT ![env[p].slot].txnid = env[p].seen]
              /\ UNCHANGED <<files, mti_txnid, numreaders, wmutex, txn>>
            BY Zenon DEF ReadStore
        <2>3. /\ Others(p) /\ IsProcess(env'[p]) /\ env'[p].slot = env[p].slot
              /\ env'[p].pidlock = env[p].pidlock /\ env'[p].pc = "check"
              /\ env'[p].pgoldest = env[p].pgoldest
            BY SMTT(30), <2>1 DEF ReadStore, Others, IsProcess
        <2>4. NoTxn \in Nat /\ env[p].seen \in Nat
            BY SMTT(30), <2>1, LmdbAssumption DEF NoTxn, IsProcess
        <2>5. /\ IsTable(readers') /\ readers'[env[p].slot].pid = readers[env[p].slot].pid
              /\ \A j \in Slot \ {env[p].slot} : readers'[j] = readers[j]
            BY SMTT(30), <2>1, <2>2, <2>4 DEF IsTable
        <2>6. Owns(p)'
            BY SMTT(30), <2>1, <2>2, <2>3, <2>5 DEF Inv, Owns
        <2>7. ASSUME NEW q \in Procs \ {p}, env[q].slot # NoSlot
              PROVE  readers'[env[q].slot] = readers[env[q].slot]
            BY SMTT(30), <2>5, <2>7, SlotsApart
        <2>8. numreaders' >= numreaders
            BY SMTT(30), <2>1, <2>2, LmdbAssumption
        <2> QED BY Zenon, <2>1, <2>2, <2>3, <2>5, <2>6, <2>7, <2>8, <1>TableStep DEF Writing
    \* A reader that ends keeps its slot.
    <1>EndStep. ASSUME Inv, NEW p \in Procs, ReadEnd(p) PROVE Inv'
        <2> USE <1>EndStep
        <2>1. /\ IsProcess(env[p]) /\ DOMAIN env = Procs /\ env[p].pc = "read" /\ IsTable(readers)
              /\ env[p].slot # NoSlot /\ env[p].slot \in Slot /\ numreaders \in 0..MaxReaders
            BY Zenon DEF Inv, Shape, IsProcess, Owns, ReadEnd, Reading
        <2>2. /\ readers' = [readers EXCEPT ![env[p].slot].txnid = NoTxn]
              /\ UNCHANGED <<files, mti_txnid, numreaders, wmutex, txn>>
            BY Zenon DEF ReadEnd
        <2>3. /\ Others(p) /\ IsProcess(env'[p]) /\ env'[p].slot = env[p].slot
              /\ env'[p].pidlock = env[p].pidlock /\ env'[p].pc = "idle"
              /\ env'[p].pgoldest = env[p].pgoldest
            BY SMTT(30), <2>1 DEF ReadEnd, Others, IsProcess
        <2>4. NoTxn \in Nat /\ env[p].seen \in Nat
            BY <2>1, LmdbAssumption DEF NoTxn, IsProcess
        <2>5. /\ IsTable(readers') /\ readers'[env[p].slot].pid = readers[env[p].slot].pid
              /\ \A j \in Slot \ {env[p].slot} : readers'[j] = readers[j]
            BY SMTT(30), <2>1, <2>2, <2>4 DEF IsTable
        <2>6. Owns(p)'
            BY SMTT(30), <2>1, <2>2, <2>3, <2>5 DEF Inv, Owns
        <2>7. ASSUME NEW q \in Procs \ {p}, env[q].slot # NoSlot
              PROVE  readers'[env[q].slot] = readers[env[q].slot]
            <3>1. env[q].slot # env[p].slot /\ env[q].slot \in Slot
                BY Zenon, <2>7, SlotsApart
            <3> QED BY Zenon, <2>5, <3>1
        <2>8. numreaders' >= numreaders
            BY SMTT(30), <2>1, <2>2, LmdbAssumption
        <2> QED BY Zenon, <2>1, <2>2, <2>3, <2>5, <2>6, <2>7, <2>8, <1>TableStep DEF Writing
    \* A thread that exits gives up its own slot.
    <1>ExitStep. ASSUME Inv, NEW p \in Procs, ThreadExit(p) PROVE Inv'
        <2> USE <1>ExitStep
        <2>1. /\ IsProcess(env[p]) /\ DOMAIN env = Procs /\ env[p].pc = "idle" /\ IsTable(readers)
              /\ env[p].slot # NoSlot /\ env[p].slot \in Slot /\ numreaders \in 0..MaxReaders
            BY Zenon DEF Inv, Shape, IsProcess, ThreadExit
        <2>2. /\ readers' = [readers EXCEPT ![env[p].slot].pid = IF @ = p THEN NoProc ELSE @]
              /\ UNCHANGED <<files, mti_txnid, numreaders, wmutex, txn>>
            BY Zenon DEF ThreadExit
        <2>3. /\ Others(p) /\ IsProcess(env'[p]) /\ env'[p].slot = NoSlot
              /\ env'[p].pc = "idle" /\ env'[p].pgoldest = env[p].pgoldest
            BY SMTT(30), <2>1 DEF ThreadExit, Others, IsProcess
        <2>4. IsTable(readers') /\ \A j \in Slot \ {env[p].slot} : readers'[j] = readers[j]
            BY SMTT(30), <2>1, <2>2 DEF IsTable
        <2>5. Owns(p)'
            BY SMTT(30), <2>3 DEF Owns, Reading
        <2>6. ASSUME NEW q \in Procs \ {p}, env[q].slot # NoSlot
              PROVE  readers'[env[q].slot] = readers[env[q].slot]
            BY SMTT(30), <2>4, <2>6, SlotsApart
        <2>7. numreaders' >= numreaders
            BY SMTT(30), <2>1, <2>2, LmdbAssumption
        <2> QED BY Zenon, <2>1, <2>2, <2>3, <2>4, <2>5, <2>6, <2>7, <1>TableStep DEF Writing
    \* A process that closes the environment gives up its own slots.
    <1>CloseStep. ASSUME Inv, NEW p \in Procs, Close(p) PROVE Inv'
        <2> USE <1>CloseStep
        <2>1. DOMAIN env = Procs /\ IsTable(readers) /\ numreaders \in 0..MaxReaders
            BY Zenon DEF Inv, Shape
        <2>2. /\ env' = [env EXCEPT ![p] = Closed]
              /\ readers' = Cleared(p) \/ readers' = readers
              /\ UNCHANGED <<files, mti_txnid, numreaders, wmutex, txn>>
            BY Zenon DEF Close
        <2>3. Others(p) /\ env'[p] = Closed
            BY Zenon, <2>1, <2>2 DEF Others
        <2>4. IsTable(readers') /\ \A j \in Slot : readers[j].pid # p => readers'[j] = readers[j]
            <3>1. CASE readers' = Cleared(p)
                BY SMTT(30), <2>1, <3>1 DEF IsTable, Cleared
            <3>2. CASE readers' = readers
                BY Zenon, <2>1, <3>2
            <3> QED BY Zenon, <2>2, <3>1, <3>2
        <2>5. Owns(p)'
            BY SMTT(30), <2>3, ClosedProcess DEF Owns, Reading
        <2>6. ASSUME NEW q \in Procs \ {p}, env[q].slot # NoSlot
              PROVE  readers'[env[q].slot] = readers[env[q].slot]
            BY SMTT(30), <2>4, <2>6, SlotsApart
        <2>7. numreaders' >= numreaders
            BY SMTT(30), <2>1, <2>2, LmdbAssumption
        <2> QED BY Zenon, <2>1, <2>2, <2>3, <2>4, <2>5, <2>6, <2>7, <1>TableStep, ClosedProcess
                   DEF Writing
    \* The table after mdb_reader_check has every slot of a live process.
    <1>CheckKeeps.
        ASSUME Inv, NEW p \in Procs
        PROVE  /\ IsTable(ReaderCheck(p))
               /\ \A q \in Procs : env[q].slot # NoSlot =>
                      ReaderCheck(p)[env[q].slot] = readers[env[q].slot]
        <2> USE <1>CheckKeeps
        <2>1. IsTable(readers)
            BY Zenon DEF Inv, Shape
        <2>2. IsTable(ReaderCheck(p))
            BY SMTT(30), <2>1 DEF ReaderCheck, IsTable
        <2>3. ASSUME NEW q \in Procs, env[q].slot # NoSlot
              PROVE  ReaderCheck(p)[env[q].slot] = readers[env[q].slot]
            <3>1. env[q].slot \in Slot /\ readers[env[q].slot].pid = q /\ env[q].pidlock
                BY SMTT(30), <2>3 DEF Inv, Shape, IsProcess, Owns
            <3> QED BY SMTT(30), <3>1 DEF ReaderCheck
        <2> QED BY SMTT(30), <2>2, <2>3
    \* mdb_reader_check takes no slot from a live process.
    <1>CheckStep. ASSUME Inv, NEW p \in Procs, CheckReaders(p) PROVE Inv'
        <2> USE <1>CheckStep
        <2>1. /\ IsProcess(env[p]) /\ DOMAIN env = Procs /\ env[p].pc = "idle"
              /\ numreaders \in 0..MaxReaders
            BY SMTT(30) DEF Inv, Shape, CheckReaders
        <2>2. /\ readers' = ReaderCheck(p)
              /\ UNCHANGED <<files, mti_txnid, numreaders, wmutex, env, txn>>
            BY Zenon DEF CheckReaders
        <2>3. Others(p) /\ IsProcess(env'[p]) /\ env'[p] = env[p]
            BY SMTT(30), <2>1, <2>2 DEF Others
        <2>4. Owns(p)'
            BY ZenonT(30), <2>2, <1>CheckKeeps DEF Inv, Owns
        <2>5. numreaders' >= numreaders
            BY SMTT(30), <2>1, <2>2, LmdbAssumption
        <2> QED BY SMTT(30), <2>1, <2>2, <2>3, <2>4, <2>5, <1>CheckKeeps, <1>TableStep DEF Writing
    \* mdb_env_pick_meta
    <1>NewestIsNewest.
        ASSUME NEW ms, HaveIds(ms)
        PROVE  /\ Newest(ms).txnid \in Nat
               /\ \E i \in 0..1 : ms[i].txnid >= Newest(ms).txnid
               /\ \A i \in 0..1 : Newest(ms).txnid >= ms[i].txnid
        <2> USE <1>NewestIsNewest
        <2>1. ms[0].txnid \in Nat /\ ms[1].txnid \in Nat
            BY DEF HaveIds
        <2>2. \A i \in 0..1 : i = 0 \/ i = 1
            OBVIOUS
        <2>3. CASE ms[0].txnid < ms[1].txnid
            BY SMTT(30), <2>1, <2>2, <2>3 DEF Newest
        <2>4. CASE ~(ms[0].txnid < ms[1].txnid)
            BY SMTT(30), <2>1, <2>2, <2>4 DEF Newest
        <2> QED BY Zenon, <2>3, <2>4
    \* An allocation keeps the id of the transaction, and looks for the oldest reader or
    \* takes the one it knows.
    <1>AllocKeeps.
        ASSUME NEW t, "id" \in DOMAIN t, NEW cached
        PROVE  /\ "id" \in DOMAIN PageAlloc(t, cached).t /\ PageAlloc(t, cached).t.id = t.id
               /\ PageAlloc(t, cached).oldest \in {cached, FindOldest(t)}
        BY Zenon, <1>AllocKeeps DEF PageAlloc
    \* PageTouch keeps the id of a transaction, and looks for the oldest reader or takes the
    \* one it knows.
    <1>TouchKeeps.
        ASSUME NEW t, "id" \in DOMAIN t, NEW n, NEW cached
        PROVE  /\ "id" \in DOMAIN PageTouch(t, n, cached).t /\ PageTouch(t, n, cached).t.id = t.id
               /\ PageTouch(t, n, cached).oldest \in {cached, FindOldest(t)}
        BY Zenon, <1>TouchKeeps, <1>AllocKeeps DEF PageTouch
    \* Unlink keeps the number of a transaction.
    <1>UnlinkKeeps.
        ASSUME NEW t, "id" \in DOMAIN t, NEW n
        PROVE  "id" \in DOMAIN Unlink(t, n) /\ Unlink(t, n).id = t.id
        BY Zenon, <1>UnlinkKeeps DEF Unlink
    \* TrimRecords keeps the number of a transaction.
    <1>TrimKeeps.
        ASSUME NEW t, "id" \in DOMAIN t
        PROVE  "id" \in DOMAIN TrimRecords(t) /\ TrimRecords(t).id = t.id
        BY Zenon, <1>TrimKeeps DEF TrimRecords
    \* Such a step keeps what is known if it does so for p, and does not take for the
    \* oldest reader one that is younger than a reader.
    <1>LocalStep.
        ASSUME Inv, NEW p \in Procs, Local(p), Owns(p)', Writes(p)', Protects(p)',
               \A q \in Procs : env[q].pc \in Seen =>
                   env'[p].pgoldest <= readers[env[q].slot].txnid
        PROVE  Inv'
        <2> USE <1>LocalStep
        <2>1. Shape'
            BY Zenon DEF Inv, Shape, Local, Others, locks
        <2>2. ASSUME NEW q \in Procs \ {p} PROVE Owns(q)'
            BY DEF Inv, Owns, Local, Others, locks
        <2>3. ASSUME NEW q \in Procs \ {p} PROVE Writes(q)'
            <3>1. env'[q] = env[q] /\ wmutex' = wmutex /\ mti_txnid' = mti_txnid
                BY Zenon DEF Local, Others, locks
            <3>2. env[q].pc \in Writing => txn' = txn /\ metas' = metas
                BY Zenon DEF Inv, Writes, Local
            <3>3. \E i \in 0..1 : metas'[i].txnid >= mti_txnid
                BY Zenon DEF Local
            <3> QED BY Zenon, <3>1, <3>2, <3>3 DEF Inv, Writes, Writing
        <2>4. ASSUME NEW q \in Procs \ {p} PROVE Protects(q)'
            <3>1. env'[q] = env[q] /\ readers' = readers
                BY Zenon DEF Local, Others, locks
            <3>2. ASSUME NEW x \in Procs, env[q].pc \in Seen
                  PROVE  env'[x].pgoldest <= readers[env[q].slot].txnid
                BY Zenon, <3>2 DEF Inv, Protects, Local, Others
            <3> QED BY Zenon, <3>1, <3>2 DEF Inv, Protects
        <2> QED BY Zenon, <2>1, <2>2, <2>3, <2>4 DEF Inv
    \* What Inv says of one process.
    <1>KnownOf.
        ASSUME Inv, NEW p \in Procs
        PROVE  Shape /\ Owns(p) /\ Writes(p) /\ Protects(p)
        BY Zenon, <1>KnownOf DEF Inv
    \* A process that has the environment open finds its meta pages.
    <1>MetasThere.
        ASSUME Inv, NEW p \in Procs, env[p].pc # "closed"
        PROVE  HaveIds(metas) /\ HaveIds(dmetas) /\ \E i \in 0..1 : metas[i].txnid >= mti_txnid
        BY Zenon, <1>MetasThere, <1>KnownOf DEF Shape, Writes
    \* The oldest reader that p knows is safe for everybody.
    <1>KnownOldest.
        ASSUME Inv, NEW p \in Procs
        PROVE  /\ env[p].pgoldest <= mti_txnid
               /\ \A q \in Procs : env[q].pc \in Seen =>
                      env[p].pgoldest <= readers[env[q].slot].txnid
        <2> USE <1>KnownOldest
        <2>1. env[p].pgoldest <= mti_txnid
            BY Zenon, <1>KnownOf DEF Writes
        <2>2. ASSUME NEW q \in Procs, env[q].pc \in Seen
              PROVE  env[p].pgoldest <= readers[env[q].slot].txnid
            BY Zenon, <2>2, <1>KnownOf DEF Protects
        <2> QED BY Zenon, <2>1, <2>2
    \* A step of a reader that nobody else sees.
    <1>ReaderStep.
        ASSUME Inv, NEW p \in Procs, UNCHANGED <<files, locks, txn>>,
               Others(p), IsProcess(env'[p]), env'[p].slot = env[p].slot,
               env'[p].pgoldest = env[p].pgoldest, env[p].pc # "closed",
               env'[p].pc \notin Writing \cup {"end", "closed"}, Owns(p)', Protects(p)'
        PROVE  Inv'
        <2> USE <1>ReaderStep
        <2>1. /\ metas' = metas /\ dmetas' = dmetas /\ txn' = txn /\ UNCHANGED locks
              /\ mti_txnid' = mti_txnid
            BY Zenon DEF files, locks
        <2>2. HaveIds(metas) /\ HaveIds(dmetas) /\ \E i \in 0..1 : metas[i].txnid >= mti_txnid
            BY Zenon, <1>MetasThere
        <2>3. Local(p)
            BY Zenon, <2>1, <2>2 DEF Local
        <2>4. Writes(p)'
            BY Zenon, <2>1, <2>2, <1>KnownOldest DEF Writes, Writing
        <2> QED BY Zenon, <2>3, <2>4, <1>KnownOldest, <1>LocalStep
    \* mdb_txn_renew0 of a reader.
    <1>ReadBeginStep. ASSUME Inv, NEW p \in Procs, ReadBegin(p) PROVE Inv'
        <2> USE <1>ReadBeginStep
        <2>1. env[p].pc = "idle" /\ UNCHANGED <<files, locks, txn>>
            BY Zenon DEF ReadBegin
        <2>2. env' = [env EXCEPT ![p].pc = IF env[p].slot # NoSlot THEN "load" ELSE "claim",
                                 ![p].pidlock = @ \/ env[p].slot = NoSlot,
                                 ![p].floor = mti_txnid]
            BY Zenon DEF ReadBegin
        <2>3. /\ Others(p) /\ IsProcess(env'[p]) /\ env'[p].slot = env[p].slot
              /\ env'[p].pgoldest = env[p].pgoldest
              /\ env[p].pidlock => env'[p].pidlock
              /\ env[p].slot = NoSlot => env'[p].pidlock
              /\ env'[p].pc = IF env[p].slot # NoSlot THEN "load" ELSE "claim"
            BY ZenonT(30), <2>2, <1>KnownOf DEF Shape, IsProcess, Others
        <2>4. Owns(p)'
            BY Zenon, <2>1, <2>3, <1>KnownOf DEF Owns, locks, Reading
        <2>5. Protects(p)'
            BY Zenon, <2>3 DEF Protects, Seen
        <2> QED BY Zenon, <2>1, <2>3, <2>4, <2>5, <1>ReaderStep DEF Writing
    \* A reader looks at the published txnid.
    <1>ReadLoadStep. ASSUME Inv, NEW p \in Procs, ReadLoad(p) PROVE Inv'
        <2> USE <1>ReadLoadStep
        <2>1. /\ env[p].pc = "load" /\ UNCHANGED <<files, locks, txn>>
              /\ env' = [env EXCEPT ![p].pc = "store", ![p].seen = mti_txnid]
            BY Zenon DEF ReadLoad
        <2>2. /\ Others(p) /\ IsProcess(env'[p]) /\ env'[p].slot = env[p].slot
              /\ env'[p].pgoldest = env[p].pgoldest /\ env'[p].pidlock = env[p].pidlock
              /\ env'[p].pc = "store"
            BY Zenon, <2>1, <1>KnownOf DEF Shape, IsProcess, Others
        <2>3. Owns(p)'
            BY <2>1, <2>2, <1>KnownOf DEF Owns, locks, Reading
        <2>4. Protects(p)'
            BY Zenon, <2>2 DEF Protects, Seen
        <2> QED BY Zenon, <2>1, <2>2, <2>3, <2>4, <1>ReaderStep DEF Writing
    \* A reader that finds its slot and the published txnid equal has seen its txnid.
    <1>ReadCheckStep. ASSUME Inv, NEW p \in Procs, ReadCheck(p) PROVE Inv'
        <2> USE <1>ReadCheckStep
        <2> DEFINE agree == readers[env[p].slot].txnid = mti_txnid
        <2>1. /\ env[p].pc = "check" /\ UNCHANGED <<files, locks, txn>>
              /\ env' = [env EXCEPT ![p].pc = IF agree THEN "copy" ELSE "load"]
            BY Zenon DEF ReadCheck
        <2>2. /\ Others(p) /\ IsProcess(env'[p]) /\ env'[p].slot = env[p].slot
              /\ env'[p].pgoldest = env[p].pgoldest /\ env'[p].pidlock = env[p].pidlock
              /\ env'[p].pc = IF agree THEN "copy" ELSE "load"
            BY Zenon, <2>1, <1>KnownOf DEF Shape, IsProcess, Others
        <2>3. Owns(p)'
            BY <2>1, <2>2, <1>KnownOf DEF Owns, locks, Reading
        <2>4. \A q \in Procs : env'[q].pgoldest = env[q].pgoldest /\ env[q].pgoldest <= mti_txnid
            BY Zenon, <2>2, <1>KnownOldest DEF Others
        <2>5. Protects(p)'
            BY <2>1, <2>2, <2>4 DEF Protects, locks, Seen
        <2> QED BY <2>1, <2>2, <2>3, <2>5, <1>ReaderStep DEF Writing
    \* A reader takes the meta page.
    <1>ReadCopyStep. ASSUME Inv, NEW p \in Procs, ReadCopy(p) PROVE Inv'
        <2> USE <1>ReadCopyStep
        <2> DEFINE id == readers[env[p].slot].txnid
        <2>1. env[p].pc = "copy" /\ UNCHANGED <<files, locks, txn>>
            BY Zenon DEF ReadCopy
        <2>2. env' = [env EXCEPT ![p].pc = "read", ![p].txnid = id, ![p].meta = metas[id % 2]]
            BY Zenon DEF ReadCopy
        <2>3. id \in Nat
            BY Zenon, <2>1, <1>KnownOf DEF Shape, Owns, IsProcess, IsTable, Reading
        <2>4. /\ Others(p) /\ IsProcess(env'[p]) /\ env'[p].slot = env[p].slot
              /\ env'[p].pgoldest = env[p].pgoldest /\ env'[p].pidlock = env[p].pidlock
              /\ env'[p].pc = "read" /\ env'[p].txnid = id
            <3> HIDE DEF id
            <3> QED BY Zenon, <2>2, <2>3, <1>KnownOf DEF Shape, IsProcess, Others
        <2>5. Owns(p)'
            BY Zenon, <2>1, <2>4, <1>KnownOf DEF Owns, locks, Reading
        <2>6. \A q \in Procs : env'[q].pgoldest = env[q].pgoldest /\ env[q].pgoldest <= id
            BY Zenon, <2>1, <2>4, <1>KnownOldest DEF Others, Seen
        <2>7. Protects(p)'
            BY Zenon, <2>1, <2>4, <2>6 DEF Protects, locks
        <2> QED BY Zenon, <2>1, <2>4, <2>5, <2>7, <1>ReaderStep DEF Writing
    \* A step of the writer that keeps the id of its transaction, and that found no oldest
    \* reader or a safe one.
    <1>WriterStep.
        ASSUME Inv, NEW p \in Procs, env[p].pc \in Writing,
               Others(p), IsProcess(env'[p]), env'[p].slot = env[p].slot,
               env'[p].pidlock = env[p].pidlock, env'[p].pc \in Writing,
               env'[p].pgoldest \in {env[p].pgoldest, FindOldest(txn)},
               UNCHANGED locks, "id" \in DOMAIN txn', txn'.id = txn.id,
               HaveIds(metas)', HaveIds(dmetas)', \E i \in 0..1 : metas'[i].txnid >= mti_txnid,
               env'[p].pc \in {"metasync", "publish"} => \E i \in 0..1 : metas'[i].txnid >= txn.id
        PROVE  Inv'
        <2> USE <1>WriterStep
        <2>1. wmutex = p /\ txn.id = mti_txnid + 1
            BY Zenon, <1>KnownOf DEF Writes
        <2>2. Local(p)
            BY Zenon, <2>1 DEF Local
        <2>3. /\ env'[p].pgoldest <= mti_txnid
              /\ \A q \in Procs : env[q].pc \in Seen =>
                    env'[p].pgoldest <= readers[env[q].slot].txnid
            <3>1. CASE env'[p].pgoldest = env[p].pgoldest
                BY Zenon, <3>1, <1>KnownOldest
            <3>2. CASE env'[p].pgoldest = FindOldest(txn)
                BY Zenon, <2>1, <3>2, FindOldestSafe
            <3> QED BY Zenon, <3>1, <3>2
        <2>4. Owns(p)'
            BY Zenon, <1>KnownOf DEF Owns, locks, Writing, Reading
        <2>5. Writes(p)'
            BY Zenon, <2>1, <2>3 DEF Writes, locks
        <2>6. Protects(p)'
            BY Zenon DEF Protects, Writing, Seen
        <2> QED BY Zenon, <2>2, <2>3, <2>4, <2>5, <2>6, <1>LocalStep
    \* One that writes no meta page.
    <1>PagesStep.
        ASSUME Inv, NEW p \in Procs, env[p].pc \in Writing \ {"metasync", "publish"},
               Others(p), IsProcess(env'[p]), env'[p].slot = env[p].slot,
               env'[p].pidlock = env[p].pidlock, env'[p].pc \in Writing \ {"metasync", "publish"},
               env'[p].pgoldest \in {env[p].pgoldest, FindOldest(txn)},
               UNCHANGED locks, "id" \in DOMAIN txn', txn'.id = txn.id,
               metas' = metas, dmetas' \in {dmetas, metas}
        PROVE  Inv'
        <2> USE <1>PagesStep
        <2>1. HaveIds(metas) /\ HaveIds(dmetas) /\ \E i \in 0..1 : metas[i].txnid >= mti_txnid
            BY Zenon, <1>MetasThere DEF Writing
        <2>2. HaveIds(metas') /\ HaveIds(dmetas') /\ \E i \in 0..1 : metas'[i].txnid >= mti_txnid
            BY Zenon, <2>1
        <2> QED BY Zenon, <2>2, <1>WriterStep DEF HaveIds
    \* The id of the transaction of the writer.
    <1>WriterId.
        ASSUME Inv, NEW p \in Procs, env[p].pc \in Writing
        PROVE  /\ wmutex = p /\ txn.id = mti_txnid + 1 /\ mti_txnid \in Nat
               /\ FindOldest(txn) \in Nat
        <2> USE <1>WriterId
        <2>1. wmutex = p /\ txn.id = mti_txnid + 1 /\ mti_txnid \in Nat
            BY Zenon, <1>KnownOf DEF Writes, Shape
        <2> QED BY Zenon, <2>1, FindOldestSafe
    \* mdb_page_touch
    <1>TouchStep. ASSUME Inv, NEW p \in Procs, Touch(p) PROVE Inv'
        <2> USE <1>TouchStep
        <2>0. IsProcess(env[p]) /\ "id" \in DOMAIN txn /\ DOMAIN env = Procs
            BY Zenon, <1>KnownOf DEF Shape
        <2> DEFINE a == PageTouch(txn, Head(txn.todo), env[p].pgoldest)
                   t == [a.t EXCEPT !.todo = IF a.t.error THEN <<>> ELSE Tail(@)]
        <2>1. /\ "id" \in DOMAIN a.t /\ a.t.id = txn.id
              /\ a.oldest \in {env[p].pgoldest, FindOldest(txn)}
            BY Zenon, <2>0, <1>TouchKeeps
        <2>2. "id" \in DOMAIN t /\ t.id = txn.id
            <3> HIDE DEF a
            <3> QED BY SMTT(30), <2>1
        <2>3. txn' = t \/ txn' = Unlink(t, t.drop)
            BY Zenon DEF Touch
        <2>4. "id" \in DOMAIN txn' /\ txn'.id = txn.id
            <3> HIDE DEF t
            <3> QED BY SMTT(30), <2>2, <2>3, <1>UnlinkKeeps
        <2>5. env' = [env EXCEPT ![p].pgoldest = a.oldest] /\ env[p].pc = "write"
            BY Zenon DEF Touch
        <2> HIDE DEF a, t
        <2>6. a.oldest \in Nat
            <3>1. FindOldest(txn) \in Nat
                BY Zenon, <2>5, <1>WriterId DEF Writing
            <3> QED BY Zenon, <2>0, <2>1, <3>1 DEF IsProcess
        <2>7. /\ Others(p) /\ IsProcess(env'[p]) /\ env'[p].slot = env[p].slot
              /\ env'[p].pidlock = env[p].pidlock /\ env'[p].pc = "write"
              /\ env'[p].pgoldest = a.oldest
            BY SMTT(30), <2>0, <2>5, <2>6 DEF Others, IsProcess
        <2>8. UNCHANGED locks /\ metas' = metas /\ dmetas' = dmetas
            BY Zenon DEF Touch, files
        <2> QED BY Zenon, <2>1, <2>4, <2>5, <2>7, <2>8, <1>PagesStep DEF Writing
    \* mdb_freelist_save begins.
    <1>CommitStep. ASSUME Inv, NEW p \in Procs, Commit(p) PROVE Inv'
        <2> USE <1>CommitStep
        <2>0. IsProcess(env[p]) /\ "id" \in DOMAIN txn /\ DOMAIN env = Procs
            BY Zenon, <1>KnownOf DEF Shape
        <2> DEFINE a == IF txn.loaded /\ txn.root[FreeRoot] # NoPage
                        THEN PageTouch(txn, FreeRoot, env[p].pgoldest)
                        ELSE [t |-> txn, oldest |-> env[p].pgoldest]
                   given == {a.t.loose[i] : i \in 1..Len(a.t.loose)}
        <2>1. /\ "id" \in DOMAIN a.t /\ a.t.id = txn.id
              /\ a.oldest \in {env[p].pgoldest, FindOldest(txn)}
            BY SMTT(30), <2>0, <1>TouchKeeps
        <2>2. \/ txn' = a.t
              \/ txn' = [a.t EXCEPT !.free_pgs = @ \cup given, !.dirty = @ \ given, !.loose = <<>>]
            BY ZenonT(30) DEF Commit
        <2>3. env' = [env EXCEPT ![p].pc = "save", ![p].pgoldest = a.oldest] /\ env[p].pc = "write"
            BY Zenon DEF Commit
        <2> HIDE DEF a, given
        <2>4. "id" \in DOMAIN txn' /\ txn'.id = txn.id
            BY ZenonT(30), <2>1, <2>2
        <2>5. a.oldest \in Nat
            <3>1. FindOldest(txn) \in Nat
                BY Zenon, <2>3, <1>WriterId DEF Writing
            <3> QED BY Zenon, <2>0, <2>1, <3>1 DEF IsProcess
        <2>6. /\ Others(p) /\ IsProcess(env'[p]) /\ env'[p].slot = env[p].slot
              /\ env'[p].pidlock = env[p].pidlock /\ env'[p].pc = "save"
              /\ env'[p].pgoldest = a.oldest
            BY SMTT(30), <2>0, <2>3, <2>5 DEF Others, IsProcess
        <2>7. UNCHANGED locks /\ metas' = metas /\ dmetas' = dmetas
            BY Zenon DEF Commit, files
        <2> QED BY Zenon, <2>1, <2>3, <2>4, <2>6, <2>7, <1>PagesStep DEF Writing
    \* One round of mdb_freelist_save.
    <1>SaveStep. ASSUME Inv, NEW p \in Procs, Save(p) PROVE Inv'
        <2> USE <1>SaveStep
        <2>0. IsProcess(env[p]) /\ "id" \in DOMAIN txn /\ DOMAIN env = Procs
            BY Zenon, <1>KnownOf DEF Shape
        <2> DEFINE t == IF txn.trimmed < txn.pglast THEN TrimRecords(txn) ELSE txn
                   a == PageTouch(t, FreeRoot, env[p].pgoldest)
        <2>1. "id" \in DOMAIN t /\ t.id = txn.id
            BY Zenon, <2>0, <1>TrimKeeps
        <2>2. FindOldest(t) = FindOldest(txn)
            <3> HIDE DEF t
            <3> QED BY Zenon, <2>1 DEF FindOldest
        <2>3. /\ "id" \in DOMAIN a.t /\ a.t.id = txn.id
              /\ a.oldest \in {env[p].pgoldest, FindOldest(txn)}
            <3> HIDE DEF t
            <3> QED BY SMTT(30), <2>1, <2>2, <1>TouchKeeps
        <2>4. \/ /\ txn' = [a.t EXCEPT !.free[t.id] = a.t.free_pgs, !.saved = a.t.free_pgs]
                 /\ env' = [env EXCEPT ![p].pgoldest = a.oldest]
              \/ /\ txn' = [t EXCEPT !.free[t.pglast] = Left(t), !.pghead = {}, !.loose = <<>>,
                                     !.dirty = @ \ Left(t)]
                 /\ env' = [env EXCEPT ![p].pc = "flush"]
            BY SMTT(30) DEF Save
        <2>5. env[p].pc = "save"
            BY Zenon DEF Save
        <2> HIDE DEF a, t
        <2>6. "id" \in DOMAIN txn' /\ txn'.id = txn.id
            BY Zenon, <2>1, <2>3, <2>4
        <2>7. a.oldest \in Nat
            <3>1. FindOldest(txn) \in Nat
                BY Zenon, <2>5, <1>WriterId DEF Writing
            <3> QED BY Zenon, <2>0, <2>3, <3>1 DEF IsProcess
        <2>8. /\ Others(p) /\ IsProcess(env'[p]) /\ env'[p].slot = env[p].slot
              /\ env'[p].pidlock = env[p].pidlock /\ env'[p].pc \in {"save", "flush"}
              /\ env'[p].pgoldest \in {env[p].pgoldest, a.oldest}
            <3>1. CASE env' = [env EXCEPT ![p].pgoldest = a.oldest]
                BY Zenon, <2>0, <2>5, <2>7, <3>1 DEF Others, IsProcess
            <3>2. CASE env' = [env EXCEPT ![p].pc = "flush"]
                BY SMTT(30), <2>0, <3>2 DEF Others, IsProcess
            <3> QED BY Zenon, <2>4, <3>1, <3>2
        <2>9. UNCHANGED locks /\ metas' = metas /\ dmetas' = dmetas
            BY Zenon DEF Save, files
        <2> QED BY Zenon, <2>3, <2>5, <2>6, <2>8, <2>9, <1>PagesStep DEF Writing
    \* mdb_page_flush
    <1>FlushStep. ASSUME Inv, NEW p \in Procs, Flush(p) PROVE Inv'
        <2> USE <1>FlushStep
        <2>0. IsProcess(env[p]) /\ "id" \in DOMAIN txn /\ DOMAIN env = Procs
            BY Zenon, <1>KnownOf DEF Shape
        <2>1. /\ Others(p) /\ IsProcess(env'[p]) /\ env'[p].slot = env[p].slot
              /\ env'[p].pidlock = env[p].pidlock /\ env'[p].pc \in {"flush", "sync"}
              /\ env'[p].pgoldest = env[p].pgoldest /\ env[p].pc = "flush"
            BY Zenon, <2>0 DEF Flush, Others, IsProcess
        <2>2. /\ UNCHANGED locks /\ metas' = metas /\ dmetas' = dmetas
              /\ "id" \in DOMAIN txn' /\ txn'.id = txn.id
            BY SMTT(30), <2>0 DEF Flush
        <2> QED BY Zenon, <2>1, <2>2, <1>PagesStep DEF Writing
    \* mdb_env_sync0 of a commit.
    <1>DataSyncStep. ASSUME Inv, NEW p \in Procs, Sync(p) PROVE Inv'
        <2> USE <1>DataSyncStep
        <2>0. IsProcess(env[p]) /\ "id" \in DOMAIN txn /\ DOMAIN env = Procs
            BY Zenon, <1>KnownOf DEF Shape
        <2>1. /\ Others(p) /\ IsProcess(env'[p]) /\ env'[p].slot = env[p].slot
              /\ env'[p].pidlock = env[p].pidlock /\ env'[p].pc = "meta"
              /\ env'[p].pgoldest = env[p].pgoldest /\ env[p].pc = "sync"
            BY Zenon, <2>0 DEF Sync, Others, IsProcess
        <2>2. /\ UNCHANGED locks /\ metas' = metas /\ dmetas' = metas
              /\ "id" \in DOMAIN txn' /\ txn'.id = txn.id
            BY SMTT(30), <2>0 DEF Sync
        <2> QED BY Zenon, <2>1, <2>2, <1>PagesStep DEF Writing
    \* mdb_env_write_meta
    <1>WriteMetaStep. ASSUME Inv, NEW p \in Procs, WriteMeta(p) PROVE Inv'
        <2> USE <1>WriteMetaStep
        <2>0. IsProcess(env[p]) /\ "id" \in DOMAIN txn /\ DOMAIN env = Procs
            BY Zenon, <1>KnownOf DEF Shape
        <2>1. /\ Others(p) /\ IsProcess(env'[p]) /\ env'[p].slot = env[p].slot
              /\ env'[p].pidlock = env[p].pidlock /\ env'[p].pc \in {"publish", "metasync"}
              /\ env'[p].pgoldest = env[p].pgoldest /\ env[p].pc = "meta"
            BY <2>0 DEF WriteMeta, Others, IsProcess
        <2>2. /\ UNCHANGED locks /\ dmetas' = dmetas
              /\ "id" \in DOMAIN txn' /\ txn'.id = txn.id
            BY SMTT(30), <2>0 DEF WriteMeta
        <2>3. HaveIds(metas) /\ HaveIds(dmetas) /\ txn.id = mti_txnid + 1 /\ mti_txnid \in Nat
            BY Zenon, <2>1, <1>MetasThere, <1>WriterId DEF Writing
        <2>4. txn.id % 2 \in 0..1
            BY <2>3
        <2>5. /\ DOMAIN metas' = 0..1 /\ metas'[txn.id % 2].txnid = txn.id
              /\ \A i \in 0..1 \ {txn.id % 2} : metas'[i] = metas[i]
            BY SMTT(30), <2>3, <2>4 DEF WriteMeta, HaveIds
        <2>6. /\ HaveIds(metas') /\ \E i \in 0..1 : metas'[i].txnid >= mti_txnid
              /\ \E i \in 0..1 : metas'[i].txnid >= txn.id
            BY SMTT(30), <2>3, <2>4, <2>5 DEF HaveIds
        <2> QED BY SMTT(30), <2>1, <2>2, <2>3, <2>6, <1>WriterStep DEF Writing, HaveIds
    \* The meta page is on stable storage.
    <1>MetaSyncStep. ASSUME Inv, NEW p \in Procs, MetaSync(p) PROVE Inv'
        <2> USE <1>MetaSyncStep
        <2>0. IsProcess(env[p]) /\ "id" \in DOMAIN txn /\ DOMAIN env = Procs
            BY Zenon, <1>KnownOf DEF Shape
        <2>1. /\ Others(p) /\ IsProcess(env'[p]) /\ env'[p].slot = env[p].slot
              /\ env'[p].pidlock = env[p].pidlock /\ env'[p].pc = "publish"
              /\ env'[p].pgoldest = env[p].pgoldest /\ env[p].pc = "metasync"
            BY Zenon, <2>0 DEF MetaSync, Others, IsProcess
        <2>2. /\ UNCHANGED locks /\ metas' = metas
              /\ dmetas' = [dmetas EXCEPT ![txn.id % 2] = metas[txn.id % 2]]
              /\ "id" \in DOMAIN txn' /\ txn'.id = txn.id
            BY SMTT(30), <2>0 DEF MetaSync
        <2>3. /\ HaveIds(metas) /\ HaveIds(dmetas) /\ \E i \in 0..1 : metas[i].txnid >= mti_txnid
              /\ \E i \in 0..1 : metas[i].txnid >= txn.id
            BY Zenon, <2>1, <1>KnownOf, <1>MetasThere DEF Writes
        <2>4. HaveIds(dmetas')
            BY SMTT(30), <2>2, <2>3 DEF HaveIds
        <2> QED BY Zenon, <2>1, <2>2, <2>3, <2>4, <1>WriterStep DEF Writing, HaveIds
    \* A process that dies leaves its slot to mdb_reader_check, and its mutex marked.
    <1>DieStep. ASSUME Inv, NEW p \in Procs, Die(p) PROVE Inv'
        <2> USE <1>DieStep
        <2>1. /\ env' = [env EXCEPT ![p] = Closed]
              /\ wmutex' = IF wmutex = p THEN OwnerDead ELSE wmutex
              /\ txn' = IF wmutex = p THEN NoTransaction ELSE txn
              /\ UNCHANGED <<files, mti_txnid, readers, numreaders>>
            BY Zenon DEF Die
        <2>2. Others(p) /\ env'[p] = Closed
            BY SMTT(30), <2>1 DEF Others, Inv, Shape
        <2>3. Shape'
            BY SMTT(30), <2>1, <2>2, ClosedProcess, NoTransactionHasId DEF Inv, Shape, Others,
               files, HaveIds
        <2>4. \A q \in Procs : Owns(q)'
            BY <2>1, <2>2, ClosedProcess DEF Inv, Owns, Others, Reading
        <2>5. \A q \in Procs : Writes(q)'
            <3>1. Writes(p)'
                <4>1. env'[p].pc = "closed" /\ env'[p].pgoldest = 0
                    BY Zenon, <2>2, ClosedProcess
                <4>2. mti_txnid' \in Nat
                    BY SMTT(30), <2>1 DEF Inv, Shape
                <4> QED BY SMTT(30), <4>1, <4>2 DEF Writes, Writing
            <3>2. ASSUME NEW q \in Procs \ {p} PROVE Writes(q)'
                <4>1. env[q].pc \in Writing \cup {"end"} => wmutex' = wmutex /\ txn' = txn
                    BY SMTT(30), <2>1 DEF Inv, Writes
                <4> QED BY SMTT(30), <2>1, <2>2, <4>1 DEF Inv, Writes, Others, files, Writing
            <3> QED BY Zenon, <3>1, <3>2
        <2>6. \A q \in Procs : Protects(q)'
            <3>1. ASSUME NEW q \in Procs, env'[q].pc \in Seen, NEW x \in Procs
                  PROVE  env'[x].pgoldest <= readers[env[q].slot].txnid /\ env'[q] = env[q]
                <4>1. q # p /\ env'[q] = env[q]
                    BY SMTT(30), <2>2, <3>1, ClosedProcess DEF Others, Seen
                <4>2. readers[env[q].slot].txnid \in Nat
                    BY <3>1, <4>1 DEF Inv, Shape, IsProcess, IsTable, Owns, Seen, Reading
                <4> QED BY SMTT(30), <2>2, <3>1, <4>1, <4>2, ClosedProcess DEF Inv, Protects, Others
            <3> QED BY SMTT(30), <2>1, <3>1 DEF Inv, Protects, Seen
        <2> QED BY SMTT(30), <2>3, <2>4, <2>5, <2>6 DEF Inv
    \* A write transaction begins when nobody writes, from what was published, or from what
    \* a dead writer had written.
    <1>BeginStep. ASSUME Inv, NEW p \in Procs, WriteBegin(p) PROVE Inv'
        <2> USE <1>BeginStep
        <2>1. /\ env[p].pc = "idle" /\ wmutex \in {NoProc, OwnerDead} /\ wmutex' = p
              /\ mti_txnid' = StartFrom
              /\ readers' = IF wmutex = OwnerDead THEN ReaderCheck(p) ELSE readers
              /\ env' = [env EXCEPT ![p].pc = "write"]
              /\ UNCHANGED <<files, numreaders>>
            BY Zenon DEF WriteBegin
        <2>2. "id" \in DOMAIN txn' /\ txn'.id = mti_txnid' + 1
            BY Zenon, NoTransactionHasId DEF WriteBegin
        <2>3. \A q \in Procs : env[q].pc \notin Writing \cup {"end"}
            BY Zenon, <2>1, LmdbAssumption DEF Inv, Writes
        <2>4. /\ Others(p) /\ IsProcess(env'[p]) /\ env'[p].slot = env[p].slot
              /\ env'[p].pidlock = env[p].pidlock /\ env'[p].pc = "write"
              /\ env'[p].pgoldest = env[p].pgoldest
            BY Zenon, <2>1 DEF Inv, Shape, Others, IsProcess
        <2>5. /\ mti_txnid' \in Nat /\ mti_txnid' >= mti_txnid
              /\ \E i \in 0..1 : metas[i].txnid >= mti_txnid'
            <3>1. /\ mti_txnid \in Nat /\ HaveIds(metas)
                  /\ \E i \in 0..1 : metas[i].txnid >= mti_txnid
                BY Zenon, <2>1 DEF Inv, Shape, Writes
            <3>2. CASE wmutex = OwnerDead
                <4>1. mti_txnid' = Newest(metas).txnid
                    BY Zenon, <2>1, <3>2 DEF StartFrom
                <4>2. PICK i \in 0..1 : metas[i].txnid >= mti_txnid
                    BY SMTT(30), <3>1
                <4>3. Newest(metas).txnid >= metas[i].txnid /\ metas[i].txnid \in Nat
                    BY Zenon, <3>1, <1>NewestIsNewest DEF HaveIds
                <4> QED BY SMTT(30), <3>1, <4>1, <4>2, <4>3, <1>NewestIsNewest
            <3>3. CASE wmutex # OwnerDead
                BY <2>1, <3>1, <3>3 DEF StartFrom
            <3> QED BY Zenon, <3>2, <3>3
        <2>6. /\ IsTable(readers')
              /\ \A q \in Procs : env[q].slot # NoSlot =>
                     readers'[env[q].slot] = readers[env[q].slot]
            BY Zenon, <2>1, <1>CheckKeeps DEF Inv, Shape
        <2>7. Shape'
            BY SMTT(30), <2>1, <2>2, <2>4, <2>5, <2>6 DEF Inv, Shape, Others, files, HaveIds
        <2>8. ASSUME NEW q \in Procs PROVE Owns(q)'
            <3>1. CASE q = p
                BY <2>1, <2>4, <2>6, <3>1 DEF Inv, Owns, Reading
            <3>2. CASE q # p
                BY SMTT(30), <2>1, <2>4, <2>6, <3>2 DEF Inv, Owns, Others
            <3> QED BY Zenon, <3>1, <3>2
        <2>9. ASSUME NEW q \in Procs PROVE Writes(q)'
            <3>1. env'[q].pgoldest <= mti_txnid' /\ env'[q].pgoldest = env[q].pgoldest
                BY <2>4, <2>5 DEF Inv, Shape, IsProcess, Writes, Others
            <3>2. CASE q = p
                BY SMTT(30), <2>1, <2>2, <2>4, <2>5, <3>1, <3>2 DEF Writes, Writing, files
            <3>3. CASE q # p
                BY SMTT(30), <2>1, <2>3, <2>4, <2>5, <3>1, <3>3 DEF Writes, Writing, Others, files
            <3> QED BY Zenon, <3>2, <3>3
        <2>10. ASSUME NEW q \in Procs PROVE Protects(q)'
            <3>1. CASE q = p
                BY SMTT(30), <2>4, <3>1 DEF Protects, Seen
            <3>2. CASE q # p
                <4>1. env'[q] = env[q] /\ \A x \in Procs : env'[x].pgoldest = env[x].pgoldest
                    BY SMTT(30), <2>4, <3>2 DEF Others
                <4>2. env[q].pc \in Seen => readers'[env[q].slot] = readers[env[q].slot]
                    BY SMTT(30), <2>6 DEF Inv, Owns, Seen, Reading
                <4> QED BY SMTT(30), <4>1, <4>2 DEF Inv, Protects, Seen
            <3> QED BY Zenon, <3>1, <3>2
        <2> QED BY Zenon, <2>7, <2>8, <2>9, <2>10 DEF Inv
    \* The end of a write transaction.
    <1>WriteEndStep.
        ASSUME Inv, NEW p \in Procs, env[p].pc \in Writing \cup {"end"}, WriteEnd(p)
        PROVE  Inv'
        <2> USE <1>WriteEndStep
        <2>1. /\ env' = [env EXCEPT ![p].pc = "idle"] /\ txn' = NoTransaction /\ wmutex' = NoProc
              /\ UNCHANGED <<files, mti_txnid, readers, numreaders>>
            BY Zenon DEF WriteEnd
        <2>2. \A q \in Procs \ {p} : env[q].pc \notin Writing \cup {"end"}
            BY Zenon DEF Inv, Writes
        <2>3. /\ Others(p) /\ IsProcess(env'[p]) /\ env'[p].slot = env[p].slot
              /\ env'[p].pidlock = env[p].pidlock /\ env'[p].pc = "idle"
              /\ env'[p].pgoldest = env[p].pgoldest
            BY Zenon, <2>1 DEF Inv, Shape, Others, IsProcess
        <2>4. Shape'
            BY Zenon, <2>1, <2>3, NoTransactionHasId DEF Inv, Shape, Others, files, HaveIds
        <2>5. ASSUME NEW q \in Procs PROVE Owns(q)'
            <3>1. CASE q = p
                BY <2>1, <2>3, <3>1 DEF Inv, Owns, Reading
            <3>2. CASE q # p
                BY SMTT(30), <2>1, <2>3, <3>2 DEF Inv, Owns, Others
            <3> QED BY Zenon, <3>1, <3>2
        <2>6. ASSUME NEW q \in Procs PROVE Writes(q)'
            <3>1. CASE q = p
                BY SMTT(30), <2>1, <2>3, <3>1 DEF Inv, Writes, Writing, files
            <3>2. CASE q # p
                BY SMTT(30), <2>1, <2>2, <2>3, <3>2 DEF Inv, Writes, Writing, Others, files
            <3> QED BY Zenon, <3>1, <3>2
        <2>7. ASSUME NEW q \in Procs PROVE Protects(q)'
            <3>1. CASE q = p
                BY Zenon, <2>3, <3>1 DEF Protects, Seen
            <3>2. CASE q # p
                BY SMTT(30), <2>1, <2>3, <3>2 DEF Inv, Protects, Seen, Others
            <3> QED BY Zenon, <3>1, <3>2
        <2> QED BY Zenon, <2>4, <2>5, <2>6, <2>7 DEF Inv
    \* The publication of a transaction that was written.
    <1>PublishStep. ASSUME Inv, NEW p \in Procs, Publish(p) PROVE Inv'
        <2> USE <1>PublishStep
        <2>1. /\ env[p].pc = "publish" /\ mti_txnid' = txn.id
              /\ env' = [env EXCEPT ![p].pc = "end"]
              /\ UNCHANGED <<files, readers, numreaders, wmutex, txn>>
            BY Zenon DEF Publish
        <2>2. /\ wmutex = p /\ txn.id = mti_txnid + 1 /\ mti_txnid \in Nat
              /\ \E i \in 0..1 : metas[i].txnid >= txn.id
            BY SMTT(30), <2>1 DEF Inv, Shape, Writes, Writing
        <2>3. \A q \in Procs \ {p} : env[q].pc \notin Writing \cup {"end"}
            BY Zenon, <2>2 DEF Inv, Writes
        <2>4. /\ Others(p) /\ IsProcess(env'[p]) /\ env'[p].slot = env[p].slot
              /\ env'[p].pidlock = env[p].pidlock /\ env'[p].pc = "end"
              /\ env'[p].pgoldest = env[p].pgoldest
            BY Zenon, <2>1 DEF Inv, Shape, Others, IsProcess
        <2>5. Shape'
            BY SMTT(30), <2>1, <2>2, <2>4 DEF Inv, Shape, Others, files, HaveIds
        <2>6. ASSUME NEW q \in Procs PROVE Owns(q)'
            <3>1. CASE q = p
                BY <2>1, <2>4, <3>1 DEF Inv, Owns, Reading
            <3>2. CASE q # p
                BY Zenon, <2>1, <2>4, <3>2 DEF Inv, Owns, Others
            <3> QED BY Zenon, <3>1, <3>2
        <2>7. ASSUME NEW q \in Procs PROVE Writes(q)'
            <3>1. env'[q].pgoldest <= mti_txnid'
                <4>1. env[q].pgoldest \in Nat /\ env[q].pgoldest <= mti_txnid
                    BY Zenon DEF Inv, Shape, IsProcess, Writes
                <4> QED BY SMTT(30), <2>1, <2>2, <2>4, <4>1 DEF Others
            <3>2. CASE q = p
                BY SMTT(30), <2>1, <2>2, <2>4, <3>1, <3>2 DEF Writes, Writing, files
            <3>3. CASE q # p
                BY SMTT(30), <2>1, <2>2, <2>3, <2>4, <3>1, <3>3 DEF Writes, Writing, Others, files
            <3> QED BY Zenon, <3>2, <3>3
        <2>8. ASSUME NEW q \in Procs PROVE Protects(q)'
            <3>1. CASE q = p
                BY Zenon, <2>4, <3>1 DEF Protects, Seen
            <3>2. CASE q # p
                BY <2>1, <2>4, <3>2 DEF Inv, Protects, Seen, Others
            <3> QED BY Zenon, <3>1, <3>2
        <2> QED BY Zenon, <2>5, <2>6, <2>7, <2>8 DEF Inv
    \* The start of an update.
    <1>UpdateStep.
        ASSUME Inv, NEW p \in Procs, NEW todo, NEW drop, Update(p, todo, drop)
        PROVE  Inv'
        <2> USE <1>UpdateStep
        <2>1. /\ env[p].pc = "write"
              /\ txn' = [txn EXCEPT !.todo = todo, !.drop = drop, !.writes = @ + 1]
              /\ UNCHANGED <<files, locks, env>>
            BY Zenon DEF Update
        <2>2. /\ IsProcess(env[p]) /\ "id" \in DOMAIN txn /\ DOMAIN env = Procs
              /\ HaveIds(metas) /\ HaveIds(dmetas) /\ \E i \in 0..1 : metas[i].txnid >= mti_txnid
            BY Zenon, <2>1 DEF Inv, Shape, Writes
        <2>3. "id" \in DOMAIN txn' /\ txn'.id = txn.id
            BY Zenon, <2>1, <2>2
        <2>4. Others(p) /\ env'[p] = env[p] /\ metas' = metas /\ dmetas' = dmetas
            BY SMTT(30), <2>1, <2>2 DEF Others, files
        <2> QED BY SMTT(30), <2>1, <2>2, <2>3, <2>4, <1>WriterStep DEF Writing
    \* mdb_env_sync
    <1>SyncStep. ASSUME Inv, NEW p \in Procs, EnvSync(p) PROVE Inv'
        <2> USE <1>SyncStep
        <2>1. /\ env[p].pc = "idle" /\ dmetas' = metas
              /\ UNCHANGED <<metas, locks, env, txn>>
            BY SMTT(30) DEF EnvSync
        <2>2. /\ IsProcess(env[p]) /\ DOMAIN env = Procs
              /\ HaveIds(metas) /\ \E i \in 0..1 : metas[i].txnid >= mti_txnid
            BY Zenon, <2>1 DEF Inv, Shape, Writes
        <2>3. Local(p)
            BY SMTT(30), <2>1, <2>2 DEF Local, Others
        <2>4. Owns(p)' /\ Writes(p)' /\ Protects(p)'
            BY SMTT(30), <2>1 DEF Inv, Owns, Writes, Protects, locks
        <2> QED BY Zenon, <2>1, <2>3, <2>4, <1>LocalStep DEF Inv, Protects
    \* A process that is alone makes a new reader table, and publishes what the newest meta
    \* page says; any other leaves the lock file as it is.
    <1>OpenStep. ASSUME Inv, NEW p \in Procs, Open(p) PROVE Inv'
        <2> USE <1>OpenStep
        <2>1. /\ env[p].pc = "closed" /\ env' = [env EXCEPT ![p].pc = "idle"]
              /\ UNCHANGED <<files, txn>>
            BY Zenon DEF Open
        <2>2. /\ Others(p) /\ IsProcess(env'[p]) /\ env'[p].slot = NoSlot
              /\ env'[p].pc = "idle" /\ env'[p].pgoldest = 0
            BY Zenon, <2>1 DEF Inv, Shape, Others, IsProcess, Owns
        <2>3. CASE \A q \in Procs : env[q].pc = "closed"
            <3>1. /\ mti_txnid' = Newest(metas).txnid /\ readers' = NoReaders /\ numreaders' = 0
                  /\ \A q \in Procs : env[q].slot = NoSlot /\ env[q].pgoldest = 0
                BY SMTT(30), <2>3 DEF Open, Inv, Owns
            <3>2. mti_txnid' \in Nat /\ \E i \in 0..1 : metas[i].txnid >= mti_txnid'
                BY SMTT(30), <3>1, <1>NewestIsNewest DEF Inv, Shape
            <3>3. \A q \in Procs : /\ env'[q].slot = NoSlot /\ env'[q].pgoldest = 0
                                   /\ env'[q].pc \in {"closed", "idle"}
                BY SMTT(30), <2>2, <2>3, <3>1 DEF Others
            <3>4. Shape'
                BY SMTT(30), <2>1, <2>2, <3>1, <3>2, EmptyTable, LmdbAssumption
                DEF Inv, Shape, Others, files, HaveIds
            <3>5. ASSUME NEW q \in Procs PROVE Owns(q)' /\ Protects(q)'
                BY Zenon, <3>3 DEF Owns, Protects, Reading, Seen
            <3>6. ASSUME NEW q \in Procs PROVE Writes(q)'
                BY SMTT(30), <2>1, <3>2, <3>3 DEF Writes, Writing, files
            <3> QED BY Zenon, <3>4, <3>5, <3>6 DEF Inv
        <2>4. CASE ~ \A q \in Procs : env[q].pc = "closed"
            <3>1. UNCHANGED locks
                BY SMTT(30), <2>4 DEF Open
            <3>2. /\ mti_txnid \in Nat /\ HaveIds(metas) /\ HaveIds(dmetas)
                  /\ \E i \in 0..1 : metas[i].txnid >= mti_txnid
                BY Zenon, <2>4 DEF Inv, Shape, Writes
            <3>3. Local(p)
                BY SMTT(30), <2>1, <2>2, <3>1, <3>2 DEF Local, files, Inv, Owns
            <3>4. Owns(p)' /\ Protects(p)'
                BY Zenon, <2>2 DEF Owns, Protects, Reading, Seen
            <3>5. Writes(p)'
                BY SMTT(30), <2>1, <2>2, <3>1, <3>2 DEF Writes, Writing, files, locks
            <3>6. ASSUME NEW q \in Procs, env[q].pc \in Seen
                  PROVE  env'[p].pgoldest <= readers[env[q].slot].txnid
                <4>1. env[q].slot \in Slot
                    BY SMTT(30), <3>6 DEF Inv, Shape, IsProcess, Owns, Seen, Reading
                <4>2. readers[env[q].slot].txnid \in Nat
                    BY SMTT(30), <4>1 DEF Inv, Shape, IsTable
                <4> QED BY SMTT(30), <2>2, <4>2
            <3> QED BY SMTT(30), <3>3, <3>4, <3>5, <3>6, <1>LocalStep
        <2> QED BY Zenon, <2>3, <2>4
    \* After a crash there are the meta pages of stable storage, and a new lock file.
    <1>CrashStep. ASSUME Inv, Crash PROVE Inv'
        <2> USE <1>CrashStep
        <2>1. PICK ms \in SUBSET {i \in 0..1 : dmetas[i] # metas[i]} :
                  dmetas' = [i \in 0..1 |-> IF i \in ms THEN metas[i] ELSE dmetas[i]]
            BY SMTT(30) DEF Crash
        <2>2. /\ metas' = dmetas' /\ env' = [p \in Procs |-> Closed] /\ mti_txnid' = 0
              /\ readers' = NoReaders /\ numreaders' = 0 /\ txn' = NoTransaction
            BY SMTT(30) DEF Crash
        <2>3. HaveIds(metas)' /\ HaveIds(dmetas)'
            BY SMTT(30), <2>1, <2>2 DEF Inv, Shape, HaveIds
        <2>4. Shape'
            BY SMTT(30), <2>2, <2>3, EmptyTable, ClosedProcess, NoTransactionHasId, LmdbAssumption
               DEF Shape
        <2>5. ASSUME NEW p \in Procs PROVE Owns(p)' /\ Writes(p)' /\ Protects(p)'
            BY <2>2, ClosedProcess DEF Owns, Writes, Protects, Reading, Writing, Seen
        <2> QED BY SMTT(30), <2>4, <2>5 DEF Inv
    <1> SUFFICES ASSUME Inv, [Next]_vars PROVE Inv'
        BY Zenon
    <1>1. CASE Crash
        BY Zenon, <1>1, <1>CrashStep
    <1>2. ASSUME NEW p \in Procs,
                 Open(p) \/ Close(p) \/ Die(p) \/ CheckReaders(p) \/ EnvSync(p)
          PROVE  Inv'
        BY SMTT(30), <1>2, <1>OpenStep, <1>CloseStep, <1>DieStep, <1>CheckStep, <1>SyncStep
    <1>3. ASSUME NEW p \in Procs,
                 \/ ReadBegin(p) \/ ReadClaim(p) \/ ReadLoad(p) \/ ReadStore(p) \/ ReadCheck(p)
                 \/ ReadCopy(p) \/ ReadEnd(p) \/ ThreadExit(p)
          PROVE  Inv'
        BY SMTT(30), <1>3, <1>ReadBeginStep, <1>ReadLoadStep, <1>ReadCheckStep, <1>ReadCopyStep,
           <1>ClaimStep, <1>StoreStep, <1>EndStep, <1>ExitStep
    <1>4. ASSUME NEW p \in Procs,
                 \/ Touch(p) \/ Commit(p) \/ Save(p) \/ Flush(p)
                 \/ Sync(p) \/ WriteMeta(p) \/ MetaSync(p)
          PROVE  Inv'
        BY SMTT(30), <1>4, <1>TouchStep, <1>CommitStep, <1>SaveStep, <1>FlushStep, <1>DataSyncStep,
           <1>WriteMetaStep, <1>MetaSyncStep
    <1>5. ASSUME NEW p \in Procs, Abort(p) \/ Finish(p)
          PROVE  Inv'
        <2>1. WriteEnd(p) /\ env[p].pc \in Writing \cup {"end"}
            BY Zenon, <1>5 DEF Abort, Finish, Writing
        <2> QED BY SMTT(30), <2>1, <1>WriteEndStep
    <1>6. ASSUME NEW p \in Procs, NEW n \in Leaves, NEW m \in Leaves,
                 Put(p, n) \/ Split(p, m, n) \/ Merge(p, n, m)
          PROVE  Inv'
        <2>1. \E todo, drop : Update(p, todo, drop)
            BY SMTT(30), <1>6 DEF Put, Split, Merge
        <2> QED BY SMTT(30), <2>1, <1>UpdateStep
    <1>7. CASE UNCHANGED vars
        BY ZenonT(30), <1>7 DEF vars, files, locks, Inv, Shape, Owns, Writes, Protects
    <1> QED BY SMTT(30), <1>1, <1>2, <1>3, <1>4, <1>5, <1>6, <1>7, <1>BeginStep, <1>PublishStep
               DEF Next

(*************************************************************************)
(* Types.                                                                *)
(*************************************************************************)

\* A transaction and the one before the last use the same meta page.
LEMMA Halves ==
    ASSUME NEW x \in Nat
    PROVE  /\ x % 2 \in 0..1 /\ (x + 1) % 2 = 1 - (x % 2) /\ (x + 2) % 2 = x % 2
    BY SMTT(30)

\* Transaction ids are numbers, and there are no gaps between them.
LEMMA TxnIds ==
    /\ 0 \in TxnId /\ TxnId \subseteq Nat /\ NoTxn \in Nat
    /\ \A x \in Nat : \A y \in TxnId : x <= y => x \in TxnId
    BY LmdbAssumption DEF TxnId, NoTxn

\* The fields of a meta page have their types, and its trees only pages of the file.
LEMMA MetaFacts ==
    ASSUME NEW m \in Meta
    PROVE  /\ m.txnid \in TxnId /\ m.txnid \in Nat /\ m.last_pg \in Nat
           /\ m.root \in [Position -> Pgno \cup {NoPage}] /\ Pages(m) \subseteq Pgno
    <1>1. /\ m.txnid \in TxnId /\ m.last_pg \in Nat /\ m.root \in [Position -> Pgno \cup {NoPage}]
        BY Zenon DEF Meta
    <1> QED BY Zenon, <1>1, TxnIds DEF Pages

\* A reader that has taken no meta page has one of the right type.
LEMMA NoMetaType == NoMeta \in Meta
    BY LmdbAssumption DEF NoMeta, Meta, TxnId, NoPage

\* A process that has the environment closed has the right type.
LEMMA ClosedType == Closed \in Process
    BY Zenon, NoMetaType, TxnIds, LmdbAssumption DEF Closed, Process, Slot, NoSlot

\* The newest meta page is the one at h.
LEMMA NewestAt ==
    ASSUME NEW ms \in [0..1 -> Meta], NEW dms, NEW c, NEW d, NEW h \in 0..1,
           MetasAt(h, ms, dms, c, d)
    PROVE  /\ Newest(ms) = ms[h] /\ Older(ms) = ms[1 - h] /\ 1 - h \in 0..1 /\ 1 - (1 - h) = h
           /\ ms[h] \in Meta /\ ms[1 - h] \in Meta
           /\ ms[h].txnid % 2 = h /\ ms[1 - h].txnid % 2 = 1 - h
    <1>1. h = 0 \/ h = 1
        OBVIOUS
    <1>2. ms[0] \in Meta /\ ms[1] \in Meta
        OBVIOUS
    <1>3. ms[0].txnid \in Nat /\ ms[1].txnid \in Nat
        BY Zenon, <1>2, MetaFacts
    <1>4. ms[h].txnid = ms[1 - h].txnid + 1 /\ ms[0].txnid % 2 = 0 /\ ms[1].txnid % 2 = 1
        BY DEF MetasAt
    <1>5. CASE h = 0
        <2>1. ~ (ms[0].txnid < ms[1].txnid)
            BY <1>3, <1>4, <1>5
        <2> QED BY <1>2, <1>4, <1>5, <2>1 DEF Newest, Older
    <1>6. CASE h = 1
        <2>1. ms[0].txnid < ms[1].txnid
            BY <1>3, <1>4, <1>6
        <2> QED BY <1>2, <1>4, <1>6, <2>1 DEF Newest, Older
    <1> QED BY Zenon, <1>1, <1>5, <1>6

\* mdb_env_pick_meta gives a meta page.
LEMMA NewestType ==
    ASSUME NEW ms \in [0..1 -> Meta]
    PROVE  Newest(ms) \in Meta /\ Older(ms) \in Meta
    BY DEF Newest, Older

\* What is known of the process that takes a step.
LEMMA ProcessFacts ==
    ASSUME TypeOK, NEW p \in Procs
    PROVE  /\ env[p] \in Process /\ env[p].meta \in Meta /\ env[p].seen \in TxnId
                /\ env[p].txnid \in TxnId
           /\ env[p].floor \in TxnId /\ env[p].pgoldest \in TxnId
           /\ env[p].slot \in Slot \cup {NoSlot}
           /\ DOMAIN env = Procs
    BY Zenon DEF TypeOK, Process

\* The type invariant, in four parts.
LEMMA TypeParts ==
    /\ TypeOK <=> TypeEnv /\ TypeFiles /\ TypeLocks /\ TypeCounts
    /\ TypeOK' <=> TypeEnv' /\ TypeFiles' /\ TypeLocks' /\ TypeCounts'
    BY Zenon DEF TypeOK, TypeEnv, TypeFiles, TypeLocks, TypeCounts

\* What does not change keeps its type.
LEMMA TypeSame ==
    /\ TypeFiles /\ UNCHANGED files => TypeFiles'
    /\ TypeLocks /\ UNCHANGED locks => TypeLocks'
    /\ TypeCounts /\ UNCHANGED counts => TypeCounts'
    /\ TypeEnv /\ UNCHANGED env => TypeEnv'
    BY Zenon DEF TypeFiles, TypeLocks, TypeCounts, TypeEnv, files, locks, counts

\* The entry of p becomes e.
LEMMA SetEntry ==
    ASSUME TypeEnv, NEW p \in Procs, NEW e \in Process, env' = [env EXCEPT ![p] = e]
    PROVE  Moves(p) /\ env'[p] = e
    BY Zenon DEF TypeEnv, Moves

\* Its place in the code changes, and nothing else.
LEMMA SetPc ==
    ASSUME TypeEnv, NEW p \in Procs, NEW x \in PC, env' = [env EXCEPT ![p].pc = x]
    PROVE  /\ Moves(p) /\ env'[p].pc = x /\ env'[p].meta = env[p].meta /\ env'[p].slot = env[p].slot
           /\ env'[p].floor = env[p].floor /\ env'[p].txnid = env[p].txnid
    <1> DEFINE e == [env[p] EXCEPT !.pc = x]
    <1>1. env[p] \in Process
        BY Zenon DEF TypeEnv
    <1>2. /\ e \in Process /\ e.pc = x /\ e.meta = env[p].meta /\ e.slot = env[p].slot
          /\ e.floor = env[p].floor /\ e.txnid = env[p].txnid
        BY Zenon, <1>1 DEF Process, PC
    <1>3. env' = [env EXCEPT ![p] = e]
        BY Zenon DEF TypeEnv
    <1> HIDE DEF e
    <1> QED BY Zenon, <1>2, <1>3, SetEntry

\* Its place in the code changes, and it may have looked for the oldest reader.
LEMMA SetPcOldest ==
    ASSUME TypeEnv, NEW p \in Procs, NEW x \in PC, NEW o \in TxnId,
           \/ env' = [env EXCEPT ![p].pc = x, ![p].pgoldest = o]
           \/ env' = [env EXCEPT ![p].pgoldest = o] /\ x = env[p].pc
    PROVE  Moves(p) /\ env'[p].pc = x
    <1> DEFINE e == [env[p] EXCEPT !.pc = x, !.pgoldest = o]
    <1>1. env[p] \in Process
        BY Zenon DEF TypeEnv
    <1>2. e \in Process /\ e.pc = x
        BY Zenon, <1>1 DEF Process, PC
    <1>3. env' = [env EXCEPT ![p] = e]
        <2>1. CASE env' = [env EXCEPT ![p].pc = x, ![p].pgoldest = o]
            BY Zenon, <2>1 DEF TypeEnv
        <2>2. CASE env' = [env EXCEPT ![p].pgoldest = o] /\ x = env[p].pc
            <3>1. [env[p] EXCEPT !.pgoldest = o] = e
                BY Zenon, <1>1, <2>2 DEF Process
            <3>2. env' = [env EXCEPT ![p] = [env[p] EXCEPT !.pgoldest = o]]
                BY Zenon, <2>2 DEF TypeEnv
            <3> QED BY Zenon, <3>1, <3>2
        <2> QED BY Zenon, <2>1, <2>2
    <1> HIDE DEF e
    <1> QED BY Zenon, <1>2, <1>3, SetEntry

(*************************************************************************)
(* Steps of readers. They leave the files and the writer alone.          *)
(*************************************************************************)

\* A database takes nothing from itself.
LEMMA FollowsItself ==
    ASSUME NEW m \in Meta, Whole(m)
    PROVE  Follows(m, m)
    <1>1. m.txnid \in Nat /\ m.last_pg \in Nat
        BY DEF Meta, TxnId
    <1>2. \A pg \in Pages(m) : pg < m.last_pg + 1
        BY <1>1 DEF Whole
    <1>3. \A k \in TxnId : m.free[k] \cap Pages(m) = {}
        BY Zenon DEF Whole, Records
    <1> QED BY <1>1, <1>2, <1>3 DEF Follows, Spares

\* Who does not read has no snapshot to lose.
LEMMA Rests ==
    ASSUME NEW p \in Procs
    PROVE  /\ env[p].pc \in NotReading => ReaderOK(p) /\ Undisturbed(p)
           /\ env'[p].pc \in NotReading => ReaderOK(p)' /\ Undisturbed(p)'
    BY Zenon DEF ReaderOK, Undisturbed, NotReading

\* The reader table has entries of its type, and the slot of a reader is one.
LEMMA TableFacts ==
    ASSUME PageInv, Inv, NEW p \in Procs
    PROVE  /\ TypeEnv /\ TypeFiles /\ TypeLocks /\ TypeCounts
           /\ env[p].pc \in Reading => env[p].slot \in Slot
           /\ env[p].slot \in Slot => readers[env[p].slot].txnid \in TxnId \cup {NoTxn}
    <1>1. TypeEnv /\ TypeFiles /\ TypeLocks /\ TypeCounts
        BY Zenon, TypeParts DEF PageInv
    <1>2. env[p].pc \in Reading => env[p].slot \in Slot
        BY Zenon DEF Inv, Shape, IsProcess, Owns
    <1>3. env[p].slot \in Slot => readers[env[p].slot].txnid \in TxnId \cup {NoTxn}
        BY Zenon, <1>1 DEF TypeLocks
    <1> QED BY Zenon, <1>1, <1>2, <1>3

\* The meta page that a txnid names, if it is not newer than the newest.
LEMMA NamedMeta ==
    ASSUME NEW ms \in [0..1 -> Meta], NEW dms, NEW c, NEW d, MetasOK(ms, dms, c, d),
           NEW r \in Nat, r <= Newest(ms).txnid
    PROVE  /\ ms[r % 2] \in {Newest(ms), Older(ms)} /\ ms[r % 2] \in Meta
           /\ Follows(Newest(ms), ms[r % 2]) /\ ms[r % 2].txnid >= r
    <1>1. PICK h \in 0..1 : MetasAt(h, ms, dms, c, d)
        BY Zenon DEF MetasOK
    <1>2. /\ Newest(ms) = ms[h] /\ Older(ms) = ms[1 - h] /\ ms[h] \in Meta /\ ms[1 - h] \in Meta
          /\ ms[h].txnid % 2 = h
        BY <1>1, NewestAt
    <1>3. ms[h].txnid \in Nat /\ ms[1 - h].txnid \in Nat /\ r % 2 \in 0..1
        BY Zenon, <1>2, MetaFacts, Halves
    <1>4. /\ Whole(ms[h]) /\ Follows(ms[h], ms[1 - h]) /\ ms[h].txnid = ms[1 - h].txnid + 1
        BY Zenon, <1>1 DEF MetasAt
    <1>5. CASE r % 2 = h
        <2>1. Follows(ms[h], ms[h])
            BY Zenon, <1>2, <1>4, FollowsItself
        <2> QED BY Zenon, <1>2, <1>3, <1>5, <2>1
    <1>6. CASE r % 2 = 1 - h
        <2>1. r # ms[h].txnid
            BY <1>2, <1>3, <1>6
        <2>2. r <= ms[1 - h].txnid
            BY <1>2, <1>3, <1>4, <2>1
        <2> QED BY Zenon, <1>2, <1>3, <1>4, <1>6, <2>2
    <1>7. r % 2 = h \/ r % 2 = 1 - h
        BY <1>3
    <1> QED BY Zenon, <1>5, <1>6, <1>7

\* While a process is open, what is published is not newer than the newest.
LEMMA Published ==
    ASSUME PageInv, NEW p \in Procs, env[p].pc # "closed"
    PROVE  /\ mti_txnid \in Nat /\ mti_txnid <= Newest(metas).txnid
           /\ mti_txnid \in {Newest(metas).txnid, Older(metas).txnid}
           /\ Intact(metas[mti_txnid % 2], cache)
    <1>1. /\ TypeEnv /\ TypeFiles /\ TypeLocks /\ TypeCounts /\ MetasOK(metas, dmetas, cache, disk)
          /\ LockOK
        BY Zenon, TypeParts DEF PageInv
    <1>2. metas \in [0..1 -> Meta] /\ mti_txnid \in Nat
        BY Zenon, <1>1, TxnIds DEF TypeFiles, TypeLocks
    <1>3. PICK h \in 0..1 : MetasAt(h, metas, dmetas, cache, disk)
        BY Zenon, <1>1 DEF MetasOK
    <1>4. /\ Newest(metas) = metas[h] /\ Older(metas) = metas[1 - h]
          /\ metas[h] \in Meta /\ metas[1 - h] \in Meta
        BY <1>2, <1>3, NewestAt
    <1>5. /\ metas[h].txnid \in Nat /\ metas[1 - h].txnid \in Nat
          /\ metas[h].txnid = metas[1 - h].txnid + 1
        BY Zenon, <1>3, <1>4, MetaFacts DEF MetasAt
    <1>6. /\ mti_txnid \in {Newest(metas).txnid, Older(metas).txnid}
          /\ Intact(metas[mti_txnid % 2], cache)
        BY Zenon, <1>1 DEF LockOK
    <1> QED BY <1>2, <1>4, <1>5, <1>6

\* mdb_reader_check changes no txnid.
LEMMA CheckTable ==
    ASSUME TypeLocks, NEW p \in Procs
    PROVE  /\ ReaderCheck(p) \in [Slot -> [pid : Procs \cup {NoProc}, txnid : TxnId \cup {NoTxn}]]
           /\ \A j \in Slot : ReaderCheck(p)[j].txnid = readers[j].txnid
    BY Zenon DEF TypeLocks, ReaderCheck

\* A step of a reader, or of a process that looks at the reader table or closes it, keeps
\* PageInv.
LEMMA ReaderPages ==
    WellOrdered => (PageInv /\ Inv /\ (\E p \in Procs :
        \/ ReadBegin(p) \/ ReadClaim(p) \/ ReadLoad(p) \/ ReadStore(p) \/ ReadCheck(p)
        \/ ReadCopy(p) \/ ReadEnd(p) \/ ThreadExit(p) \/ CheckReaders(p) \/ Close(p)) => PageInv')
    <1> HAVE WellOrdered
    \* A step of p that leaves the files and the writer alone keeps PageInv if p still has its
    \* snapshot.
    <1>ReaderKeeps.
        ASSUME PageInv, NEW p \in Procs, Moves(p), TypeLocks',
               UNCHANGED <<files, mti_txnid, wmutex, txn, counts>>,
               env[p].pc \notin Building \cup Committing \cup {"closed"},
               env'[p].pc \notin Building \cup Committing,
               \A q \in Procs \ {p} : env[q].pc \in {"check", "copy", "read"} =>
                   readers'[env[q].slot].txnid = readers[env[q].slot].txnid,
               ReaderOK(p)', Undisturbed(p)'
        PROVE  PageInv'
        <2> USE <1>ReaderKeeps
        <2>1. /\ cache' = cache /\ disk' = disk /\ metas' = metas /\ dmetas' = dmetas
              /\ mti_txnid' = mti_txnid /\ wmutex' = wmutex /\ txn' = txn /\ tries' = tries
              /\ faults' = faults
              /\ setup' = setup
            BY Zenon DEF files, counts
        <2>2. TypeOK'
            BY Zenon, TypeParts, TypeSame DEF PageInv, Moves
        <2>3. MetasOK(metas, dmetas, cache, disk)' /\ (Newest(metas).txnid <= tries + 2)'
            BY Zenon, <2>1 DEF PageInv
        <2>4. LockOK'
            <3>1. LockOK
                BY Zenon DEF PageInv
            <3>2. \A q \in Procs : env[q].pc \in Committing => env'[q].pc \in Committing
                BY Zenon DEF Moves
            <3> QED BY Zenon, <2>1, <3>1, <3>2 DEF LockOK
        <2>5. ASSUME NEW q \in Procs PROVE WriterOK(q)'
            <3>1. CASE q = p
                BY Zenon, <3>1 DEF WriterOK, Building
            <3>2. CASE q # p
                <4>1. env'[q] = env[q] /\ WriterOK(q)
                    BY Zenon, <3>2 DEF Moves, PageInv
                <4> QED BY Zenon, <2>1, <4>1 DEF WriterOK
            <3> QED BY Zenon, <3>1, <3>2
        <2>6. ASSUME NEW q \in Procs PROVE ReaderOK(q)'
            <3>1. CASE q # p
                <4>1. env'[q] = env[q] /\ ReaderOK(q)
                    BY Zenon, <3>1 DEF Moves, PageInv
                <4>2. env[q].pc \in {"check", "copy", "read"} =>
                          readers'[env[q].slot].txnid = readers[env[q].slot].txnid
                    BY Zenon, <3>1
                <4> QED BY Zenon, <2>1, <4>1, <4>2 DEF ReaderOK
            <3> QED BY Zenon, <3>1
        <2>7. ASSUME NEW q \in Procs PROVE Undisturbed(q)'
            <3>1. CASE q # p
                <4>1. env'[q] = env[q] /\ Undisturbed(q)
                    BY Zenon, <3>1 DEF Moves, PageInv
                <4>2. \A x \in Procs : env'[x].pc \in Building => env[x].pc \in Building
                    BY Zenon DEF Moves
                <4> QED BY Zenon, <2>1, <4>1, <4>2 DEF Undisturbed
            <3> QED BY Zenon, <3>1
        <2> QED BY Zenon, <2>2, <2>3, <2>4, <2>5, <2>6, <2>7 DEF PageInv
    \* A step of p that changes only its own slot.
    <1>OwnSlot.
        ASSUME PageInv, Inv, NEW p \in Procs,
               \A j \in Slot : j # env[p].slot => readers'[j].txnid = readers[j].txnid
        PROVE  \A q \in Procs \ {p} : env[q].pc \in {"check", "copy", "read"} =>
                   readers'[env[q].slot].txnid = readers[env[q].slot].txnid
        <2> USE <1>OwnSlot
        <2> SUFFICES ASSUME NEW q \in Procs \ {p}, env[q].pc \in {"check", "copy", "read"}
                     PROVE  readers'[env[q].slot].txnid = readers[env[q].slot].txnid
            BY Zenon
        <2>1. env[q].slot # NoSlot
            BY Zenon DEF Inv, Owns, Reading
        <2>2. env[q].slot # env[p].slot /\ env[q].slot \in Slot
            BY Zenon, <2>1, SlotsApart
        <2> QED BY Zenon, <2>2
    \* mdb_txn_renew0 of a reader takes note of what is published.
    <1>PReadBegin. ASSUME PageInv, Inv, NEW p \in Procs, ReadBegin(p) PROVE PageInv'
        <2> USE <1>PReadBegin
        <2> DEFINE x == IF env[p].slot # NoSlot THEN "load" ELSE "claim"
                   e == [env[p] EXCEPT !.pc = x, !.pidlock = @
                     \/ env[p].slot = NoSlot, !.floor = mti_txnid]
        <2>1. TypeEnv /\ TypeFiles /\ TypeLocks /\ TypeCounts
            BY Zenon, TableFacts
        <2>2. env[p] \in Process /\ mti_txnid \in TxnId
            BY Zenon, <2>1 DEF TypeEnv, TypeLocks
        <2>3. e \in Process /\ e.pc = x /\ e.floor = mti_txnid
            BY Zenon, <2>2 DEF Process
        <2>4. env[p].pc = "idle" /\ UNCHANGED <<files, locks, txn, counts>>
            BY Zenon DEF ReadBegin
        <2>5. env' = [env EXCEPT ![p] = e]
            BY Zenon, <2>1 DEF ReadBegin, TypeEnv
        <2>6. x \in {"load", "claim"}
            BY Zenon
        <2> HIDE DEF e, x
        <2>7. Moves(p) /\ env'[p].pc \in {"load", "claim"} /\ env'[p].floor = mti_txnid
            BY Zenon, <2>1, <2>3, <2>5, <2>6, SetEntry
        <2>8. TypeLocks' /\ UNCHANGED <<mti_txnid, wmutex, readers>>
            BY Zenon, <2>1, <2>4, TypeSame DEF locks
        <2>9. ReaderOK(p)' /\ Undisturbed(p)'
            <3>1. mti_txnid <= mti_txnid
                BY <2>2, TxnIds
            <3> QED BY Zenon, <2>7, <2>8, <3>1 DEF ReaderOK, Undisturbed
        <2> QED BY Zenon, <2>4, <2>7, <2>8, <2>9, <1>ReaderKeeps DEF Building, Committing
    \* The slot that a reader claims is nobody's.
    <1>PReadClaim. ASSUME PageInv, Inv, NEW p \in Procs, ReadClaim(p) PROVE PageInv'
        <2> USE <1>PReadClaim
        <2> DEFINE S == {numreaders} \cup {j \in Slot : j < numreaders /\ readers[j].pid = NoProc}
                   i == Min(S)
        <2>1. TypeEnv /\ TypeFiles /\ TypeLocks /\ TypeCounts
            BY Zenon, TableFacts
        <2>2. env[p] \in Process /\ mti_txnid \in TxnId
            BY Zenon, <2>1 DEF TypeEnv, TypeLocks
        <2>3. env[p].pc = "claim" /\ UNCHANGED <<files, txn, counts>>
            BY Zenon DEF ReadClaim
        <2>4. CASE i = MaxReaders
            <3> DEFINE e == [env[p] EXCEPT !.pc = "idle", !.floor = 0]
            <3>1. e \in Process /\ e.pc = "idle"
                BY Zenon, <2>2, TxnIds DEF Process
            <3>2. env' = [env EXCEPT ![p] = e] /\ UNCHANGED locks
                BY Zenon, <2>1, <2>4 DEF ReadClaim, TypeEnv
            <3> HIDE DEF e
            <3>3. Moves(p) /\ env'[p].pc = "idle"
                BY Zenon, <2>1, <3>1, <3>2, SetEntry
            <3>4. TypeLocks' /\ UNCHANGED <<mti_txnid, wmutex, readers>>
                BY Zenon, <2>1, <3>2, TypeSame DEF locks
            <3>5. ReaderOK(p)' /\ Undisturbed(p)'
                BY Zenon, <3>3, Rests DEF NotReading
            <3> QED BY Zenon, <2>3, <3>3, <3>4, <3>5, <1>ReaderKeeps DEF Building, Committing
        <2>5. CASE i # MaxReaders
            <3> DEFINE e == [env[p] EXCEPT !.pc = "load", !.slot = i]
            <3>1. S \subseteq Nat /\ S # {} /\ numreaders \in S /\ numreaders \in 0..MaxReaders
                BY <2>1, LmdbAssumption DEF TypeLocks, Slot
            <3>2. i \in S /\ i <= numreaders
                <4> HIDE DEF S
                <4>1. i \in S /\ \A y \in S : i <= y
                    BY Zenon, <3>1, MinOfSet
                <4> QED BY Zenon, <3>1, <4>1
            <3>3. i \in Slot
                BY <2>5, <3>1, <3>2, LmdbAssumption DEF Slot
            <3>4. i = numreaders \/ readers[i].pid = NoProc
                BY Zenon, <3>2
            <3>5. /\ readers' = [readers EXCEPT ![i] = [pid |-> p, txnid |-> NoTxn]]
                  /\ numreaders' = IF i = numreaders THEN numreaders + 1 ELSE numreaders
                  /\ env' = [env EXCEPT ![p].pc = "load", ![p].slot = i]
                  /\ UNCHANGED <<mti_txnid, wmutex>>
                BY SMTT(30), <2>5 DEF ReadClaim
            <3> HIDE DEF i
            <3>6. numreaders' \in 0..MaxReaders
                <4>1. i + 1 \in 0..MaxReaders /\ i + 1 \in Nat /\ numreaders \in Nat
                    BY <3>1, <3>3, LmdbAssumption DEF Slot
                <4> QED BY Zenon, <3>1, <3>5, <4>1
            <3>7. TypeLocks'
                <4>1. readers' \in [Slot -> [pid : Procs \cup {NoProc}, txnid : TxnId \cup {NoTxn}]]
                    BY Zenon, <2>1, <3>5 DEF TypeLocks
                <4> QED BY Zenon, <2>1, <3>5, <3>6, <4>1 DEF TypeLocks
            <3>8. e \in Process /\ e.pc = "load" /\ e.floor = env[p].floor
                BY Zenon, <2>2, <3>3 DEF Process
            <3>9. env' = [env EXCEPT ![p] = e]
                BY Zenon, <2>1, <3>5 DEF TypeEnv
            <3> HIDE DEF e
            <3>10. Moves(p) /\ env'[p].pc = "load" /\ env'[p].floor = env[p].floor
                BY Zenon, <2>1, <3>8, <3>9, SetEntry
            <3>11. ReaderOK(p)' /\ Undisturbed(p)'
                <4>1. ReaderOK(p)
                    BY Zenon DEF PageInv
                <4> QED BY Zenon, <2>3, <3>5, <3>10, <4>1 DEF ReaderOK, Undisturbed
            <3>12. ASSUME NEW q \in Procs \ {p}, env[q].pc \in {"check", "copy", "read"}
                   PROVE  readers'[env[q].slot].txnid = readers[env[q].slot].txnid
                <4>1. env[q].slot # NoSlot
                    BY Zenon, <3>12 DEF Inv, Owns, Reading
                <4>2. /\ env[q].slot \in Slot /\ env[q].slot < numreaders
                      /\ readers[env[q].slot].pid # NoProc
                    BY <4>1, SlotsApart
                <4>3. env[q].slot # i
                    BY <3>1, <3>4, <4>2, LmdbAssumption DEF Slot
                <4> QED BY Zenon, <2>1, <3>5, <4>2, <4>3 DEF TypeLocks
            <3> QED BY Zenon, <2>3, <3>5, <3>7, <3>10, <3>11, <3>12, <1>ReaderKeeps DEF Building,
                       Committing
        <2> QED BY Zenon, <2>4, <2>5
    \* A reader loads the published txnid.
    <1>PReadLoad. ASSUME PageInv, Inv, NEW p \in Procs, ReadLoad(p) PROVE PageInv'
        <2> USE <1>PReadLoad
        <2> DEFINE e == [env[p] EXCEPT !.pc = "store", !.seen = mti_txnid]
        <2>1. TypeEnv /\ TypeFiles /\ TypeLocks /\ TypeCounts
            BY Zenon, TableFacts
        <2>2. env[p] \in Process /\ mti_txnid \in TxnId
            BY Zenon, <2>1 DEF TypeEnv, TypeLocks
        <2>3. e \in Process /\ e.pc = "store" /\ e.seen = mti_txnid /\ e.floor = env[p].floor
            BY Zenon, <2>2 DEF Process
        <2>4. env[p].pc = "load" /\ UNCHANGED <<files, locks, txn, counts>>
            BY Zenon DEF ReadLoad
        <2>5. env' = [env EXCEPT ![p] = e]
            BY Zenon, <2>1 DEF ReadLoad, TypeEnv
        <2> HIDE DEF e
        <2>6. /\ Moves(p) /\ env'[p].pc = "store" /\ env'[p].seen = mti_txnid
              /\ env'[p].floor = env[p].floor
            BY Zenon, <2>1, <2>3, <2>5, SetEntry
        <2>7. TypeLocks' /\ UNCHANGED <<mti_txnid, wmutex, readers>>
            BY Zenon, <2>1, <2>4, TypeSame DEF locks
        <2>8. ReaderOK(p)' /\ Undisturbed(p)'
            <3>1. ReaderOK(p) /\ mti_txnid <= mti_txnid
                BY <2>2, TxnIds DEF PageInv
            <3> QED BY Zenon, <2>4, <2>6, <2>7, <3>1 DEF ReaderOK, Undisturbed
        <2> QED BY Zenon, <2>4, <2>6, <2>7, <2>8, <1>ReaderKeeps DEF Building, Committing
    \* A reader stores it in its own slot.
    <1>PReadStore. ASSUME PageInv, Inv, NEW p \in Procs, ReadStore(p) PROVE PageInv'
        <2> USE <1>PReadStore
        <2> DEFINE e == [env[p] EXCEPT !.pc = "check", !.seen = 0]
        <2>1. TypeEnv /\ TypeFiles /\ TypeLocks /\ TypeCounts
            BY Zenon, TableFacts
        <2>2. env[p] \in Process /\ env[p].seen \in TxnId
            BY Zenon, <2>1 DEF TypeEnv, Process
        <2>3. e \in Process /\ e.pc = "check" /\ e.floor = env[p].floor /\ e.slot = env[p].slot
            BY Zenon, <2>2, TxnIds DEF Process
        <2>4. /\ env[p].pc = "store" /\ UNCHANGED <<files, mti_txnid, numreaders, wmutex, txn,
                   counts>>
              /\ readers' = [readers EXCEPT ![env[p].slot].txnid = env[p].seen]
            BY Zenon DEF ReadStore
        <2>5. env' = [env EXCEPT ![p] = e]
            BY Zenon, <2>1 DEF ReadStore, TypeEnv
        <2> HIDE DEF e
        <2>6. /\ Moves(p) /\ env'[p].pc = "check" /\ env'[p].slot = env[p].slot
              /\ env'[p].floor = env[p].floor
            BY Zenon, <2>1, <2>3, <2>5, SetEntry
        <2>7. env[p].slot \in Slot
            BY Zenon, <2>4, TableFacts DEF Reading
        <2>8. /\ readers' \in [Slot -> [pid : Procs \cup {NoProc}, txnid : TxnId \cup {NoTxn}]]
              /\ readers'[env[p].slot].txnid = env[p].seen
              /\ \A j \in Slot : j # env[p].slot => readers'[j].txnid = readers[j].txnid
            BY Zenon, <2>1, <2>2, <2>4, <2>7 DEF TypeLocks
        <2>9. TypeLocks'
            BY Zenon, <2>1, <2>4, <2>8 DEF TypeLocks
        <2>10. ReaderOK(p)' /\ Undisturbed(p)'
            <3>1. ReaderOK(p)
                BY Zenon DEF PageInv
            <3> QED BY Zenon, <2>4, <2>6, <2>8, <3>1 DEF ReaderOK, Undisturbed
        <2> QED BY Zenon, <2>4, <2>6, <2>8, <2>9, <2>10, <1>OwnSlot, <1>ReaderKeeps DEF Building,
                   Committing
    \* A reader that finds the published txnid in its slot may copy the meta page: it is intact.
    <1>PReadCheck. ASSUME PageInv, Inv, NEW p \in Procs, ReadCheck(p) PROVE PageInv'
        <2> USE <1>PReadCheck
        <2> DEFINE x == IF readers[env[p].slot].txnid = mti_txnid THEN "copy" ELSE "load"
        <2>1. TypeEnv /\ TypeFiles /\ TypeLocks /\ TypeCounts
            BY Zenon, TableFacts
        <2>2. env[p].pc = "check" /\ UNCHANGED <<files, locks, txn, counts>>
            BY Zenon DEF ReadCheck
        <2>3. env' = [env EXCEPT ![p].pc = x]
            BY Zenon DEF ReadCheck
        <2>4. /\ x \in PC /\ x \in {"copy", "load"}
              /\ (x = "copy" => readers[env[p].slot].txnid = mti_txnid)
            BY Zenon DEF PC
        <2> HIDE DEF x
        <2>5. /\ Moves(p) /\ env'[p].pc = x /\ env'[p].slot = env[p].slot
              /\ env'[p].floor = env[p].floor
            BY Zenon, <2>1, <2>3, <2>4, SetPc
        <2>6. /\ TypeLocks' /\ UNCHANGED <<mti_txnid, wmutex, readers>> /\ metas' = metas
              /\ cache' = cache
            BY Zenon, <2>1, <2>2, TypeSame DEF locks, files
        <2>7. /\ env[p].floor <= readers[env[p].slot].txnid
              /\ readers[env[p].slot].txnid <= mti_txnid
            BY Zenon, <2>2 DEF PageInv, ReaderOK
        <2>8. env[p].floor \in Nat /\ readers[env[p].slot].txnid \in Nat /\ mti_txnid \in Nat
            <3>1. env[p].slot \in Slot
                BY Zenon, <2>2, TableFacts DEF Reading
            <3> QED BY Zenon, <2>1, <3>1, TxnIds DEF TypeEnv, TypeLocks, Process
        <2>9. env[p].floor <= mti_txnid
            BY <2>7, <2>8
        <2>10. Intact(metas[mti_txnid % 2], cache)
            BY Zenon, <2>2, Published
        <2>11. ReaderOK(p)' /\ Undisturbed(p)'
            BY Zenon, <2>4, <2>5, <2>6, <2>7, <2>9, <2>10 DEF ReaderOK, Undisturbed
        <2> QED BY Zenon, <2>2, <2>4, <2>5, <2>6, <2>11, <1>ReaderKeeps DEF Building, Committing
    \* The meta page that a reader copies leads to a whole tree, which the writer leaves alone.
    <1>PReadCopy. ASSUME PageInv, Inv, NEW p \in Procs, ReadCopy(p) PROVE PageInv'
        <2> USE <1>PReadCopy
        <2> DEFINE r == readers[env[p].slot].txnid
                   m == metas[r % 2]
                   e == [env[p] EXCEPT !.pc = "read", !.txnid = r, !.meta = m]
        <2>1. TypeEnv /\ TypeFiles /\ TypeLocks /\ TypeCounts
            BY Zenon, TableFacts
        <2>2. env[p].pc = "copy" /\ UNCHANGED <<files, locks, txn, counts>>
            BY Zenon DEF ReadCopy
        <2>3. r <= mti_txnid /\ Intact(m, cache)
            BY Zenon, <2>2 DEF PageInv, ReaderOK
        <2>4. r \in Nat /\ mti_txnid \in TxnId /\ metas \in [0..1 -> Meta] /\ env[p] \in Process
            <3>1. env[p].slot \in Slot
                BY Zenon, <2>2, TableFacts DEF Reading
            <3> QED BY Zenon, <2>1, <3>1, TxnIds DEF TypeEnv, TypeLocks, TypeFiles
        <2>5. r \in TxnId
            BY Zenon, <2>3, <2>4, TxnIds
        <2>6. env' = [env EXCEPT ![p] = e]
            BY Zenon, <2>1 DEF ReadCopy, TypeEnv
        <2> HIDE DEF r
        <2>7. r <= Newest(metas).txnid
            <3>1. mti_txnid <= Newest(metas).txnid
                BY Zenon, <2>2, Published
            <3>2. Newest(metas).txnid \in Nat
                BY Zenon, <2>4, NewestType, MetaFacts
            <3> QED BY <2>3, <2>4, <3>1, <3>2, TxnIds
        <2>8. /\ m \in {Newest(metas), Older(metas)} /\ m \in Meta
              /\ Follows(Newest(metas), m) /\ m.txnid >= r
            BY Zenon, <2>4, <2>7, NamedMeta DEF PageInv
        <2> HIDE DEF m
        <2>9. e \in Process /\ e.pc = "read" /\ e.txnid = r /\ e.meta = m /\ e.slot = env[p].slot
            BY Zenon, <2>4, <2>5, <2>8 DEF Process
        <2> HIDE DEF e
        <2>10. /\ Moves(p) /\ env'[p].pc = "read" /\ env'[p].txnid = r /\ env'[p].meta = m
               /\ env'[p].slot = env[p].slot
            BY Zenon, <2>1, <2>6, <2>9, SetEntry
        <2>11. /\ TypeLocks' /\ UNCHANGED <<mti_txnid, wmutex, readers>> /\ metas' = metas
               /\ cache' = cache
            BY Zenon, <2>1, <2>2, TypeSame DEF locks, files
        <2>12. ReaderOK(p)'
            <3>1. readers'[env'[p].slot].txnid = r
                BY Zenon, <2>10, <2>11 DEF r
            <3> QED BY Zenon, <2>3, <2>8, <2>10, <2>11, <3>1 DEF ReaderOK
        <2>13. Undisturbed(p)'
            <3>1. ASSUME NEW q \in Procs, env'[q].pc \in Building PROVE TxnSpares(txn, m)
                <4>1. env[q].pc \in Building
                    BY Zenon, <2>10, <3>1 DEF Moves, Building
                <4>2. TxnSpares(txn, Newest(metas)) /\ TxnSpares(txn, Older(metas))
                    BY Zenon, <4>1 DEF PageInv, WriterOK
                <4> QED BY Zenon, <2>8, <4>2
            <3> QED BY Zenon, <2>2, <2>10, <3>1 DEF Undisturbed
        <2> QED BY Zenon, <2>2, <2>10, <2>11, <2>12, <2>13, <1>ReaderKeeps DEF Building, Committing
    \* A reader ends.
    <1>PReadEnd. ASSUME PageInv, Inv, NEW p \in Procs, ReadEnd(p) PROVE PageInv'
        <2> USE <1>PReadEnd
        <2> DEFINE e == [env[p] EXCEPT !.pc = "idle", !.txnid = 0, !.meta = NoMeta, !.floor = 0]
        <2>1. TypeEnv /\ TypeFiles /\ TypeLocks /\ TypeCounts
            BY Zenon, TableFacts
        <2>2. /\ env[p].pc = "read" /\ UNCHANGED <<files, mti_txnid, numreaders, wmutex, txn,
                   counts>>
              /\ readers' = [readers EXCEPT ![env[p].slot].txnid = NoTxn]
            BY Zenon DEF ReadEnd
        <2>3. env[p] \in Process /\ env[p].slot \in Slot
            BY Zenon, <2>1, <2>2, TableFacts DEF Reading, TypeEnv
        <2>4. e \in Process /\ e.pc = "idle"
            BY Zenon, <2>3, TxnIds, NoMetaType DEF Process
        <2>5. env' = [env EXCEPT ![p] = e]
            BY Zenon, <2>1 DEF ReadEnd, TypeEnv
        <2> HIDE DEF e
        <2>6. Moves(p) /\ env'[p].pc = "idle"
            BY Zenon, <2>1, <2>4, <2>5, SetEntry
        <2>7. /\ readers' \in [Slot -> [pid : Procs \cup {NoProc}, txnid : TxnId \cup {NoTxn}]]
              /\ \A j \in Slot : j # env[p].slot => readers'[j].txnid = readers[j].txnid
            BY Zenon, <2>1, <2>2, <2>3 DEF TypeLocks
        <2>8. TypeLocks'
            BY Zenon, <2>1, <2>2, <2>7 DEF TypeLocks
        <2>9. ReaderOK(p)' /\ Undisturbed(p)'
            BY Zenon, <2>6, Rests DEF NotReading
        <2> QED BY Zenon, <2>2, <2>6, <2>7, <2>8, <2>9, <1>OwnSlot, <1>ReaderKeeps DEF Building, Committing
    \* A thread gives up its slot.
    <1>PThreadExit. ASSUME PageInv, Inv, NEW p \in Procs, ThreadExit(p) PROVE PageInv'
        <2> USE <1>PThreadExit
        <2> DEFINE e == [env[p] EXCEPT !.slot = NoSlot]
        <2>1. TypeEnv /\ TypeFiles /\ TypeLocks /\ TypeCounts
            BY Zenon, TableFacts
        <2>2. /\ env[p].pc = "idle" /\ UNCHANGED <<files, mti_txnid, numreaders, wmutex, txn,
                   counts>>
              /\ readers' = [readers EXCEPT ![env[p].slot].pid = IF @ = p THEN NoProc ELSE @]
              /\ env[p].slot # NoSlot
            BY Zenon DEF ThreadExit
        <2>3. env[p] \in Process /\ env[p].slot \in Slot
            BY Zenon, <2>1, <2>2 DEF TypeEnv, Process
        <2>4. e \in Process /\ e.pc = "idle"
            BY Zenon, <2>2, <2>3 DEF Process
        <2>5. env' = [env EXCEPT ![p] = e]
            BY Zenon, <2>1 DEF ThreadExit, TypeEnv
        <2> HIDE DEF e
        <2>6. Moves(p) /\ env'[p].pc = "idle"
            BY Zenon, <2>1, <2>4, <2>5, SetEntry
        <2>7. /\ readers' \in [Slot -> [pid : Procs \cup {NoProc}, txnid : TxnId \cup {NoTxn}]]
              /\ \A j \in Slot : readers'[j].txnid = readers[j].txnid
            BY <2>1, <2>2, <2>3 DEF TypeLocks
        <2>8. TypeLocks'
            BY Zenon, <2>1, <2>2, <2>7 DEF TypeLocks
        <2>9. ReaderOK(p)' /\ Undisturbed(p)'
            BY Zenon, <2>6, Rests DEF NotReading
        <2> QED BY Zenon, <2>2, <2>6, <2>7, <2>8, <2>9, <1>OwnSlot, <1>ReaderKeeps DEF Building, Committing
    \* mdb_reader_check changes no txnid of a live reader.
    <1>PCheckReaders. ASSUME PageInv, Inv, NEW p \in Procs, CheckReaders(p) PROVE PageInv'
        <2> USE <1>PCheckReaders
        <2>1. TypeEnv /\ TypeFiles /\ TypeLocks /\ TypeCounts
            BY Zenon, TableFacts
        <2>2. /\ env[p].pc = "idle" /\ UNCHANGED <<files, mti_txnid, numreaders, wmutex, txn,
                   counts>>
              /\ env' = env /\ readers' = ReaderCheck(p)
            BY Zenon DEF CheckReaders
        <2>3. Moves(p) /\ env'[p].pc = "idle"
            BY Zenon, <2>1, <2>2 DEF Moves, TypeEnv
        <2>4. /\ readers' \in [Slot -> [pid : Procs \cup {NoProc}, txnid : TxnId \cup {NoTxn}]]
              /\ \A j \in Slot : readers'[j].txnid = readers[j].txnid
            BY Zenon, <2>1, <2>2, CheckTable
        <2>5. TypeLocks'
            BY Zenon, <2>1, <2>2, <2>4 DEF TypeLocks
        <2>6. ReaderOK(p)' /\ Undisturbed(p)'
            BY Zenon, <2>3, Rests DEF NotReading
        <2> QED BY Zenon, <2>2, <2>3, <2>4, <2>5, <2>6, <1>OwnSlot, <1>ReaderKeeps DEF Building, Committing
    \* A process closes the environment.
    <1>PClose. ASSUME PageInv, Inv, NEW p \in Procs, Close(p) PROVE PageInv'
        <2> USE <1>PClose
        <2>1. TypeEnv /\ TypeFiles /\ TypeLocks /\ TypeCounts
            BY Zenon, TableFacts
        <2>2. /\ env[p].pc \in {"idle", "panic"}
              /\ UNCHANGED <<files, mti_txnid, numreaders, wmutex, txn, counts>>
              /\ env' = [env EXCEPT ![p] = Closed]
              /\ readers' = Cleared(p) \/ readers' = readers
            BY Zenon DEF Close
        <2>3. Moves(p) /\ env'[p] = Closed
            BY Zenon, <2>1, <2>2, ClosedType, SetEntry
        <2>4. env'[p].pc = "closed"
            BY Zenon, <2>3, ClosedProcess
        <2>5. /\ readers' \in [Slot -> [pid : Procs \cup {NoProc}, txnid : TxnId \cup {NoTxn}]]
              /\ \A j \in Slot : readers'[j].txnid = readers[j].txnid
            <3>1. CASE readers' = Cleared(p)
                BY Zenon, <2>1, <3>1 DEF TypeLocks, Cleared
            <3>2. CASE readers' = readers
                BY Zenon, <2>1, <3>2 DEF TypeLocks
            <3> QED BY Zenon, <2>2, <3>1, <3>2
        <2>6. TypeLocks'
            BY Zenon, <2>1, <2>2, <2>5 DEF TypeLocks
        <2>7. ReaderOK(p)' /\ Undisturbed(p)'
            BY Zenon, <2>4, Rests DEF NotReading
        <2> QED BY Zenon, <2>2, <2>3, <2>4, <2>5, <2>6, <2>7, <1>OwnSlot, <1>ReaderKeeps DEF Building,
                   Committing
    <1> QED BY Zenon, <1>PReadBegin, <1>PReadClaim, <1>PReadLoad, <1>PReadStore, <1>PReadCheck,
               <1>PReadCopy,
               <1>PReadEnd, <1>PThreadExit, <1>PCheckReaders, <1>PClose

=============================================================================
