----------------------------- MODULE Snapshots -----------------------------
(***************************************************************************)
(* What the LMDB port (liblmdb) promises its users, with no pages, locks   *)
(* or files: a store with one current value.  A write transaction replaces *)
(* the value in one step.  A read transaction sees one committed value,    *)
(* the same one until it ends, and no older than what was committed when   *)
(* it began.  A system crash ends every transaction and may undo one       *)
(* commit, the last; a commit that was saved is never undone.              *)
(***************************************************************************)
EXTENDS Naturals

CONSTANTS
    Procs,      \* the processes that use the store
    Value,      \* the values it can have
    NoView      \* the view of a process that is not reading

VARIABLES
    cur,        \* the current version: its number and its value
    prior,      \* the version before it
    saved,      \* the version on stable storage
    published,  \* the number of the version that new transactions start from
    floor,      \* what was published when a process asked for a read transaction
    view        \* the version that a process reads

vars == <<cur, prior, saved, published, floor, view>>

Version == [id : Nat, val : Value]

TypeOK ==
    /\ cur \in Version /\ prior \in Version /\ saved \in Version
    /\ published \in Nat
    /\ floor \in [Procs -> Nat]
    /\ view \in [Procs -> Version \cup {NoView}]

Init ==
    /\ cur \in Version
    /\ prior \in Version /\ prior.id < cur.id
    /\ saved = cur
    /\ published = cur.id
    /\ floor = [p \in Procs |-> 0]
    /\ view = [p \in Procs |-> NoView]

\* A write transaction commits.  There is at most one unsaved version.
Commit ==
    /\ saved = cur
    /\ cur'.id = cur.id + 1
    /\ cur' \in Version
    /\ prior' = cur
    /\ UNCHANGED <<saved, published, floor, view>>

Save ==
    /\ saved' = cur
    /\ UNCHANGED <<cur, prior, published, floor, view>>

\* The commit call returns, or another process finishes it for a dead one.
Publish ==
    /\ published' = cur.id
    /\ UNCHANGED <<cur, prior, saved, floor, view>>

\* A process asks for a read transaction, and gets one.
Ask(p) ==
    /\ view[p] = NoView
    /\ floor' = [floor EXCEPT ![p] = published]
    /\ UNCHANGED <<cur, prior, saved, published, view>>

Begin(p) ==
    /\ view[p] = NoView
    /\ \E v \in {cur, prior} :
          /\ v.id >= floor[p]
          /\ view' = [view EXCEPT ![p] = v]
    /\ UNCHANGED <<cur, prior, saved, published, floor>>

\* A read transaction ends, or its process does.  When the last process is
\* gone, a commit whose process died before it was published counts.
End(p) ==
    /\ view' = [view EXCEPT ![p] = NoView]
    /\ floor' = [floor EXCEPT ![p] = 0]
    /\ published' \in {published, cur.id}
    /\ UNCHANGED <<cur, prior, saved>>

\* The system crashes: what was not saved may be lost.
Crash ==
    /\ cur' \in {cur, saved}
    /\ saved' = cur'
    /\ published' = cur'.id
    /\ prior' \in Version /\ prior'.id < cur'.id
    /\ floor' = [p \in Procs |-> 0]
    /\ view' = [p \in Procs |-> NoView]

Next ==
    \/ Save
    \/ Publish
    \/ Commit
    \/ Crash
    \/ \E p \in Procs : Ask(p) \/ Begin(p) \/ End(p)

Spec == Init /\ [][Next]_vars

=============================================================================
