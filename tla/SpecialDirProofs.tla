-------------------------- MODULE SpecialDirProofs --------------------------
(***************************************************************************)
(* Proofs about SpecialDir, for any number of processes.                   *)
(***************************************************************************)
EXTENDS SpecialDir, TLAPS

Inside == {"locked", "uptodate", "removing", "creating", "created", "written"}

\* The process that holds the lock is the one between Lock and Unlock.
LockInv ==
    /\ \A p \in Proc : pc[p] \in Inside <=> lock = p
    /\ \A p \in buffer : pc[p] \in {"written", "closing"}

\* A process to which setup_special_dir has vouched for the directory.
Vouched(p) == pc[p] \in {"uptodate", "using"} \/ (pc[p] = "closing" /\ p \notin buffer)

(***************************************************************************)
(* The strengthening of UsersHaveLayer: the file has one version at most,  *)
(* which is that of a complete directory; it is empty while the directory  *)
(* is being remade or a version is in a buffer, and it is not while the    *)
(* directory is in use.                                                    *)
(***************************************************************************)
FileInv ==
    ~overtaken =>
        /\ version_file = <<>> \/ \A p \in Proc : version_file = <<VersionOf[p]>> /\ dir = VersionOf[p]
        /\ \A p \in Proc : pc[p] \in {"removing", "creating", "created", "written"} => version_file = <<>>
        /\ \A p \in Proc : pc[p] = "created" => dir = VersionOf[p]
        /\ \A p \in Proc : pc[p] = "written" => p \in buffer
        /\ \A p \in buffer : version_file = <<>> /\ dir = VersionOf[p]
        /\ \A p, q \in buffer : p = q
        /\ \A p \in buffer : lock \in {p, NoProc}
        /\ \A p \in Proc : Vouched(p) => version_file # <<>>

\* The states of Init have their types, and every action keeps them.
LEMMA TypeStep ==
    /\ Init => TypeOK
    /\ TypeOK /\ [Next]_vars => TypeOK'
<1>1. Init => TypeOK
  <2>1. <<>> \in Seq(Version)
    OBVIOUS
  <2> QED BY Zenon, <2>1 DEF Init, TypeOK
<1>2. ASSUME TypeOK, [Next]_vars PROVE TypeOK'
  <2> USE <1>2, SpecialDirAssumption DEF TypeOK, At, Goto
  <2>1. ASSUME NEW p \in Proc, Step(p) PROVE TypeOK'
    <3>1. CASE Close(p)
      BY <3>1 DEF Close
    <3>2. CASE Truncate(p)
      <4>1. <<>> \in Seq(Version)
        OBVIOUS
      <4> QED BY <3>2, <4>1 DEF Truncate
    <3>3. CASE Open(p) \/ Lock(p) \/ UpToDate(p) \/ Outdated(p) \/ Removed(p) \/ Mkdir(p)
      BY ZenonT(30), <3>3 DEF Open, Lock, UpToDate, Outdated, Removed, Mkdir
    <3>4. CASE Create(p) \/ Unlock(p) \/ Done(p)
      BY <3>4 DEF Create, Unlock, Done
    <3> QED BY <2>1, <3>1, <3>2, <3>3, <3>4 DEF Step
  <2>2. ASSUME NEW p \in Proc, Fault(p) PROVE TypeOK'
    BY <2>2 DEF Fault, LockFails, CreateFails, Killed
  <2>3. CASE AllEnded
    BY <2>3 DEF AllEnded, vars
  <2>4. CASE UNCHANGED vars
    BY <2>4 DEF vars
  <2> QED BY <1>2, <2>1, <2>2, <2>3, <2>4 DEF Next
<1> QED BY <1>1, <1>2

\* flock excludes: LockInv holds at first and every action keeps it.
LEMMA LockStep ==
    /\ Init => LockInv
    /\ TypeOK /\ LockInv /\ [Next]_vars => LockInv'
<1>1. Init => LockInv
  BY SpecialDirAssumption DEF Init, LockInv, Inside
<1>2. ASSUME TypeOK, LockInv, [Next]_vars PROVE LockInv'
  <2> USE <1>2, SpecialDirAssumption DEF TypeOK, LockInv, Inside, At, Goto
  <2>1. ASSUME NEW p \in Proc, Step(p) PROVE LockInv'
    BY <2>1 DEF Step, Open, Lock, UpToDate, Outdated, Removed, Mkdir, Create,
                Truncate, Unlock, Close, Done
  <2>2. ASSUME NEW p \in Proc, Fault(p) PROVE LockInv'
    BY <2>2 DEF Fault, LockFails, CreateFails, Killed
  <2>3. CASE AllEnded
    BY <2>3 DEF AllEnded, vars
  <2>4. CASE UNCHANGED vars
    BY <2>4 DEF vars
  <2> QED BY <1>2, <2>1, <2>2, <2>3, <2>4 DEF Next
<1> QED BY <1>1, <1>2

\* Processes of one release keep FileInv, each action in turn.
LEMMA FileStep ==
    ASSUME \A p, q \in Proc : VersionOf[p] = VersionOf[q],
           TypeOK, LockInv, FileInv, [Next]_vars
    PROVE  FileInv'
<1> USE SpecialDirAssumption DEF TypeOK, LockInv, Inside, FileInv, Vouched, At, Goto
<1>0. CASE overtaken'
  BY <1>0
<1> SUFFICES ASSUME ~overtaken' PROVE FileInv'
  BY <1>0
<1>1. ASSUME NEW p \in Proc, Open(p) PROVE FileInv'
  BY <1>1 DEF Open
<1>2. ASSUME NEW p \in Proc, Lock(p) PROVE FileInv'
  BY ZenonT(30), <1>2 DEF Lock
<1>3. ASSUME NEW p \in Proc, UpToDate(p) PROVE FileInv'
  BY <1>3 DEF UpToDate
<1>4. ASSUME NEW p \in Proc, Outdated(p) PROVE FileInv'
  BY <1>4 DEF Outdated
<1>5. ASSUME NEW p \in Proc, Removed(p) PROVE FileInv'
  BY <1>5 DEF Removed
<1>6. ASSUME NEW p \in Proc, Mkdir(p) PROVE FileInv'
  BY <1>6 DEF Mkdir
<1>7. ASSUME NEW p \in Proc, Create(p) PROVE FileInv'
  BY <1>7 DEF Create
<1>8. ASSUME NEW p \in Proc, Truncate(p) PROVE FileInv'
  BY <1>8 DEF Truncate
<1>9. ASSUME NEW p \in Proc, Unlock(p) PROVE FileInv'
  BY <1>9 DEF Unlock
<1>10. ASSUME NEW p \in Proc, Close(p) PROVE FileInv'
  <2>1. CASE p \in buffer
    <3>1. version_file = <<>> /\ version_file' = <<VersionOf[p]>>
      <4>1. version_file = <<>>
        BY <1>10, <2>1 DEF Close
      <4>2. version_file' = Append(<<>>, VersionOf[p])
        BY <1>10, <2>1, <4>1 DEF Close
      <4>3. \A v : Append(<<>>, v) = <<v>>
        OBVIOUS
      <4> QED BY <4>1, <4>2, <4>3
    <3>2. version_file' # <<>>
      BY <3>1
    <3>3. buffer' = {} /\ dir' = dir /\ lock' = lock /\ pc' = [pc EXCEPT ![p] = "using"]
      BY <1>10, <2>1 DEF Close
    <3> QED BY <1>10, <2>1, <3>1, <3>2, <3>3 DEF Close
  <2>2. CASE p \notin buffer
    BY <1>10, <2>2 DEF Close
  <2> QED BY <2>1, <2>2
<1>11. ASSUME NEW p \in Proc, Done(p) PROVE FileInv'
  BY <1>11 DEF Done
<1>12. ASSUME NEW p \in Proc, LockFails(p) PROVE FileInv'
  BY <1>12 DEF LockFails
<1>13. ASSUME NEW p \in Proc, CreateFails(p) PROVE FileInv'
  BY <1>13 DEF CreateFails
<1>14. ASSUME NEW p \in Proc, Killed(p) PROVE FileInv'
  BY <1>14 DEF Killed
<1>15. CASE AllEnded
  BY <1>15 DEF AllEnded, vars
<1>16. CASE UNCHANGED vars
  BY <1>16 DEF vars
<1> QED
  BY Zenon, <1>1, <1>2, <1>3, <1>4, <1>5, <1>6, <1>7, <1>8, <1>9, <1>10, <1>11, <1>12,
     <1>13, <1>14, <1>15, <1>16 DEF Next, Step, Fault

\* Type correctness of setup_special_dir.
THEOREM TypeCorrect == Spec => []TypeOK
  BY TypeStep, PTL DEF Spec

(***************************************************************************)
(* However many processes of one release share BUILDDIR and whichever of   *)
(* them are killed, a directory that setup_special_dir returned stays      *)
(* complete while it is in use, unless a process took the lock before      *)
(* another had flushed its version.                                        *)
(***************************************************************************)
THEOREM UsersHaveLayerCorrect ==
    ASSUME \A p, q \in Proc : VersionOf[p] = VersionOf[q]
    PROVE  Spec => []UsersHaveLayer
<1> DEFINE Inv == TypeOK /\ LockInv /\ FileInv
<1>1. Init => Inv
  BY TypeStep, LockStep, SpecialDirAssumption DEF Init, FileInv, Vouched
<1>2. Inv /\ [Next]_vars => Inv'
  BY TypeStep, LockStep, FileStep
<1>3. Inv => UsersHaveLayer
  BY DEF TypeOK, FileInv, LockInv, Inside, Vouched, UsersHaveLayer
<1> QED BY <1>1, <1>2, <1>3, PTL DEF Spec
=============================================================================
