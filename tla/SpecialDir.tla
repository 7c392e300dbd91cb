----------------------------- MODULE SpecialDir -----------------------------
(***************************************************************************)
(* setup_special_dir: the directories that every sandbox has as a layer    *)
(* (whiteout, baselayer, bootstrap) are made once and kept in BUILDDIR.    *)
(* Beside each of them is a file with the version it was made for, which   *)
(* is also the lock that the pbuild processes sharing BUILDDIR take.       *)
(*                                                                         *)
(* The file is open in append mode.  What a process writes to it sits in   *)
(* its buffer until it closes the file, and by then it has unlocked it.    *)
(***************************************************************************)
EXTENDS Naturals, Sequences, FiniteSets

CONSTANTS
    Proc,           \* pbuild processes; each of them needs the directory once
    Version,        \* the values of version in the releases of pbuild in use
    VersionOf,      \* the release each process runs
    NoProc,         \* the lock is free
    Absent, Partial \* states of the directory; a complete one is a Version

ASSUME SpecialDirAssumption ==
    /\ VersionOf \in [Proc -> Version]
    /\ NoProc \notin Proc
    /\ Absent # Partial
    /\ {Absent, Partial} \cap Version = {}

VARIABLES
    pc,             \* where each process is in setup_special_dir
    lock,           \* the process that holds the flock
    version_file,   \* what the file contains
    buffer,         \* the processes with a version in their buffer
    dir,            \* the directory
    overtaken       \* history: the lock was taken while a version was in a buffer

vars == <<pc, lock, version_file, buffer, dir, overtaken>>

Init ==
    /\ pc = [p \in Proc |-> "start"]
    /\ lock = NoProc
    /\ version_file = <<>>
    /\ buffer = {}
    /\ dir = Absent
    /\ overtaken = FALSE

At(p, here) == pc[p] = here
Goto(p, there) == pc' = [pc EXCEPT ![p] = there]

-----------------------------------------------------------------------------
\* version_file.open('a+')
Open(p) ==
    /\ At(p, "start")
    /\ Goto(p, "waiting")
    /\ UNCHANGED <<lock, version_file, buffer, dir, overtaken>>

\* Mutant: the call of flock is left out.
Lock_Mut(p) ==
    /\ At(p, "waiting")
    /\ Goto(p, "locked")
    /\ overtaken' = (overtaken \/ buffer # {})
    /\ UNCHANGED <<lock, version_file, buffer, dir>>

Lock(p) ==
    /\ At(p, "waiting")
    /\ lock = NoProc
    /\ lock' = p
    /\ Goto(p, "locked")
    /\ overtaken' = (overtaken \/ buffer # {})
    /\ UNCHANGED <<version_file, buffer, dir>>

\* flock fails: the handler names a variable that does not exist, and raises.
LockFails(p) ==
    /\ At(p, "waiting")
    /\ Goto(p, "failed")
    /\ UNCHANGED <<lock, version_file, buffer, dir, overtaken>>

\* The directory exists and the file has this version: "up to date".
UpToDate(p) ==
    /\ At(p, "locked")
    /\ dir # Absent
    /\ version_file = <<VersionOf[p]>>
    /\ Goto(p, "uptodate")
    /\ UNCHANGED <<lock, version_file, buffer, dir, overtaken>>

\* The directory exists and the file has something else: rm -rf begins.
Outdated(p) ==
    /\ At(p, "locked")
    /\ dir # Absent
    /\ version_file # <<VersionOf[p]>>
    /\ dir' = Partial
    /\ Goto(p, "removing")
    /\ UNCHANGED <<lock, version_file, buffer, overtaken>>

Removed(p) ==
    /\ At(p, "removing")
    /\ dir' = Absent
    /\ Goto(p, "locked")
    /\ UNCHANGED <<lock, version_file, buffer, overtaken>>

\* dir.mkdir
Mkdir(p) ==
    /\ At(p, "locked")
    /\ dir = Absent
    /\ dir' = Partial
    /\ Goto(p, "creating")
    /\ UNCHANGED <<lock, version_file, buffer, overtaken>>

\* create_function, for one of the three directories
Create(p) ==
    /\ At(p, "creating")
    /\ dir' = VersionOf[p]
    /\ Goto(p, "created")
    /\ UNCHANGED <<lock, version_file, buffer, overtaken>>

\* A copy or the chroot of create_function raises: unlock and close, no version.
CreateFails(p) ==
    /\ At(p, "creating")
    /\ lock' = NoProc
    /\ Goto(p, "failed")
    /\ UNCHANGED <<version_file, buffer, dir, overtaken>>

\* version_fp.truncate(0) and version_fp.write
Truncate(p) ==
    /\ At(p, "created")
    /\ version_file' = <<>>
    /\ buffer' = buffer \cup {p}
    /\ Goto(p, "written")
    /\ UNCHANGED <<lock, dir, overtaken>>

\* Mutant: the lock is kept.
Unlock_Mut(p) ==
    /\ pc[p] \in {"uptodate", "written"}
    /\ Goto(p, "closing")
    /\ UNCHANGED <<lock, version_file, buffer, dir, overtaken>>

\* finally: LOCK_UN
Unlock(p) ==
    /\ pc[p] \in {"uptodate", "written"}
    /\ lock' = NoProc
    /\ Goto(p, "closing")
    /\ UNCHANGED <<version_file, buffer, dir, overtaken>>

\* Mutant: what is written is the state of the directory.
Close_Mut(p) ==
    /\ At(p, "closing")
    /\ version_file' = IF p \in buffer THEN Append(version_file, dir) ELSE version_file
    /\ buffer' = buffer \ {p}
    /\ Goto(p, "using")
    /\ UNCHANGED <<lock, dir, overtaken>>

\* version_fp.close(), which appends what is in the buffer; the caller goes on.
Close(p) ==
    /\ At(p, "closing")
    /\ version_file' = IF p \in buffer THEN Append(version_file, VersionOf[p]) ELSE version_file
    /\ buffer' = buffer \ {p}
    /\ Goto(p, "using")
    /\ UNCHANGED <<lock, dir, overtaken>>

\* The sandbox that has the directory as a layer is taken down.
Done(p) ==
    /\ At(p, "using")
    /\ Goto(p, "done")
    /\ UNCHANGED <<lock, version_file, buffer, dir, overtaken>>

\* The process is killed; the kernel closes its files, the buffer is lost.
Killed(p) ==
    /\ pc[p] \notin {"start", "done", "failed"}
    /\ lock' = IF lock = p THEN NoProc ELSE lock
    /\ buffer' = buffer \ {p}
    /\ Goto(p, "failed")
    /\ UNCHANGED <<version_file, dir, overtaken>>

Step(p) ==
    \/ Open(p) \/ Lock(p) \/ UpToDate(p) \/ Outdated(p) \/ Removed(p) \/ Mkdir(p)
    \/ Create(p) \/ Truncate(p) \/ Unlock(p) \/ Close(p) \/ Done(p)

Fault(p) == LockFails(p) \/ CreateFails(p) \/ Killed(p)

\* Every process has ended.
AllEnded == (\A p \in Proc : pc[p] \in {"done", "failed"}) /\ UNCHANGED vars

Next == (\E p \in Proc : Step(p) \/ Fault(p)) \/ AllEnded

Spec == Init /\ [][Next]_vars

\* Every process is scheduled.  Each calls setup_special_dir once, so a process
\* that waits for the lock is not passed over forever; faults are never forced.
FairSpec == Spec /\ \A p \in Proc : WF_vars(Step(p))

-----------------------------------------------------------------------------
TypeOK ==
    /\ pc \in [Proc -> {"start", "waiting", "locked", "uptodate", "removing", "creating",
                        "created", "written", "closing", "using", "done", "failed"}]
    /\ lock \in Proc \cup {NoProc}
    /\ version_file \in Seq(Version)
    /\ buffer \subseteq Proc
    /\ dir \in Version \cup {Absent, Partial}
    /\ overtaken \in BOOLEAN

(***************************************************************************)
(* With one release of pbuild, and as long as no process locks the file    *)
(* while the version of another is still in its buffer, a directory that   *)
(* setup_special_dir returned is complete and stays so while it is in use: *)
(* whichever processes were killed, and wherever, the version in the file  *)
(* vouches for a complete directory, and nobody removes it.                *)
(***************************************************************************)
UsersHaveLayer ==
    ~overtaken => \A p \in Proc : pc[p] \in {"uptodate", "closing", "using"} => dir = VersionOf[p]

(***************************************************************************)
(* "# up to date" (the comment in setup_special_dir): a process that finds *)
(* its version in the file finds the directory of that version, complete.  *)
(***************************************************************************)
UpToDateIsComplete ==
    \A p \in Proc : pc[p] = "uptodate" => dir = VersionOf[p]

(***************************************************************************)
(* Every process gets through setup_special_dir, or ends: a process that   *)
(* dies inside never blocks the others.                                    *)
(***************************************************************************)
CallReturns ==
    \A p \in Proc : pc[p] = "waiting" ~> pc[p] \in {"using", "failed"}
=============================================================================
