------------------------------ MODULE Sandbox ------------------------------
(***************************************************************************)
(* The mounts of a sandbox: buildInSandbox makes them one after the other  *)
(* and defers the unmounting of each, Deferred undoes them in reverse      *)
(* order however the with statement is left, and main() finally unmounts   *)
(* whatever is mounted below BUILDDIR (rescue_unmount_all_pbuild).         *)
(*                                                                         *)
(* The mounts are those of the host: they outlive a pbuild that is killed, *)
(* and several processes see each other's.  A path names the mount that is *)
(* on top there, and mnt/dev is looked up below the mnt that is on top.    *)
(***************************************************************************)
EXTENDS Naturals, Sequences, FiniteSets, SequencesExt

CONSTANTS
    Proc,           \* pbuild processes; each is one invocation
    NoProc,
    Pkg,            \* packages
    Setups,         \* bounds: how many processes and packages there are, and how many
                    \*   processes run at a time
    Kills           \* TRUE: a process may be killed

ASSUME SandboxAssumption ==
    /\ NoProc \notin Proc /\ Kills \in BOOLEAN
    /\ Setups \subseteq [procs : Nat, pkgs : Nat, alive : Nat]

(***************************************************************************)
(* The mounts in the order they are made, one of each kind: the overlay    *)
(* that is the root, the overlay of SRCROOT, the bind mounts of host       *)
(* directories, the overlay of an ARCHDEPENDS beside mnt and its read-only *)
(* bind mount in it, and the shared directory.                             *)
(***************************************************************************)
Mountpoints == <<"mnt", "mnt/p", "mnt/dev", "archdep", "mnt/arch", "mnt/build/shared">>
Overlays == {"mnt", "mnt/p", "archdep"}
Within == {"mnt/p", "mnt/dev", "mnt/arch", "mnt/build/shared"}
ReadOnlyBinds == {"mnt/arch"}

VARIABLES
    mounts,         \* /proc/self/mounts, as far as it is below BUILDDIR
    pc,             \* what each process is doing
    pkg,            \* the package it builds
    left,           \* the packages it has yet to build
    finalizers,     \* Deferred.finalizers
    outcome,        \* how the with statement is left: "ok", "fails" or "raises"
    listed,         \* mountpoints of rescue_unmount_all_pbuild
    after,          \* where it returns to
    setup,          \* the setup, which never changes
    alone,          \* history: processes that have had no other beside them
    crowded         \* history: two processes have been running at once

rescue == <<listed, after>>
local == <<pkg, left, finalizers, outcome, rescue>>
history == <<setup, alone, crowded>>
vars == <<mounts, pc, local, history>>

Running(p) == pc[p] \notin {"new", "done", "killed"}

\* A process that takes no part is done from the start.
Init ==
    /\ mounts = <<>>
    /\ setup \in Setups
    /\ pc \in [Proc -> {"new", "done"}]
    /\ Cardinality({p \in Proc : pc[p] = "new"}) = setup.procs
    /\ \E ks \in SUBSET Pkg, k \in Pkg :
          /\ Cardinality(ks) = setup.pkgs /\ k \in ks
          /\ left = [p \in Proc |-> ks]
          /\ pkg = [p \in Proc |-> k]
    /\ finalizers = [p \in Proc |-> <<>>]
    /\ outcome = [p \in Proc |-> "ok"]
    /\ listed = [p \in Proc |-> <<>>]
    /\ after = [p \in Proc |-> "done"]
    /\ alone = {}
    /\ crowded = FALSE

-----------------------------------------------------------------------------
(***************************************************************************)
(* mount(2) and umount2(2) with MNT_DETACH.  A mount records where it is:  *)
(* on is the process whose root it lies in, NoProc when it lies in none.   *)
(***************************************************************************)
LastIndex(ms, k, dir, on) ==
    SelectLastInSeq(ms, LAMBDA m : m.pkg = k /\ m.dir = dir /\ (dir = "mnt" \/ m.on = on))

\* The process whose root is on top at mnt.
Root(ms, k) ==
    LET i == LastIndex(ms, k, "mnt", NoProc) IN IF i = 0 THEN NoProc ELSE ms[i].by

Where(ms, k, dir) == IF dir \in Within THEN Root(ms, k) ELSE NoProc

IsMount(ms, k, dir) == LastIndex(ms, k, dir, Where(ms, k, dir)) # 0

Mounted(ms, p, k, dir) == Append(ms, [pkg |-> k, dir |-> dir, by |-> p, on |-> Where(ms, k, dir)])

\* A root takes the mounts in it along.
Detached(ms, k, dir) ==
    LET i == LastIndex(ms, k, dir, Where(ms, k, dir))
        gone(m) == m = ms[i] \/ (dir = "mnt" /\ m.pkg = k /\ m.dir \in Within /\ m.on = ms[i].by)
    IN  IF i = 0 THEN ms ELSE SelectSeq(ms, LAMBDA m : ~gone(m))

\* rescue_unmount_all_pbuild: read /proc/self/mounts, then unmount each path
\* that was listed, from the last to the first.  umount2 on a path where nothing
\* is mounted any more fails, and is given up.
ReadMounts(p, next) ==
    /\ listed' = [listed EXCEPT ![p] = [i \in DOMAIN mounts |-> <<mounts[i].pkg, mounts[i].dir>>]]
    /\ after' = [after EXCEPT ![p] = next]
    /\ pc' = [pc EXCEPT ![p] = "rescue"]
    /\ UNCHANGED mounts

UnmountListed(p) ==
    /\ pc[p] = "rescue"
    /\ listed[p] # <<>>
    /\ mounts' = Detached(mounts, Last(listed[p])[1], Last(listed[p])[2])
    /\ listed' = [listed EXCEPT ![p] = Front(@)]
    /\ UNCHANGED <<pc, pkg, left, finalizers, outcome, after, history>>

Rescued(p) ==
    /\ pc[p] = "rescue"
    /\ listed[p] = <<>>
    /\ pc' = [pc EXCEPT ![p] = after[p]]
    /\ UNCHANGED <<mounts, local, history>>

\* unmount(target)
Unmount(p, dir, next) ==
    \/ /\ IsMount(mounts, pkg[p], dir)
       /\ mounts' = Detached(mounts, pkg[p], dir)
       /\ pc' = [pc EXCEPT ![p] = next]
       /\ UNCHANGED rescue
    \/ ~IsMount(mounts, pkg[p], dir) /\ ReadMounts(p, next)

-----------------------------------------------------------------------------
(***************************************************************************)
(* An invocation, and the way of a package into its sandbox.               *)
(***************************************************************************)
Others(p) == {q \in Proc \ {p} : Running(q)}

Start(p) ==
    /\ pc[p] = "new"
    /\ Cardinality(Others(p)) < setup.alive
    /\ pc' = [pc EXCEPT ![p] = "ready"]
    /\ alone' = IF Others(p) = {} THEN alone \cup {p} ELSE alone \ Others(p)
    /\ crowded' = (crowded \/ Others(p) # {})
    /\ UNCHANGED <<mounts, local, setup>>

\* build_pkgs gets to a package; with --clean its build directory is removed.
Enter(p, k, clean) ==
    /\ pc[p] = "ready"
    /\ k \in left[p]
    /\ pkg' = [pkg EXCEPT ![p] = k]
    /\ left' = [left EXCEPT ![p] = @ \ {k}]
    /\ outcome' = [outcome EXCEPT ![p] = "ok"]
    /\ pc' = [pc EXCEPT ![p] = IF clean THEN "clean" ELSE "mounting"]
    /\ UNCHANGED <<mounts, finalizers, rescue, history>>

\* rm -rf has run.  It cannot remove what is mounted, only what is in there.
Cleaned(p) ==
    /\ pc[p] = "clean"
    /\ pc' = [pc EXCEPT ![p] = "mounting"]
    /\ UNCHANGED <<mounts, local, history>>

\* The next directory to be mounted.
Target(p) == Mountpoints[1 + Len(SelectSeq(finalizers[p], LAMBDA f : f # "rm archdep"))]

\* defer(rmtree, archdepdir) comes before the overlay is mounted.
Before(dir) == IF dir = "archdep" THEN <<"rm archdep">> ELSE <<>>

\* Mutant: what is mounted already is not mounted again.
Mount_Mut(p) ==
    /\ pc[p] = "mounting"
    /\ mounts' = IF IsMount(mounts, pkg[p], Target(p)) THEN mounts
                 ELSE Mounted(mounts, p, pkg[p], Target(p))
    /\ finalizers' = [finalizers EXCEPT ![p] = @ \o Before(Target(p)) \o <<Target(p)>>]
    /\ pc' = [pc EXCEPT ![p] = IF Target(p) = Last(Mountpoints) THEN "script" ELSE "mounting"]
    /\ UNCHANGED <<pkg, left, outcome, rescue, history>>

\* Mutant: the overlay of an ARCHDEPENDS is removed first and unmounted then.
Mount_Mut2(p) ==
    /\ pc[p] = "mounting"
    /\ mounts' = Mounted(mounts, p, pkg[p], Target(p))
    /\ finalizers' = [finalizers EXCEPT ![p] = @ \o <<Target(p)>> \o Before(Target(p))]
    /\ pc' = [pc EXCEPT ![p] = IF Target(p) = Last(Mountpoints) THEN "script" ELSE "mounting"]
    /\ UNCHANGED <<pkg, left, outcome, rescue, history>>

Mount(p) ==
    /\ pc[p] = "mounting"
    /\ mounts' = Mounted(mounts, p, pkg[p], Target(p))
    /\ finalizers' = [finalizers EXCEPT ![p] = @ \o Before(Target(p)) \o <<Target(p)>>]
    /\ pc' = [pc EXCEPT ![p] = IF Target(p) = Last(Mountpoints) THEN "script" ELSE "mounting"]
    /\ UNCHANGED <<pkg, left, outcome, rescue, history>>

\* mount(2) fails, or the remount that makes a bind mount read-only: then the
\* mount is there and its unmounting is not deferred.
MountFails(p, remount) ==
    /\ pc[p] = "mounting"
    /\ remount => Target(p) \in ReadOnlyBinds
    /\ mounts' = IF remount THEN Mounted(mounts, p, pkg[p], Target(p)) ELSE mounts
    /\ finalizers' = [finalizers EXCEPT ![p] = @ \o Before(Target(p))]
    /\ outcome' = [outcome EXCEPT ![p] = "raises"]
    /\ pc' = [pc EXCEPT ![p] = "unwinding"]
    /\ UNCHANGED <<pkg, left, rescue, history>>

\* make, the script or the shell ends, or Ctrl-C interrupts it.
ScriptEnds(p, how) ==
    /\ pc[p] = "script"
    /\ outcome' = [outcome EXCEPT ![p] = how]
    /\ pc' = [pc EXCEPT ![p] = "unwinding"]
    /\ UNCHANGED <<mounts, pkg, left, finalizers, rescue, history>>

-----------------------------------------------------------------------------
(***************************************************************************)
(* Deferred.__exit__, one finalizer at a time.                             *)
(***************************************************************************)
\* Whether rmdir succeeds.  What several processes at once have left in the
\* directories is not modelled: then it may fail.
RmdirResults(ms, k, dir) ==
    CASE IsMount(ms, k, dir) -> {FALSE}
      [] ~IsMount(ms, k, dir) /\ ~crowded -> {TRUE}
      [] ~IsMount(ms, k, dir) /\ crowded -> BOOLEAN

Popped(p) == finalizers' = [finalizers EXCEPT ![p] = Front(@)]

Unwinding(p) == pc[p] = "unwinding" /\ finalizers[p] # <<>>

\* OverlayFS.unmount and unmount_and_rmdir: first the mount goes, then the
\* directory.
UnmountDeferred(p) ==
    /\ Unwinding(p)
    /\ Last(finalizers[p]) # "rm archdep"
    /\ Unmount(p, Last(finalizers[p]), "rmdir")
    /\ UNCHANGED <<pkg, left, finalizers, outcome, history>>

\* When rmdir fails, OverlayFS.unmount unmounts once more; the exception of
\* unmount_and_rmdir is kept until the other finalizers have run.
Rmdir(p) ==
    /\ pc[p] = "rmdir"
    /\ LET dir == Last(finalizers[p])
       IN  \E ok \in RmdirResults(mounts, pkg[p], dir) :
              \/ /\ ~ok /\ dir \in Overlays
                 /\ pc' = [pc EXCEPT ![p] = "again"]
                 /\ UNCHANGED <<finalizers, outcome>>
              \/ /\ ok \/ dir \notin Overlays
                 /\ outcome' = IF ok THEN outcome ELSE [outcome EXCEPT ![p] = "raises"]
                 /\ pc' = [pc EXCEPT ![p] = "unwinding"]
                 /\ Popped(p)
    /\ UNCHANGED <<mounts, pkg, left, rescue, history>>

\* Whether the second rmdir fails is ignored.
UnmountAgain(p) ==
    /\ pc[p] = "again"
    /\ Unmount(p, Last(finalizers[p]), "unwinding")
    /\ Popped(p)
    /\ UNCHANGED <<pkg, left, outcome, history>>

RemoveArchdep(p) ==
    /\ Unwinding(p)
    /\ Last(finalizers[p]) = "rm archdep"
    /\ Popped(p)
    /\ UNCHANGED <<mounts, pc, pkg, left, outcome, rescue, history>>

\* Mutant: a failed build does not get to the end of main().
Unwound_Mut(p) ==
    /\ pc[p] = "unwinding"
    /\ finalizers[p] = <<>>
    /\ pc' = [pc EXCEPT ![p] = IF outcome[p] = "ok" THEN "outside" ELSE outcome[p]]
    /\ UNCHANGED <<mounts, local, history>>

\* The end of the with statement: buildInSandbox goes on, or the invocation ends.
Unwound(p) ==
    /\ pc[p] = "unwinding"
    /\ finalizers[p] = <<>>
    /\ pc' = [pc EXCEPT ![p] = IF outcome[p] = "ok" THEN "outside" ELSE "ending"]
    /\ UNCHANGED <<mounts, local, history>>

\* The rest of buildInSandbox: _out_distroot and, with --cleanup, mnt are removed.
Cleanup(p) ==
    /\ pc[p] = "outside"
    /\ pc' = [pc EXCEPT ![p] = "ready"]
    /\ UNCHANGED <<mounts, local, history>>

\* Mutant: main() does not call rescue_unmount_all_pbuild.
Exit_Mut(p) ==
    /\ pc[p] \in {"ready", "ending"}
    /\ pc' = [pc EXCEPT ![p] = "done"]
    /\ UNCHANGED <<mounts, local, history>>

\* main(): finally.
Exit(p) ==
    /\ pc[p] \in {"ready", "ending"}
    /\ ReadMounts(p, "done")
    /\ UNCHANGED <<pkg, left, finalizers, outcome, history>>

\* SIGKILL: the mounts stay.
Killed(p) ==
    /\ Kills
    /\ Running(p)
    /\ pc' = [pc EXCEPT ![p] = "killed"]
    /\ finalizers' = [finalizers EXCEPT ![p] = <<>>]
    /\ outcome' = [outcome EXCEPT ![p] = "ok"]
    /\ left' = [left EXCEPT ![p] = {}]
    /\ listed' = [listed EXCEPT ![p] = <<>>]
    /\ UNCHANGED <<mounts, pkg, after, history>>

AllEnded == (\A p \in Proc : pc[p] \in {"done", "killed"}) /\ UNCHANGED vars

Step(p) ==
    \/ \E k \in Pkg, clean \in BOOLEAN : Enter(p, k, clean)
    \/ Cleaned(p) \/ Mount(p) \/ \E remount \in BOOLEAN : MountFails(p, remount)
    \/ \E how \in {"ok", "fails", "raises"} : ScriptEnds(p, how)
    \/ UnmountDeferred(p) \/ Rmdir(p) \/ UnmountAgain(p) \/ RemoveArchdep(p) \/ Unwound(p)
    \/ Cleanup(p) \/ Exit(p) \/ UnmountListed(p) \/ Rescued(p)

Next == (\E p \in Proc : Start(p) \/ Step(p) \/ Killed(p)) \/ AllEnded

Spec == Init /\ [][Next]_vars

-----------------------------------------------------------------------------
TypeOK ==
    /\ mounts \in Seq([pkg : Pkg, dir : Range(Mountpoints), by : Proc, on : Proc \cup {NoProc}])
    /\ pc \in [Proc -> {"new", "ready", "clean", "mounting", "script", "unwinding",
                        "rmdir", "again", "outside", "ending", "rescue", "done", "killed"}]
    /\ pkg \in [Proc -> Pkg]
    /\ left \in [Proc -> SUBSET Pkg]
    /\ finalizers \in [Proc -> Seq(Range(Mountpoints) \cup {"rm archdep"})]
    /\ outcome \in [Proc -> {"ok", "fails", "raises"}]
    /\ listed \in [Proc -> Seq(Pkg \X Range(Mountpoints))]
    /\ after \in [Proc -> {"rmdir", "unwinding", "done"}]
    /\ setup \in Setups
    /\ alone \subseteq Proc
    /\ crowded \in BOOLEAN

(***************************************************************************)
(* While the script of a package runs, every directory of its sandbox is   *)
(* the one this invocation mounted, whatever a killed one has left mounted *)
(* below, as long as no other pbuild runs beside it.  (Another one that    *)
(* ends unmounts everything.)                                              *)
(***************************************************************************)
SandboxIntact ==
    \A p \in alone : pc[p] = "script" =>
        \A dir \in Range(Mountpoints) :
            LET i == LastIndex(mounts, pkg[p], dir, Where(mounts, pkg[p], dir))
            IN  i # 0 /\ mounts[i].by = p

(***************************************************************************)
(* rm -rf, of the build directory (--clean), of archdep, and of what is    *)
(* removed outside the with statement, never meets a mount, as long as no  *)
(* pbuild was killed and no other runs beside this one: on every way out   *)
(* of the with statement what is mounted is unmounted first.               *)
(***************************************************************************)
RemovesUnmounted ==
    (\A q \in Proc : pc[q] # "killed") =>
        \A p \in alone :
            /\ pc[p] \in {"clean", "outside"} => \A m \in Range(mounts) : m.pkg # pkg[p]
            /\ Unwinding(p) /\ Last(finalizers[p]) = "rm archdep" =>
                   \A m \in Range(mounts) : ~(m.pkg = pkg[p] /\ m.dir = "archdep")

(***************************************************************************)
(* When pbuild ends by itself nothing is mounted below BUILDDIR: neither   *)
(* its own mounts, those of a step that failed included, nor those a       *)
(* killed invocation has left, in whatever order they lie on each other.   *)
(* (Not when another one runs beside it, which may mount after the list    *)
(* was read.)                                                              *)
(***************************************************************************)
NothingLeftMounted ==
    [][\A p \in alone : pc[p] # "done" /\ pc'[p] = "done" => mounts' = <<>>]_vars

(***************************************************************************)
(* "do the following actions _outside_ deferred to make sure filesystems   *)
(* are not mounted" (comment in buildInSandbox): what is removed after the *)
(* with statement is removed when nothing of the package is mounted.       *)
(***************************************************************************)
UnmountedOutside ==
    \A p \in Proc : pc[p] = "outside" => \A m \in Range(mounts) : m.pkg # pkg[p]
=============================================================================
