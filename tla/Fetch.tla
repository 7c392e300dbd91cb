------------------------------- MODULE Fetch -------------------------------
(***************************************************************************)
(* The build scripts of ports, which run inside the sandbox: bin/download  *)
(* and the functions of pbuild.lib.sh that fetch, unpack, patch and        *)
(* configure a source tree.  Scripts share a download directory and are    *)
(* killed, fail, are edited and are run again; every script has a BUILDDIR *)
(* that outlives its runs, and files in it say what was done.              *)
(***************************************************************************)
EXTENDS Naturals

CONSTANTS
    Scripts,        \* the scripts of ports that use the same source, each with its BUILDDIR
    Version,        \* the versions a script may name: a URL, a checksum and an archive file
    Patch,          \* the last of the patches 1..Patch in the directory of the port
    MaxFaults,      \* bound: how many runs fail or are killed
    MaxEdits        \* bound: how many edits and cleanups there are

ASSUME FetchAssumption == {Patch, MaxFaults, MaxEdits} \subseteq Nat

VARIABLES
    archive,        \* the archive of each version: "none", "good" (the checksum fits) or "bad"
    extra,          \* the file of each version that is fetched without a checksum:
                    \*   "none", "part" or "whole"
    disturbed,      \* history: the versions for which a transfer of that file was cut
                    \*   short, or was still going on when another script met the file
    builddir,       \* the BUILDDIR of each script
    run,            \* the run of each script
    version,        \* the version that each script names
    edited,         \* history: the scripts that name another version than when they unpacked
    faults, edits   \* how many faults and edits there were

vars == <<archive, extra, disturbed, builddir, run, version, edited, faults, edits>>
counts == <<version, edited, faults, edits>>

(***************************************************************************)
(* A BUILDDIR.  files: the versions whose files are there; whole: one of   *)
(* them was unpacked to the end; applied: of each patch, "no", "half" or   *)
(* "yes"; also: the same of the extra file, or "cut", if a part of it was  *)
(* taken for the whole; the marks; and torn, TRUE after a cleanup of it    *)
(* was cut short.                                                          *)
(***************************************************************************)
Mark == {"unpacked", "patched", "ran", "configured"}
Empty == [files |-> {}, whole |-> FALSE, applied |-> [i \in 1..Patch |-> "no"],
          also |-> "no", marks |-> {}, torn |-> FALSE]

Idle == [pc |-> "idle", temp |-> "none", next |-> 1]

Init ==
    /\ archive \in [Version -> {"none", "bad"}]
    /\ extra = [v \in Version |-> "none"]
    /\ disturbed = {}
    /\ builddir = [s \in Scripts |-> Empty]
    /\ run = [s \in Scripts |-> Idle]
    /\ version \in [Scripts -> Version]
    /\ edited = {}
    /\ faults = 0 /\ edits = 0

At(s, pc) == run[s].pc = pc
Goto(s, pc) == run' = [run EXCEPT ![s].pc = pc]

\* set -e: a command that fails ends the script; the trap removes the temporary file.
Exit(s) == run' = [run EXCEPT ![s] = Idle]

Has(s, mark) == mark \in builddir[s].marks
Touch(s, mark) == builddir' = [builddir EXCEPT ![s].marks = @ \cup {mark}]

(***************************************************************************)
(* pbuild_fetch_and_unpack.                                                *)
(***************************************************************************)
Start(s) ==
    /\ At(s, "idle")
    /\ Goto(s, IF Has(s, "unpacked") THEN "patches" ELSE "download")
    /\ UNCHANGED <<archive, extra, disturbed, builddir, counts>>

\* download --sha256: a file that is there is used if its checksum fits,
Download(s) ==
    /\ At(s, "download")
    /\ Goto(s, IF archive[version[s]] = "good" THEN "remove" ELSE "fetch")
    /\ UNCHANGED <<archive, extra, disturbed, builddir, counts>>

\* and is fetched to a temporary file otherwise; what the server sends may be wrong.
Fetch(s) ==
    /\ At(s, "fetch")
    /\ \E c \in {"good", "bad"} : run' = [run EXCEPT ![s].pc = "verify", ![s].temp = c]
    /\ UNCHANGED <<archive, extra, disturbed, builddir, counts>>

Verify_Mut(s) ==        \* the checksum is only logged
    /\ At(s, "verify")
    /\ Goto(s, "move")
    /\ UNCHANGED <<archive, extra, disturbed, builddir, counts>>

Verify(s) ==
    /\ At(s, "verify")
    /\ IF run[s].temp = "good" THEN Goto(s, "move") ELSE Exit(s)
    /\ UNCHANGED <<archive, extra, disturbed, builddir, counts>>

Move(s) ==
    /\ At(s, "move")
    /\ archive' = [archive EXCEPT ![version[s]] = run[s].temp]
    /\ run' = [run EXCEPT ![s].pc = "remove", ![s].temp = "none"]
    /\ UNCHANGED <<extra, disturbed, builddir, counts>>

\* rm -rf removes the files one by one; there is no stamp among them.
RemoveSome(s) ==
    /\ At(s, "remove")
    /\ builddir' = [builddir EXCEPT ![s].whole = FALSE]
    /\ UNCHANGED <<archive, extra, disturbed, run, counts>>

Remove_Mut(s) ==        \* unpacks over what is there
    /\ At(s, "remove")
    /\ edited' = edited \ {s}
    /\ Goto(s, "unpack")
    /\ UNCHANGED <<archive, extra, disturbed, builddir, version, faults, edits>>

Remove(s) ==
    /\ At(s, "remove")
    /\ builddir' = [builddir EXCEPT ![s] = Empty]
    /\ edited' = edited \ {s}
    /\ Goto(s, "unpack")
    /\ UNCHANGED <<archive, extra, disturbed, version, faults, edits>>

\* pbuild_unpack: the files appear one by one.
UnpackSome(s) ==
    /\ At(s, "unpack")
    /\ builddir' = [builddir EXCEPT ![s].files = @ \cup {version[s]}]
    /\ UNCHANGED <<archive, extra, disturbed, run, counts>>

Unpack(s) ==
    /\ At(s, "unpack")
    /\ builddir' = [builddir EXCEPT ![s].files = @ \cup {version[s]}, ![s].whole = TRUE]
    /\ Goto(s, "stamp")
    /\ UNCHANGED <<archive, extra, disturbed, counts>>

Stamp_Mut(s) ==         \* there is no stamp
    /\ At(s, "stamp")
    /\ Goto(s, "patches")
    /\ UNCHANGED <<archive, extra, disturbed, builddir, counts>>

Stamp(s) ==
    /\ At(s, "stamp")
    /\ Touch(s, "unpacked")
    /\ Goto(s, "patches")
    /\ UNCHANGED <<archive, extra, disturbed, counts>>

(***************************************************************************)
(* pbuild_apply_patches.                                                   *)
(***************************************************************************)
ApplyPatches(s) ==
    /\ At(s, "patches")
    /\ run' = [run EXCEPT ![s].pc = IF Has(s, "patched") THEN "once" ELSE "patch", ![s].next = 1]
    /\ UNCHANGED <<archive, extra, disturbed, builddir, counts>>

\* patch(1) refuses a patch of which it finds a part applied already.
PatchStart(s) ==
    /\ At(s, "patch") /\ run[s].next <= Patch
    /\ IF builddir[s].applied[run[s].next] = "no"
       THEN /\ builddir' = [builddir EXCEPT ![s].applied[run[s].next] = "half"]
            /\ Goto(s, "patching")
       ELSE Exit(s) /\ UNCHANGED builddir
    /\ UNCHANGED <<archive, extra, disturbed, counts>>

PatchEnd(s) ==
    /\ At(s, "patching")
    /\ builddir' = [builddir EXCEPT ![s].applied[run[s].next] = "yes"]
    /\ run' = [run EXCEPT ![s].pc = "patch", ![s].next = @ + 1]
    /\ UNCHANGED <<archive, extra, disturbed, counts>>

Patched(s) ==
    /\ At(s, "patch") /\ run[s].next > Patch
    /\ Touch(s, "patched")
    /\ Goto(s, "once")
    /\ UNCHANGED <<archive, extra, disturbed, counts>>

(***************************************************************************)
(* pbuild_run_once of a function that downloads and applies a file that    *)
(* has no checksum, as in the port of readline.                            *)
(***************************************************************************)
RunOnce_Mut(s) ==       \* the mark is made first
    /\ At(s, "once")
    /\ Goto(s, IF Has(s, "ran") THEN "configure" ELSE "download_extra")
    /\ Touch(s, "ran")
    /\ UNCHANGED <<archive, extra, disturbed, counts>>

RunOnce(s) ==
    /\ At(s, "once")
    /\ Goto(s, IF Has(s, "ran") THEN "configure" ELSE "download_extra")
    /\ UNCHANGED <<archive, extra, disturbed, builddir, counts>>

\* download without --sha256: a file that is there is used as it is,
DownloadExtra(s) ==
    LET v == version[s] IN
    /\ At(s, "download_extra")
    /\ Goto(s, IF extra[v] = "none" THEN "open_extra" ELSE "apply_extra")
    /\ disturbed' = IF extra[v] = "part" THEN disturbed \cup {v} ELSE disturbed
    /\ UNCHANGED <<archive, extra, builddir, counts>>

\* and is written in place otherwise, even if another script has made it since.
OpenExtra(s) ==
    LET v == version[s] IN
    /\ At(s, "open_extra")
    /\ extra' = [extra EXCEPT ![v] = "part"]
    /\ disturbed' = IF extra[v] # "none" THEN disturbed \cup {v} ELSE disturbed
    /\ Goto(s, "fetch_extra")
    /\ UNCHANGED <<archive, builddir, counts>>

\* Another transfer to the same file leaves holes until it ends.
FetchExtra(s) ==
    LET v == version[s]
        shared == \E q \in Scripts \ {s} : At(q, "fetch_extra") /\ version[q] = v
    IN  /\ At(s, "fetch_extra")
        /\ extra' = [extra EXCEPT ![v] = IF shared THEN "part" ELSE "whole"]
        /\ disturbed' = IF shared THEN disturbed \cup {v} ELSE disturbed
        /\ Goto(s, "apply_extra")
        /\ UNCHANGED <<archive, builddir, counts>>

ApplyExtra(s) ==
    /\ At(s, "apply_extra")
    /\ IF builddir[s].also # "no" THEN Exit(s) /\ UNCHANGED builddir
       ELSE \/ /\ builddir' = [builddir EXCEPT ![s].also = "half"]
               /\ run' = [run EXCEPT ![s].pc = "applying_extra", ![s].temp = extra[version[s]]]
            \/ /\ extra[version[s]] = "part"      \* patch notices that it is cut
               /\ \E some \in {"no", "half"} : builddir' = [builddir EXCEPT ![s].also = some]
               /\ Exit(s)
    /\ UNCHANGED <<archive, extra, disturbed, counts>>

AppliedExtra(s) ==
    /\ At(s, "applying_extra")
    /\ builddir' = [builddir EXCEPT ![s].also =
                      IF {run[s].temp, extra[version[s]]} = {"whole"} THEN "yes" ELSE "cut"]
    /\ run' = [run EXCEPT ![s].pc = "ran", ![s].temp = "none"]
    /\ UNCHANGED <<archive, extra, disturbed, counts>>

Ran(s) ==
    /\ At(s, "ran")
    /\ Touch(s, "ran")
    /\ Goto(s, "configure")
    /\ UNCHANGED <<archive, extra, disturbed, counts>>

\* pbuild_configure_once, and the rest of the script.
ConfigureOnce(s) ==
    /\ At(s, "configure")
    /\ Goto(s, IF Has(s, "configured") THEN "make" ELSE "configuring")
    /\ UNCHANGED <<archive, extra, disturbed, builddir, counts>>

Configured(s) ==
    /\ At(s, "configuring")
    /\ Touch(s, "configured")
    /\ Goto(s, "make")
    /\ UNCHANGED <<archive, extra, disturbed, counts>>

Make(s) ==
    /\ At(s, "make")
    /\ Exit(s)
    /\ UNCHANGED <<archive, extra, disturbed, builddir, counts>>

(***************************************************************************)
(* What happens to scripts: a command of theirs fails or they are killed,  *)
(* they are edited, and pbuild cleans their build directory.               *)
(***************************************************************************)
Kill(s) ==
    /\ ~At(s, "idle") /\ faults < MaxFaults
    /\ faults' = faults + 1
    /\ disturbed' = IF At(s, "fetch_extra") THEN disturbed \cup {version[s]} ELSE disturbed
    /\ Exit(s)
    /\ UNCHANGED <<archive, extra, builddir, version, edited, edits>>

Edit(s) ==
    /\ At(s, "idle") /\ edits < MaxEdits
    /\ edits' = edits + 1
    /\ \E v \in Version \ {version[s]} : version' = [version EXCEPT ![s] = v]
    /\ edited' = IF Has(s, "unpacked") THEN edited \cup {s} ELSE edited
    /\ UNCHANGED <<archive, extra, disturbed, builddir, run, faults>>

Clean(s) ==
    /\ At(s, "idle") /\ edits < MaxEdits
    /\ edits' = edits + 1
    /\ builddir' = [builddir EXCEPT ![s] = Empty]
    /\ edited' = edited \ {s}
    /\ UNCHANGED <<archive, extra, disturbed, run, version, faults>>

\* pbuild is killed while it cleans: files are gone, and of the marks any may be left.
CleanCut(s) ==
    /\ At(s, "idle") /\ faults < MaxFaults
    /\ faults' = faults + 1
    /\ \E left \in SUBSET builddir[s].marks :
          builddir' = [builddir EXCEPT ![s].whole = FALSE, ![s].marks = left, ![s].torn = TRUE]
    /\ UNCHANGED <<archive, extra, disturbed, run, version, edited, edits>>

Next == \E s \in Scripts :
    \/ Start(s) \/ Download(s) \/ Fetch(s) \/ Verify(s) \/ Move(s)
    \/ RemoveSome(s) \/ Remove(s) \/ UnpackSome(s) \/ Unpack(s) \/ Stamp(s)
    \/ ApplyPatches(s) \/ PatchStart(s) \/ PatchEnd(s) \/ Patched(s)
    \/ RunOnce(s) \/ DownloadExtra(s) \/ OpenExtra(s) \/ FetchExtra(s)
    \/ ApplyExtra(s) \/ AppliedExtra(s) \/ Ran(s)
    \/ ConfigureOnce(s) \/ Configured(s) \/ Make(s)
    \/ Kill(s) \/ Edit(s) \/ Clean(s) \/ CleanCut(s)

Spec == Init /\ [][Next]_vars

-----------------------------------------------------------------------------
(***************************************************************************)
(* Properties.                                                             *)
(***************************************************************************)

\* Types of the variables; the marks of a BUILDDIR come in the order of the script,
\* unless it was torn.
TypeOK ==
    /\ archive \in [Version -> {"none", "bad", "good"}]
    /\ extra \in [Version -> {"none", "part", "whole"}]
    /\ disturbed \subseteq Version /\ edited \subseteq Scripts
    /\ \A s \in Scripts :
          LET b == builddir[s] IN
          /\ b.files \subseteq Version /\ {b.whole, b.torn} \subseteq BOOLEAN /\ b.marks \subseteq Mark
          /\ b.applied \in [1..Patch -> {"no", "half", "yes"}]
          /\ b.also \in {"no", "half", "yes", "cut"}
          /\ b.torn \/ /\ Has(s, "configured") => Has(s, "ran")
                       /\ Has(s, "ran") => Has(s, "patched")
                       /\ Has(s, "patched") => Has(s, "unpacked")
          /\ run[s].next \in 1..Patch + 1
    /\ version \in [Scripts -> Version]
    /\ faults \in 0..MaxFaults /\ edits \in 0..MaxEdits

\* Nothing but the archive with the checksum that the script names is unpacked, whatever
\* other scripts download to the same file meanwhile, and whenever a transfer is cut
\* short: download moves a file into place only when it is whole and verified.
UnpacksVerified ==
    \A s \in Scripts : run[s].pc \in {"remove", "unpack"} => archive[version[s]] = "good"

\* The steps of a script after its patches.
PastPatches == {"once", "download_extra", "open_extra", "fetch_extra", "apply_extra",
                "applying_extra", "ran", "configure", "configuring", "make"}

\* A script that gets past its patches works on the whole of one version, with every
\* patch applied once, however often it was killed and restarted before; but a cleanup
\* that was cut short may leave the stamp beside the rest of a tree.  If the script was
\* not edited since it unpacked, this is the version that it names; after an edit the
\* stamp keeps the old one until the build directory is cleaned.
TreeExact ==
    \A s \in Scripts : run[s].pc \in PastPatches =>
        LET b == builddir[s]
        IN  \/ b.torn
            \/ /\ b.whole /\ \E v \in Version : b.files = {v}
               /\ \A i \in 1..Patch : b.applied[i] = "yes"
               /\ s \in edited \/ b.files = {version[s]}

\* A script that gets to its configuration has run the function given to run_once to
\* its end, once.  It has taken a part of an unverified file for the whole only if a
\* transfer of such a file was cut short or overlapped with another.
RunOnceComplete ==
    \A s \in Scripts : run[s].pc \in {"configure", "configuring", "make"} =>
        builddir[s].also = "yes" \/ (builddir[s].also = "cut" /\ disturbed # {})

=============================================================================
