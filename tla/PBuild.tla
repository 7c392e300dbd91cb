------------------------------- MODULE PBuild -------------------------------
(***************************************************************************)
(* The incremental build engine of pbuild: what PkgBuild and main() do     *)
(* with a buildlist.  An invocation reads the build stamps, scans the      *)
(* sources, selects the builds that look out of date, and goes through     *)
(* them in order: each one is checked again, and then either its stamp is  *)
(* touched or its script runs in a sandbox on top of the outputs of its    *)
(* dependencies, after which its output is summed and stamped.             *)
(*                                                                         *)
(* What persists between invocations are the sources, the outputs and the  *)
(* stamps; an invocation may die at any point.  Users edit sources between *)
(* invocations, and during one when ConcurrentEdits is TRUE.  Every write  *)
(* gets a later time than the one before it.                               *)
(***************************************************************************)
EXTENDS Naturals

CONSTANTS
    Build,              \* the PkgBuilds, one for each package
    Index,              \* their positions in the list of resolve_builds (see Resolve)
    deps,               \* PkgBuild.deps: DEPENDS
    hostdeps,           \* PkgBuild.hostdeps and .archdeps: BUILDTOOL, ARCHDEPENDS
    transitive,         \* those of deps that are tagged [transitive]
    Meta,               \* the metapackages
    Val,                \* contents of the sources of a package
    Content,            \* the distroots a package can have, identified with checksums
    Make(_, _, _),      \* what a script makes of the sources and the layers
    MetaSum(_, _),      \* the checksum of a metapackage
    NoOut, Junk,        \* no output directory; one an unfinished script left behind
    NoSum,              \* the empty checksum string
    NoStamp,            \* a missing stamp file
    Option,             \* the command lines a user may give
    TopSets,            \* the sets of packages a user may name
    ConcurrentEdits,    \* TRUE: sources may change while an invocation is running
    Reverts,            \* TRUE: an edit may restore an earlier content
    Crashes,            \* TRUE: a script may fail, and pbuild may be killed
    ScansFail,          \* TRUE: find may fail
    MaxEdits, MaxRuns   \* bounds: how many edits and how many invocations there are

\* ordered_deps
Deps(b) == deps[b] \cup hostdeps[b]

\* The least superset of S that has step[x] for every x in it.
Closure(S, step) ==
    {x \in Build : \A T \in SUBSET Build :
                      S \subseteq T /\ (\A y \in T : step[y] \subseteq T) => x \in T}

\* depLayerDirs and setupArchdepLayers: the packages whose output is mounted.
Layers == [b \in Build |-> Closure(Deps(b), transitive) \ Meta]

\* The packages whose dependencies check_deps looks at, for a build b.
Checked == [b \in Build |-> Closure({b}, [x \in Build |-> {d \in Deps(x) : deps[d] # {}}])]

\* The builds that resolve_builds lists for the named packages.
Listed == [ts \in TopSets |-> Closure(ts, [x \in Build |-> Deps(x)])]

Flag ==
    [force : BOOLEAN, clean : BOOLEAN, clean_all : BOOLEAN, cleanup : BOOLEAN,
     skip_deps : BOOLEAN, shell : BOOLEAN, dry_run : BOOLEAN]

Plain ==
    [force |-> FALSE, clean |-> FALSE, clean_all |-> FALSE, cleanup |-> FALSE,
     skip_deps |-> FALSE, shell |-> FALSE, dry_run |-> FALSE]

Output(b) == Content[b] \cup {NoOut, Junk}
Sum(b) == Content[b] \cup {NoSum}
AnySum == UNION {Sum(b) : b \in Build}
StampFile == [mtime : Nat, checksum : AnySum, deps : [Build -> AnySum]]
BuildRecord ==
    [build_mtime : Nat, src_mtime : Nat, checksum : AnySum,
     dep_checksums : [Build -> AnySum], must_build : BOOLEAN]

ASSUME GraphAssumption ==
    /\ deps \in [Build -> SUBSET Build]
    /\ hostdeps \in [Build -> SUBSET Build]
    /\ transitive \in [Build -> SUBSET Build]
    /\ \A b \in Build : transitive[b] \subseteq deps[b]
    /\ Meta \subseteq Build
    /\ Index \in [Build -> Nat]
    /\ \A b, c \in Build : Index[b] = Index[c] => b = c
    /\ \A b \in Build : \A d \in Deps(b) : Index[d] < Index[b]

ASSUME ContentAssumption ==
    /\ NoOut # Junk
    /\ NoStamp \notin StampFile
    /\ \A b \in Build : {NoOut, Junk, NoSum} \cap Content[b] = {}
    /\ \A b \in Build \ Meta : \A v \in Val :
          \A ins \in [Layers[b] -> UNION {Content[d] \cup {Junk} : d \in Layers[b]}] :
             (\A d \in Layers[b] : ins[d] \in Content[d] \cup {Junk}) => Make(b, v, ins) \in Content[b]
    /\ \A b \in Meta : \A sums \in [Deps(b) -> UNION {Sum(d) : d \in Deps(b)}] :
          (\A d \in Deps(b) : sums[d] \in Sum(d)) => MetaSum(b, sums) \in Content[b]

\* What main() makes of its options: --clean-all implies --clean, which implies
\* --force, and --skip-deps excludes --clean-all.
ASSUME OptionAssumption ==
    /\ Option \subseteq Flag
    /\ \A o \in Option : /\ o.clean_all => o.clean
                         /\ o.clean => o.force
                         /\ ~(o.skip_deps /\ o.clean_all)
    /\ TopSets \subseteq SUBSET Build
    /\ {} \in TopSets
    /\ Val \subseteq Nat
    /\ MaxEdits \in Nat /\ MaxRuns \in Nat

VARIABLES
    src,            \* the content of the sources of each package
    mtime,          \* their modification times: of the index file, and the newest
    out,            \* build_dir/out/distroot
    stamp,          \* build_dir/stamp
    residue,        \* the builds with build state that --cleanup removes
    now,            \* the time of the last write
    pc,             \* what the invocation is doing, "idle" when there is none
    opts,           \* its command line options
    tops,           \* the builds with is_toplevel
    toscan,         \* pkgs_to_check: the packages whose sources are still to be scanned
    todo,           \* what select_what_to_build returned, less the builds that are done
    cleanup_only,   \* the top level builds it left out
    mem,            \* build_mtime, src_mtime, checksum, dep_checksums and must_build
    quiet,          \* history: no source was edited during this invocation
    settled,        \* history: builds that nothing touched since a complete invocation
    torn,           \* history: builds whose output was spoiled beside a stamp that holds
    edits, runs     \* how many there have been

sources == <<src, mtime>>
products == <<out, stamp, residue>>
history == <<settled, torn>>
budget == <<edits, runs>>
invocation == <<opts, tops, cleanup_only>>
vars == <<sources, products, now, pc, invocation, toscan, todo, mem, quiet, history, budget>>

NoDeps == [d \in Build |-> NoSum]

\* A PkgBuild as __init__ leaves it, for a package whose index file has mtime t.
NewBuild(t) ==
    [build_mtime |-> 0, src_mtime |-> t, checksum |-> NoSum,
     dep_checksums |-> NoDeps, must_build |-> FALSE]

Init ==
    /\ src \in [Build -> Val]
    /\ \A b \in Build : \A v \in Val : src[b] <= v
    /\ mtime = [b \in Build |-> [index |-> 1, newest |-> 1]]
    /\ out = [b \in Build |-> NoOut]
    /\ stamp = [b \in Build |-> NoStamp]
    /\ residue = {}
    /\ now = 1
    /\ pc = "idle"
    /\ opts = Plain /\ tops = {} /\ cleanup_only = {}
    /\ toscan = {} /\ todo = {}
    /\ mem = [b \in Build |-> NewBuild(0)]
    /\ quiet = TRUE
    /\ settled = {} /\ torn = {}
    /\ edits = 0 /\ runs = 0

-----------------------------------------------------------------------------
(***************************************************************************)
(* The user saves a source file of b, or its index file, which is a source *)
(* too.  A save may leave the content as it was.  Of a metapackage only    *)
(* the index file matters.                                                 *)
(***************************************************************************)
Edit(b, v, index) ==
    /\ pc = "idle" \/ ConcurrentEdits
    /\ edits < MaxEdits
    /\ edits' = edits + 1
    /\ Reverts \/ v >= src[b]
    /\ b \in Meta => index
    /\ now' = now + 1
    /\ src' = [src EXCEPT ![b] = v]
    /\ mtime' = [mtime EXCEPT ![b] = [index |-> IF index THEN now + 1 ELSE mtime[b].index,
                                     newest |-> now + 1]]
    /\ quiet' = (pc = "idle")
    /\ settled' = {}
    /\ UNCHANGED <<products, pc, invocation, toscan, todo, mem, torn, runs>>

-----------------------------------------------------------------------------
(***************************************************************************)
(* main() and resolve_sources, up to the scans.                            *)
(***************************************************************************)
ReadBuildStamp(b) ==
    IF stamp[b] = NoStamp
    THEN [NewBuild(mtime[b].index) EXCEPT !.must_build = TRUE]
    ELSE [build_mtime |-> stamp[b].mtime, src_mtime |-> mtime[b].index,
          checksum |-> stamp[b].checksum, dep_checksums |-> stamp[b].deps,
          must_build |-> FALSE]

\* resolve_sources, for one build of the list; with --clean-all it is not called.
FirstLook(b, ts, o) ==
    LET m == ReadBuildStamp(b)
        changed == /\ b \notin Meta
                   /\ \/ b \in ts /\ (o.force \/ o.shell)
                      \/ m.checksum # NoSum /\ m.build_mtime < m.src_mtime
    IN  IF o.clean_all THEN [NewBuild(mtime[b].index) EXCEPT !.must_build = TRUE]
        ELSE [m EXCEPT !.must_build = m.must_build \/ changed]

ToScan(ts, o, looked) ==
    {b \in Listed[ts] \ Meta : /\ ~looked[b].must_build
                               /\ looked[b].checksum # NoSum
                               /\ o.skip_deps => b \in ts}

Untouched(o) == ~(o.force \/ o.shell \/ o.skip_deps)

Invoke(ts, o) ==
    /\ pc = "idle"
    /\ ts # {}
    /\ runs < MaxRuns
    /\ runs' = runs + 1
    /\ mem' = [b \in Build |-> IF b \in Listed[ts] THEN FirstLook(b, ts, o) ELSE NewBuild(0)]
    /\ toscan' = ToScan(ts, o, mem')
    /\ opts' = o /\ tops' = ts /\ cleanup_only' = {}
    /\ todo' = {}
    /\ pc' = "scan"
    /\ quiet' = TRUE
    /\ settled' = IF Untouched(o) THEN settled ELSE {}
    /\ UNCHANGED <<sources, products, now, torn, edits>>

\* Mutant: what the scan has found is not kept.
ResolveSources_Mut(b) ==
    /\ pc = "scan"
    /\ b \in toscan
    /\ toscan' = toscan \ {b}
    /\ UNCHANGED <<sources, products, now, pc, invocation, todo, mem, quiet, history, budget>>

\* Pkg.resolve_sources, one of the coroutines that resolve_sources gathers.
ResolveSources(b) ==
    /\ pc = "scan"
    /\ b \in toscan
    /\ mem' = [mem EXCEPT ![b].src_mtime = mtime[b].newest]
    /\ toscan' = toscan \ {b}
    /\ UNCHANGED <<sources, products, now, pc, invocation, todo, quiet, history, budget>>

\* "warning: failed to locate sources": src_mtime stays that of the index file.
FindFails(b) ==
    /\ ScansFail
    /\ pc = "scan"
    /\ b \in toscan
    /\ toscan' = toscan \ {b}
    /\ UNCHANGED <<sources, products, now, pc, invocation, todo, mem, quiet, history, budget>>

-----------------------------------------------------------------------------
(***************************************************************************)
(* check_needs_build and select_what_to_build.                             *)
(***************************************************************************)
NewestMtime(d) ==
    IF mem[d].src_mtime > mem[d].build_mtime THEN mem[d].src_mtime ELSE mem[d].build_mtime

\* Mutant: the checksum recorded for the dependency is not compared.
DepChanged_Mut(x, d, base_mtime) ==
    \/ mem[d].must_build
    \/ NewestMtime(d) <= 0
    \/ base_mtime > 0 /\ NewestMtime(d) > base_mtime
    \/ mem[d].checksum = NoSum

\* x.check_dep_changed(d, base_mtime)
DepChanged(x, d, base_mtime) ==
    \/ mem[d].must_build
    \/ NewestMtime(d) <= 0
    \/ base_mtime > 0 /\ NewestMtime(d) > base_mtime
    \/ mem[d].checksum = NoSum
    \/ mem[x].dep_checksums[d] # mem[d].checksum

Cleans(b) == opts.clean /\ (b \in tops \/ opts.clean_all)

NeedsBuild(b, eager) ==
    /\ opts.skip_deps => b \in tops
    /\ \/ mem[b].build_mtime < mem[b].src_mtime
       \/ mem[b].checksum = NoSum
       \/ mem[b].must_build
       \/ Cleans(b)
       \/ \E x \in Checked[b] : \E d \in Deps(x) :
             DepChanged(x, d, IF eager THEN mem[b].build_mtime ELSE 0)

SelectWhatToBuild ==
    /\ pc = "scan"
    /\ toscan = {}
    /\ todo' = {b \in Listed[tops] : NeedsBuild(b, TRUE)}
    /\ cleanup_only' = IF opts.cleanup THEN tops \ todo' ELSE {}
    /\ pc' = "build"
    /\ UNCHANGED <<sources, products, now, opts, tops, toscan, mem, quiet, history, budget>>

-----------------------------------------------------------------------------
(***************************************************************************)
(* build_pkgs and PkgBuild.build, for the first build of todo.             *)
(***************************************************************************)
\* Mutant: the list is gone through from its end.
First_Mut(b) == b \in todo /\ \A c \in todo : Index[b] >= Index[c]

First(b) == b \in todo /\ \A c \in todo : Index[b] <= Index[c]

\* --dry-run: build() returns True and has done nothing.
DryRun(b) ==
    /\ pc = "build"
    /\ First(b)
    /\ opts.dry_run
    /\ todo' = todo \ {b}
    /\ UNCHANGED <<sources, products, now, pc, invocation, toscan, mem, quiet, history, budget>>

\* Mutant: the stamp is not touched.
UpToDate_Mut(b) ==
    /\ pc = "build"
    /\ First(b)
    /\ ~opts.dry_run
    /\ ~NeedsBuild(b, FALSE)
    /\ todo' = todo \ {b}
    /\ UNCHANGED <<sources, products, now, pc, invocation, toscan, mem, quiet, history, budget>>

\* "up-to-date (rebuilding deps had no effect)": build_stamp.touch()
UpToDate(b) ==
    /\ pc = "build"
    /\ First(b)
    /\ ~opts.dry_run
    /\ ~NeedsBuild(b, FALSE)
    /\ now' = now + 1
    /\ stamp' = [stamp EXCEPT ![b].mtime = now + 1]
    /\ todo' = todo \ {b}
    /\ UNCHANGED <<sources, out, residue, pc, invocation, toscan, mem, quiet, history, budget>>

Interactive(b) == opts.shell /\ b \in tops

\* markAsBuilt, once the checksum is computed.
MarkAsBuilt(b, checksum) ==
    IF Interactive(b) THEN UNCHANGED <<now, stamp, mem>>
    ELSE /\ now' = now + 1
         /\ stamp' = [stamp EXCEPT ![b] =
                        [mtime |-> now + 1, checksum |-> checksum,
                         deps |-> [d \in Build |-> IF d \in Deps(b) THEN mem[d].checksum ELSE NoSum]]]
         /\ mem' = [mem EXCEPT ![b] =
                      [build_mtime |-> now + 1, src_mtime |-> mem[b].src_mtime,
                       checksum |-> checksum, dep_checksums |-> mem[b].dep_checksums,
                       must_build |-> FALSE]]

BuildMeta(b) ==
    /\ pc = "build"
    /\ First(b)
    /\ ~opts.dry_run
    /\ b \in Meta
    /\ NeedsBuild(b, FALSE)
    /\ MarkAsBuilt(b, MetaSum(b, [d \in Deps(b) |-> mem[d].checksum]))
    /\ todo' = todo \ {b}
    /\ UNCHANGED <<sources, out, residue, pc, invocation, toscan, quiet, history, budget>>

\* What is on disk gives the next invocation no reason to build b: the stamp of
\* b is newer than its sources, and names the checksums of its dependencies.
Vouched(b, stamps) ==
    /\ stamps[b] # NoStamp
    /\ stamps[b].checksum # NoSum
    /\ mtime[b].newest <= stamps[b].mtime
    /\ \A d \in Deps(b) :
          stamps[d] # NoStamp /\ stamps[d].checksum = stamps[b].deps[d]

\* The output of b changes, and its stamp is not written again.
Spoils(b, stamps) ==
    torn' = IF out'[b] # out[b] /\ Vouched(b, stamps) THEN torn \cup {b} ELSE torn

(***************************************************************************)
(* buildInSandbox until the script runs: --clean removes the build         *)
(* directory, mkdirs creates it, and depLayerDirs fails if the output of a *)
(* dependency does not exist.                                              *)
(***************************************************************************)
ToSandbox(b) ==
    /\ pc = "build"
    /\ First(b)
    /\ ~opts.dry_run
    /\ b \notin Meta
    /\ NeedsBuild(b, FALSE)

Entered(b) ==
    /\ residue' = residue \cup {b}
    /\ pc' = IF \E d \in Layers[b] : out[d] = NoOut THEN "failed" ELSE "sandbox"
    /\ UNCHANGED <<sources, now, invocation, toscan, todo, mem, quiet, settled, budget>>

EnterSandbox(b) ==
    /\ ToSandbox(b)
    /\ stamp' = IF Cleans(b) THEN [stamp EXCEPT ![b] = NoStamp] ELSE stamp
    /\ out' = IF Cleans(b) \/ out[b] = NoOut THEN [out EXCEPT ![b] = Junk] ELSE out
    /\ Entered(b)
    /\ UNCHANGED torn

\* rmtree, a subprocess, is cut short: it leaves the stamp or not, and of the
\* output everything, something or nothing.
CutShort(b, kept, rest) ==
    /\ Crashes
    /\ ToSandbox(b)
    /\ Cleans(b)
    /\ rest = out[b] \/ (out[b] # NoOut /\ rest \in {Junk, NoOut})
    /\ stamp' = IF kept THEN stamp ELSE [stamp EXCEPT ![b] = NoStamp]

\* rm fails.  Its exit status is not checked.
CleanFails(b, kept, rest) ==
    /\ CutShort(b, kept, rest)
    /\ out' = [out EXCEPT ![b] = IF rest = NoOut THEN Junk ELSE rest]
    /\ Spoils(b, stamp')
    /\ Entered(b)

Inputs(b) == [d \in Layers[b] |-> out[d]]

\* Mutant: the exit status of the script is ignored.
RunScript_Mut(b) ==
    /\ pc = "sandbox"
    /\ First(b)
    /\ ~Interactive(b)
    /\ out' \in {[out EXCEPT ![b] = Make(b, src[b], Inputs(b))], [out EXCEPT ![b] = Junk]}
    /\ residue' = IF opts.cleanup THEN residue \ {b} ELSE residue
    /\ pc' = "built"
    /\ UNCHANGED <<sources, stamp, now, invocation, toscan, todo, mem, quiet, history, budget>>

\* The rest of buildInSandbox, when the script succeeds.
RunScript(b) ==
    /\ pc = "sandbox"
    /\ First(b)
    /\ ~Interactive(b)
    /\ out' = [out EXCEPT ![b] = Make(b, src[b], Inputs(b))]
    /\ residue' = IF opts.cleanup THEN residue \ {b} ELSE residue
    /\ pc' = "built"
    /\ UNCHANGED <<sources, stamp, now, invocation, toscan, todo, mem, quiet, history, budget>>

\* With -i or -c: the user's commands run instead, and may change the output.
RunShell(b, ok) ==
    /\ pc = "sandbox"
    /\ First(b)
    /\ Interactive(b)
    /\ out' \in {out, [out EXCEPT ![b] = Junk]}
    /\ residue' = IF ok /\ opts.cleanup THEN residue \ {b} ELSE residue
    /\ pc' = IF ok THEN "built" ELSE "failed"
    /\ Spoils(b, stamp)
    /\ UNCHANGED <<sources, stamp, now, invocation, toscan, todo, mem, quiet, settled, budget>>

\* The script fails.  What it has written so far stays.
ScriptFails(b) ==
    /\ Crashes
    /\ pc = "sandbox"
    /\ First(b)
    /\ ~Interactive(b)
    /\ out' = [out EXCEPT ![b] = Junk]
    /\ Spoils(b, stamp)
    /\ pc' = "failed"
    /\ UNCHANGED <<sources, stamp, residue, now, invocation, toscan, todo, mem, quiet, settled, budget>>

\* build() after buildInSandbox has returned True.
Stamp(b) ==
    /\ pc = "built"
    /\ First(b)
    /\ MarkAsBuilt(b, out[b])
    /\ todo' = todo \ {b}
    /\ pc' = "build"
    /\ UNCHANGED <<sources, out, residue, invocation, toscan, quiet, history, budget>>

-----------------------------------------------------------------------------
(***************************************************************************)
(* The end of an invocation.                                               *)
(***************************************************************************)
Exit ==
    /\ pc' = "idle"
    /\ opts' = Plain /\ tops' = {} /\ cleanup_only' = {}
    /\ toscan' = {} /\ todo' = {}
    /\ mem' = [b \in Build |-> NewBuild(0)]
    /\ quiet' = TRUE

\* An invocation that was to bring everything it lists up to date.
Complete(o) == ~(o.skip_deps \/ o.shell \/ o.dry_run)

\* build_pkgs has returned True.
Finish ==
    /\ pc = "build"
    /\ todo = {}
    /\ residue' = residue \ cleanup_only
    /\ settled' = IF Complete(opts) /\ quiet THEN settled \cup Listed[tops] ELSE settled
    /\ Exit
    /\ UNCHANGED <<sources, out, stamp, now, torn, budget>>

\* build_pkgs returns False at the first build that fails.
Fail ==
    /\ pc = "failed"
    /\ settled' = {}
    /\ Exit
    /\ UNCHANGED <<sources, products, now, torn, budget>>

(***************************************************************************)
(* The invocation is killed.  A removal leaves what it has not got to, a   *)
(* script what it has written so far; a stamp that is being written may be *)
(* left empty.                                                             *)
(***************************************************************************)
Killed ==
    /\ Crashes
    /\ pc \in {"scan", "build", "built", "failed"}
    /\ settled' = {}
    /\ Exit
    /\ UNCHANGED <<sources, products, now, torn, budget>>

KilledInClean(b, kept, rest) ==
    /\ CutShort(b, kept, rest)
    /\ out' = [out EXCEPT ![b] = rest]
    /\ Spoils(b, stamp')
    /\ residue' \in {residue, residue \ {b}}
    /\ settled' = {}
    /\ Exit
    /\ UNCHANGED <<sources, now, budget>>

KilledInScript(b) ==
    /\ Crashes
    /\ pc = "sandbox"
    /\ First(b)
    /\ out' = [out EXCEPT ![b] = Junk]
    /\ Spoils(b, stamp)
    /\ settled' = {}
    /\ Exit
    /\ UNCHANGED <<sources, stamp, residue, now, budget>>

KilledInStamp(b) ==
    /\ Crashes
    /\ pc = "built"
    /\ First(b)
    /\ ~Interactive(b)
    /\ now' = now + 1
    /\ stamp' = [stamp EXCEPT ![b] = [mtime |-> now + 1, checksum |-> NoSum, deps |-> NoDeps]]
    /\ settled' = {}
    /\ Exit
    /\ UNCHANGED <<sources, out, residue, torn, budget>>

\* The bound on invocations is reached.
Rest ==
    /\ pc = "idle"
    /\ runs = MaxRuns
    /\ UNCHANGED vars

Next ==
    \/ \E b \in Build, v \in Val, index \in BOOLEAN : Edit(b, v, index)
    \/ \E ts \in TopSets, o \in Option : Invoke(ts, o)
    \/ \E b \in Build : ResolveSources(b) \/ FindFails(b)
    \/ SelectWhatToBuild
    \/ \E b \in Build : DryRun(b) \/ UpToDate(b) \/ BuildMeta(b) \/ EnterSandbox(b)
    \/ \E b \in Build : RunScript(b) \/ ScriptFails(b) \/ Stamp(b)
    \/ \E b \in Build, ok \in BOOLEAN : RunShell(b, ok)
    \/ Finish \/ Fail \/ Rest
    \/ Killed \/ \E b \in Build : KilledInScript(b) \/ KilledInStamp(b)
    \/ \E b \in Build, kept \in BOOLEAN : \E rest \in {out[b], Junk, NoOut} :
          CleanFails(b, kept, rest) \/ KilledInClean(b, kept, rest)

Spec == Init /\ [][Next]_vars

-----------------------------------------------------------------------------
(***************************************************************************)
(* Properties.                                                             *)
(***************************************************************************)
TypeOK ==
    /\ src \in [Build -> Val]
    /\ mtime \in [Build -> [index : Nat, newest : Nat]]
    /\ out \in [Build -> UNION {Output(b) : b \in Build}]
    /\ \A b \in Build : out[b] \in Output(b)
    /\ stamp \in [Build -> StampFile \cup {NoStamp}]
    /\ \A b \in Build : stamp[b] # NoStamp => stamp[b].checksum \in Sum(b)
    /\ residue \subseteq Build
    /\ now \in Nat
    /\ pc \in {"idle", "scan", "build", "sandbox", "built", "failed"}
    /\ opts \in Option \cup {Plain}
    /\ tops \in TopSets
    /\ toscan \subseteq Build /\ todo \subseteq Build /\ cleanup_only \subseteq Build
    /\ mem \in [Build -> BuildRecord]
    /\ \A b \in Build : mem[b].checksum \in Sum(b)
    /\ quiet \in BOOLEAN
    /\ settled \subseteq Build /\ torn \subseteq Build
    /\ edits \in Nat /\ runs \in Nat

\* The output of b is what its script makes of the sources and layers as they are.
Current(b) == out[b] = Make(b, src[b], Inputs(b))

\* An invocation that is about to report success, during which nothing was edited.
Succeeds == pc = "build" /\ todo = {} /\ quiet

\* After an invocation that succeeds (no --skip-deps, no shell, no dry run)
\* every package it lists has the output its script makes of the present
\* sources and of the present outputs of its dependencies: the two rounds of
\* check_needs_build and the stamps left out no build that mattered.
FreshAfterSuccess ==
    Succeeds /\ Complete(opts) => \A b \in Listed[tops] \ Meta : Current(b)

\* Neither the output of b nor one below it was ever spoiled beside a stamp
\* that vouched for it.
Trusted(b) == Closure({b}, [x \in Build |-> Deps(x)]) \cap torn = {}

\* The same with scripts that fail, a pbuild that is killed and a --clean that
\* is cut short: the next invocation that succeeds makes up for all of them.
\* The exception is an output that was spoiled although there was no lasting
\* reason to build it (--clean, or a dependency that was built again and came
\* out the same): then the stamp left beside it is taken at its word.
FreshUnlessTorn ==
    Succeeds /\ Complete(opts) =>
        \A b \in Listed[tops] \ Meta : Trusted(b) => Current(b)

\* The same of --clean-all, which is to hold whatever happened before: failed
\* and killed builds, shell sessions, --skip-deps, edits that were missed.
CleanAllFresh ==
    Succeeds /\ Complete(opts) /\ opts.clean_all => \A b \in Listed[tops] \ Meta : Current(b)

\* A script never runs on top of an output that is itself out of date:
\* build_pkgs gets to a package after all the layers below it.  (The same
\* exception.)
BuildsOnFreshDeps ==
    pc = "sandbox" /\ Complete(opts) /\ quiet =>
        \A b \in todo : First(b) => \A d \in Layers[b] : Trusted(d) => Current(d)

\* Building again what was built, with no edit in between, selects nothing
\* (pbuild.md: "nothing happens since the output is up-to date").
SettledSelectsNothing ==
    [][pc = "scan" /\ pc' = "build" /\ Untouched(opts) /\ Listed[tops] \subseteq settled
       => todo' = {}]_vars
=============================================================================
