# pbuild and its ports: specification, model checking and proofs

This directory holds a TLA+ development of **pbuild**, the build tool in
`src/legacy-os/tools/`, and of two of the libraries in `src/legacy-os/ports/` whose
correctness depends on concurrency: the transactions of LMDB and the condition
variables of the libc. pbuild reads the dependency directives of packages, orders
the packages, decides which of them are out of date, and builds each of those in a
sandbox (overlayfs and chroot) on top of the outputs of its dependencies.

## The system and its parts

| part | code | module | status |
| --- | --- | --- | --- |
| dependency resolution | `pbuild`: `Pkg.resolve_deps`, `resolve_builds` | `Resolve` | modelled |
| incremental build engine | `pbuild`: `PkgBuild`, `resolve_sources`, `select_what_to_build`, `build_pkgs`, `main` | `PBuild` | modelled |
| special layers | `pbuild`: `setup_special_dir` and its three users | `SpecialDir` | modelled |
| sandbox mounts | `pbuild`: `buildInSandbox`, `Deferred`, `OverlayFS`, `rescue_unmount_all_pbuild` | `Sandbox` | modelled |
| source scanner | `pbuild`: `find_sources`, IGNORE and CHECK directives | `PBuild` (its result only) | partly |
| port script library | `pbuild.lib.sh`, as the script of `ports/readline` uses it | `Fetch` | partly: the functions that change a build directory |
| download tool | `bin/download` | `Fetch` | modelled |
| LMDB | `ports/liblmdb/mdb.c` | `LmdbPages`, `Lmdb`, `LmdbStore`, `Snapshots` | partly: transactions on one tree |
| libc threads | `ports/libc/src/thread` | `Condvar`, `WaitQueue` | partly: private condition variables, normal mutexes |
| directive parser | `pbuild`: `scan_directives`, `Conditional` | | not modelled |
| layer preparation | `pbuild`: `setupDistrootDirCopy`, `cleanup` | | not modelled |
| build configuration | `pbuild`: `configure_BUILD_CONFIG_ID`, `init_builddir` | | not modelled |
| install and listing | `pbuild`: `install`, `install_pkg`, `list_deps` | | not modelled |
| make rules | `playbit.*.mk`, the Makefiles | | not modelled |
| root-vconsole | `root-vconsole` | | not modelled |
| other ports | `src/legacy-os/ports` | | not modelled |

An invocation goes through the parts in this order: `main` loads the named
packages and resolves their dependencies (`Resolve`), which gives the buildlist;
stamps are read and sources scanned, builds are selected and built in order
(`PBuild`); a build first asks for the special layers (`SpecialDir`), then mounts
its sandbox, runs the script and unmounts everything (`Sandbox`). What persists
between invocations is below `BUILDDIR`: outputs, stamps, special directories,
and, when a pbuild was killed, mounts.

The modules meet at these points. `PBuild` takes the order of the buildlist as the
constant `Index` and assumes that dependencies come first (`GraphAssumption`); this
is `BuildlistSorted` of `Resolve`. `PBuild` has entering and leaving a sandbox as
single actions; `Sandbox` is what happens in between, and its `SandboxIntact` is why
`PBuild` may say that a script sees the present outputs of its layers. `SpecialDir`
is the call in `buildInSandbox` before anything is mounted. `Fetch` is what the
scripts of ports do where `PBuild` has the one step `RunScript`: it shows when a tree
that an earlier run left behind is fit to be built on, which `PBuild` assumes. LMDB
and the libc are what pbuild builds; their modules stand alone.

## Modules

**`Resolve`** The recursion of the two walks is an explicit stack: `deppath` for
`Pkg.resolve_deps`, `visits` for `visit_dep`. One action per outcome of a directive:
its condition fails (`SkipDep`), the package is missing (`DepNotFound`) or already on the
path (`DepCyclic`), it is met for the first time (`DescendDep`) or known
(`AppendDep`). A condition is the set of architectures for which it holds. The
second walk has `SkipEdge`, `DescendEdge`, `LinkEdge` and `FinishVisit`.

**`PBuild`** `src`, `mtime`, `out` and `stamp` are the files; `mem` is what the
`PkgBuild` objects hold during one invocation; `pc`, `todo` and the options are where
`main` is. A checksum is identified with the output it sums. `Make` and `MetaSum`
are parameters: any function of the sources and the layers. Every write gets a later
time than the one before. `Edit` is the user; `ScriptFails`, `FindFails`, `Killed`,
`KilledInScript` and `KilledInStamp` are the faults; the constants `Crashes`,
`ScansFail`, `ConcurrentEdits` and `Reverts` switch them on. `--clean` runs
`/bin/rm -rf` and does not look at its status: `EnterSandbox` has the case that it
gets to its end, `CleanFails` that it fails and `KilledInClean` that pbuild is killed
in it. Both leave the stamp or not, and of the output all, some or nothing.
`quiet`, `settled` and `torn` are history variables; `torn` has the builds whose output
was spoiled (by a failing or killed script, a shell, or a cut `--clean`) beside a stamp
for which the next invocation would find nothing to do (`Vouched`). Assumptions: what a script makes depends on the sources and
the layers only (not on what an earlier run left in its build directory), and no
script writes to the subdirectories of distroot that `cleanup()` removes.

**`SpecialDir`** Processes, the lock, the version file with its append mode, the
buffer of each process, and the directory (absent, partial, or complete for a
version). `overtaken` records that a process took the lock while another's version
was in its buffer. The contents of the three directories are left out.

**`Sandbox`** `mounts` is `/proc/self/mounts` below `BUILDDIR`. Path lookup is the
kernel's: `mnt/dev` is looked up below the topmost `mnt`, detaching a root takes
along what is mounted in it. `finalizers` is the list of `Deferred`. Every system
call that mounts, unmounts or removes a directory is a step. So
`rescue_unmount_all_pbuild`, at the end of `main` and in `unmount` where `umount2`
fails, first reads the list (`ReadMounts`, into `listed`), and then unmounts path by
path (`UnmountListed`), whatever has been mounted or unmounted there since. Of mounts made
alike (`dev`, `proc`, `sys`; `build/shared`, `tmp`) there is one. `alone` and
`crowded` record whether processes ran at the same time; the leftovers of several
processes in directories are not followed, there `rmdir` may succeed or fail.

**`Fetch`** Port scripts that name the same source and so share files in the download
directory (`xz` and `xz/lib` do, and `freetype` and `freetype-no-hb`). Each script
has a `BUILDDIR` that outlives its runs: which versions' files are in it, which
patches are applied, and the stamps and marks. A command of the shell script is a
step; `rm -rf` and the unpacking may stop half way. Two kinds of download: with a
checksum, to a temporary file that is renamed, and without, in place. `Kill` stands
for every failing command too (`set -e`). `CleanCut` is a pbuild killed during the
`rm -rf` of `--clean`. `disturbed`, `edited` and `torn` are history.

**`LmdbPages`, `Lmdb`** `LmdbPages` declares the state and has what a transaction does
with pages: `mdb_find_oldest`, `mdb_page_alloc`, `mdb_page_touch`, and what
`mdb_freelist_save` moves. `Lmdb` has the actions and the properties. Processes that share a data file and a lock file. `cache` and `metas` are
the memory map, `disk` and `dmetas` what is on stable storage for certain, `readers`,
`numreaders`, `mti_txnid` and `wmutex` the lock file, `env` the `MDB_env` and read
transaction of a process, `txn` the write transaction. Starting a read transaction
takes six steps (`ReadBegin` to `ReadCopy`), as it takes no lock; a commit is
`Save`, `Flush`, `Sync`, `WriteMeta`, `MetaSync`, `Publish`. Updates put, split and
merge leaves below one branch page, each through `mdb_page_touch` and
`mdb_page_alloc`. `Die` ends a process anywhere, `Crash` the system: a page that was written and
not synced may be lost. The loop of `mdb_find_oldest` is one step: it reads each slot
once, and a reader that stores its number after its slot was read checks `mti_txnid`
again, which the writer has not changed yet. Memory is sequentially consistent; the
copy of a meta page is atomic (what a reader uses of it is one tree).

**`Snapshots`** What LMDB promises: one current value, replaced in one step; a reader
sees one committed value, not older than what was published when it asked; a system
crash undoes at most the last commit, and none that was saved. `Lmdb` implements it
(`ImplementsSnapshots`, in `LmdbStore`): the value of a version is what the pages reachable from its
meta page hold, so a page reused too early, a torn commit or a lost one shows up as a
step that the abstract store cannot take.

**`Condvar`** The threads of a process with one mutex and one condition variable. A
step is one access to shared memory or one system call. Nodes of waiters are on
stacks: `live` says whether the memory is there. `GiveUp` is a timeout or a
cancellation, `Interrupt` a sleep that ends for no reason. The program may destroy
the variable after a broadcast under the mutex.

**`WaitQueue`** What a condition variable promises: a queue from which a signal takes
the thread that came first and did not give up. `Condvar` implements it
(`ImplementsQueue`); the linearization point of a signal is the `a_cas` on the state
of the node.

The `MC*` modules give the constants values. The `*Proofs` modules hold the theorems;
`LmdbPlaces` and `LmdbInv` have the inductive invariants of LMDB.
Operators named `..._Mut` are wrong variants of the definition after them, kept to
show that the properties notice such a mistake.

## Runs

Each run is TLC on an `MC` module with the configuration of the same name.

| run | what it checks |
| --- | --- |
| `resolve_projects` | every graph over three packages with one architecture, missing packages and conditions that never hold, and cross builds of projects without cycles with every kind of directive: the verdict on cycles is exact, the buildlist is sorted, complete and closed, both walks end |
| `build_edits` | a package over a metapackage and a build tool, with edits and reverts: a successful invocation leaves fresh outputs, scripts run on fresh layers, and building again selects nothing |
| `build_failures` | a chain of three packages, plain and `--clean` invocations, with failing scripts, a failing `rm`, and kills, in the middle of `--clean` too: the next success makes up for them (`FreshUnlessTorn`), and scripts run on fresh layers; except for what is `torn` |
| `build_anything` | plain, `--clean-all`, `--skip-deps` and shell invocations with every fault, edits at any time: a successful `--clean-all` leaves fresh outputs |
| `build_tool` | *violation*: a change behind a dependency that has only BUILDTOOLs is missed |
| `build_forced_failure` | *violation*: a failed `--force` build leaves a broken output with a valid stamp |
| `special_processes` | three processes, killed anywhere: a layer in use is complete, and every call returns |
| `special_late_flush` | *violation*: the version written after the unlock vouches for an unfinished directory |
| `sandbox_unwinding` | three invocations in turn or two at once, failing mounts, kills: as long as no other runs beside it, the sandbox of an invocation is intact, its `rm -rf` meets no mount, and it leaves nothing mounted |
| `fetch_scripts` | two scripts that share their source, killed, edited and cleaned anywhere: what is unpacked is verified, what is built on is whole and patched once, what runs once ran to its end |
| `lmdb_shared` | a reader and a writer, two writers, and a writer on a system that crashes; processes die anywhere: snapshots stay, the newest survives, no page leaks or is used twice, slots are not taken away, and the store `Snapshots` is implemented |
| `condvar_waits` | three threads asleep and one signal or broadcast, two asleep and two signals, or one asleep, one that comes and one signal, with a timeout or an interruption: no wake-up is lost, no freed memory is touched, the count of waiters is balanced, and the queue `WaitQueue` is implemented |

The violations are disagreements between the code and its own documentation; each
is a finding in `PROJECT.json` with the line that is contradicted.

Three further configurations end in a counterexample and are kept for the reader:

- `MCResolve_crosscycle.cfg` (`BuildlistSorted`): a cycle that closes only for a second
  architecture is not noticed, and the list is not in the order that the docstring at
  `pbuild:2442` promises.
- `MCSandbox_killed.cfg` (`UnmountedOutside`): after two killed invocations a third
  removes files, outside its `with` statement, while a root is still mounted, against
  the comment at `pbuild:2050`.
- `MCLmdb_meta_error.cfg` (`SnapshotIntact`, with `FaultySpec`): the sync of a meta page
  fails, and the old one is written back "to prevent it from being used"
  (`mdb.c:4442`); but a reader that was slow between the check of its number and the
  copy of the meta page, while two commits went by, has copied the new root already, and the next writer
  takes the pages of the failed commit again.

`FreshAfterSuccess` is checked under conditions that the runs spell out, because it
fails without them. Changing a configuration shows how:

- `Graph = "trans"`: a package that uses a layer it gets through `[transitive]` is
  not rebuilt when that layer changes and the package in between does not (line 2167).
- `ConcurrentEdits = TRUE`: an edit made while the script runs is older than the stamp.
- `"skip_deps"` among the options: the stamp of a `--skip-deps` build is newer than an
  edit of a dependency, which is then missed (line 1418).
- `"skip_deps_shell"`: a shell session changes the output under a valid stamp (line 2086).
- `Crashes`: a build that fails or is killed leaves its old stamp beside a spoiled output
  (line 2199), and so may a cut `--clean` (line 1848). The next invocation notices
  if the reason for the build lasts: a source newer than the stamp, or the changed checksum of a
  dependency. It does not last with `--force`; nor when a dependency had lost its
  stamp and was rebuilt to the same output, because `check_needs_build` then sees its
  empty `dep_checksums` and rebuilds the dependant for no lasting reason. These are the builds in
  `torn`, which `FreshUnlessTorn` excepts with everything above them; `BuildsOnFreshDeps`
  has the same exception, which matters in `build_failures` only.
- `Crashes` with `Reverts` (`build_failures` has no reverts): a build fails, its dependency goes back
  to what it was, and the checksums agree again. Here `FreshUnlessTorn` fails too.

Likewise `UsersHaveLayer` fails with processes of two releases, and `SandboxIntact`
and `NothingLeftMounted` for an invocation beside which another one ends or mounts. `pbuild --clean` after a killed
invocation runs `rm -rf` over mounts: `RemovesUnmounted` is stated for the case that
none was killed.

### Bounds

- `Resolve`: three packages are enough for shared dependencies, cycles of every
  length up to three, and a cycle that the named package is not on. The state is finite without a bound.
- `PBuild`: `build_edits` has `MaxEdits = 2` and `MaxRuns = 3`: a build, one after an
  edit, and one after it was undone. `build_failures` has `MaxEdits = 1` and
  `MaxRuns = 4`: a build, two invocations that go wrong, and one that has to notice; with three
  the case of a dependency that lost its stamp is out of reach. `build_anything` has
  `MaxEdits = 1` and `MaxRuns = 3` with two packages, the others have three or four. Two or
  three contents per package.
- `SpecialDir`: three processes, the number the violation needs; each calls once. No other bound.
- `Sandbox`: `Setups` has three processes in turn that build two packages, and two
  processes at once that build the same one. A sandbox may then lie on the leftovers of two
  killed ones. No other bound.
- `Fetch`: two scripts, two versions, two patches, `MaxFaults = 2` and `MaxEdits = 1`: a
  kill in each script, or a cut cleanup and a kill; one edit or whole cleanup.
- `Lmdb`: `MaxEvents = 3` write transactions and faults together, one update each: a
  page is freed by one transaction, offered by its record to the second and reused
  by the third. `MaxPg = 11` is small enough for the map to be full. A reader with
  two slots in the table. The three setups are apart because a reader and system
  crashes together are out of reach; a crash ends every reader anyway.
- `Condvar`: `Starts` says how many threads sleep at first, how many come, and how often
  the signaler signals: 3, 0, 1 or 2, 0, 2 or 1, 1, 1. One sleep ends early
  (`MaxBreaks`): enough for a group of three with a leaving member.
- Symmetry is used where processes and packages are interchangeable and the
  properties are invariants or action properties.

Deadlock is checked in all runs but two; the end of a program is a step of its own
(`Stop`, `Rest`, `AllEnded`). In `Lmdb` and `Condvar` the bounds end the program;
that no thread of `Condvar` is stuck when it ends is what `NoLostWakeup` says.

### Fairness

`Resolve`: weak fairness of the two walks, which run in one thread and wait for
nothing. `SpecialDir`: weak fairness of the steps of each process. The scheduler
provides it, and a process calls once, so the lock is free for good in the end; faults are
not forced, so a waiting process cannot escape by failing. The other modules have
safety properties only; the two refinements are of specifications without fairness.

## Proofs

All for every value of the constants, from the named assumptions in the modules.

- `ResolveProofs`: `TypeCorrect`; `ClosedCorrect` (`BuildlistClosed`): the inductive
  invariant `WalkInv` says that `processed` is exactly what is listed or on the stack, once
  each. The other three are for projects with a single architecture, and
  `MCResolve_crosscycle.cfg` shows that this is needed. `SortedCorrect` (`BuildlistSorted`): the list of
  the second walk is sorted because the first walk returned from every package after
  its dependencies. `DepsInv` orders the resolved dependencies by `returned`; `SortInv` says
  that the stack of the second walk descends in that order, so that a target already processed
  is listed and not an ancestor. `VerdictCorrect` (`CycleVerdictExact`): `LeadInv` says that the named
  packages lead to every call that is going on and each call to the later ones, and that a
  call that returned has recorded all its directives that count. So a directive that leads back to
  the path is a cycle; and without an error, what a package leads to returned before
  it, so that no package is on a cycle. `CompleteCorrect` (`BuildlistComplete`): by `CompleteInv` the
  builds listed or on the stack are reached from the named ones, and those listed have all their
  dependencies listed, so the list is the closure. The closure is not recursive here: it is the
  least set that is closed.
- `PBuildProofs`: `TypeCorrect`; `CleanAllCorrect` (`CleanAllFresh`), for every
  dependency graph, every `Make`, and all faults: with `--clean-all` every listed
  package is redone in order; `CleanInv` says that packages already done are
  current and stay so, as everything below them in the list has been done before them and nothing
  after them touches their layers.
- `SpecialDirProofs`: `TypeCorrect`; `UsersHaveLayerCorrect` (`UsersHaveLayer`), for
  any number of processes of one release. `LockInv` is mutual exclusion. `FileInv` says that the
  file is empty while the directory is remade or a version is in a buffer, and is not
  while the directory is in use.

- `FetchProofs`, for any number of scripts, versions, patches, faults and edits:
  `TreeCorrect` (`TreeExact`), `UnpackCorrect` (`UnpacksVerified`), `RunOnceCorrect`
  (`RunOnceComplete`). `Tree(s)` says what the stamp, the patches and each position in the script
  mean for the tree of a script: the stamp is there only with a whole tree, and
  not between the check for it and its making. `Files(s)` says what the shared files
  are at each position; it needs `Kept`, that no step of another script spoils an archive
  once it is good, or a file without checksum unnoticed.
- `LmdbPageProofs`, `LmdbReaderProofs`, `LmdbStoreProofs`, `LmdbProofs`, for any number of
  processes, slots, pages, leaves and transactions, with dying processes and crashes, of
  `Spec` (no failing sync of a meta page). There are two inductive invariants, in `LmdbInv`.
  - `Inv` is about the reader table, and gives `SlotsCorrect` (`SlotsOwned`) and
    `OldestCorrect` (`OldestSafe`). For every process, `Owns(p)`: its slot is within
    `numreaders` and bears its number, and it has its lock on the lock file if it has a slot;
    `Writes(p)`: only the holder of the writer mutex is past the begin of a write
    transaction, whose number is above what is published; `Protects(p)`: a reader
    that has stored its number and checked it holds back `me_pgoldest` of everybody. The heart is
    `FindOldest`: the minimum over the slots is at most every number that a reader has
    checked, and a number stored later is checked against a published one that is no smaller.
  - `PageInv` is about the pages, and gives `TypeCorrect`, `SnapshotCorrect`
    (`SnapshotIntact`), `NewestCorrect` (`NewestIntact`) and `AuditCorrect` (`Audit`).
    `MetasOK`: the two meta pages are consecutive transactions, in which each page has one use,
    the newest is intact in the map and on stable storage, and what storage lacks is at most
    the newest meta page. `LockOK`: what is published is the newest, or the one before it while
    the newest is being committed or its writer is dead. `WriterOK`: at each place in the
    commit, what the transaction has taken belongs to neither meta page, and what it has not
    written is dirty. `ReaderOK` and `Undisturbed`: the snapshot of a reader is intact, and
    the writer takes no page of it. The last one rests on `Protects`: a record of the free list is taken
    only below `me_pgoldest`, and `Follows` says that what a later transaction has freed of an
    earlier tree is in later records.
  - `StoreCorrect` (`ImplementsSnapshots`): each step of `Lmdb` is a step of `Snapshots` or
    changes none of its variables. `WriteMeta` is the commit, `ReadCopy` gives
    the view; with `PageInv` the value read through the meta page of a reader is that
    of its version as long as it reads.

Only model-checked: the liveness properties (`ResolveTerminates`, `CallReturns`),
which need fairness; `FreshAfterSuccess`, `FreshUnlessTorn`, `BuildsOnFreshDeps` and
`SettledSelectsNothing`, which need conditions on the graph as well; everything in `Sandbox`,
where the order of mounts that lie on each other calls for induction over their list; and
`Condvar`, where the list of waiters is a linked structure that calls for induction too.

## Not modelled

- The directive parser, the listing and the installation of outputs: functions of text or of a
  tree of files, with no state that a second actor or a failure could meet. `Resolve`
  starts from parsed directives and takes every outcome of a condition.
- Which files `find` selects from IGNORE and CHECK; `PBuild` has the result of a scan.
- Layer preparation and `cleanup()` in detail, `init_builddir`: file system work inside one
  invocation. Their hazards are in `PROJECT.json` with a note.
- Equal file times, and changes of an output that its checksum does not see.
- The make rules (declarative) and `root-vconsole` (one call of a program).
- `Fetch`: scripts with several run-once steps, `--force` of `download`, which no script uses.
- LMDB: nested transactions, spilling, several databases, `MDB_DUPSORT`, overflow pages,
  cursors, a tree that becomes empty, `MDB_WRITEMAP`, `MDB_NOLOCK`, `MDB_RDONLY`
  environments, `MDB_PREVSNAPSHOT`, `MDB_NOSYNC`, copying and resizing; comparison and layout of keys.
- libc: process-shared condition variables; recursive, error-checking, robust and
  priority-inheriting mutexes; weak memory; the return value of a wait.
- All other ports. They are the greater part of the repository by far, vendored from
  other projects, and pbuild only runs their build scripts; a model of them would
  be a model of those projects. LMDB and the condition variables were chosen for what
  a test hardly reaches.
