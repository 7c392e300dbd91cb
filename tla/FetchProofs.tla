---------------------------- MODULE FetchProofs ----------------------------
(***************************************************************************)
(* Proofs about Fetch, for any number of scripts, versions and patches,    *)
(* and any number of failures and edits.                                   *)
(***************************************************************************)
EXTENDS Fetch, TLAPS

(***************************************************************************)
(* The shape of the state.                                                 *)
(***************************************************************************)
Pc == {"idle", "download", "fetch", "verify", "move", "remove", "unpack", "stamp",
       "patches", "patch", "patching"} \cup PastPatches
Temp == {"none", "good", "bad", "part", "whole"}
Extra == {"none", "part", "whole"}
Degree == {"no", "half", "yes"}
Place == 1..Patch + 1

Directory == [files : SUBSET Version, whole : BOOLEAN, applied : [1..Patch -> Degree],
              also : Degree \cup {"cut"}, marks : SUBSET Mark, torn : BOOLEAN]
Run == [pc : Pc, temp : Temp, next : Place]

Shape ==
    /\ archive \in [Version -> {"none", "bad", "good"}]
    /\ extra \in [Version -> Extra]
    /\ builddir \in [Scripts -> Directory]
    /\ run \in [Scripts -> Run]
    /\ version \in [Scripts -> Version]
    /\ edited \subseteq Scripts /\ disturbed \subseteq Version
    /\ faults \in 0..MaxFaults /\ edits \in 0..MaxEdits

\* The names of the steps, marks and degrees; the proofs below use no more of these sets.
LEMMA Names ==
    /\ {"idle", "download", "fetch", "verify", "move", "remove"} \subseteq Pc
    /\ {"unpack", "stamp", "patches", "patch", "patching"} \subseteq Pc
    /\ {"once", "download_extra", "open_extra", "fetch_extra", "apply_extra"} \subseteq Pc
    /\ {"applying_extra", "ran", "configure", "configuring", "make"} \subseteq Pc
    /\ {"none", "good", "bad", "part", "whole"} \subseteq Temp
    /\ {"none", "part", "whole"} \subseteq Extra /\ Extra \subseteq Temp
    /\ {"no", "half", "yes"} \subseteq Degree
    /\ {"unpacked", "patched", "ran", "configured"} \subseteq Mark
    /\ 1 \in Place
    BY FetchAssumption DEF Pc, PastPatches, Temp, Extra, Degree, Mark, Place

\* An empty directory and an idle run have the shape.
LEMMA Constants == Empty \in Directory /\ Idle \in Run
    <1>1. Empty \in Directory
        BY Names DEF Empty, Directory
    <1>2. Idle \in Run
        BY Names DEF Idle, Run
    <1> QED BY <1>1, <1>2

\* The initial states have the shape.
LEMMA ShapeInit == Init => Shape
    BY FetchAssumption, Constants, Names DEF Init, Shape

-----------------------------------------------------------------------------
(***************************************************************************)
(* What a step makes of the run and of the directory of its script, field  *)
(* by field.                                                               *)
(***************************************************************************)
Moved(s) == run' \in [Scripts -> Run] /\ \A q \in Scripts \ {s} : run'[q] = run[q]

Went(s, pc, temp, next) ==
    Moved(s) /\ run'[s].pc = pc /\ run'[s].temp = temp /\ run'[s].next = next

Built(s) ==
    builddir' \in [Scripts -> Directory] /\ \A q \in Scripts \ {s} : builddir'[q] = builddir[q]

Became(s, files, whole, applied, also, marks, torn) ==
    /\ Built(s)
    /\ builddir'[s].files = files /\ builddir'[s].whole = whole
    /\ builddir'[s].applied = applied /\ builddir'[s].also = also
    /\ builddir'[s].marks = marks /\ builddir'[s].torn = torn

\* A script that exits.
LEMMA WentIdle ==
    ASSUME Shape, NEW s \in Scripts, Exit(s)
    PROVE  Went(s, "idle", "none", 1)
    BY Constants DEF Shape, Exit, Went, Moved, Idle

\* A script that goes on.
LEMMA WentOn ==
    ASSUME Shape, NEW s \in Scripts, NEW pc \in Pc, Goto(s, pc)
    PROVE  Went(s, pc, run[s].temp, run[s].next)
    BY DEF Shape, Goto, Went, Moved, Run

\* A script that goes on with another temporary file.
LEMMA WentWith ==
    ASSUME Shape, NEW s \in Scripts, NEW pc \in Pc, NEW temp \in Temp,
           run' = [run EXCEPT ![s].pc = pc, ![s].temp = temp]
    PROVE  Went(s, pc, temp, run[s].next)
    BY ZenonT(30) DEF Shape, Went, Moved, Run

\* A script that goes on to another patch.
LEMMA WentTo ==
    ASSUME Shape, NEW s \in Scripts, NEW pc \in Pc, NEW next \in Place,
           run' = [run EXCEPT ![s].pc = pc, ![s].next = next]
    PROVE  Went(s, pc, run[s].temp, next)
    BY ZenonT(30) DEF Shape, Went, Moved, Run

\* A run that stays where it is.
LEMMA WentSame ==
    ASSUME Shape, NEW s \in Scripts, run' = run
    PROVE  Went(s, run[s].pc, run[s].temp, run[s].next)
    BY DEF Shape, Went, Moved

\* A directory that is left alone.
LEMMA BecameSame ==
    ASSUME Shape, NEW s \in Scripts, builddir' = builddir
    PROVE  LET b == builddir[s]
           IN  Became(s, b.files, b.whole, b.applied, b.also, b.marks, b.torn)
    BY DEF Shape, Became, Built

\* A directory that is changed, and the others that are not.
LEMMA Rebuilt ==
    ASSUME Shape, NEW s \in Scripts, NEW d \in Directory, builddir' = [builddir EXCEPT ![s] = d]
    PROVE  Built(s) /\ builddir'[s] = d
    BY DEF Shape, Built

\* A directory that is removed.
LEMMA BecameEmpty ==
    ASSUME Shape, NEW s \in Scripts, builddir' = [builddir EXCEPT ![s] = Empty]
    PROVE  Became(s, {}, FALSE, Empty.applied, "no", {}, FALSE)
    BY Constants DEF Shape, Became, Built, Empty

\* A mark that is made.
LEMMA BecameMarked ==
    ASSUME Shape, NEW s \in Scripts, NEW mark \in Mark, Touch(s, mark)
    PROVE  LET b == builddir[s]
           IN  Became(s, b.files, b.whole, b.applied, b.also, b.marks \cup {mark}, b.torn)
    <1>1. builddir[s] \in Directory
        BY DEF Shape
    <1>2. [builddir[s] EXCEPT !.marks = @ \cup {mark}] \in Directory
        BY Zenon, <1>1 DEF Directory
    <1>3. Built(s) /\ builddir'[s] = [builddir[s] EXCEPT !.marks = @ \cup {mark}]
        BY Zenon, <1>2, Rebuilt DEF Touch
    <1> QED BY <1>1, <1>3 DEF Became, Directory

\* Files that are removed.
LEMMA BecameTorn ==
    ASSUME Shape, NEW s \in Scripts, builddir' = [builddir EXCEPT ![s].whole = FALSE]
    PROVE  LET b == builddir[s]
           IN  Became(s, b.files, FALSE, b.applied, b.also, b.marks, b.torn)
    <1>1. builddir[s] \in Directory
        BY DEF Shape
    <1>2. [builddir[s] EXCEPT !.whole = FALSE] \in Directory
        BY Zenon, <1>1 DEF Directory
    <1>3. Built(s) /\ builddir'[s] = [builddir[s] EXCEPT !.whole = FALSE]
        BY Zenon, <1>2, Rebuilt
    <1> QED BY <1>1, <1>3 DEF Became, Directory

\* Files that are unpacked.
LEMMA BecameFuller ==
    ASSUME Shape, NEW s \in Scripts, NEW files \in SUBSET Version,
           builddir' = [builddir EXCEPT ![s].files = files]
    PROVE  LET b == builddir[s]
           IN  Became(s, files, b.whole, b.applied, b.also, b.marks, b.torn)
    <1>1. builddir[s] \in Directory
        BY DEF Shape
    <1>2. [builddir[s] EXCEPT !.files = files] \in Directory
        BY Zenon, <1>1 DEF Directory
    <1>3. Built(s) /\ builddir'[s] = [builddir[s] EXCEPT !.files = files]
        BY Zenon, <1>2, Rebuilt
    <1> QED BY <1>1, <1>3 DEF Became, Directory

\* The files of the version that the script names join the others.
LEMMA MoreFiles ==
    ASSUME Shape, NEW s \in Scripts
    PROVE  builddir[s].files \cup {version[s]} \in SUBSET Version
    BY DEF Shape, Directory

\* A directory with all the files of an archive.
LEMMA DirectoryWhole ==
    ASSUME NEW b \in Directory, NEW files \in SUBSET Version
    PROVE  LET c == [b EXCEPT !.files = files, !.whole = TRUE]
           IN  /\ c \in Directory
               /\ c.files = files /\ c.whole = TRUE /\ c.applied = b.applied
               /\ c.also = b.also /\ c.marks = b.marks /\ c.torn = b.torn
    <1>1. [b EXCEPT !.files = files, !.whole = TRUE] \in Directory
        BY Zenon DEF Directory
    <1> QED BY <1>1 DEF Directory

\* An archive that is unpacked to the end.
LEMMA BecameWhole ==
    ASSUME Shape, NEW s \in Scripts, NEW files \in SUBSET Version,
           builddir' = [builddir EXCEPT ![s].files = files, ![s].whole = TRUE]
    PROVE  LET b == builddir[s]
           IN  Became(s, files, TRUE, b.applied, b.also, b.marks, b.torn)
    <1> DEFINE c == [builddir[s] EXCEPT !.files = files, !.whole = TRUE]
    <1>1. builddir[s] \in Directory
        BY DEF Shape
    <1>2. /\ c \in Directory
          /\ c.files = files /\ c.whole = TRUE /\ c.applied = builddir[s].applied
          /\ c.also = builddir[s].also /\ c.marks = builddir[s].marks /\ c.torn = builddir[s].torn
        BY Zenon, <1>1, DirectoryWhole
    <1>3. builddir' = [builddir EXCEPT ![s] = c]
        BY Zenon
    <1>4. Built(s) /\ builddir'[s] = c
        BY Zenon, <1>2, <1>3, Rebuilt
    <1> HIDE DEF c
    <1> QED BY <1>2, <1>4 DEF Became

\* A patch that is applied in part or whole.
LEMMA BecamePatched ==
    ASSUME Shape, NEW s \in Scripts, NEW i, NEW d \in Degree,
           builddir' = [builddir EXCEPT ![s].applied[i] = d]
    PROVE  LET b == builddir[s]
           IN  Became(s, b.files, b.whole, [b.applied EXCEPT ![i] = d], b.also, b.marks, b.torn)
    <1>1. builddir[s] \in Directory
        BY DEF Shape
    <1>2. [builddir[s] EXCEPT !.applied[i] = d] \in Directory
        BY Zenon, <1>1 DEF Directory
    <1>3. Built(s) /\ builddir'[s] = [builddir[s] EXCEPT !.applied[i] = d]
        BY Zenon, <1>2, Rebuilt
    <1> QED BY <1>1, <1>3 DEF Became, Directory

\* The extra file, applied in part or whole.
LEMMA BecameAlso ==
    ASSUME Shape, NEW s \in Scripts, NEW d \in Degree \cup {"cut"},
           builddir' = [builddir EXCEPT ![s].also = d]
    PROVE  LET b == builddir[s]
           IN  Became(s, b.files, b.whole, b.applied, d, b.marks, b.torn)
    <1>1. builddir[s] \in Directory
        BY DEF Shape
    <1>2. [builddir[s] EXCEPT !.also = d] \in Directory
        BY Zenon, <1>1 DEF Directory
    <1>3. Built(s) /\ builddir'[s] = [builddir[s] EXCEPT !.also = d]
        BY Zenon, <1>2, Rebuilt
    <1> QED BY <1>1, <1>3 DEF Became, Directory

\* What is left of a directory.
LEMMA DirectoryCut ==
    ASSUME NEW b \in Directory, NEW left \in SUBSET Mark
    PROVE  LET c == [b EXCEPT !.whole = FALSE, !.marks = left, !.torn = TRUE]
           IN  /\ c \in Directory
               /\ c.files = b.files /\ c.whole = FALSE /\ c.applied = b.applied
               /\ c.also = b.also /\ c.marks = left /\ c.torn = TRUE
    <1>1. [b EXCEPT !.whole = FALSE, !.marks = left, !.torn = TRUE] \in Directory
        BY Zenon DEF Directory
    <1> QED BY <1>1 DEF Directory

\* A removal that is cut short.
LEMMA BecameCut ==
    ASSUME Shape, NEW s \in Scripts, NEW left \in SUBSET builddir[s].marks,
           builddir' = [builddir EXCEPT ![s].whole = FALSE, ![s].marks = left, ![s].torn = TRUE]
    PROVE  LET b == builddir[s]
           IN  Became(s, b.files, FALSE, b.applied, b.also, left, TRUE)
    <1> DEFINE c == [builddir[s] EXCEPT !.whole = FALSE, !.marks = left, !.torn = TRUE]
    <1>1. builddir[s] \in Directory /\ left \in SUBSET Mark
        BY DEF Shape, Directory
    <1>2. /\ c \in Directory
          /\ c.files = builddir[s].files /\ c.whole = FALSE /\ c.applied = builddir[s].applied
          /\ c.also = builddir[s].also /\ c.marks = left /\ c.torn = TRUE
        BY Zenon, <1>1, DirectoryCut
    <1>3. builddir' = [builddir EXCEPT ![s] = c]
        BY Zenon
    <1>4. Built(s) /\ builddir'[s] = c
        BY Zenon, <1>2, <1>3, Rebuilt
    <1> HIDE DEF c
    <1> QED BY <1>2, <1>4 DEF Became

-----------------------------------------------------------------------------
(***************************************************************************)
(* What is known of a script.                                              *)
(***************************************************************************)
Unpacked(s) ==
    /\ builddir[s].whole
    /\ \E v \in Version : builddir[s].files = {v}
    /\ s \in edited \/ builddir[s].files = {version[s]}

Applied(s) ==
    builddir[s].also = "yes" \/ (builddir[s].also = "cut" /\ disturbed # {})

\* The marks in a BUILDDIR say what was done to its tree, and are made in order.
Marks(s) ==
    /\ Has(s, "unpacked") => builddir[s].torn \/ Unpacked(s)
    /\ Has(s, "patched") => builddir[s].torn \/ \A i \in 1..Patch : builddir[s].applied[i] = "yes"
    /\ Has(s, "ran") => Applied(s)
    /\ builddir[s].torn \/ /\ Has(s, "configured") => Has(s, "ran")
                           /\ Has(s, "ran") => Has(s, "patched")
                           /\ Has(s, "patched") => Has(s, "unpacked")

Fetching == {"download", "fetch", "verify", "move", "remove"}
Extras == {"download_extra", "open_extra", "fetch_extra", "apply_extra", "applying_extra"}

\* How far a script is says what it found or did: it moves only what it verified, the
\* patches are applied in order, and a file without a checksum is in parts only after a
\* disturbance.
Progress(s) ==
    /\ run[s].pc \in Fetching => ~Has(s, "unpacked")
    /\ At(s, "move") => run[s].temp = "good"
    /\ run[s].pc \in {"remove", "unpack"} => archive[version[s]] = "good"
    /\ run[s].pc \in {"unpack", "stamp"} => builddir[s].marks = {}
    /\ At(s, "unpack") => builddir[s].files \subseteq {version[s]}
    /\ At(s, "stamp") => builddir[s].files = {version[s]} /\ builddir[s].whole
    /\ run[s].pc \in {"patches", "patch", "patching"} \cup PastPatches => Has(s, "unpacked")
    /\ run[s].pc \in {"patch", "patching"} =>
          \A i \in 1..Patch : i < run[s].next => builddir[s].applied[i] = "yes"
    /\ At(s, "patching") => run[s].next <= Patch
    /\ run[s].pc \in PastPatches => Has(s, "patched")
    /\ run[s].pc \in Extras => ~Has(s, "ran")
    /\ run[s].pc \in {"apply_extra", "applying_extra"} =>
          extra[version[s]] = "whole" \/ disturbed # {}
    /\ At(s, "applying_extra") => run[s].temp = "whole" \/ disturbed # {}
    /\ At(s, "ran") => Applied(s)
    /\ run[s].pc \in {"configure", "configuring", "make"} => Has(s, "ran")

Known(s) == Marks(s) /\ Progress(s)

\* A step of s leaves the other scripts alone,
Apart(s) ==
    \A q \in Scripts \ {s} :
        /\ run'[q] = run[q] /\ builddir'[q] = builddir[q] /\ version'[q] = version[q]
        /\ q \in edited' <=> q \in edited

\* and it spoils no archive, and no file without a checksum unnoticed.
Kept ==
    /\ \A v \in Version : archive[v] = "good" => archive'[v] = "good"
    /\ disturbed # {} => disturbed' # {}
    /\ \A v \in Version : extra[v] = "whole" => extra'[v] = "whole" \/ disturbed' # {}

\* What every step of s does, then.
Good(s) == Shape' /\ Known(s)' /\ Apart(s) /\ Kept

\* A step on the run and the directory of one script only.
LEMMA LocalStep ==
    ASSUME Shape, NEW s \in Scripts, Moved(s), Built(s),
           UNCHANGED <<archive, extra, disturbed, counts>>
    PROVE  Shape' /\ Apart(s) /\ Kept
    BY DEF Shape, Moved, Built, Apart, Kept, counts

\* The marks of a directory that is left alone.
LEMMA SameMarks ==
    ASSUME NEW s \in Scripts, Marks(s), builddir'[s] = builddir[s], version'[s] = version[s],
           s \in edited => s \in edited', disturbed # {} => disturbed' # {}
    PROVE  Marks(s)'
    BY DEF Marks, Unpacked, Applied, Has

\* Of a script that is idle the marks are all that is known.
LEMMA IdleKnown ==
    ASSUME NEW s \in Scripts, Marks(s)', run'[s].pc = "idle"
    PROVE  Known(s)'
    BY DEF Known, Progress, At, Fetching, Extras, PastPatches

\* A mark that is added when what it says holds.
LEMMA MarkAdded ==
    ASSUME NEW s \in Scripts, Marks(s), NEW mark, version'[s] = version[s],
           s \in edited => s \in edited', disturbed # {} => disturbed' # {},
           LET b == builddir[s] IN Became(s, b.files, b.whole, b.applied, b.also,
                                          b.marks \cup {mark}, b.torn),
           \/ mark = "unpacked" /\ Unpacked(s)
           \/ /\ mark = "patched" /\ Has(s, "unpacked")
              /\ \A i \in 1..Patch : builddir[s].applied[i] = "yes"
           \/ mark = "ran" /\ Has(s, "patched") /\ Applied(s)
           \/ mark = "configured" /\ Has(s, "ran")
    PROVE  Marks(s)'
    <1>1. /\ Unpacked(s) => Unpacked(s)'
          /\ Applied(s) => Applied(s)'
          /\ \A m : Has(s, m)' <=> Has(s, m) \/ m = mark
          /\ builddir'[s].applied = builddir[s].applied /\ builddir'[s].torn = builddir[s].torn
        BY DEF Became, Unpacked, Applied, Has
    <1> QED BY <1>1 DEF Marks

\* What is done by the function of pbuild_run_once, before its mark is made.
LEMMA AlsoDone ==
    ASSUME NEW s \in Scripts, Marks(s), ~Has(s, "ran"), NEW d, version'[s] = version[s],
           s \in edited => s \in edited',
           LET b == builddir[s] IN Became(s, b.files, b.whole, b.applied, d, b.marks, b.torn)
    PROVE  Marks(s)'
    <1>1. /\ Unpacked(s) => Unpacked(s)'
          /\ \A m : Has(s, m)' <=> Has(s, m)
          /\ builddir'[s].applied = builddir[s].applied /\ builddir'[s].torn = builddir[s].torn
        BY DEF Became, Unpacked, Has
    <1> QED BY <1>1 DEF Marks

\* A patch that is begun or done, in a directory that does not say they all are.
LEMMA PatchDone ==
    ASSUME NEW s \in Scripts, Marks(s), NEW applied, version'[s] = version[s],
           s \in edited => s \in edited', disturbed # {} => disturbed' # {},
           LET b == builddir[s] IN Became(s, b.files, b.whole, applied, b.also, b.marks, b.torn),
           Has(s, "patched") => builddir[s].torn \/ \A i \in 1..Patch : applied[i] = "yes"
    PROVE  Marks(s)'
    <1>1. /\ Unpacked(s) => Unpacked(s)'
          /\ Applied(s) => Applied(s)'
          /\ \A m : Has(s, m)' <=> Has(s, m)
          /\ builddir'[s].applied = applied /\ builddir'[s].torn = builddir[s].torn
        BY DEF Became, Unpacked, Applied, Has
    <1> QED BY <1>1 DEF Marks

\* What is known of a script stays so when another one takes a step, or none does.
LEMMA StillKnown ==
    ASSUME Shape, NEW q \in Scripts, Known(q), Kept, run'[q] = run[q],
           builddir'[q] = builddir[q], version'[q] = version[q], q \in edited' <=> q \in edited
    PROVE  Known(q)'
    <1>1. version[q] \in Version
        BY DEF Shape
    <1>2. Marks(q)'
        BY Zenon, SameMarks DEF Kept, Known
    <1>3. /\ Applied(q) => Applied(q)'
          /\ archive[version[q]] = "good" => archive'[version'[q]] = "good"
          /\ extra[version[q]] = "whole" \/ disturbed # {} =>
                extra'[version'[q]] = "whole" \/ disturbed' # {}
          /\ disturbed # {} => disturbed' # {}
        BY <1>1 DEF Kept, Applied
    <1>4. Progress(q)'
        BY SMTT(30), <1>3 DEF Known, Progress, Has, At
    <1> QED BY <1>2, <1>4 DEF Known

-----------------------------------------------------------------------------
(***************************************************************************)
(* The steps of a script, one by one.                                      *)
(***************************************************************************)
\* pbuild_fetch_and_unpack begins.
LEMMA StartStep == ASSUME Shape, NEW s \in Scripts, Known(s), Start(s) PROVE Good(s)
    <1>1. /\ run[s].pc = "idle" /\ UNCHANGED <<archive, extra, disturbed, builddir, counts>>
          /\ \/ Has(s, "unpacked") /\ Went(s, "patches", run[s].temp, run[s].next)
             \/ ~Has(s, "unpacked") /\ Went(s, "download", run[s].temp, run[s].next)
        BY Zenon, WentOn, Names DEF Start, At, counts
    <1>2. Shape' /\ Apart(s) /\ Kept
        BY Zenon, <1>1, BecameSame, LocalStep DEF Went, Became
    <1>3. Marks(s)'
        BY ZenonT(30), <1>1, SameMarks DEF Known, counts
    <1>4. Progress(s)'
        BY <1>1 DEF Known, Marks, Progress, Fetching, Extras, PastPatches, Has, At, Went, counts
    <1> QED BY <1>2, <1>3, <1>4 DEF Good, Known

\* download --sha256 looks for the archive.
LEMMA DownloadStep == ASSUME Shape, NEW s \in Scripts, Known(s), Download(s) PROVE Good(s)
    <1>1. /\ run[s].pc = "download" /\ UNCHANGED <<archive, extra, disturbed, builddir, counts>>
          /\ \/ archive[version[s]] = "good" /\ Went(s, "remove", run[s].temp, run[s].next)
             \/ Went(s, "fetch", run[s].temp, run[s].next)
        BY Zenon, WentOn, Names DEF Download, At, counts
    <1>2. Shape' /\ Apart(s) /\ Kept
        BY Zenon, <1>1, BecameSame, LocalStep DEF Went, Became
    <1>3. Marks(s)'
        BY ZenonT(30), <1>1, SameMarks DEF Known, counts
    <1>4. Progress(s)'
        BY <1>1 DEF Known, Marks, Progress, Fetching, Extras, PastPatches, Has, At, Went, counts
    <1> QED BY <1>2, <1>3, <1>4 DEF Good, Known

\* download fetches to a temporary file.
LEMMA FetchStep == ASSUME Shape, NEW s \in Scripts, Known(s), Fetch(s) PROVE Good(s)
    <1>1. /\ run[s].pc = "fetch" /\ UNCHANGED <<archive, extra, disturbed, builddir, counts>>
          /\ \E c \in {"good", "bad"} : Went(s, "verify", c, run[s].next)
        BY Zenon, WentWith, Names DEF Fetch, At, counts
    <1>2. Shape' /\ Apart(s) /\ Kept
        BY Zenon, <1>1, BecameSame, LocalStep DEF Went, Became
    <1>3. Marks(s)'
        BY ZenonT(30), <1>1, SameMarks DEF Known, counts
    <1>4. Progress(s)'
        BY <1>1 DEF Known, Marks, Progress, Fetching, Extras, PastPatches, Has, At, Went, counts
    <1> QED BY <1>2, <1>3, <1>4 DEF Good, Known

\* download compares the checksum.
LEMMA VerifyStep == ASSUME Shape, NEW s \in Scripts, Known(s), Verify(s) PROVE Good(s)
    <1>1. /\ run[s].pc = "verify" /\ UNCHANGED <<archive, extra, disturbed, builddir, counts>>
          /\ \/ run[s].temp = "good" /\ Went(s, "move", run[s].temp, run[s].next)
             \/ Went(s, "idle", "none", 1)
        BY Zenon, WentOn, WentIdle, Names DEF Verify, At, counts
    <1>2. Shape' /\ Apart(s) /\ Kept
        BY Zenon, <1>1, BecameSame, LocalStep DEF Went, Became
    <1>3. Marks(s)'
        BY ZenonT(30), <1>1, SameMarks DEF Known, counts
    <1>4. Progress(s)'
        BY <1>1 DEF Known, Marks, Progress, Fetching, Extras, PastPatches, Has, At, Went, counts
    <1> QED BY <1>2, <1>3, <1>4 DEF Good, Known

\* download moves the file in place.
LEMMA MoveStep == ASSUME Shape, NEW s \in Scripts, Known(s), Move(s) PROVE Good(s)
    <1>1. /\ run[s].pc = "move" /\ run[s].temp = "good" /\ version[s] \in Version
          /\ archive' = [archive EXCEPT ![version[s]] = "good"]
          /\ UNCHANGED <<extra, disturbed, builddir, counts>>
        BY Zenon DEF Move, At, Known, Progress, counts, Shape
    <1>2. Went(s, "remove", "none", run[s].next)
        BY Zenon, WentWith, Names DEF Move
    <1>3. /\ archive' \in [Version -> {"none", "bad", "good"}] /\ archive'[version[s]] = "good"
          /\ Kept
        BY <1>1 DEF Shape, Kept
    <1>4. Shape' /\ Apart(s)
        BY <1>1, <1>2, <1>3 DEF Went, Moved, Shape, Apart, counts
    <1>5. Marks(s)'
        BY ZenonT(30), <1>1, SameMarks DEF Known, counts
    <1>6. Progress(s)'
        BY <1>1, <1>2, <1>3 DEF Known, Marks, Progress, Fetching, Extras, PastPatches, Has, At,
           Went, counts
    <1> QED BY <1>3, <1>4, <1>5, <1>6 DEF Good, Known

\* rm -rf removes a file.
LEMMA RemoveSomeStep == ASSUME Shape, NEW s \in Scripts, Known(s), RemoveSome(s) PROVE Good(s)
    <1>1. run[s].pc = "remove" /\ UNCHANGED <<archive, extra, disturbed, counts>>
        BY DEF RemoveSome, At, counts
    <1>2. Went(s, run[s].pc, run[s].temp, run[s].next)
        BY Zenon, WentSame DEF RemoveSome
    <1>3. LET b == builddir[s] IN Became(s, b.files, FALSE, b.applied, b.also, b.marks, b.torn)
        BY Zenon, BecameTorn DEF RemoveSome
    <1>4. Shape' /\ Apart(s) /\ Kept
        BY Zenon, <1>1, <1>2, <1>3, LocalStep DEF Went, Became
    <1>5. Marks(s)'
        BY <1>1, <1>3 DEF Fetching, Known, Marks, Progress, PastPatches, Unpacked, Applied, Has,
           At, Became, counts
    <1>6. Progress(s)'
        BY <1>1, <1>2, <1>3 DEF Known, Marks, Progress, Fetching, Extras, PastPatches, Applied,
           Has, At, Went, Became, counts
    <1> QED BY <1>4, <1>5, <1>6 DEF Good, Known

\* rm -rf is done.
LEMMA RemoveStep == ASSUME Shape, NEW s \in Scripts, Known(s), Remove(s) PROVE Good(s)
    <1>1. /\ run[s].pc = "remove" /\ edited' = edited \ {s}
          /\ UNCHANGED <<archive, extra, disturbed, version, faults, edits>>
        BY DEF Remove, At
    <1>2. Went(s, "unpack", run[s].temp, run[s].next)
        BY Zenon, WentOn, Names DEF Remove
    <1>3. Became(s, {}, FALSE, Empty.applied, "no", {}, FALSE)
        BY Zenon, BecameEmpty DEF Remove
    <1>4. Shape' /\ Apart(s) /\ Kept
        BY SMTT(30), <1>1, <1>2, <1>3 DEF Went, Moved, Became, Built, Shape, Apart, Kept
    <1>5. Marks(s)'
        BY <1>1, <1>3 DEF Marks, Has, Became
    <1>6. Progress(s)'
        BY <1>1, <1>2, <1>3 DEF Known, Marks, Progress, Fetching, Extras, PastPatches, Applied,
           Has, At, Went, Became, counts
    <1> QED BY <1>4, <1>5, <1>6 DEF Good, Known

\* A file is unpacked.
LEMMA UnpackSomeStep == ASSUME Shape, NEW s \in Scripts, Known(s), UnpackSome(s) PROVE Good(s)
    <1>1. run[s].pc = "unpack" /\ UNCHANGED <<archive, extra, disturbed, counts>>
        BY DEF UnpackSome, At, counts
    <1>2. Went(s, run[s].pc, run[s].temp, run[s].next)
        BY Zenon, WentSame DEF UnpackSome
    <1>3. LET b == builddir[s] IN Became(s, b.files \cup {version[s]}, b.whole, b.applied, b.also,
                                        b.marks, b.torn)
        BY Zenon, BecameFuller, MoreFiles DEF UnpackSome
    <1>4. Shape' /\ Apart(s) /\ Kept
        BY Zenon, <1>1, <1>2, <1>3, LocalStep DEF Went, Became
    <1>5. Marks(s)'
        BY <1>1, <1>3 DEF Known, Marks, Progress, PastPatches, Unpacked, Applied, Has, At, Became,
           counts
    <1>6. Progress(s)'
        BY <1>1, <1>2, <1>3 DEF Known, Marks, Progress, Fetching, Extras, PastPatches, Applied,
           Has, At, Went, Became, counts
    <1> QED BY <1>4, <1>5, <1>6 DEF Good, Known

\* The last file is unpacked.
LEMMA UnpackStep == ASSUME Shape, NEW s \in Scripts, Known(s), Unpack(s) PROVE Good(s)
    <1>1. run[s].pc = "unpack" /\ UNCHANGED <<archive, extra, disturbed, counts>>
        BY DEF Unpack, At, counts
    <1>2. Went(s, "stamp", run[s].temp, run[s].next)
        BY Zenon, WentOn, Names DEF Unpack
    <1>3. LET b == builddir[s] IN Became(s, b.files \cup {version[s]}, TRUE, b.applied, b.also,
                                        b.marks, b.torn)
        BY Zenon, BecameWhole, MoreFiles DEF Unpack
    <1>4. Shape' /\ Apart(s) /\ Kept
        BY Zenon, <1>1, <1>2, <1>3, LocalStep DEF Went, Became
    <1>5. Marks(s)'
        BY <1>1, <1>3 DEF Known, Marks, Progress, PastPatches, Unpacked, Applied, Has, At, Became,
           counts
    <1>6. Progress(s)'
        BY <1>1, <1>2, <1>3 DEF Known, Marks, Progress, Fetching, Extras, PastPatches, Applied,
           Has, At, Went, Became, counts
    <1> QED BY <1>4, <1>5, <1>6 DEF Good, Known

\* The stamp is made.
LEMMA StampStep == ASSUME Shape, NEW s \in Scripts, Known(s), Stamp(s) PROVE Good(s)
    <1>1. run[s].pc = "stamp" /\ UNCHANGED <<archive, extra, disturbed, counts>>
        BY DEF Stamp, At, counts
    <1>2. Went(s, "patches", run[s].temp, run[s].next)
        BY Zenon, WentOn, Names DEF Stamp
    <1>3. LET b == builddir[s] IN Became(s, b.files, b.whole, b.applied, b.also,
                                        b.marks \cup {"unpacked"}, b.torn)
        BY Zenon, BecameMarked, Names DEF Stamp
    <1>4. Shape' /\ Apart(s) /\ Kept
        BY ZenonT(30), <1>1, <1>2, <1>3, LocalStep DEF Went, Became
    <1>5. Unpacked(s) /\ builddir[s].marks = {}
        <2>1. version[s] \in Version
            BY DEF Shape
        <2> QED BY <1>1, <2>1 DEF Known, Progress, At, Unpacked
    <1>6. Marks(s)'
        BY ZenonT(30), <1>1, <1>3, <1>5, MarkAdded DEF Known, counts
    <1>7. Progress(s)'
        BY <1>1, <1>2, <1>3, <1>5 DEF Known, Marks, Progress, Fetching, Extras, PastPatches,
           Applied, Has, At, Went, Became, counts
    <1> QED BY <1>4, <1>6, <1>7 DEF Good, Known

\* pbuild_apply_patches begins.
LEMMA ApplyPatchesStep == ASSUME Shape, NEW s \in Scripts, Known(s), ApplyPatches(s) PROVE Good(s)
    <1>1. /\ run[s].pc = "patches" /\ UNCHANGED <<archive, extra, disturbed, builddir, counts>>
          /\ \/ Has(s, "patched") /\ Went(s, "once", run[s].temp, 1)
             \/ ~Has(s, "patched") /\ Went(s, "patch", run[s].temp, 1)
        BY Zenon, WentTo, Names DEF ApplyPatches, At, counts
    <1>2. Shape' /\ Apart(s) /\ Kept
        BY Zenon, <1>1, BecameSame, LocalStep DEF Went, Became
    <1>3. Marks(s)'
        BY ZenonT(30), <1>1, SameMarks DEF Known, counts
    <1>4. Progress(s)'
        BY <1>1, FetchAssumption DEF Known, Marks, Progress, Fetching, Extras, PastPatches, Has,
           At, Went, counts
    <1> QED BY <1>2, <1>3, <1>4 DEF Good, Known

\* patch begins, unless it finds a part applied.
LEMMA PatchStartStep == ASSUME Shape, NEW s \in Scripts, Known(s), PatchStart(s) PROVE Good(s)
    <1>1. /\ run[s].pc = "patch" /\ run[s].next \in 1..Patch
          /\ UNCHANGED <<archive, extra, disturbed, counts>>
        BY FetchAssumption DEF PatchStart, At, counts, Shape, Run, Place
    <1>2. CASE Exit(s) /\ builddir' = builddir
        <2>1. Went(s, "idle", "none", 1)
            BY Zenon, <1>2, WentIdle
        <2>2. Shape' /\ Apart(s) /\ Kept
            BY Zenon, <1>1, <1>2, <2>1, BecameSame, LocalStep DEF Went, Became
        <2>3. Marks(s)'
            BY Zenon, <1>1, <1>2, SameMarks DEF Known, counts
        <2>4. Known(s)'
            BY Zenon, <2>1, <2>3, IdleKnown DEF Went
        <2> QED BY <2>2, <2>4 DEF Good
    <1>3. CASE /\ builddir[s].applied[run[s].next] = "no" /\ Goto(s, "patching")
               /\ builddir' = [builddir EXCEPT ![s].applied[run[s].next] = "half"]
        <2> DEFINE applied == [builddir[s].applied EXCEPT ![run[s].next] = "half"]
        <2>1. Went(s, "patching", run[s].temp, run[s].next)
            BY Zenon, <1>3, WentOn, Names
        <2>2. LET b == builddir[s]
              IN  Became(s, b.files, b.whole, applied, b.also, b.marks, b.torn)
            BY Zenon, <1>3, BecamePatched, Names
        <2>3. Shape' /\ Apart(s) /\ Kept
            BY Zenon, <1>1, <2>1, <2>2, LocalStep DEF Went, Became
        <2>4. \A i \in 1..Patch : i < run[s].next => applied[i] = builddir[s].applied[i]
            BY <1>1 DEF Shape, Directory
        <2>5. ~Has(s, "patched") \/ builddir[s].torn
            BY <1>1, <1>3 DEF Known, Marks
        <2> HIDE DEF applied
        <2>6. Marks(s)'
            BY Zenon, <1>1, <2>2, <2>5, PatchDone DEF Known, counts
        <2>7. /\ Has(s, "unpacked")
              /\ \A i \in 1..Patch : i < run[s].next => builddir[s].applied[i] = "yes"
            BY <1>1 DEF Known, Progress
        <2>8. Progress(s)'
            BY <1>1, <2>1, <2>2, <2>4, <2>7 DEF Progress, Fetching, Extras, PastPatches, Has, At,
               Went, Became
        <2> QED BY <2>3, <2>6, <2>8 DEF Good, Known
    <1> QED BY Zenon, <1>2, <1>3 DEF PatchStart

\* A patch is applied.
LEMMA PatchEndStep == ASSUME Shape, NEW s \in Scripts, Known(s), PatchEnd(s) PROVE Good(s)
    <1> DEFINE applied == [builddir[s].applied EXCEPT ![run[s].next] = "yes"]
    <1>1. /\ run[s].pc = "patching" /\ run[s].next \in 1..Patch
          /\ UNCHANGED <<archive, extra, disturbed, counts>>
        BY FetchAssumption DEF PatchEnd, At, counts, Shape, Run, Place, Known, Progress
    <1>2. Went(s, "patch", run[s].temp, run[s].next + 1)
        <2>1. run[s].next + 1 \in Place
            BY <1>1, FetchAssumption DEF Place
        <2> QED BY Zenon, <2>1, WentTo, Names DEF PatchEnd
    <1>3. LET b == builddir[s]
          IN  Became(s, b.files, b.whole, applied, b.also, b.marks, b.torn)
        BY Zenon, BecamePatched, Names DEF PatchEnd
    <1>4. Shape' /\ Apart(s) /\ Kept
        BY Zenon, <1>1, <1>2, <1>3, LocalStep DEF Went, Became
    <1>5. \A i \in 1..Patch : applied[i] = IF i = run[s].next THEN "yes" ELSE builddir[s].applied[i]
        BY Zenon, <1>1 DEF Shape, Directory
    <1> HIDE DEF applied
    <1>p. Has(s, "patched") => builddir[s].torn \/ \A i \in 1..Patch : applied[i] = "yes"
        BY <1>5 DEF Known, Marks
    <1>6. Marks(s)'
        BY Zenon, <1>1, <1>3, <1>p, PatchDone DEF Known, counts
    <1>7. \A i \in 1..Patch : i < run[s].next + 1 => applied[i] = "yes"
        <2>1. \A i \in 1..Patch : i < run[s].next => builddir[s].applied[i] = "yes"
            BY <1>1 DEF Known, Progress
        <2> QED BY <1>1, <1>5, <2>1
    <1>8. Progress(s)'
        BY <1>1, <1>2, <1>3, <1>7 DEF Known, Marks, Progress, Fetching, Extras, PastPatches,
           Applied, Has, At, Went, Became, counts
    <1> QED BY <1>4, <1>6, <1>8 DEF Good, Known

\* The last patch was applied.
LEMMA PatchedStep == ASSUME Shape, NEW s \in Scripts, Known(s), Patched(s) PROVE Good(s)
    <1>1. run[s].pc = "patch" /\ UNCHANGED <<archive, extra, disturbed, counts>>
        BY DEF Patched, At, counts
    <1>2. Went(s, "once", run[s].temp, run[s].next)
        BY Zenon, WentOn, Names DEF Patched
    <1>3. LET b == builddir[s] IN Became(s, b.files, b.whole, b.applied, b.also,
                                        b.marks \cup {"patched"}, b.torn)
        BY Zenon, BecameMarked, Names DEF Patched
    <1>4. Shape' /\ Apart(s) /\ Kept
        BY ZenonT(30), <1>1, <1>2, <1>3, LocalStep DEF Went, Became
    <1>5. Has(s, "unpacked") /\ \A i \in 1..Patch : builddir[s].applied[i] = "yes"
        <2>1. \A i \in 1..Patch : i < run[s].next
            BY FetchAssumption DEF Patched, Shape, Run, Place
        <2> QED BY <1>1, <2>1 DEF Known, Progress
    <1>6. Marks(s)'
        BY ZenonT(30), <1>1, <1>3, <1>5, MarkAdded DEF Known, counts
    <1>7. Progress(s)'
        BY <1>1, <1>2, <1>3, <1>5 DEF Known, Marks, Progress, Fetching, Extras, PastPatches,
           Applied, Has, At, Went, Became, counts
    <1> QED BY <1>4, <1>6, <1>7 DEF Good, Known

\* pbuild_run_once begins.
LEMMA RunOnceStep == ASSUME Shape, NEW s \in Scripts, Known(s), RunOnce(s) PROVE Good(s)
    <1>1. /\ run[s].pc = "once" /\ UNCHANGED <<archive, extra, disturbed, builddir, counts>>
          /\ \/ Has(s, "ran") /\ Went(s, "configure", run[s].temp, run[s].next)
             \/ ~Has(s, "ran") /\ Went(s, "download_extra", run[s].temp, run[s].next)
        BY Zenon, WentOn, Names DEF RunOnce, At, counts
    <1>2. Shape' /\ Apart(s) /\ Kept
        BY Zenon, <1>1, BecameSame, LocalStep DEF Went, Became
    <1>3. Marks(s)'
        BY ZenonT(30), <1>1, SameMarks DEF Known, counts
    <1>4. Progress(s)'
        BY <1>1 DEF Known, Marks, Progress, Fetching, Extras, PastPatches, Has, At, Went, counts
    <1> QED BY <1>2, <1>3, <1>4 DEF Good, Known

\* download without --sha256 looks for the file.
LEMMA DownloadExtraStep == ASSUME Shape, NEW s \in Scripts, Known(s), DownloadExtra(s) PROVE Good(s)
    <1>1. /\ run[s].pc = "download_extra" /\ version[s] \in Version
          /\ UNCHANGED <<archive, builddir, counts>>
          /\ disturbed \subseteq disturbed' /\ disturbed' \subseteq Version
          /\ extra' \in [Version -> Extra]
          /\ extra' = extra /\ (extra[version[s]] = "part" => disturbed' # {})
        BY Zenon, Names DEF DownloadExtra, At, counts, Shape
    <1>2. \/ extra[version[s]] = "none" /\ Went(s, "open_extra", run[s].temp, run[s].next)
          \/ extra[version[s]] # "none" /\ Went(s, "apply_extra", run[s].temp, run[s].next)
        BY Zenon, WentOn, Names DEF DownloadExtra
    <1>3. Kept
        BY <1>1 DEF Kept, Shape
    <1>4. Shape' /\ Apart(s)
        BY <1>1, <1>2 DEF Went, Moved, Shape, Apart, counts
    <1>5. Marks(s)'
        BY ZenonT(30), <1>1, SameMarks DEF Known, counts
    <1>6. Progress(s)'
        BY Zenon, <1>1, <1>2 DEF Known, Marks, Progress, Fetching, Extras, PastPatches, Has, At,
           Went, counts, Extra
    <1> QED BY <1>3, <1>4, <1>5, <1>6 DEF Good, Known

\* download opens the file to write it in place.
LEMMA OpenExtraStep == ASSUME Shape, NEW s \in Scripts, Known(s), OpenExtra(s) PROVE Good(s)
    <1>1. /\ run[s].pc = "open_extra" /\ version[s] \in Version
          /\ UNCHANGED <<archive, builddir, counts>>
          /\ disturbed \subseteq disturbed' /\ disturbed' \subseteq Version
          /\ extra' \in [Version -> Extra]
          /\ extra' = [extra EXCEPT ![version[s]] = "part"]
          /\ extra[version[s]] = "whole" => disturbed' # {}
        BY Zenon, Names DEF OpenExtra, At, counts, Shape
    <1>2. Went(s, "fetch_extra", run[s].temp, run[s].next)
        BY Zenon, WentOn, Names DEF OpenExtra
    <1>3. Kept
        BY <1>1 DEF Kept, Shape
    <1>4. Shape' /\ Apart(s)
        BY <1>1, <1>2 DEF Went, Moved, Shape, Apart, counts
    <1>5. Marks(s)'
        BY ZenonT(30), <1>1, SameMarks DEF Known, counts
    <1>6. Progress(s)'
        BY <1>1, <1>2 DEF Known, Marks, Progress, Fetching, Extras, PastPatches, Has, At, Went,
           counts
    <1> QED BY <1>3, <1>4, <1>5, <1>6 DEF Good, Known

\* The last byte of the file arrives.
LEMMA FetchExtraStep == ASSUME Shape, NEW s \in Scripts, Known(s), FetchExtra(s) PROVE Good(s)
    <1>1. /\ run[s].pc = "fetch_extra" /\ version[s] \in Version
          /\ UNCHANGED <<archive, builddir, counts>>
          /\ disturbed \subseteq disturbed' /\ disturbed' \subseteq Version
          /\ extra' \in [Version -> Extra]
          /\ \/ extra' = [extra EXCEPT ![version[s]] = "part"] /\ disturbed' # {}
             \/ extra' = [extra EXCEPT ![version[s]] = "whole"]
        BY Zenon, Names DEF FetchExtra, At, counts, Shape
    <1>2. Went(s, "apply_extra", run[s].temp, run[s].next)
        BY Zenon, WentOn, Names DEF FetchExtra
    <1>3. Kept
        BY <1>1 DEF Kept, Shape
    <1>4. Shape' /\ Apart(s)
        BY <1>1, <1>2 DEF Went, Moved, Shape, Apart, counts
    <1>5. Marks(s)'
        BY ZenonT(30), <1>1, SameMarks DEF Known, counts
    <1>6. Progress(s)'
        BY <1>1, <1>2 DEF Known, Marks, Progress, Fetching, Extras, PastPatches, Has, At, Went,
           counts, Shape
    <1> QED BY <1>3, <1>4, <1>5, <1>6 DEF Good, Known

\* patch begins to apply the file, unless it finds a part applied or sees that it is cut.
LEMMA ApplyExtraStep == ASSUME Shape, NEW s \in Scripts, Known(s), ApplyExtra(s) PROVE Good(s)
    <1>1. run[s].pc = "apply_extra" /\ UNCHANGED <<archive, extra, disturbed, counts>>
        BY DEF ApplyExtra, At, counts
    <1>2. \/ Went(s, "idle", "none", 1)
          \/ Went(s, "applying_extra", extra[version[s]], run[s].next)
        <2>1. extra[version[s]] \in Temp
            BY Names DEF Shape
        <2> QED BY Zenon, <2>1, WentIdle, WentWith, Names DEF ApplyExtra
    <1>3. \E d \in Degree \cup {"cut"} : LET b == builddir[s] IN
              Became(s, b.files, b.whole, b.applied, d, b.marks, b.torn)
        <2>1. CASE builddir' = builddir
            <3>1. builddir[s].also \in Degree \cup {"cut"}
                BY DEF Shape, Directory
            <3> QED BY Zenon, <2>1, <3>1, BecameSame
        <2>2. \A d \in Degree : builddir' = [builddir EXCEPT ![s].also = d] =>
                  LET b == builddir[s] IN Became(s, b.files, b.whole, b.applied, d, b.marks, b.torn)
            BY Zenon, BecameAlso
        <2> QED BY Zenon, <2>1, <2>2, Names DEF ApplyExtra
    <1>4. Shape' /\ Apart(s) /\ Kept
        BY Zenon, <1>1, <1>2, <1>3, LocalStep DEF Went, Became
    <1>5. ~Has(s, "ran")
        BY <1>1 DEF Known, Progress, Extras
    <1>6. Marks(s)'
        BY SMTT(30), <1>1, <1>3, <1>5, AlsoDone DEF Known, counts
    <1>7. Progress(s)'
        BY <1>1, <1>2, <1>3 DEF Known, Marks, Progress, Fetching, Extras, PastPatches, Applied,
           Has, At, Went, Became, counts
    <1> QED BY <1>4, <1>6, <1>7 DEF Good, Known

\* The file is applied.
LEMMA AppliedExtraStep == ASSUME Shape, NEW s \in Scripts, Known(s), AppliedExtra(s) PROVE Good(s)
    <1>1. run[s].pc = "applying_extra" /\ UNCHANGED <<archive, extra, disturbed, counts>>
        BY DEF AppliedExtra, At, counts
    <1>2. Went(s, "ran", "none", run[s].next)
        BY Zenon, WentWith, Names DEF AppliedExtra
    <1>3. \E d \in {"yes", "cut"} :
              /\ d = "cut" => run[s].temp # "whole" \/ extra[version[s]] # "whole"
              /\ LET b == builddir[s] IN Became(s, b.files, b.whole, b.applied, d, b.marks, b.torn)
        BY Zenon, BecameAlso, Names DEF AppliedExtra
    <1>4. Shape' /\ Apart(s) /\ Kept
        BY ZenonT(30), <1>1, <1>2, <1>3, LocalStep DEF Went, Became
    <1>5. ~Has(s, "ran")
        BY <1>1 DEF Known, Progress, Extras
    <1>6. Marks(s)'
        BY SMTT(30), <1>1, <1>3, <1>5, AlsoDone DEF Known, counts
    <1>7. Has(s, "unpacked") /\ Has(s, "patched")
        BY <1>1 DEF Known, Progress, PastPatches
    <1>8. (run[s].temp = "whole" /\ extra[version[s]] = "whole") \/ disturbed # {}
        BY <1>1 DEF Known, Progress, At
    <1>9. Applied(s)'
        BY <1>1, <1>3, <1>8 DEF Applied, Became
    <1>10. Progress(s)'
        BY <1>2, <1>3, <1>7, <1>9 DEF Progress, Fetching, Extras, Has, At, Went, Became
    <1> QED BY <1>4, <1>6, <1>10 DEF Good, Known

\* The function was run to its end.
LEMMA RanStep == ASSUME Shape, NEW s \in Scripts, Known(s), Ran(s) PROVE Good(s)
    <1>1. run[s].pc = "ran" /\ UNCHANGED <<archive, extra, disturbed, counts>>
        BY DEF Ran, At, counts
    <1>2. Went(s, "configure", run[s].temp, run[s].next)
        BY Zenon, WentOn, Names DEF Ran
    <1>3. LET b == builddir[s] IN Became(s, b.files, b.whole, b.applied, b.also,
                                        b.marks \cup {"ran"}, b.torn)
        BY Zenon, BecameMarked, Names DEF Ran
    <1>4. Shape' /\ Apart(s) /\ Kept
        BY ZenonT(30), <1>1, <1>2, <1>3, LocalStep DEF Went, Became
    <1>5. Has(s, "patched") /\ Applied(s)
        BY <1>1 DEF Known, Progress, At, PastPatches
    <1>6. Marks(s)'
        BY ZenonT(30), <1>1, <1>3, <1>5, MarkAdded DEF Known, counts
    <1>7. Progress(s)'
        BY <1>1, <1>2, <1>3, <1>5 DEF Known, Marks, Progress, Fetching, Extras, PastPatches,
           Applied, Has, At, Went, Became, counts
    <1> QED BY <1>4, <1>6, <1>7 DEF Good, Known

\* pbuild_configure_once begins.
LEMMA ConfigureOnceStep == ASSUME Shape, NEW s \in Scripts, Known(s), ConfigureOnce(s) PROVE Good(s)
    <1>1. /\ run[s].pc = "configure" /\ UNCHANGED <<archive, extra, disturbed, builddir, counts>>
          /\ \/ Has(s, "configured") /\ Went(s, "make", run[s].temp, run[s].next)
             \/ ~Has(s, "configured") /\ Went(s, "configuring", run[s].temp, run[s].next)
        BY Zenon, WentOn, Names DEF ConfigureOnce, At, counts
    <1>2. Shape' /\ Apart(s) /\ Kept
        BY Zenon, <1>1, BecameSame, LocalStep DEF Went, Became
    <1>3. Marks(s)'
        BY ZenonT(30), <1>1, SameMarks DEF Known, counts
    <1>4. Progress(s)'
        BY <1>1 DEF Known, Marks, Progress, Fetching, Extras, PastPatches, Has, At, Went, counts
    <1> QED BY <1>2, <1>3, <1>4 DEF Good, Known

\* The tree is configured.
LEMMA ConfiguredStep == ASSUME Shape, NEW s \in Scripts, Known(s), Configured(s) PROVE Good(s)
    <1>1. run[s].pc = "configuring" /\ UNCHANGED <<archive, extra, disturbed, counts>>
        BY DEF Configured, At, counts
    <1>2. Went(s, "make", run[s].temp, run[s].next)
        BY Zenon, WentOn, Names DEF Configured
    <1>3. LET b == builddir[s] IN Became(s, b.files, b.whole, b.applied, b.also,
                                        b.marks \cup {"configured"}, b.torn)
        BY Zenon, BecameMarked, Names DEF Configured
    <1>4. Shape' /\ Apart(s) /\ Kept
        BY ZenonT(30), <1>1, <1>2, <1>3, LocalStep DEF Went, Became
    <1>5. Has(s, "ran")
        BY <1>1 DEF Known, Progress
    <1>6. Marks(s)'
        BY ZenonT(30), <1>1, <1>3, <1>5, MarkAdded DEF Known, counts
    <1>7. Progress(s)'
        BY <1>1, <1>2, <1>3, <1>5 DEF Known, Marks, Progress, Fetching, Extras, PastPatches,
           Applied, Has, At, Went, Became, counts
    <1> QED BY <1>4, <1>6, <1>7 DEF Good, Known

\* The rest of the script.
LEMMA MakeStep == ASSUME Shape, NEW s \in Scripts, Known(s), Make(s) PROVE Good(s)
    <1>1. /\ run[s].pc = "make" /\ UNCHANGED <<archive, extra, disturbed, builddir, counts>>
          /\ Went(s, "idle", "none", 1)
        BY Zenon, WentIdle DEF Make, At, counts
    <1>2. Shape' /\ Apart(s) /\ Kept
        BY Zenon, <1>1, BecameSame, LocalStep DEF Went, Became
    <1>3. Marks(s)'
        BY ZenonT(30), <1>1, SameMarks DEF Known, counts
    <1>4. Progress(s)'
        BY <1>1 DEF Known, Marks, Progress, Fetching, Extras, PastPatches, Has, At, Went, counts
    <1> QED BY <1>2, <1>3, <1>4 DEF Good, Known

\* A script is killed.
LEMMA KillStep == ASSUME Shape, NEW s \in Scripts, Known(s), Kill(s) PROVE Good(s)
    <1>1. /\ UNCHANGED <<archive, extra, version, edited, edits, builddir>>
          /\ disturbed \subseteq disturbed' /\ disturbed' \subseteq Version
          /\ faults' \in 0..MaxFaults
        BY FetchAssumption DEF Kill, Shape
    <1>2. Went(s, "idle", "none", 1)
        BY Zenon, WentIdle DEF Kill
    <1>3. LET b == builddir[s] IN Became(s, b.files, b.whole, b.applied, b.also, b.marks, b.torn)
        BY Zenon, BecameSame DEF Kill
    <1>4. Shape' /\ Apart(s) /\ Kept
        BY SMTT(30), <1>1, <1>2, <1>3 DEF Went, Moved, Became, Built, Shape, Apart, Kept
    <1>5. Marks(s)'
        BY <1>1, <1>3, SameMarks DEF Known
    <1>6. Known(s)'
        BY Zenon, <1>2, <1>5, IdleKnown DEF Went
    <1> QED BY <1>4, <1>6 DEF Good

\* A script is edited.
LEMMA EditStep == ASSUME Shape, NEW s \in Scripts, Known(s), Edit(s) PROVE Good(s)
    <1>1. /\ run[s].pc = "idle" /\ UNCHANGED <<archive, extra, disturbed, faults>>
          /\ edits' \in 0..MaxEdits
          /\ version' \in [Scripts -> Version] /\ \A q \in Scripts \ {s} : version'[q] = version[q]
          /\ edited' = IF Has(s, "unpacked") THEN edited \cup {s} ELSE edited
        BY FetchAssumption DEF Edit, Shape, At
    <1>2. Went(s, "idle", run[s].temp, run[s].next)
        BY Zenon, <1>1, WentSame DEF Edit
    <1>3. LET b == builddir[s] IN Became(s, b.files, b.whole, b.applied, b.also, b.marks, b.torn)
        BY Zenon, BecameSame DEF Edit
    <1>4. Shape' /\ Apart(s) /\ Kept
        BY SMTT(30), <1>1, <1>2, <1>3 DEF Went, Moved, Became, Built, Shape, Apart, Kept
    <1>5. Marks(s)'
        BY <1>1, <1>3 DEF Known, Marks, Unpacked, Applied, Has, Became
    <1>6. Known(s)'
        BY Zenon, <1>2, <1>5, IdleKnown DEF Went
    <1> QED BY <1>4, <1>6 DEF Good

\* pbuild cleans the directory of a script.
LEMMA CleanStep == ASSUME Shape, NEW s \in Scripts, Known(s), Clean(s) PROVE Good(s)
    <1>1. /\ run[s].pc = "idle" /\ edited' = edited \ {s}
          /\ UNCHANGED <<archive, extra, disturbed, version, faults>>
          /\ edits' \in 0..MaxEdits
        BY FetchAssumption DEF Clean, Shape, At
    <1>2. Went(s, "idle", run[s].temp, run[s].next)
        BY Zenon, <1>1, WentSame DEF Clean
    <1>3. Became(s, {}, FALSE, Empty.applied, "no", {}, FALSE)
        BY Zenon, BecameEmpty DEF Clean
    <1>4. Shape' /\ Apart(s) /\ Kept
        BY SMTT(30), <1>1, <1>2, <1>3 DEF Went, Moved, Became, Built, Shape, Apart, Kept
    <1>5. Marks(s)'
        BY <1>1, <1>3 DEF Marks, Has, Became
    <1>6. Known(s)'
        BY Zenon, <1>2, <1>5, IdleKnown DEF Went
    <1> QED BY <1>4, <1>6 DEF Good

\* pbuild is killed while it cleans.
LEMMA CleanCutStep == ASSUME Shape, NEW s \in Scripts, Known(s), CleanCut(s) PROVE Good(s)
    <1>1. /\ run[s].pc = "idle" /\ UNCHANGED <<archive, extra, disturbed, version, edited, edits>>
          /\ faults' \in 0..MaxFaults
        BY FetchAssumption DEF CleanCut, Shape, At
    <1>2. Went(s, "idle", run[s].temp, run[s].next)
        BY Zenon, <1>1, WentSame DEF CleanCut
    <1>3. \E left \in SUBSET builddir[s].marks : LET b == builddir[s] IN
              Became(s, b.files, FALSE, b.applied, b.also, left, TRUE)
        BY Zenon, BecameCut DEF CleanCut
    <1>4. Shape' /\ Apart(s) /\ Kept
        BY SMTT(30), <1>1, <1>2, <1>3 DEF Went, Moved, Became, Built, Shape, Apart, Kept
    <1>5. Marks(s)'
        BY SMTT(30), <1>1, <1>3 DEF Known, Marks, Applied, Has, Became
    <1>6. Known(s)'
        BY Zenon, <1>2, <1>5, IdleKnown DEF Went
    <1> QED BY <1>4, <1>6 DEF Good

-----------------------------------------------------------------------------
(***************************************************************************)
(* The invariant, and what follows from it.                                *)
(***************************************************************************)
Inv == Shape /\ \A s \in Scripts : Known(s)

\* Every step of a script is one of the above.
LEMMA StepIsGood == Inv /\ Next => \E s \in Scripts : Good(s)
    BY StartStep, DownloadStep, FetchStep, VerifyStep, MoveStep, RemoveSomeStep, RemoveStep,
       UnpackSomeStep, UnpackStep, StampStep, ApplyPatchesStep, PatchStartStep, PatchEndStep,
       PatchedStep, RunOnceStep, DownloadExtraStep, OpenExtraStep, FetchExtraStep,
       ApplyExtraStep, AppliedExtraStep, RanStep, ConfigureOnceStep, ConfiguredStep, MakeStep,
       KillStep, EditStep, CleanStep, CleanCutStep DEF Inv, Next

\* Inv holds at the start.
LEMMA InitInv == Init => Inv
    <1> SUFFICES ASSUME Init PROVE Inv
        OBVIOUS
    <1>1. ASSUME NEW s \in Scripts PROVE Known(s)
        <2>1. run[s].pc = "idle" /\ builddir[s].marks = {}
            BY DEF Init, Empty, Idle
        <2> QED BY <2>1 DEF Known, Marks, Progress, Has, At, Fetching, Extras, PastPatches
    <1> QED BY <1>1, ShapeInit DEF Inv

\* Every step keeps Inv.
LEMMA NextInv == Inv /\ [Next]_vars => Inv'
    <1>1. ASSUME Inv, Next PROVE Inv'
        <2>1. PICK s \in Scripts : Good(s)
            BY <1>1, StepIsGood
        <2>2. ASSUME NEW q \in Scripts PROVE Known(q)'
            BY Zenon, <1>1, <2>1, StillKnown DEF Inv, Good, Apart
        <2> QED BY <2>1, <2>2 DEF Inv, Good
    <1>2. ASSUME Inv, UNCHANGED vars PROVE Inv'
        <2>1. Kept
            BY <1>2 DEF vars, Kept
        <2>2. \A q \in Scripts : Known(q)'
            BY Zenon, <1>2, <2>1, StillKnown DEF Inv, vars
        <2> QED BY <1>2, <2>2 DEF Inv, Shape, vars
    <1> QED BY <1>1, <1>2

\* Inv is an invariant.
LEMMA Invariant == Spec => []Inv
    BY InitInv, NextInv, PTL DEF Spec

\* The state has its type, the marks in a build directory are made in the order of the
\* functions of pbuild.lib.sh, and no run counts past its last patch.
THEOREM TypeCorrect == Spec => []TypeOK
    <1>1. Inv => TypeOK
        <2> SUFFICES ASSUME Inv PROVE TypeOK
            OBVIOUS
        <2>1. ASSUME NEW s \in Scripts
              PROVE  LET b == builddir[s] IN
                     /\ b.files \subseteq Version /\ {b.whole, b.torn} \subseteq BOOLEAN
                     /\ b.marks \subseteq Mark
                     /\ b.applied \in [1..Patch -> {"no", "half", "yes"}]
                     /\ b.also \in {"no", "half", "yes", "cut"}
                     /\ run[s].next \in 1..Patch + 1
            <3>1. builddir[s] \in Directory /\ run[s] \in Run
                BY DEF Inv, Shape
            <3> QED BY <3>1 DEF Directory, Run, Degree, Place
        <2>2. ASSUME NEW s \in Scripts
              PROVE  builddir[s].torn \/ /\ Has(s, "configured") => Has(s, "ran")
                                         /\ Has(s, "ran") => Has(s, "patched")
                                         /\ Has(s, "patched") => Has(s, "unpacked")
            BY Zenon DEF Inv, Known, Marks
        <2> QED BY <2>1, <2>2 DEF TypeOK, Inv, Shape, Extra
    <1> QED BY <1>1, Invariant, PTL

\* Whatever is killed, fails, is edited and is cleaned, and whenever, a script that gets
\* past its patches (pbuild_apply_patches) works on the whole of one version, fully
\* patched: the stamp of pbuild_fetch_and_unpack is made last, and what is there without
\* it is removed.
THEOREM TreeCorrect == Spec => []TreeExact
    <1>1. Inv => TreeExact
        <2> SUFFICES ASSUME Inv, NEW s \in Scripts, run[s].pc \in PastPatches
                     PROVE  \/ builddir[s].torn
                            \/ Unpacked(s) /\ \A i \in 1..Patch : builddir[s].applied[i] = "yes"
            BY DEF TreeExact, Unpacked
        <2>1. Has(s, "unpacked") /\ Has(s, "patched")
            BY DEF Inv, Known, Progress
        <2> QED BY Zenon, <2>1 DEF Inv, Known, Marks
    <1> QED BY <1>1, Invariant, PTL

\* Whatever other scripts fetch to the same file, and wherever they are killed, what
\* pbuild_fetch_and_unpack unpacks is the archive whose checksum the script names.
THEOREM UnpackCorrect == Spec => []UnpacksVerified
    <1>1. Inv => UnpacksVerified
        <2> SUFFICES ASSUME Inv, NEW s \in Scripts, run[s].pc \in {"remove", "unpack"}
                     PROVE  archive[version[s]] = "good"
            BY DEF UnpacksVerified
        <2> QED BY DEF Inv, Known, Progress
    <1> QED BY <1>1, Invariant, PTL

\* A script that configures has run the function given to pbuild_run_once to its end;
\* and it took a part of a file for the whole only if a transfer was disturbed.
THEOREM RunOnceCorrect == Spec => []RunOnceComplete
    <1>1. Inv => RunOnceComplete
        <2> SUFFICES ASSUME Inv, NEW s \in Scripts,
                            run[s].pc \in {"configure", "configuring", "make"}
                     PROVE  Applied(s)
            BY DEF RunOnceComplete, Applied
        <2>1. Has(s, "ran")
            BY DEF Inv, Known, Progress
        <2> QED BY Zenon, <2>1 DEF Inv, Known, Marks
    <1> QED BY <1>1, Invariant, PTL

=============================================================================
