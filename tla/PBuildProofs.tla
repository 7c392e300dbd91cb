---------------------------- MODULE PBuildProofs ----------------------------
(***************************************************************************)
(* Proofs about PBuild, for every set of packages, every graph of          *)
(* dependencies, every set of options and every kind of fault.             *)
(***************************************************************************)
EXTENDS PBuild, TLAPS

-----------------------------------------------------------------------------
(***************************************************************************)
(* The dependency graph.                                                   *)
(***************************************************************************)

\* A layer of b comes before b in the buildlist.
LEMMA LayersBelow ==
    ASSUME NEW b \in Build
    PROVE  /\ Layers[b] \subseteq Build
           /\ \A d \in Layers[b] : Index[d] < Index[b]
<1> DEFINE T == {x \in Build : Index[x] < Index[b]}
<1>1. T \in SUBSET Build /\ Deps(b) \subseteq T
  BY GraphAssumption DEF Deps
<1>2. \A y \in T : transitive[y] \subseteq T
  BY GraphAssumption DEF Deps
<1>3. Closure(Deps(b), transitive) \subseteq T
  BY Zenon, <1>1, <1>2 DEF Closure
<1> QED
  BY <1>3 DEF Layers

\* The builds that are listed for named packages are builds, and include them.
LEMMA ListedFacts ==
    ASSUME NEW ts \in TopSets
    PROVE  Listed[ts] \subseteq Build /\ ts \subseteq Listed[ts]
<1>1. ts \subseteq Build
  BY OptionAssumption
<1> QED
  BY Zenon, <1>1 DEF Listed, Closure

\* At most one build is the first of todo.
LEMMA FirstUnique ==
    ASSUME todo \subseteq Build, NEW b \in Build, NEW c \in Build, First(b), First(c)
    PROVE  b = c
<1>1. Index[b] \in Nat /\ Index[c] \in Nat
  BY GraphAssumption
<1>2. Index[b] <= Index[c] /\ Index[c] <= Index[b]
  BY DEF First
<1> QED
  BY <1>1, <1>2, GraphAssumption

-----------------------------------------------------------------------------
(***************************************************************************)
(* Types.                                                                  *)
(***************************************************************************)

\* The empty checksum is a checksum of every build.
LEMMA SumFacts ==
    /\ \A b \in Build : NoSum \in Sum(b) /\ Sum(b) \subseteq AnySum /\ Content[b] \subseteq Sum(b)
    /\ NoDeps \in [Build -> AnySum]
<1>1. \A b \in Build : NoSum \in Sum(b) /\ Sum(b) \subseteq AnySum /\ Content[b] \subseteq Sum(b)
  BY DEF Sum, AnySum
<1>2. \A b \in Build : NoSum \in AnySum
  BY Zenon, <1>1
<1> QED
  BY <1>1, <1>2 DEF NoDeps

\* What __init__ and --clean-all leave in memory is well typed.
LEMMA NewBuildType ==
    ASSUME NEW t \in Nat, NEW b \in Build
    PROVE  /\ NewBuild(t) \in BuildRecord
           /\ NewBuild(t).checksum \in Sum(b) /\ NewBuild(t).checksum = NoSum
           /\ [NewBuild(t) EXCEPT !.must_build = TRUE] \in BuildRecord
           /\ [NewBuild(t) EXCEPT !.must_build = TRUE].checksum = NoSum
<1>1. NoSum \in Sum(b) /\ NoSum \in AnySum /\ NoDeps \in [Build -> AnySum]
  BY SumFacts
<1> QED
  BY Zenon, <1>1 DEF NewBuild, BuildRecord

\* So is what read_build_stamp reads, and a checksum is only read from a stamp.
LEMMA ReadType ==
    ASSUME TypeOK, NEW b \in Build
    PROVE  /\ ReadBuildStamp(b) \in BuildRecord
           /\ ReadBuildStamp(b).checksum \in Sum(b)
           /\ ReadBuildStamp(b).checksum # NoSum => stamp[b] # NoStamp
<1>1. mtime[b].index \in Nat
  BY DEF TypeOK
<1>2. CASE stamp[b] = NoStamp
  BY <1>1, <1>2, NewBuildType, SumFacts DEF ReadBuildStamp
<1>3. CASE stamp[b] # NoStamp
  <2>1. stamp[b] \in StampFile /\ stamp[b].checksum \in Sum(b)
    BY <1>3 DEF TypeOK
  <2> QED
    BY <1>1, <1>3, <2>1 DEF ReadBuildStamp, BuildRecord, StampFile
<1> QED
  BY <1>2, <1>3

\* FirstLook makes the record of a build.
LEMMA LookType ==
    ASSUME TypeOK, NEW b \in Build, NEW ts \in TopSets, NEW o \in Option
    PROVE  /\ FirstLook(b, ts, o) \in BuildRecord
           /\ FirstLook(b, ts, o).checksum \in Sum(b)
           /\ FirstLook(b, ts, o).checksum # NoSum => stamp[b] # NoStamp
<1>1. mtime[b].index \in Nat
  BY DEF TypeOK
<1>2. CASE o.clean_all
  BY <1>1, <1>2, NewBuildType, SumFacts DEF FirstLook
<1>3. CASE ~o.clean_all
  <2> DEFINE m == ReadBuildStamp(b)
             changed == /\ b \notin Meta
                        /\ \/ b \in ts /\ (o.force \/ o.shell)
                           \/ m.checksum # NoSum /\ m.build_mtime < m.src_mtime
             flag == m.must_build \/ changed
  <2>1. m \in BuildRecord /\ m.checksum \in Sum(b) /\ (m.checksum # NoSum => stamp[b] # NoStamp)
    BY ReadType
  <2>2. FirstLook(b, ts, o) = [m EXCEPT !.must_build = flag]
    BY <1>3 DEF FirstLook
  <2>3. flag \in BOOLEAN
    OBVIOUS
  <2> HIDE DEF m, flag
  <2> QED
    BY <2>1, <2>2, <2>3 DEF BuildRecord
<1> QED
  BY <1>2, <1>3

-----------------------------------------------------------------------------
(***************************************************************************)
(* Type correctness.  It needs what the sandbox has established when the   *)
(* script runs and when its output is summed, and that a stamp which       *)
(* build_stamp.touch() is applied to exists.                               *)
(***************************************************************************)
SandboxInv ==
    /\ pc = "sandbox" =>
          \A b \in todo : First(b) => b \notin Meta /\ \A d \in Layers[b] : out[d] # NoOut
    /\ pc = "built" =>
          \A b \in todo : First(b) => b \notin Meta /\ (~Interactive(b) => out[b] \in Content[b])

StampsRead ==
    /\ pc = "scan" => \A b \in Build : mem[b].checksum # NoSum => stamp[b] # NoStamp
    /\ pc \in {"build", "sandbox", "built"} =>
          \A b \in todo : mem[b].checksum # NoSum => stamp[b] # NoStamp \/ (pc # "build" /\ First(b))
    /\ pc \in {"build", "sandbox", "built"} => \A b \in todo : opts.skip_deps => b \in tops

TypeInv == TypeOK /\ SandboxInv /\ StampsRead

\* Type correctness of the initial states.
LEMMA TypeInit == Init => TypeInv
<1> SUFFICES ASSUME Init PROVE TypeInv
  OBVIOUS
<1>1. \A b \in Build : NewBuild(0) \in BuildRecord /\ NewBuild(0).checksum \in Sum(b)
  BY Zenon, NewBuildType
<1>2. TypeOK
  BY <1>1, OptionAssumption, SumFacts DEF Init, TypeOK, Output
<1>3. SandboxInv /\ StampsRead
  BY DEF Init, SandboxInv, StampsRead
<1> QED
  BY <1>2, <1>3 DEF TypeInv

\* The end of an invocation, whichever it is.
LEMMA ExitType ==
    ASSUME TypeInv, Exit, src' = src, mtime' = mtime, edits' = edits, runs' = runs,
           now' \in Nat,
           residue' \subseteq Build, settled' \subseteq Build, torn' \subseteq Build,
           out' \in [Build -> UNION {Output(b) : b \in Build}],
           \A b \in Build : out'[b] \in Output(b),
           stamp' \in [Build -> StampFile \cup {NoStamp}],
           \A b \in Build : stamp'[b] # NoStamp => stamp'[b].checksum \in Sum(b)
    PROVE  TypeInv'
<1>1. \A b \in Build : NewBuild(0) \in BuildRecord /\ NewBuild(0).checksum \in Sum(b)
  BY Zenon, NewBuildType
<1>2. TypeOK'
  BY <1>1, OptionAssumption DEF TypeInv, TypeOK, Exit
<1>3. SandboxInv' /\ StampsRead'
  BY DEF Exit, SandboxInv, StampsRead
<1> QED
  BY <1>2, <1>3 DEF TypeInv

\* The history of spoiled outputs holds builds only.
LEMMA SpoilsType ==
    ASSUME TypeOK, NEW b \in Build, NEW stamps, Spoils(b, stamps)
    PROVE  torn' \subseteq Build
BY Zenon DEF TypeOK, Spoils

\* Types of outputs and stamps after a change to those of one build.
LEMMA OutType ==
    ASSUME TypeOK, NEW b \in Build, NEW x \in Output(b)
    PROVE  /\ [out EXCEPT ![b] = x] \in [Build -> UNION {Output(c) : c \in Build}]
           /\ \A c \in Build : [out EXCEPT ![b] = x][c] \in Output(c)
BY DEF TypeOK

\* Writing a stamp keeps the types of the stamps.
LEMMA StampType ==
    ASSUME TypeOK, NEW b \in Build, NEW x \in StampFile \cup {NoStamp},
           x # NoStamp => x.checksum \in Sum(b)
    PROVE  /\ [stamp EXCEPT ![b] = x] \in [Build -> StampFile \cup {NoStamp}]
           /\ \A c \in Build : [stamp EXCEPT ![b] = x][c] # NoStamp
                                  => [stamp EXCEPT ![b] = x][c].checksum \in Sum(c)
BY DEF TypeOK

\* Replacing a record by one of its type keeps the types of the records.
LEMMA MemType ==
    ASSUME TypeOK, NEW b \in Build, NEW x \in BuildRecord, x.checksum \in Sum(b)
    PROVE  /\ [mem EXCEPT ![b] = x] \in [Build -> BuildRecord]
           /\ \A c \in Build : [mem EXCEPT ![b] = x][c].checksum \in Sum(c)
BY DEF TypeOK

\* markAsBuilt.
LEMMA MarkType ==
    ASSUME TypeOK, NEW b \in Build, NEW checksum,
           ~Interactive(b) => checksum \in Content[b], MarkAsBuilt(b, checksum)
    PROVE  /\ now' \in Nat
           /\ stamp' \in [Build -> StampFile \cup {NoStamp}]
           /\ \A c \in Build : stamp'[c] # NoStamp => stamp'[c].checksum \in Sum(c)
           /\ mem' \in [Build -> BuildRecord]
           /\ \A c \in Build : mem'[c].checksum \in Sum(c)
           /\ \A c \in Build \ {b} : mem'[c] = mem[c] /\ stamp'[c] = stamp[c]
<1>1. CASE Interactive(b)
  BY <1>1 DEF MarkAsBuilt, TypeOK
<1>2. CASE ~Interactive(b)
  <2> DEFINE sums == [d \in Build |-> IF d \in Deps(b) THEN mem[d].checksum ELSE NoSum]
             s == [mtime |-> now + 1, checksum |-> checksum, deps |-> sums]
             m == [build_mtime |-> now + 1, src_mtime |-> mem[b].src_mtime,
                   checksum |-> checksum, dep_checksums |-> mem[b].dep_checksums,
                   must_build |-> FALSE]
  <2>1. checksum \in Sum(b) /\ checksum \in AnySum /\ now + 1 \in Nat
    BY <1>2, SumFacts DEF TypeOK
  <2>2. \A d \in Build : sums[d] \in AnySum
    BY SumFacts DEF TypeOK
  <2>3. s \in StampFile /\ s.checksum \in Sum(b)
    BY <2>1, <2>2 DEF StampFile
  <2>4. mem[b] \in BuildRecord
    BY DEF TypeOK
  <2>5. m \in BuildRecord /\ m.checksum \in Sum(b)
    BY <2>1, <2>4 DEF BuildRecord
  <2>6. now' = now + 1 /\ stamp' = [stamp EXCEPT ![b] = s] /\ mem' = [mem EXCEPT ![b] = m]
    BY SMTT(30), <1>2 DEF MarkAsBuilt
  <2> HIDE DEF s, m
  <2> QED
    BY <2>1, <2>3, <2>5, <2>6, StampType, MemType DEF TypeOK
<1> QED
  BY <1>1, <1>2

\* Every action keeps the types.
LEMMA TypeStep == TypeInv /\ [Next]_vars => TypeInv'
<1> SUFFICES ASSUME TypeInv, [Next]_vars PROVE TypeInv'
  OBVIOUS
<1> USE DEF TypeInv
<1>1. CASE UNCHANGED vars
  <2>1. TypeOK'
    BY <1>1 DEF vars, sources, products, invocation, budget, history, TypeOK
  <2>2. SandboxInv' /\ StampsRead'
    BY <1>1 DEF vars, sources, products, invocation, SandboxInv, StampsRead, First, Interactive
  <2> QED
    BY <2>1, <2>2
<1>2. ASSUME NEW b \in Build, NEW v \in Val, NEW index \in BOOLEAN, Edit(b, v, index)
      PROVE  TypeInv'
  <2>1. mtime[b] \in [index : Nat, newest : Nat] /\ now + 1 \in Nat
    BY DEF TypeOK
  <2>2. TypeOK'
    BY <1>2, <2>1 DEF Edit, TypeOK, products, invocation
  <2>3. SandboxInv' /\ StampsRead'
    BY <1>2 DEF Edit, SandboxInv, StampsRead, First, Interactive, products, invocation
  <2> QED
    BY <2>2, <2>3
<1>3. ASSUME NEW ts \in TopSets, NEW o \in Option, Invoke(ts, o) PROVE TypeInv'
  <2> DEFINE m(b) == IF b \in Listed[ts] THEN FirstLook(b, ts, o) ELSE NewBuild(0)
  <2>1. \A b \in Build : /\ m(b) \in BuildRecord /\ m(b).checksum \in Sum(b)
                         /\ m(b).checksum # NoSum => stamp[b] # NoStamp
    BY Zenon, LookType, NewBuildType
  <2>2. mem' = [b \in Build |-> m(b)]
    BY <1>3 DEF Invoke
  <2> HIDE DEF m
  <2>3. mem' \in [Build -> BuildRecord]
        /\ \A b \in Build : /\ mem'[b].checksum \in Sum(b)
                            /\ mem'[b].checksum # NoSum => stamp[b] # NoStamp
    BY <2>1, <2>2
  <2>4. toscan' \subseteq Build
    BY <1>3, ListedFacts DEF Invoke, ToScan
  <2>5. TypeOK'
    BY SMTT(30), <1>3, <2>3, <2>4 DEF Invoke, TypeOK, sources, products
  <2>6. SandboxInv' /\ StampsRead'
    BY <1>3, <2>3 DEF Invoke, SandboxInv, StampsRead, products
  <2> QED
    BY <2>5, <2>6
<1>4. ASSUME NEW b \in Build, ResolveSources(b) PROVE TypeInv'
  <2> DEFINE m == [mem[b] EXCEPT !.src_mtime = mtime[b].newest]
  <2>1. mem' = [mem EXCEPT ![b] = m]
    BY <1>4 DEF ResolveSources
  <2>2. mem[b] \in BuildRecord /\ mtime[b].newest \in Nat /\ mem[b].checksum \in Sum(b)
    BY DEF TypeOK
  <2>3. m \in BuildRecord /\ m.checksum = mem[b].checksum
    BY <2>2 DEF BuildRecord
  <2> HIDE DEF m
  <2>4. mem' \in [Build -> BuildRecord] /\ \A c \in Build : mem'[c].checksum = mem[c].checksum
    BY <2>1, <2>3 DEF TypeOK
  <2>5. TypeOK'
    BY <1>4, <2>4 DEF ResolveSources, TypeOK, sources, products, invocation, budget, history
  <2>6. SandboxInv' /\ StampsRead'
    BY <1>4, <2>4 DEF ResolveSources, SandboxInv, StampsRead, products, invocation
  <2> QED
    BY <2>5, <2>6
<1>5. ASSUME NEW b \in Build, FindFails(b) PROVE TypeInv'
  <2>1. TypeOK'
    BY <1>5 DEF FindFails, TypeOK, sources, products, invocation, budget, history
  <2>2. SandboxInv' /\ StampsRead'
    BY <1>5 DEF FindFails, SandboxInv, StampsRead, products, invocation
  <2> QED
    BY <2>1, <2>2
<1>6. CASE SelectWhatToBuild
  <2>1. todo' \subseteq Build /\ cleanup_only' \subseteq Build
    BY Zenon, <1>6, ListedFacts, OptionAssumption DEF SelectWhatToBuild, TypeOK
  <2>2. TypeOK'
    BY Zenon, <1>6, <2>1 DEF SelectWhatToBuild, TypeOK, sources, products, budget, history
  <2>3. SandboxInv' /\ StampsRead'
    BY <1>6, <2>1 DEF SelectWhatToBuild, NeedsBuild, SandboxInv, StampsRead, products
  <2> QED
    BY <2>2, <2>3
<1>7. ASSUME NEW b \in Build, DryRun(b) PROVE TypeInv'
  <2>1. TypeOK'
    BY <1>7 DEF DryRun, TypeOK, sources, products, invocation, budget, history
  <2>2. SandboxInv' /\ StampsRead'
    BY <1>7 DEF DryRun, SandboxInv, StampsRead, products, invocation
  <2> QED
    BY <2>1, <2>2
<1>8. ASSUME NEW b \in Build, UpToDate(b) PROVE TypeInv'
  <2> DEFINE x == [stamp[b] EXCEPT !.mtime = now + 1]
  <2>1. b \in todo /\ mem[b].checksum # NoSum /\ pc = "build"
    BY <1>8 DEF UpToDate, NeedsBuild, First, StampsRead
  <2>2. stamp[b] # NoStamp
    BY <2>1 DEF StampsRead
  <2>3. stamp[b] \in StampFile /\ stamp[b].checksum \in Sum(b) /\ now + 1 \in Nat
    BY <2>2 DEF TypeOK
  <2>4. x \in StampFile /\ x.checksum \in Sum(b)
    BY <2>3 DEF StampFile
  <2>5. stamp' = [stamp EXCEPT ![b] = x]
    BY <1>8 DEF UpToDate
  <2> HIDE DEF x
  <2>6. /\ stamp' \in [Build -> StampFile \cup {NoStamp}]
        /\ \A c \in Build : stamp'[c] # NoStamp => stamp'[c].checksum \in Sum(c)
        /\ \A c \in Build \ {b} : stamp'[c] = stamp[c]
    BY <2>4, <2>5, StampType DEF TypeOK
  <2>7. TypeOK'
    BY <1>8, <2>3, <2>6 DEF UpToDate, TypeOK, sources, invocation, budget, history
  <2>8. SandboxInv' /\ StampsRead'
    BY <1>8, <2>6 DEF UpToDate, SandboxInv, StampsRead, TypeOK, invocation
  <2> QED
    BY <2>7, <2>8
<1>9. ASSUME NEW b \in Build, BuildMeta(b) PROVE TypeInv'
  <2> DEFINE sums == [d \in Deps(b) |-> mem[d].checksum]
  <2>1. Deps(b) \subseteq Build
    BY GraphAssumption DEF Deps
  <2>2. \A d \in Deps(b) : sums[d] \in Sum(d)
    BY <2>1 DEF TypeOK
  <2>3. sums \in [Deps(b) -> UNION {Sum(d) : d \in Deps(b)}]
    BY <2>2
  <2>4. b \in Meta /\ MarkAsBuilt(b, MetaSum(b, sums))
    BY <1>9 DEF BuildMeta
  <2>5. MetaSum(b, sums) \in Content[b]
    BY SMTT(30), <2>2, <2>3, <2>4, ContentAssumption
  <2> HIDE DEF sums
  <2>6. /\ now' \in Nat
        /\ stamp' \in [Build -> StampFile \cup {NoStamp}]
        /\ \A c \in Build : stamp'[c] # NoStamp => stamp'[c].checksum \in Sum(c)
        /\ mem' \in [Build -> BuildRecord]
        /\ \A c \in Build : mem'[c].checksum \in Sum(c)
        /\ \A c \in Build \ {b} : mem'[c] = mem[c] /\ stamp'[c] = stamp[c]
    BY SMTT(30), <2>4, <2>5, MarkType
  <2>7. TypeOK'
    BY SMTT(30), <1>9, <2>6 DEF BuildMeta, TypeOK, sources, invocation, budget, history
  <2>8. SandboxInv' /\ StampsRead'
    BY <1>9, <2>6 DEF BuildMeta, SandboxInv, StampsRead, TypeOK, invocation
  <2> QED
    BY <2>7, <2>8
<1>10. ASSUME NEW b \in Build, NEW kept \in BOOLEAN, NEW rest \in {out[b], Junk, NoOut},
              EnterSandbox(b) \/ CleanFails(b, kept, rest)
       PROVE  TypeInv'
  <2>1. Junk \in Output(b) /\ NoOut # Junk /\ out[b] \in Output(b)
    BY SMTT(30), ContentAssumption DEF Output, TypeOK
  <2>2. ToSandbox(b) /\ Entered(b)
    BY Zenon, <1>10 DEF EnterSandbox, CleanFails, CutShort
  <2>3. \/ out' = out /\ out[b] # NoOut
        \/ \E x \in Output(b) : x # NoOut /\ out' = [out EXCEPT ![b] = x]
    <3>1. CASE EnterSandbox(b)
      BY Zenon, <2>1, <3>1 DEF EnterSandbox
    <3>2. CASE CleanFails(b, kept, rest)
      <4>1. rest \in Output(b)
        BY Zenon, <2>1 DEF Output
      <4> QED
        BY Zenon, <2>1, <3>2, <4>1 DEF CleanFails
    <3> QED
      BY Zenon, <1>10, <3>1, <3>2
  <2>4. /\ out' \in [Build -> UNION {Output(c) : c \in Build}]
        /\ \A c \in Build : out'[c] \in Output(c)
    <3>1. CASE out' = out
      BY Zenon, <3>1 DEF TypeOK
    <3>2. ASSUME NEW x \in Output(b), out' = [out EXCEPT ![b] = x]
          PROVE  /\ out' \in [Build -> UNION {Output(c) : c \in Build}]
                 /\ \A c \in Build : out'[c] \in Output(c)
      BY <3>2, OutType
    <3> QED
      BY Zenon, <2>3, <3>1, <3>2
  <2>5. stamp' = stamp \/ stamp' = [stamp EXCEPT ![b] = NoStamp]
    BY Zenon, <1>10 DEF EnterSandbox, CleanFails, CutShort
  <2>6. /\ stamp' \in [Build -> StampFile \cup {NoStamp}]
        /\ \A c \in Build : stamp'[c] # NoStamp => stamp'[c].checksum \in Sum(c)
        /\ \A c \in Build \ {b} : stamp'[c] = stamp[c]
    <3>1. CASE stamp' = stamp
      BY Zenon, <3>1 DEF TypeOK
    <3>2. CASE stamp' = [stamp EXCEPT ![b] = NoStamp]
      BY <3>2, StampType DEF TypeOK
    <3> QED
      BY Zenon, <2>5, <3>1, <3>2
  <2>7. torn' \subseteq Build
    BY Zenon, <1>10, SpoilsType DEF EnterSandbox, CleanFails, TypeOK
  <2>8. TypeOK'
    BY Zenon, <2>2, <2>4, <2>6, <2>7 DEF Entered, TypeOK, sources, invocation, budget
  <2>9. todo \subseteq Build /\ \A c \in todo : First(c)' => c = b
    BY Zenon, <2>2, FirstUnique DEF ToSandbox, Entered, First, TypeOK
  <2>10. ASSUME pc' = "sandbox" PROVE b \notin Meta /\ \A d \in Layers[b] : out'[d] # NoOut
    <3>1. \A d \in Build : out[d] # NoOut => out'[d] # NoOut
      BY SMTT(30), <2>3 DEF TypeOK
    <3>2. Layers[b] \subseteq Build /\ \A d \in Layers[b] : out[d] # NoOut
      BY SMTT(30), <2>2, <2>10, LayersBelow DEF Entered
    <3> QED
      BY Zenon, <2>2, <3>1, <3>2 DEF ToSandbox
  <2>11. SandboxInv'
    BY SMTT(30), <2>2, <2>9, <2>10 DEF Entered, SandboxInv
  <2>12. StampsRead'
    BY SMTT(30), <2>2, <2>6, <2>9 DEF ToSandbox, Entered, StampsRead, First, invocation
  <2> QED
    BY <2>8, <2>11, <2>12
<1>11. ASSUME NEW b \in Build, RunScript(b) PROVE TypeInv'
  <2>1. pc = "sandbox" /\ b \in todo /\ First(b) /\ Layers[b] \subseteq Build
    BY Zenon, <1>11, LayersBelow DEF RunScript, First
  <2>2. b \notin Meta /\ \A d \in Layers[b] : out[d] \in Content[d] \cup {Junk}
    BY <2>1 DEF SandboxInv, TypeOK, Output
  <2>3. Inputs(b) \in [Layers[b] -> UNION {Content[d] \cup {Junk} : d \in Layers[b]}]
        /\ \A d \in Layers[b] : Inputs(b)[d] \in Content[d] \cup {Junk}
    BY <2>2 DEF Inputs
  <2>4. src[b] \in Val
    BY DEF TypeOK
  <2>5. Make(b, src[b], Inputs(b)) \in Content[b]
    BY SMTT(30), <2>2, <2>3, <2>4, ContentAssumption
  <2> DEFINE x == Make(b, src[b], Inputs(b))
  <2>6. x \in Output(b) /\ x \in Content[b] /\ out' = [out EXCEPT ![b] = x]
    BY <1>11, <2>5 DEF RunScript, Output
  <2> HIDE DEF x
  <2>7. /\ out' \in [Build -> UNION {Output(c) : c \in Build}]
        /\ \A c \in Build : out'[c] \in Output(c)
    BY SMTT(30), <2>6, OutType
  <2>8. TypeOK'
    BY <1>11, <2>7 DEF RunScript, TypeOK, sources, invocation, budget, history
  <2>9. todo \subseteq Build /\ \A c \in todo : First(c)' => c = b
    BY Zenon, <1>11, FirstUnique DEF RunScript, First, TypeOK
  <2>10. out'[b] \in Content[b]
    BY <2>6 DEF TypeOK
  <2>11. SandboxInv'
    BY Zenon, <1>11, <2>2, <2>9, <2>10 DEF RunScript, SandboxInv
  <2>12. StampsRead'
    BY <1>11 DEF RunScript, StampsRead, First, invocation
  <2> QED
    BY <2>8, <2>11, <2>12
<1>12. ASSUME NEW b \in Build, NEW ok \in BOOLEAN, RunShell(b, ok) PROVE TypeInv'
  <2>1. Junk \in Output(b)
    BY DEF Output
  <2>2. /\ out' \in [Build -> UNION {Output(c) : c \in Build}]
        /\ \A c \in Build : out'[c] \in Output(c)
    <3>1. CASE out' = out
      BY <3>1 DEF TypeOK
    <3>2. CASE out' = [out EXCEPT ![b] = Junk]
      BY <2>1, <3>2, OutType
    <3> QED
      BY <1>12, <3>1, <3>2 DEF RunShell
  <2>a. torn' \subseteq Build
    BY Zenon, <1>12, SpoilsType DEF RunShell
  <2>3. TypeOK'
    BY Zenon, <1>12, <2>2, <2>a DEF RunShell, TypeOK, sources, invocation, budget
  <2>4. todo \subseteq Build /\ \A c \in todo : First(c)' => c = b
    BY Zenon, <1>12, FirstUnique DEF RunShell, First, TypeOK
  <2>5. b \notin Meta /\ Interactive(b)'
    BY SMTT(30), <1>12 DEF RunShell, SandboxInv, First, Interactive, invocation
  <2>6. SandboxInv'
    BY <1>12, <2>4, <2>5 DEF RunShell, SandboxInv
  <2>7. StampsRead'
    BY <1>12 DEF RunShell, StampsRead, First, invocation
  <2> QED
    BY <2>3, <2>6, <2>7
<1>13. ASSUME NEW b \in Build, ScriptFails(b) PROVE TypeInv'
  <2>1. Junk \in Output(b)
    BY DEF Output
  <2>2. /\ out' \in [Build -> UNION {Output(c) : c \in Build}]
        /\ \A c \in Build : out'[c] \in Output(c)
    BY <1>13, <2>1, OutType DEF ScriptFails
  <2>a. torn' \subseteq Build
    BY Zenon, <1>13, SpoilsType DEF ScriptFails
  <2>3. TypeOK'
    BY SMTT(30), <1>13, <2>2, <2>a DEF ScriptFails, TypeOK, sources, invocation, budget
  <2>4. SandboxInv' /\ StampsRead'
    BY SMTT(30), <1>13 DEF ScriptFails, SandboxInv, StampsRead
  <2> QED
    BY <2>3, <2>4
<1>14. ASSUME NEW b \in Build, Stamp(b) PROVE TypeInv'
  <2>1. pc = "built" /\ b \in todo /\ First(b) /\ MarkAsBuilt(b, out[b])
    BY <1>14 DEF Stamp, First
  <2>2. ~Interactive(b) => out[b] \in Content[b]
    BY SMTT(30), <2>1 DEF SandboxInv
  <2>3. /\ now' \in Nat
        /\ stamp' \in [Build -> StampFile \cup {NoStamp}]
        /\ \A c \in Build : stamp'[c] # NoStamp => stamp'[c].checksum \in Sum(c)
        /\ mem' \in [Build -> BuildRecord]
        /\ \A c \in Build : mem'[c].checksum \in Sum(c)
        /\ \A c \in Build \ {b} : mem'[c] = mem[c] /\ stamp'[c] = stamp[c]
    BY SMTT(30), <2>1, <2>2, MarkType
  <2>4. TypeOK'
    BY <1>14, <2>3 DEF Stamp, TypeOK, sources, invocation, budget, history
  <2>5. \A c \in todo : First(c) => c = b
    BY SMTT(30), <2>1, FirstUnique DEF TypeOK
  <2>6. SandboxInv' /\ StampsRead'
    BY SMTT(30), <1>14, <2>3, <2>5 DEF Stamp, SandboxInv, StampsRead, TypeOK, invocation
  <2> QED
    BY <2>4, <2>6
<1>15. CASE Finish
  BY ZenonT(30), <1>15, ExitType, ListedFacts DEF Finish, TypeOK, sources, budget, history
<1>16. CASE Fail \/ Killed
  BY Zenon, <1>16, ExitType DEF Fail, Killed, TypeOK, sources, products, budget, history
<1>17. ASSUME NEW b \in Build, KilledInScript(b) PROVE TypeInv'
  <2>1. Junk \in Output(b)
    BY DEF Output
  <2>2. /\ out' \in [Build -> UNION {Output(c) : c \in Build}]
        /\ \A c \in Build : out'[c] \in Output(c)
    BY <1>17, <2>1, OutType DEF KilledInScript
  <2>3. torn' \subseteq Build
    BY Zenon, <1>17, SpoilsType DEF KilledInScript
  <2> QED
    BY SMTT(30), <1>17, <2>2, <2>3, ExitType DEF KilledInScript, TypeOK, sources, budget, history
<1>18. ASSUME NEW b \in Build, KilledInStamp(b) PROVE TypeInv'
  <2> DEFINE x == [mtime |-> now + 1, checksum |-> NoSum, deps |-> NoDeps]
  <2>1. now + 1 \in Nat /\ NoSum \in AnySum /\ NoSum \in Sum(b) /\ NoDeps \in [Build -> AnySum]
    BY SumFacts DEF TypeOK
  <2>2. x \in StampFile /\ x.checksum \in Sum(b)
    BY <2>1 DEF StampFile
  <2>3. stamp' = [stamp EXCEPT ![b] = x]
    BY <1>18 DEF KilledInStamp
  <2> HIDE DEF x
  <2>4. /\ stamp' \in [Build -> StampFile \cup {NoStamp}]
        /\ \A c \in Build : stamp'[c] # NoStamp => stamp'[c].checksum \in Sum(c)
    BY <2>2, <2>3, StampType
  <2> QED
    BY Zenon, <1>18, <2>1, <2>4, ExitType DEF KilledInStamp, TypeOK, sources, budget, history
<1>19. ASSUME NEW b \in Build, NEW kept \in BOOLEAN, NEW rest \in {out[b], Junk, NoOut},
              KilledInClean(b, kept, rest)
       PROVE  TypeInv'
  <2>1. rest \in Output(b)
    BY Zenon DEF Output, TypeOK
  <2>2. /\ out' \in [Build -> UNION {Output(c) : c \in Build}]
        /\ \A c \in Build : out'[c] \in Output(c)
    BY <1>19, <2>1, OutType DEF KilledInClean
  <2>3. stamp' = stamp \/ stamp' = [stamp EXCEPT ![b] = NoStamp]
    BY Zenon, <1>19 DEF KilledInClean, CutShort
  <2>4. /\ stamp' \in [Build -> StampFile \cup {NoStamp}]
        /\ \A c \in Build : stamp'[c] # NoStamp => stamp'[c].checksum \in Sum(c)
    BY <2>3, StampType DEF TypeOK
  <2>5. torn' \subseteq Build
    BY Zenon, <1>19, SpoilsType DEF KilledInClean
  <2>6. residue' \subseteq Build
    BY Zenon, <1>19 DEF KilledInClean, TypeOK
  <2>7. Exit /\ settled' = {} /\ UNCHANGED <<sources, now, budget>>
    BY Zenon, <1>19 DEF KilledInClean
  <2> QED
    BY Zenon, <2>2, <2>4, <2>5, <2>6, <2>7, ExitType DEF TypeOK, sources, budget
<1>20. CASE Rest
  BY <1>1, <1>20 DEF Rest
<1> QED
  BY <1>1, <1>2, <1>3, <1>4, <1>5, <1>6, <1>7, <1>8, <1>9, <1>10, <1>11, <1>12, <1>13,
     <1>14, <1>15, <1>16, <1>17, <1>18, <1>19, <1>20 DEF Next

\* Every state of the engine is well typed; in particular what is stamped is
\* the checksum of a finished script (markAsBuilt), never of partial output.
THEOREM TypeCorrect == Spec => []TypeOK
<1>1. TypeInv => TypeOK
  BY DEF TypeInv
<1> QED
  BY TypeInit, TypeStep, <1>1, PTL DEF Spec

-----------------------------------------------------------------------------
(***************************************************************************)
(* --clean-all.  While it goes through the list, what is behind it is      *)
(* current and what is ahead of it comes later in the list, so that it     *)
(* never disturbs a layer of what is behind.                               *)
(***************************************************************************)
Redoing ==
    opts.clean_all /\ Complete(opts) /\ quiet /\ pc \in {"build", "sandbox", "built"}

Behind == Listed[tops] \ todo

CleanInv ==
    Redoing => /\ \A b \in Behind : \A c \in todo : Index[b] < Index[c]
               /\ \A b \in Behind \ Meta : Current(b)
               /\ pc = "built" => \A b \in todo : First(b) => Current(b)

\* A build stays current while only outputs of later builds change.
LEMMA CurrentKept ==
    ASSUME NEW b \in Build, NEW c \in Build, Index[c] < Index[b],
           src' = src, \A d \in Build \ {b} : out'[d] = out[d], Current(c)
    PROVE  Current(c)'
<1>1. b \notin Layers[c] /\ b # c /\ Layers[c] \subseteq Build
  BY SMTT(30), LayersBelow, GraphAssumption
<1>2. Inputs(c)' = Inputs(c)
  BY SMTT(30), <1>1 DEF Inputs
<1> QED
  BY <1>1, <1>2 DEF Current

\* With --clean-all every listed build is selected, and none is just touched.
LEMMA CleanAllNeeds ==
    ASSUME TypeOK, opts.clean_all, NEW b \in Build, NEW eager
    PROVE  NeedsBuild(b, eager)
<1>1. opts.clean /\ ~opts.skip_deps
  BY OptionAssumption DEF TypeOK, Plain
<1> QED
  BY SMTT(30), <1>1 DEF NeedsBuild, Cleans

\* Removing the first build of todo keeps the order.
LEMMA BehindStep ==
    ASSUME TypeOK, CleanInv, Redoing, NEW b \in Build, First(b),
           todo' = todo \ {b}, tops' = tops
    PROVE  /\ Behind' \subseteq Behind \cup {b}
           /\ \A x \in Behind' : \A c \in todo' : Index[x] < Index[c]
<1>1. Behind' \subseteq Behind \cup {b}
  BY DEF Behind
<1>2. \A c \in todo' : Index[b] < Index[c]
  <2> SUFFICES ASSUME NEW c \in todo' PROVE Index[b] < Index[c]
    OBVIOUS
  <2>1. c \in todo /\ c # b /\ c \in Build
    BY DEF TypeOK
  <2>2. Index[b] \in Nat /\ Index[c] \in Nat /\ Index[b] # Index[c]
    BY <2>1, GraphAssumption
  <2>3. Index[b] <= Index[c]
    BY <2>1 DEF First
  <2> QED
    BY <2>2, <2>3
<1> QED
  BY <1>1, <1>2 DEF CleanInv

\* CleanInv holds initially.
LEMMA CleanInit == Init => CleanInv
BY DEF Init, CleanInv, Redoing

\* Every action keeps CleanInv.
LEMMA CleanStep == TypeInv /\ CleanInv /\ [Next]_vars => CleanInv'
<1> SUFFICES ASSUME TypeInv, CleanInv, [Next]_vars, Redoing' PROVE CleanInv'
  BY DEF CleanInv
<1> USE DEF TypeInv
<1>a. Listed[tops] \subseteq Build /\ todo \subseteq Build
  BY SMTT(30), ListedFacts DEF TypeOK
<1>1. CASE UNCHANGED vars
  BY Zenon, <1>1 DEF vars, sources, products, invocation, history, CleanInv, Redoing, Behind, Current, Inputs, First
<1>2. ASSUME NEW b \in Build, NEW v \in Val, NEW index \in BOOLEAN, Edit(b, v, index)
      PROVE  FALSE
  BY Zenon, <1>2 DEF Edit, Redoing
<1>3. ASSUME NEW ts \in TopSets, NEW o \in Option, Invoke(ts, o) PROVE FALSE
  BY Zenon, <1>3 DEF Invoke, Redoing
<1>4. ASSUME NEW b \in Build, ResolveSources(b) \/ FindFails(b) PROVE FALSE
  BY Zenon, <1>4 DEF ResolveSources, FindFails, Redoing
<1>5. CASE SelectWhatToBuild
  <2>1. opts.clean_all
    BY <1>5 DEF SelectWhatToBuild, Redoing
  <2>2. \A b \in Listed[tops] : NeedsBuild(b, TRUE)
    BY Zenon, <1>a, <2>1, CleanAllNeeds
  <2>3. Behind' = {} /\ pc' = "build"
    BY Zenon, <1>5, <2>2 DEF SelectWhatToBuild, Behind
  <2> QED
    BY <2>3 DEF CleanInv
<1>6. ASSUME NEW b \in Build, DryRun(b) PROVE FALSE
  BY <1>6 DEF DryRun, Redoing, Complete, invocation
<1>7. ASSUME NEW b \in Build, UpToDate(b) PROVE FALSE
  <2>1. opts.clean_all
    BY <1>7 DEF UpToDate, Redoing, invocation
  <2> QED
    BY Zenon, <1>7, <2>1, CleanAllNeeds DEF UpToDate
<1>8. ASSUME NEW b \in Build, BuildMeta(b) PROVE CleanInv'
  <2>1. Redoing /\ First(b) /\ b \in Meta /\ pc' = "build"
        /\ todo' = todo \ {b} /\ tops' = tops /\ src' = src /\ out' = out
    BY <1>8 DEF BuildMeta, Redoing, Complete, invocation, sources
  <2>2. /\ Behind' \subseteq Behind \cup {b}
        /\ \A x \in Behind' : \A c \in todo' : Index[x] < Index[c]
    BY SMTT(30), <2>1, BehindStep
  <2>3. \A x \in Behind' \ Meta : Current(x)'
    BY <2>1, <2>2 DEF CleanInv, Current, Inputs
  <2> QED
    BY <2>1, <2>2, <2>3 DEF CleanInv
<1>9. ASSUME NEW b \in Build, NEW kept \in BOOLEAN, NEW rest \in {out[b], Junk, NoOut},
             EnterSandbox(b) \/ CleanFails(b, kept, rest) \/ RunScript(b)
      PROVE  CleanInv'
  <2>1. Redoing /\ First(b) /\ b \in todo /\ todo' = todo /\ tops' = tops /\ src' = src
    BY Zenon, <1>9 DEF EnterSandbox, CleanFails, CutShort, ToSandbox, Entered, RunScript,
       Redoing, Complete, invocation, sources, First
  <2>2. \A d \in Build \ {b} : out'[d] = out[d]
    BY Zenon, <1>9 DEF EnterSandbox, CleanFails, RunScript, TypeOK
  <2>3. Behind' = Behind /\ Behind \subseteq Build
    BY Zenon, <1>a, <2>1 DEF Behind
  <2>4. \A x \in Behind : \A c \in todo : Index[x] < Index[c]
    BY SMTT(30), <2>1 DEF CleanInv
  <2>5. \A x \in Behind \ Meta : Current(x)'
    BY SMTT(30), <2>1, <2>2, <2>3, <2>4, CurrentKept DEF CleanInv
  <2>6. ASSUME pc' = "built" PROVE \A c \in todo : First(c)' => Current(c)'
    <3>1. RunScript(b)
      BY Zenon, <1>9, <2>6 DEF EnterSandbox, CleanFails, Entered
    <3>2. \A c \in todo : First(c)' => c = b
      BY <1>a, <2>1, FirstUnique DEF First
    <3>3. out'[b] = Make(b, src[b], Inputs(b))
      BY <3>1 DEF RunScript, TypeOK
    <3>4. b \notin Layers[b] /\ Layers[b] \subseteq Build
      BY LayersBelow, GraphAssumption
    <3>5. Inputs(b)' = Inputs(b)
      BY <2>2, <3>4 DEF Inputs
    <3> QED
      BY SMTT(30), <2>1, <3>2, <3>3, <3>5 DEF Current
  <2> QED
    BY SMTT(30), <2>1, <2>3, <2>4, <2>5, <2>6 DEF CleanInv
<1>10. ASSUME NEW b \in Build, Stamp(b) PROVE CleanInv'
  <2>1. Redoing /\ pc = "built" /\ First(b) /\ b \in todo /\ pc' = "build"
        /\ todo' = todo \ {b} /\ tops' = tops /\ src' = src /\ out' = out
    BY <1>10 DEF Stamp, Redoing, Complete, invocation, sources, First
  <2>2. /\ Behind' \subseteq Behind \cup {b}
        /\ \A x \in Behind' : \A c \in todo' : Index[x] < Index[c]
    BY <2>1, BehindStep
  <2>3. \A x \in Behind' \ Meta : Current(x)
    BY SMTT(30), <2>1, <2>2 DEF CleanInv
  <2>4. \A x \in Behind' \ Meta : Current(x)'
    BY <2>1, <2>3 DEF Current, Inputs
  <2> QED
    BY SMTT(30), <2>1, <2>2, <2>4 DEF CleanInv
<1>11. ASSUME NEW b \in Build, NEW ok \in BOOLEAN, RunShell(b, ok) PROVE FALSE
  BY SMTT(30), <1>11 DEF RunShell, Redoing, Complete, Interactive, invocation
<1>12. ASSUME NEW b \in Build, NEW kept \in BOOLEAN, NEW rest \in {out[b], Junk, NoOut},
              \/ ScriptFails(b) \/ KilledInScript(b) \/ KilledInStamp(b)
              \/ KilledInClean(b, kept, rest)
       PROVE  FALSE
  BY Zenon, <1>12 DEF ScriptFails, KilledInScript, KilledInStamp, KilledInClean, Exit, Redoing
<1>13. ASSUME Finish \/ Fail \/ Killed PROVE FALSE
  BY <1>13 DEF Finish, Fail, Killed, Exit, Redoing
<1>14. CASE Rest
  BY <1>1, <1>14 DEF Rest
<1>15. ASSUME NEW b \in Build, \/ EnterSandbox(b) \/ RunScript(b) \/ ScriptFails(b)
                                 \/ KilledInScript(b) \/ KilledInStamp(b)
       PROVE  CleanInv'
  <2>1. TRUE \in BOOLEAN /\ Junk \in {out[b], Junk, NoOut}
    OBVIOUS
  <2> QED
    BY Zenon, <1>9, <1>12, <1>15, <2>1
<1> QED
  BY Zenon, <1>1, <1>2, <1>3, <1>4, <1>5, <1>6, <1>7, <1>8, <1>9, <1>10, <1>11, <1>12,
     <1>13, <1>14, <1>15
  DEF Next

\* Whatever came before (failures, kills, shell sessions, --skip-deps, edits and
\* scans that went wrong), pbuild --clean-all leaves every package it lists
\* with the output of the present sources and layers.
THEOREM CleanAllCorrect == Spec => []CleanAllFresh
<1>1. TypeInv /\ CleanInv => CleanAllFresh
  BY DEF CleanInv, CleanAllFresh, Redoing, Behind, Succeeds
<1> QED
  BY TypeInit, TypeStep, CleanInit, CleanStep, <1>1, PTL DEF Spec
=============================================================================
