--------------------------- MODULE ResolveProofs ---------------------------
(***************************************************************************)
(* Proofs about Resolve, for every project and every list of packages: the *)
(* types, a closed buildlist, and, where everything is built for one       *)
(* architecture, a sorted one, a verdict of resolve_deps on cycles and     *)
(* missing packages that is exact, and a buildlist with exactly what the   *)
(* named packages lead to.                                                 *)
(***************************************************************************)
EXTENDS Resolve, SequenceTheorems, TLAPS

-----------------------------------------------------------------------------
(***************************************************************************)
(* Facts about the stacks and lists.                                       *)
(***************************************************************************)

(***************************************************************************)
(* Popping a call stack (deppath.pop() and the return of visit_dep) keeps  *)
(* the other frames.                                                       *)
(***************************************************************************)
LEMMA PopFacts ==
    ASSUME NEW S, NEW s \in Seq(S), s # <<>>
    PROVE  /\ Len(s) \in Nat \ {0}
           /\ Last1(s) \in S
           /\ Pop(s) \in Seq(S)
           /\ Len(Pop(s)) = Len(s) - 1
           /\ \A i \in 1..Len(Pop(s)) : Pop(s)[i] = s[i]
    <1>1. Len(s) \in Nat \ {0}
        BY Zenon, EmptySeq, LenProperties
    <1>2. Len(s) - 1 \in Nat /\ Len(s) - 1 <= Len(s) /\ 1 \in 1..(Len(s) + 1)
        BY <1>1
    <1>3. \A i \in 1..(Len(s) - 1) : s[i] \in S
        BY <1>1
    <1>4. Pop(s) = [i \in 1..(Len(s) - 1) |-> s[i]]
        BY <1>1 DEF Pop
    <1>5. Pop(s) \in Seq(S)
        BY <1>3, <1>4, <1>2, IsASeq
    <1>6. Len(Pop(s)) = Len(s) - 1
        BY <1>2, <1>4, <1>5, LenProperties
    <1> QED BY <1>1, <1>2, <1>4, <1>5, <1>6 DEF Last1

(***************************************************************************)
(* Advancing the innermost call changes only its own frame.                *)
(***************************************************************************)
LEMMA SetLastFacts ==
    ASSUME NEW S, NEW s \in Seq(S), s # <<>>, NEW f \in S
    PROVE  /\ SetLast(s, f) \in Seq(S)
           /\ Len(SetLast(s, f)) = Len(s)
           /\ \A i \in 1..Len(s) : i # Len(s) => SetLast(s, f)[i] = s[i]
           /\ SetLast(s, f)[Len(s)] = f
    BY DEF SetLast

(***************************************************************************)
(* A list made of three is made of their elements.                         *)
(***************************************************************************)
LEMMA ConcatFacts ==
    ASSUME NEW S, NEW s \in Seq(S), NEW t \in Seq(S), NEW u \in Seq(S)
    PROVE  /\ s \o t \o u \in Seq(S)
           /\ \A i \in 1..Len(s \o t \o u) :
                 \/ \E j \in 1..Len(s) : (s \o t \o u)[i] = s[j]
                 \/ \E j \in 1..Len(t) : (s \o t \o u)[i] = t[j]
                 \/ \E j \in 1..Len(u) : (s \o t \o u)[i] = u[j]
    <1>1. s \o t \in Seq(S) /\ Len(s \o t) = Len(s) + Len(t)
        OBVIOUS
    <1>2. \A i \in 1..Len(s \o t) :
             \/ \E j \in 1..Len(s) : (s \o t)[i] = s[j]
             \/ \E j \in 1..Len(t) : (s \o t)[i] = t[j]
        <2> TAKE i \in 1..Len(s \o t)
        <2>1. CASE i <= Len(s)
            BY <1>1, <2>1
        <2>2. CASE i > Len(s)
            <3>1. i - Len(s) \in 1..Len(t) /\ (s \o t)[i] = t[i - Len(s)]
                BY <1>1, <2>2
            <3> QED BY Zenon, <3>1
        <2> QED BY <1>1, <2>1, <2>2
    <1> DEFINE r == s \o t
    <1>3. r \in Seq(S) /\ Len(r \o u) = Len(r) + Len(u) /\ r \o u \in Seq(S)
        BY <1>1
    <1>4. \A i \in 1..Len(r \o u) :
             \/ i \in 1..Len(r) /\ (r \o u)[i] = r[i]
             \/ \E j \in 1..Len(u) : (r \o u)[i] = u[j]
        <2> HIDE DEF r
        <2> TAKE i \in 1..Len(r \o u)
        <2>1. CASE i <= Len(r)
            BY <1>3, <2>1
        <2>2. CASE i > Len(r)
            <3>1. i - Len(r) \in 1..Len(u) /\ (r \o u)[i] = u[i - Len(r)]
                BY <1>3, <2>2
            <3> QED BY Zenon, <3>1
        <2> QED BY <1>3, <2>1, <2>2
    <1> QED BY ZenonT(30), <1>2, <1>3, <1>4

(***************************************************************************)
(* The elements of a list after an append.                                 *)
(***************************************************************************)
LEMMA AppendFacts ==
    ASSUME NEW S, NEW s \in Seq(S), NEW x \in S
    PROVE  /\ Append(s, x) \in Seq(S)
           /\ Len(Append(s, x)) = Len(s) + 1
           /\ \A i \in 1..Len(s) : Append(s, x)[i] = s[i]
           /\ Append(s, x)[Len(s) + 1] = x
           /\ Elems(Append(s, x)) = Elems(s) \cup {x}
    <1>1. /\ Append(s, x) \in Seq(S)
          /\ Len(Append(s, x)) = Len(s) + 1
          /\ \A i \in 1..Len(s) : Append(s, x)[i] = s[i]
          /\ Append(s, x)[Len(s) + 1] = x
        OBVIOUS
    <1>2. Len(s) \in Nat
        OBVIOUS
    <1>3. ASSUME NEW y PROVE y \in Elems(Append(s, x)) <=> y \in Elems(s) \cup {x}
        <2>1. ASSUME NEW i \in 1..(Len(s) + 1), y = Append(s, x)[i]
              PROVE  y \in Elems(s) \cup {x}
            <3>1. CASE i \in 1..Len(s)
                BY Zenon, <1>1, <2>1, <3>1 DEF Elems
            <3>2. CASE i = Len(s) + 1
                BY Zenon, <1>1, <2>1, <3>2
            <3> QED BY <1>2, <3>1, <3>2
        <2>2. ASSUME NEW i \in 1..Len(s), y = s[i]
              PROVE  y \in Elems(Append(s, x))
            <3>1. i \in 1..(Len(s) + 1) /\ y = Append(s, x)[i]
                BY <1>1, <1>2, <2>2
            <3> QED BY Zenon, <3>1, <1>1 DEF Elems
        <2>3. x \in Elems(Append(s, x))
            <3>1. Len(s) + 1 \in 1..(Len(s) + 1)
                BY <1>2
            <3> QED BY Zenon, <3>1, <1>1 DEF Elems
        <2> QED BY Zenon, <1>1, <2>1, <2>2, <2>3 DEF Elems
    <1> QED BY Zenon, <1>1, <1>3

-----------------------------------------------------------------------------
(***************************************************************************)
(* Type correctness.  TypeOK is not inductive by itself: that a stack      *)
(* frame has an architecture rests on ARCHDEPENDS always naming one, in    *)
(* the project and in the resolved dependencies alike.                     *)
(***************************************************************************)
RealEdges ==
    \A p \in Pkg, k \in Kind : \A i \in 1..Len(resolved[p][k]) :
        /\ resolved[p][k][i].pkg \in Pkg
        /\ resolved[p][k][i].kind = k
        /\ k = "ARCHDEPENDS" => resolved[p][k][i].arch \in Arch

TypeInv == TypeOK /\ project \in Projects /\ RealEdges

\* A directive that names the architecture its kind needs.
Sound(d) == d \in Dep /\ (d.kind = "ARCHDEPENDS" => d.arch \in Arch)

\* What Declared lists of a package are its directives, each in the list of its kind.
LEMMA DeclaredFacts ==
    ASSUME TypeInv, NEW p \in Pkg
    PROVE  /\ Declared(p) \in Seq(Dep)
           /\ \A i \in 1..Len(Declared(p)) : Sound(Declared(p)[i])
           /\ ArchdepArchs(p) \subseteq Arch
    <1>1. \A k \in Kind : /\ project[p][k] \in Seq(Dep)
                         /\ \A i \in 1..Len(project[p][k]) : Sound(project[p][k][i])
        <2> SUFFICES ASSUME NEW k \in Kind
                     PROVE  /\ project[p][k] \in Seq(Dep)
                            /\ \A i \in 1..Len(project[p][k]) : Sound(project[p][k][i])
            BY Zenon
        <2>1. project[p] \in DepLists /\ WellFormed(project)
            BY Zenon, ConstantsAssumption DEF TypeInv
        <2>2. project[p][k] \in Seq(Dep)
            BY Zenon, <2>1 DEF DepLists
        <2>3. ASSUME NEW i \in 1..Len(project[p][k]) PROVE Sound(project[p][k][i])
            <3>1. project[p][k][i] \in Dep
                BY <2>2
            <3>2. project[p][k][i].kind = k /\ (k = "ARCHDEPENDS" => project[p][k][i].arch # NoArch)
                BY <2>1 DEF WellFormed
            <3> QED BY Zenon, <3>1, <3>2 DEF Sound, Dep
        <2> QED BY Zenon, <2>2, <2>3
    <1>2. "DEPENDS" \in Kind /\ "BUILDTOOL" \in Kind /\ "ARCHDEPENDS" \in Kind
        BY Zenon DEF Kind
    <1>3. ArchdepArchs(p) \subseteq Arch
        <2>1. ASSUME NEW i \in 1..Len(project[p]["ARCHDEPENDS"])
              PROVE  project[p]["ARCHDEPENDS"][i].arch \in Arch
            <3>1. WellFormed(project) /\ Sound(project[p]["ARCHDEPENDS"][i])
                BY Zenon, <1>1, <1>2, ConstantsAssumption DEF TypeInv
            <3>2. project[p]["ARCHDEPENDS"][i].kind = "ARCHDEPENDS"
                BY <1>2, <3>1 DEF WellFormed
            <3> QED BY Zenon, <3>1, <3>2 DEF Sound
        <2> QED BY Zenon, <2>1 DEF ArchdepArchs
    <1> DEFINE s == project[p]["DEPENDS"]
               t == project[p]["BUILDTOOL"]
               u == project[p]["ARCHDEPENDS"]
    <1>4. s \in Seq(Dep) /\ t \in Seq(Dep) /\ u \in Seq(Dep) /\ Declared(p) = s \o t \o u
        BY Zenon, <1>1, <1>2 DEF Declared
    <1>5. /\ \A i \in 1..Len(s) : Sound(s[i])
          /\ \A i \in 1..Len(t) : Sound(t[i])
          /\ \A i \in 1..Len(u) : Sound(u[i])
        BY Zenon, <1>1, <1>2
    <1> HIDE DEF s, t, u
    <1>6. /\ s \o t \o u \in Seq(Dep)
          /\ \A i \in 1..Len(s \o t \o u) : Sound((s \o t \o u)[i])
        BY SMTT(30), <1>4, <1>5, ConcatFacts
    <1> QED BY Zenon, <1>3, <1>4, <1>6

\* EdgesOf lists exactly the resolved dependencies of a package.
LEMMA EdgesFacts ==
    ASSUME TypeInv, NEW p \in Pkg
    PROVE  /\ EdgesOf(p) \in Seq(Dep)
           /\ \A i \in 1..Len(EdgesOf(p)) :
                 /\ Sound(EdgesOf(p)[i])
                 /\ EdgesOf(p)[i].pkg \in Pkg
                 /\ \E k \in Kind : \E j \in 1..Len(resolved[p][k]) : EdgesOf(p)[i] =
                        resolved[p][k][j]
    <1>1. \A k \in Kind : resolved[p][k] \in Seq(Dep)
        BY Zenon DEF TypeInv, TypeOK, DepLists
    <1>2. "DEPENDS" \in Kind /\ "BUILDTOOL" \in Kind /\ "ARCHDEPENDS" \in Kind
        BY Zenon DEF Kind
    <1> DEFINE s == resolved[p]["BUILDTOOL"]
               t == resolved[p]["DEPENDS"]
               u == resolved[p]["ARCHDEPENDS"]
               Resolves(d) == \E k \in Kind : \E j \in 1..Len(resolved[p][k]) : d =
                   resolved[p][k][j]
    <1>3. s \in Seq(Dep) /\ t \in Seq(Dep) /\ u \in Seq(Dep) /\ EdgesOf(p) = s \o t \o u
        BY Zenon, <1>1, <1>2 DEF EdgesOf
    <1>4. /\ \A i \in 1..Len(s) : Resolves(s[i])
          /\ \A i \in 1..Len(t) : Resolves(t[i])
          /\ \A i \in 1..Len(u) : Resolves(u[i])
        BY Zenon, <1>2
    <1> HIDE DEF s, t, u, Resolves
    <1>5. /\ s \o t \o u \in Seq(Dep)
          /\ \A i \in 1..Len(s \o t \o u) : Resolves((s \o t \o u)[i])
        BY SMTT(30), <1>3, <1>4, ConcatFacts
    <1>6. \A k \in Kind : \A j \in 1..Len(resolved[p][k]) :
             Sound(resolved[p][k][j]) /\ resolved[p][k][j].pkg \in Pkg
        BY <1>1 DEF TypeInv, RealEdges, Sound
    <1>7. \A d : Resolves(d) => Sound(d) /\ d.pkg \in Pkg
        BY Zenon, <1>6 DEF Resolves
    <1>8. \A i \in 1..Len(EdgesOf(p)) : Resolves(EdgesOf(p)[i])
        BY Zenon, <1>3, <1>5
    <1>9. EdgesOf(p) \in Seq(Dep)
        BY Zenon, <1>3, <1>5
    <1> QED BY SMTT(30), <1>7, <1>8, <1>9 DEF Resolves

\* A dependency is used for an architecture.
LEMMA DepArchType ==
    ASSUME NEW arch \in Arch, NEW d, Sound(d)
    PROVE  DepArch(arch, d) \in Arch
    <1>1. d.kind \in {"DEPENDS", "BUILDTOOL", "ARCHDEPENDS"}
        BY Zenon DEF Sound, Dep, Kind
    <1> QED BY Zenon, <1>1, ConstantsAssumption DEF Sound, DepArch

VisitFrame == [build : Build, pos : Nat \ {0}]

\* What the innermost call of resolve_deps has at hand.
LEMMA CurrentFacts ==
    ASSUME TypeInv, AtDirective
    PROVE  /\ deppath \in Seq(DepFrame) /\ deppath # <<>>
           /\ Last1(deppath) \in DepFrame
           /\ Sound(Current)
           /\ DepArch(Last1(deppath).arch, Current) \in Arch
           /\ [Last1(deppath) EXCEPT !.pos = @ + 1] \in DepFrame
           /\ NextDirective(deppath) \in Seq(DepFrame)
    <1>1. deppath \in Seq(DepFrame) /\ deppath # <<>>
        BY Zenon DEF TypeInv, TypeOK, AtDirective
    <1>2. Last1(deppath) \in DepFrame
        BY Zenon, <1>1, PopFacts
    <1>3. /\ Last1(deppath).pkg \in Pkg /\ Last1(deppath).arch \in Arch
          /\ Last1(deppath).pos \in Nat \ {0}
        BY Zenon, <1>2 DEF DepFrame
    <1>4. Sound(Current)
        <2>1. Declared(Last1(deppath).pkg) \in Seq(Dep)
            BY Zenon, <1>3, DeclaredFacts
        <2>2. Last1(deppath).pos \in 1..Len(Declared(Last1(deppath).pkg))
            BY <1>3, <2>1 DEF AtDirective
        <2> QED BY Zenon, <1>3, <2>2, DeclaredFacts DEF Current
    <1>5. DepArch(Last1(deppath).arch, Current) \in Arch
        BY Zenon, <1>3, <1>4, DepArchType
    <1>6. [Last1(deppath) EXCEPT !.pos = @ + 1] \in DepFrame
        BY <1>2 DEF DepFrame
    <1>7. NextDirective(deppath) \in Seq(DepFrame)
        BY SMTT(30), <1>1, <1>6, SetLastFacts DEF NextDirective
    <1> QED BY Zenon, <1>1, <1>2, <1>4, <1>5, <1>6, <1>7

\* What the innermost call of visit_dep has at hand.
LEMMA EdgeFacts ==
    ASSUME TypeInv, AtEdge
    PROVE  /\ visits \in Seq(VisitFrame) /\ visits # <<>>
           /\ Last1(visits) \in VisitFrame
           /\ Last1(visits).build \in Build
           /\ Sound(Edge)
           /\ \E k \in Kind : \E j \in 1..Len(resolved[Last1(visits).build[1]][k]) :
                  Edge = resolved[Last1(visits).build[1]][k][j]
           /\ EdgeTarget \in Build
           /\ EdgeTarget[1] = Edge.pkg
           /\ [Last1(visits) EXCEPT !.pos = @ + 1] \in VisitFrame
           /\ NextDirective(visits) \in Seq(VisitFrame)
    <1>1. visits \in Seq(VisitFrame) /\ visits # <<>>
        BY Zenon DEF TypeInv, TypeOK, AtEdge, VisitFrame
    <1>2. Last1(visits) \in VisitFrame
        BY Zenon, <1>1, PopFacts
    <1>3. Last1(visits).build \in Build /\ Last1(visits).pos \in Nat \ {0}
        BY Zenon, <1>2 DEF VisitFrame
    <1>4. Last1(visits).build[1] \in Pkg /\ Last1(visits).build[2] \in Arch
        BY Zenon, <1>3 DEF Build
    <1>5. /\ Sound(Edge) /\ Edge.pkg \in Pkg
          /\ \E k \in Kind : \E j \in 1..Len(resolved[Last1(visits).build[1]][k]) :
                 Edge = resolved[Last1(visits).build[1]][k][j]
        <2>1. EdgesOf(Last1(visits).build[1]) \in Seq(Dep)
            BY Zenon, <1>4, EdgesFacts
        <2>2. Last1(visits).pos \in 1..Len(EdgesOf(Last1(visits).build[1]))
            BY <1>3, <2>1 DEF AtEdge
        <2> QED BY Zenon, <1>4, <2>2, EdgesFacts DEF Edge
    <1>6. EdgeTarget \in Build /\ EdgeTarget[1] = Edge.pkg
        BY Zenon, <1>4, <1>5, DepArchType DEF EdgeTarget, TargetOf, Build
    <1>7. [Last1(visits) EXCEPT !.pos = @ + 1] \in VisitFrame
        BY <1>2 DEF VisitFrame
    <1>8. NextDirective(visits) \in Seq(VisitFrame)
        BY Zenon, <1>1, <1>7, SetLastFacts DEF NextDirective
    <1> QED BY Zenon, <1>1, <1>2, <1>3, <1>5, <1>6, <1>7, <1>8

\* Frame makes frames of resolve_deps.
LEMMA FrameType ==
    ASSUME NEW p \in Pkg, NEW arch \in Arch, NEW ca \in Arch \cup {NoArch},
           NEW archs \in SUBSET Arch
    PROVE  Frame(p, arch, ca, archs) \in DepFrame
    BY DEF Frame, DepFrame

\* So does ChildFrame.
LEMMA ChildFrameType ==
    ASSUME TypeInv, LoadsDep
    PROVE  ChildFrame(Last1(deppath), Current) \in DepFrame
    <1> DEFINE f == Last1(deppath)
               d == Current
    <1>1. f \in DepFrame /\ Sound(d) /\ DepArch(f.arch, d) \in Arch
        BY Zenon, CurrentFacts DEF LoadsDep
    <1>2. d.pkg \in Pkg /\ d.kind \in Kind
        BY Zenon, <1>1 DEF Sound, Dep, LoadsDep
    <1>3. f.pkg \in Pkg /\ f.cond_ARCH \in Arch \cup {NoArch} /\ f.archdep_archs \in SUBSET Arch
        BY Zenon, <1>1 DEF DepFrame
    <1>4. ArchdepArchs(f.pkg) \in SUBSET Arch
        BY Zenon, <1>3, DeclaredFacts
    <1> HIDE DEF f, d
    <1>5. (CASE d.kind = "DEPENDS"     -> f.cond_ARCH
             [] d.kind = "BUILDTOOL"   -> TARGET_ARCH
             [] d.kind = "ARCHDEPENDS" -> NoArch) \in Arch \cup {NoArch}
        BY Zenon, <1>2, <1>3 DEF Kind, TypeInv, TypeOK
    <1>6. (IF d.kind = "ARCHDEPENDS" THEN ArchdepArchs(f.pkg) ELSE f.archdep_archs) \in SUBSET Arch
        BY Zenon, <1>3, <1>4
    <1>7. ChildFrame(f, d) \in DepFrame
        BY Zenon, <1>1, <1>2, <1>5, <1>6, FrameType DEF ChildFrame
    <1> QED BY Zenon, <1>7 DEF f, d

\* Type correctness of the initial states.
LEMMA TypeInit == Init => TypeInv
    <1> SUFFICES ASSUME Init PROVE TypeInv
        BY Zenon
    <1>1. resolved \in [Pkg -> DepLists]
        BY DEF Init, DepLists
    <1>2. RealEdges
        BY DEF Init, RealEdges
    <1>3. links \in [Build -> SUBSET (Kind \X Build)]
        BY Zenon DEF Init
    <1> QED BY <1>1, <1>2, <1>3, ConstantsAssumption DEF Init, TypeInv, TypeOK

\* ResolveTop keeps TypeInv.
LEMMA TypeResolveTop == ASSUME TypeInv, ResolveTop PROVE TypeInv'
    <1>t. TypeOK /\ project \in Projects /\ RealEdges
        BY Zenon DEF TypeInv
    <1>e. resolved' = resolved => RealEdges'
        BY <1>t DEF RealEdges
    <1>1. toplevel[top] \in Pkg
        BY <1>t DEF ResolveTop, TypeOK
    <1>2. Frame(toplevel[top], TARGET_ARCH, NoArch, {}) \in DepFrame
        BY Zenon, <1>t, <1>1, FrameType DEF TypeOK
    <1>3. deppath' \in Seq(DepFrame)
        <2>1. <<Frame(toplevel[top], TARGET_ARCH, NoArch, {})>> \in Seq(DepFrame)
              /\ <<>> \in Seq(DepFrame)
            BY <1>2
        <2>2. deppath' = <<>> \/ deppath' = <<Frame(toplevel[top], TARGET_ARCH, NoArch, {})>>
            BY Zenon DEF ResolveTop
        <2> QED BY Zenon, <2>1, <2>2
    <1>4. deps_resolved' \subseteq Pkg /\ top' \in Nat \ {0}
        BY <1>t, <1>1 DEF ResolveTop, TypeOK
    <1> QED BY SMTT(30), <1>t, <1>e, <1>3, <1>4 DEF ResolveTop, TypeInv, TypeOK, buildVars

\* SkipDep keeps TypeInv.
LEMMA TypeSkipDep == ASSUME TypeInv, SkipDep PROVE TypeInv'
    <1>t. TypeOK /\ project \in Projects /\ RealEdges
        BY Zenon DEF TypeInv
    <1>e. resolved' = resolved => RealEdges'
        BY <1>t DEF RealEdges
    <1>1. deppath' \in Seq(DepFrame)
        BY Zenon, CurrentFacts DEF SkipDep
    <1> QED BY Zenon, <1>t, <1>e, <1>1 DEF SkipDep, TypeInv, TypeOK, buildVars

\* DepNotFound or DepCyclic keeps TypeInv.
LEMMA TypeFailures == ASSUME TypeInv, DepNotFound \/ DepCyclic PROVE TypeInv'
    <1>t. TypeOK /\ project \in Projects /\ RealEdges
        BY Zenon DEF TypeInv
    <1>e. resolved' = resolved => RealEdges'
        BY <1>t DEF RealEdges
    <1> QED BY Zenon, <1>t, <1>e DEF DepNotFound, DepCyclic, TypeInv, TypeOK, depsVars, buildVars

\* DescendDep keeps TypeInv.
LEMMA TypeDescendDep == ASSUME TypeInv, DescendDep PROVE TypeInv'
    <1>t. TypeOK /\ project \in Projects /\ RealEdges
        BY Zenon DEF TypeInv
    <1>e. resolved' = resolved => RealEdges'
        BY <1>t DEF RealEdges
    <1>1. deppath \in Seq(DepFrame) /\ ChildFrame(Last1(deppath), Current) \in DepFrame
        BY Zenon, <1>t, ChildFrameType DEF DescendDep, TypeOK
    <1>2. deppath' \in Seq(DepFrame)
        BY <1>1 DEF DescendDep
    <1>3. deps_resolved' \subseteq Pkg
        <2>1. Sound(Current) /\ Current.pkg # NoPkg
            BY Zenon, CurrentFacts DEF DescendDep, LoadsDep
        <2> QED BY Zenon, <1>t, <2>1 DEF DescendDep, TypeOK, Sound, Dep
    <1> QED BY Zenon, <1>t, <1>e, <1>2, <1>3 DEF DescendDep, TypeInv, TypeOK, buildVars

\* AppendDep keeps TypeInv.
LEMMA TypeAppendDep == ASSUME TypeInv, AppendDep PROVE TypeInv'
    <1>t. TypeOK /\ project \in Projects /\ RealEdges
        BY Zenon DEF TypeInv
    <1>e. resolved' = resolved => RealEdges'
        BY <1>t DEF RealEdges
    <1> DEFINE d == Current
               p == Last1(deppath).pkg
    <1>1. Sound(d) /\ d.pkg # NoPkg /\ Last1(deppath) \in DepFrame /\ deppath' \in Seq(DepFrame)
        BY Zenon, CurrentFacts DEF AppendDep, LoadsDep
    <1>2. d \in Dep /\ d.pkg \in Pkg /\ d.kind \in Kind /\ p \in Pkg
          /\ (d.kind = "ARCHDEPENDS" => d.arch \in Arch)
        BY SMTT(30), <1>1 DEF Sound, Dep, DepFrame
    <1>3. resolved' = resolved \/ resolved' = [resolved EXCEPT ![p][d.kind] = Append(@, d)]
        BY SMTT(30) DEF AppendDep
    <1>4. CASE resolved' = resolved
        BY ZenonT(30), <1>t, <1>e, <1>1, <1>4 DEF AppendDep, TypeInv, TypeOK, buildVars
    <1>5. CASE resolved' = [resolved EXCEPT ![p][d.kind] = Append(@, d)]
        <2> HIDE DEF d, p
        <2>1. resolved \in [Pkg -> [Kind -> Seq(Dep)]]
            BY Zenon, <1>t DEF TypeOK, DepLists
        <2>2. Append(resolved[p][d.kind], d) \in Seq(Dep)
            BY <1>2, <2>1
        <2>3. resolved' \in [Pkg -> DepLists]
            BY Zenon, <1>2, <1>5, <2>1, <2>2 DEF DepLists
        <2>4. RealEdges'
            <3> SUFFICES ASSUME NEW q \in Pkg, NEW k \in Kind, NEW i \in 1..Len(resolved'[q][k])
                         PROVE  /\ resolved'[q][k][i].pkg \in Pkg
                                /\ resolved'[q][k][i].kind = k
                                /\ k = "ARCHDEPENDS" => resolved'[q][k][i].arch \in Arch
                BY Zenon DEF RealEdges
            <3>1. CASE q = p /\ k = d.kind
                <4>1. resolved'[q][k] = Append(resolved[q][k], d) /\ resolved[q][k] \in Seq(Dep)
                    BY Zenon, <1>2, <1>5, <2>1, <3>1
                <4>2. \/ i \in 1..Len(resolved[q][k]) /\ resolved'[q][k][i] = resolved[q][k][i]
                      \/ resolved'[q][k][i] = d
                    BY <4>1
                <4>3. CASE resolved'[q][k][i] = d
                    BY Zenon, <1>2, <3>1, <4>3
                <4>4. CASE i \in 1..Len(resolved[q][k]) /\ resolved'[q][k][i] = resolved[q][k][i]
                    <5>1. \A j \in 1..Len(resolved[q][k]) :
                             /\ resolved[q][k][j].pkg \in Pkg
                             /\ resolved[q][k][j].kind = k
                             /\ k = "ARCHDEPENDS" => resolved[q][k][j].arch \in Arch
                        BY Zenon, <1>t DEF RealEdges
                    <5> QED BY Zenon, <4>4, <5>1
                <4> QED BY Zenon, <4>2, <4>3, <4>4
            <3>2. CASE ~(q = p /\ k = d.kind)
                <4>1. resolved'[q][k] = resolved[q][k]
                    BY Zenon, <1>2, <1>5, <2>1, <3>2
                <4> QED BY <1>t, <4>1 DEF RealEdges
            <3> QED BY Zenon, <3>1, <3>2
        <2> QED BY Zenon, <1>t, <1>1, <2>3, <2>4 DEF AppendDep, TypeInv, TypeOK, buildVars
    <1> QED BY SMTT(30), <1>3, <1>4, <1>5

\* ReturnDeps keeps TypeInv.
LEMMA TypeReturnDeps == ASSUME TypeInv, ReturnDeps PROVE TypeInv'
    <1>t. TypeOK /\ project \in Projects /\ RealEdges
        BY Zenon DEF TypeInv
    <1>e. resolved' = resolved => RealEdges'
        BY <1>t DEF RealEdges
    <1>1. deppath \in Seq(DepFrame) /\ deppath # <<>>
        BY Zenon, <1>t DEF ReturnDeps, TypeOK
    <1>2. deppath' \in Seq(DepFrame) /\ Last1(deppath) \in DepFrame
        BY Zenon, <1>1, PopFacts DEF ReturnDeps
    <1>3. returned' \in Seq(Pkg)
        BY <1>t, <1>2 DEF ReturnDeps, TypeOK, DepFrame
    <1> QED BY Zenon, <1>t, <1>e, <1>2, <1>3 DEF ReturnDeps, TypeInv, TypeOK, buildVars

\* StartBuilds or Resolved keeps TypeInv.
LEMMA TypePhases == ASSUME TypeInv, StartBuilds \/ Resolved PROVE TypeInv'
    <1>t. TypeOK /\ project \in Projects /\ RealEdges
        BY Zenon DEF TypeInv
    <1>e. resolved' = resolved => RealEdges'
        BY <1>t DEF RealEdges
    <1> QED BY SMTT(30), <1>t, <1>e DEF StartBuilds, Resolved, TypeInv, TypeOK, depsVars, buildVars

\* VisitTop keeps TypeInv.
LEMMA TypeVisitTop == ASSUME TypeInv, VisitTop PROVE TypeInv'
    <1>t. TypeOK /\ project \in Projects /\ RealEdges
        BY Zenon DEF TypeInv
    <1>e. resolved' = resolved => RealEdges'
        BY <1>t DEF RealEdges
    <1>1. TopBuild \in Build
        BY <1>t, ConstantsAssumption DEF VisitTop, TypeOK, TopBuild, Build
    <1>2. visits' \in Seq(VisitFrame)
        <2>1. Visit(TopBuild) \in VisitFrame
            BY <1>1 DEF Visit, VisitFrame
        <2>2. <<Visit(TopBuild)>> \in Seq(VisitFrame) /\ <<>> \in Seq(VisitFrame)
            BY <2>1
        <2>3. visits' = <<>> \/ visits' = <<Visit(TopBuild)>>
            BY Zenon DEF VisitTop
        <2> QED BY Zenon, <2>2, <2>3
    <1>3. processed' \subseteq Build /\ top' \in Nat \ {0}
        BY <1>t, <1>1 DEF VisitTop, TypeOK
    <1> QED BY Zenon, <1>t, <1>e, <1>2, <1>3 DEF VisitTop, TypeInv, TypeOK, depsVars, VisitFrame

\* SkipEdge keeps TypeInv.
LEMMA TypeSkipEdge == ASSUME TypeInv, SkipEdge PROVE TypeInv'
    <1>t. TypeOK /\ project \in Projects /\ RealEdges
        BY Zenon DEF TypeInv
    <1>e. resolved' = resolved => RealEdges'
        BY <1>t DEF RealEdges
    <1>1. visits' \in Seq(VisitFrame)
        BY Zenon, EdgeFacts DEF SkipEdge
    <1> QED BY Zenon, <1>t, <1>e, <1>1 DEF SkipEdge, TypeInv, TypeOK, depsVars, VisitFrame

\* DescendEdge keeps TypeInv.
LEMMA TypeDescendEdge == ASSUME TypeInv, DescendEdge PROVE TypeInv'
    <1>t. TypeOK /\ project \in Projects /\ RealEdges
        BY Zenon DEF TypeInv
    <1>e. resolved' = resolved => RealEdges'
        BY <1>t DEF RealEdges
    <1>1. EdgeTarget \in Build /\ visits \in Seq(VisitFrame)
        BY Zenon, EdgeFacts DEF DescendEdge
    <1>2. Visit(EdgeTarget) \in VisitFrame
        BY <1>1 DEF Visit, VisitFrame
    <1>3. visits' \in Seq(VisitFrame) /\ processed' \subseteq Build
        BY SMTT(30), <1>t, <1>1, <1>2 DEF DescendEdge, TypeOK
    <1> QED BY Zenon, <1>t, <1>e, <1>3 DEF DescendEdge, TypeInv, TypeOK, depsVars, VisitFrame

\* LinkEdge keeps TypeInv.
LEMMA TypeLinkEdge == ASSUME TypeInv, LinkEdge PROVE TypeInv'
    <1>t. TypeOK /\ project \in Projects /\ RealEdges
        BY Zenon DEF TypeInv
    <1>e. resolved' = resolved => RealEdges'
        BY <1>t DEF RealEdges
    <1>1. /\ EdgeTarget \in Build /\ visits' \in Seq(VisitFrame) /\ Sound(Edge)
          /\ Last1(visits).build \in Build
        BY Zenon, EdgeFacts DEF LinkEdge
    <1>2. Edge.kind \in Kind
        BY Zenon, <1>1 DEF Sound, Dep
    <1>3. links' \in [Build -> SUBSET (Kind \X Build)]
        BY <1>t, <1>1, <1>2 DEF LinkEdge, TypeOK
    <1> QED BY SMTT(30), <1>t, <1>e, <1>1, <1>3 DEF LinkEdge, TypeInv, TypeOK, depsVars, VisitFrame

\* FinishVisit keeps TypeInv.
LEMMA TypeFinishVisit == ASSUME TypeInv, FinishVisit PROVE TypeInv'
    <1>t. TypeOK /\ project \in Projects /\ RealEdges
        BY Zenon DEF TypeInv
    <1>e. resolved' = resolved => RealEdges'
        BY <1>t DEF RealEdges
    <1>1. visits \in Seq(VisitFrame) /\ visits # <<>>
        BY Zenon, <1>t DEF FinishVisit, TypeOK, VisitFrame
    <1>2. visits' \in Seq(VisitFrame) /\ Last1(visits) \in VisitFrame
        BY Zenon, <1>1, PopFacts DEF FinishVisit
    <1>3. buildlist' \in Seq(Build)
        BY <1>t, <1>2 DEF FinishVisit, TypeOK, VisitFrame
    <1> QED BY SMTT(30), <1>t, <1>e, <1>2, <1>3 DEF FinishVisit, TypeInv, TypeOK, depsVars,
               VisitFrame

\* A step that changes nothing keeps TypeInv.
LEMMA TypeStutter == ASSUME TypeInv, UNCHANGED vars PROVE TypeInv'
    <1>t. TypeOK /\ project \in Projects /\ RealEdges
        BY Zenon DEF TypeInv
    <1>e. resolved' = resolved => RealEdges'
        BY <1>t DEF RealEdges
    <1> QED BY Zenon, <1>t, <1>e DEF vars, depsVars, buildVars, TypeInv, TypeOK

\* Every action of the two walks keeps the types.
LEMMA TypeStep == TypeInv /\ [Next]_vars => TypeInv'
    <1> SUFFICES ASSUME TypeInv, [Next]_vars PROVE TypeInv'
        BY Zenon
    <1> QED BY Zenon, TypeResolveTop, TypeSkipDep, TypeFailures, TypeDescendDep, TypeAppendDep,
               TypeReturnDeps, TypePhases, TypeVisitTop, TypeSkipEdge, TypeDescendEdge,
               TypeLinkEdge, TypeFinishVisit, TypeStutter
            DEF Next, ResolveDeps, ResolveBuilds, Stop

(***************************************************************************)
(* The two walks keep every stack, table and list well typed, whatever the *)
(* directives and the named packages are.                                  *)
(***************************************************************************)
THEOREM TypeCorrect == Spec => []TypeOK
    <1>1. TypeInv => TypeOK
        BY Zenon DEF TypeInv
    <1> QED BY <1>1, TypeInit, TypeStep, PTL DEF Spec

-----------------------------------------------------------------------------
(***************************************************************************)
(* The buildlist is closed.  The inductive invariant says what the         *)
(* processed table stands for: the builds that are listed and those whose  *)
(* visit is still going on, which are different ones.                      *)
(***************************************************************************)
Stacked == {visits[i].build : i \in 1..Len(visits)}

ProcessedExact ==
    processed = Elems(buildlist) \cup Stacked /\ Stacked \cap Elems(buildlist) = {}

VisitedOnce ==
    \A i, j \in 1..Len(visits) : visits[i].build = visits[j].build => i = j

ListedOnce ==
    \A i, j \in 1..Len(buildlist) : buildlist[i] = buildlist[j] => i = j

LinksProcessed == \A b \in Build : \A l \in links[b] : l[2] \in processed

TopsProcessed ==
    phase \in {"builds", "done"} =>
        \A k \in 1..Len(toplevel) : k < top => <<toplevel[k], TARGET_ARCH>> \in processed

DoneVisiting == phase = "done" => visits = <<>> /\ top > Len(toplevel)

WalkInv ==
    /\ ProcessedExact /\ VisitedOnce /\ ListedOnce
    /\ LinksProcessed /\ TopsProcessed /\ DoneVisiting

\* A last frame that is replaced by one of the same build leaves the builds alone.
LEMMA SetLastBuild ==
    ASSUME NEW s \in Seq(VisitFrame), s # <<>>, NEW f \in VisitFrame, f.build = s[Len(s)].build
    PROVE  \A i \in 1..Len(s) : SetLast(s, f)[i].build = s[i].build
    <1>1. /\ \A i \in 1..Len(s) : i # Len(s) => SetLast(s, f)[i] = s[i]
          /\ SetLast(s, f)[Len(s)] = f
        BY SetLastFacts
    <1> QED BY Zenon, <1>1

\* Two places in a stack that has grown by one: only the later one can be new.
LEMMA GrownPlaces ==
    ASSUME NEW n \in Nat, NEW i \in 1..(n + 1), NEW j \in 1..(n + 1), i < j
    PROVE  i \in 1..n /\ (j \in 1..n \/ j = n + 1)
    OBVIOUS

\* Moving on to the next edge leaves the stacked builds alone.
LEMMA AdvanceFacts ==
    ASSUME TypeInv, AtEdge, visits' = NextDirective(visits)
    PROVE  /\ Len(visits') = Len(visits)
           /\ \A i \in 1..Len(visits) : visits'[i].build = visits[i].build
           /\ Stacked' = Stacked
    <1>1. visits \in Seq(VisitFrame) /\ visits # <<>> /\ Last1(visits) \in VisitFrame
          /\ [Last1(visits) EXCEPT !.pos = @ + 1] \in VisitFrame
        BY Zenon, EdgeFacts
    <1>2. Len(visits') = Len(visits) /\ Len(visits) \in Nat
        BY <1>1, SetLastFacts DEF NextDirective
    <1>3. [Last1(visits) EXCEPT !.pos = @ + 1].build = Last1(visits).build
        BY Zenon, <1>1 DEF VisitFrame
    <1>4. \A i \in 1..Len(visits) : visits'[i].build = visits[i].build
        <2> DEFINE f == [Last1(visits) EXCEPT !.pos = @ + 1]
        <2>1. /\ visits' = SetLast(visits, f) /\ f \in VisitFrame
              /\ f.build = visits[Len(visits)].build
            BY Zenon, <1>1, <1>3 DEF NextDirective, Last1
        <2> HIDE DEF f
        <2>2. \A i \in 1..Len(visits) : SetLast(visits, f)[i].build = visits[i].build
            BY Zenon, <1>1, <2>1, SetLastBuild
        <2> QED BY Zenon, <2>1, <2>2
    <1> QED BY Zenon, <1>2, <1>4 DEF Stacked

\* A visit that starts is added on top of the stack.
LEMMA PushFacts ==
    ASSUME visits \in Seq(VisitFrame), NEW t \in Build, visits' = Append(visits, Visit(t))
    PROVE  /\ Len(visits) \in Nat
           /\ Len(visits') = Len(visits) + 1
           /\ \A i \in 1..Len(visits) : visits'[i].build = visits[i].build
           /\ visits'[Len(visits) + 1].build = t
           /\ Stacked' = Stacked \cup {t}
    <1>1. Visit(t) \in VisitFrame /\ Visit(t).build = t
        BY DEF Visit, VisitFrame
    <1>2. /\ Len(visits) \in Nat
          /\ Len(visits') = Len(visits) + 1
          /\ \A i \in 1..Len(visits) : visits'[i] = visits[i]
          /\ visits'[Len(visits) + 1] = Visit(t)
        BY <1>1
    <1>3. \A i \in 1..(Len(visits) + 1) : i \in 1..Len(visits) \/ i = Len(visits) + 1
        BY <1>2
    <1>4. 1..Len(visits) \subseteq 1..(Len(visits) + 1) /\ Len(visits) + 1 \in 1..(Len(visits) + 1)
        BY <1>2
    <1>5. Stacked' = Stacked \cup {t}
        BY SMTT(30), <1>1, <1>2, <1>3, <1>4 DEF Stacked
    <1> QED BY Zenon, <1>1, <1>2, <1>5

\* A visit that ends is taken off the stack.
LEMMA FinishFacts ==
    ASSUME TypeInv, FinishVisit
    PROVE  /\ Last1(visits).build \in Build
           /\ Len(visits) \in Nat \ {0}
           /\ Len(visits') = Len(visits) - 1
           /\ \A i \in 1..Len(visits') : i \in 1..Len(visits) /\ visits'[i].build = visits[i].build
           /\ visits[Len(visits)].build = Last1(visits).build
           /\ Stacked = Stacked' \cup {Last1(visits).build}
           /\ Elems(buildlist') = Elems(buildlist) \cup {Last1(visits).build}
           /\ Len(buildlist) \in Nat
           /\ Len(buildlist') = Len(buildlist) + 1
           /\ \A i \in 1..Len(buildlist) : buildlist'[i] = buildlist[i]
           /\ buildlist'[Len(buildlist) + 1] = Last1(visits).build
    <1>1. visits \in Seq(VisitFrame) /\ visits # <<>> /\ buildlist \in Seq(Build)
        BY Zenon DEF TypeInv, TypeOK, VisitFrame, FinishVisit
    <1>2. /\ Len(visits) \in Nat \ {0} /\ Last1(visits) \in VisitFrame
          /\ Len(visits') = Len(visits) - 1
          /\ \A i \in 1..Len(visits') : visits'[i] = visits[i]
        BY Zenon, <1>1, PopFacts DEF FinishVisit
    <1>3. Last1(visits).build \in Build /\ visits[Len(visits)].build = Last1(visits).build
        BY Zenon, <1>2 DEF VisitFrame, Last1
    <1>4. \A i \in 1..Len(visits) : i \in 1..Len(visits') \/ i = Len(visits)
        BY <1>2
    <1>5. 1..Len(visits') \subseteq 1..Len(visits) /\ Len(visits) \in 1..Len(visits)
        BY <1>2
    <1>6. Stacked = Stacked' \cup {Last1(visits).build}
        BY Zenon, <1>2, <1>3, <1>4, <1>5 DEF Stacked
    <1>7. buildlist' = Append(buildlist, Last1(visits).build) /\ Len(buildlist) \in Nat
        BY <1>1 DEF FinishVisit
    <1>8. /\ Elems(buildlist') = Elems(buildlist) \cup {Last1(visits).build}
          /\ Len(buildlist') = Len(buildlist) + 1
          /\ \A i \in 1..Len(buildlist) : buildlist'[i] = buildlist[i]
          /\ buildlist'[Len(buildlist) + 1] = Last1(visits).build
        BY SMTT(30), <1>1, <1>3, <1>7, AppendFacts
    <1> QED BY SMTT(30), <1>2, <1>3, <1>5, <1>6, <1>7, <1>8

\* WalkInv holds before the walks begin.
LEMMA WalkInit == Init => WalkInv
    BY ConstantsAssumption DEF Init, WalkInv, ProcessedExact, VisitedOnce, ListedOnce,
       LinksProcessed, TopsProcessed, DoneVisiting, Stacked, Elems

\* ResolveDeps keeps WalkInv.
LEMMA WalkResolveDeps == ASSUME TypeInv, WalkInv, ResolveDeps PROVE WalkInv'
    <1>t. /\ toplevel \in Seq(Pkg) /\ top \in Nat \ {0} /\ TARGET_ARCH \in Arch
          /\ visits \in Seq(VisitFrame) /\ processed \subseteq Build
          /\ links \in [Build -> SUBSET (Kind \X Build)] /\ buildlist \in Seq(Build)
        BY Zenon DEF TypeInv, TypeOK, VisitFrame
    <1>w. /\ ProcessedExact /\ VisitedOnce /\ ListedOnce
          /\ LinksProcessed /\ TopsProcessed /\ DoneVisiting
        BY SMTT(30) DEF WalkInv
    <1>s. UNCHANGED <<visits, processed, links, buildlist>> =>
              (ProcessedExact /\ VisitedOnce /\ ListedOnce /\ LinksProcessed)'
        <2> SUFFICES ASSUME UNCHANGED <<visits, processed, links, buildlist>>
                     PROVE  (ProcessedExact /\ VisitedOnce /\ ListedOnce /\ LinksProcessed)'
            BY SMTT(30)
        <2>1. Stacked' = Stacked /\ Elems(buildlist') = Elems(buildlist)
            BY Zenon DEF Stacked
        <2> QED BY Zenon, <1>w, <2>1 DEF ProcessedExact, VisitedOnce, ListedOnce, LinksProcessed
    <1>1. UNCHANGED <<toplevel, TARGET_ARCH, buildVars>> /\ phase = "deps"
        BY ZenonT(30) DEF ResolveDeps, ResolveTop, SkipDep, DepNotFound, DepCyclic, DescendDep,
           LoadsDep, AppendDep, ReturnDeps, StartBuilds, AtDirective
    <1>2. phase' # "done" /\ (phase' = "builds" => top' = 1)
        BY Zenon DEF ResolveDeps, ResolveTop, SkipDep, DepNotFound, DepCyclic, DescendDep,
           LoadsDep, AppendDep, ReturnDeps, StartBuilds, AtDirective
    <1>3. TopsProcessed' /\ DoneVisiting'
        BY <1>t, <1>1, <1>2 DEF TopsProcessed, DoneVisiting
    <1> QED BY SMTT(30), <1>s, <1>1, <1>3 DEF WalkInv, buildVars

\* VisitTop keeps WalkInv.
LEMMA WalkVisitTop == ASSUME TypeInv, WalkInv, VisitTop PROVE WalkInv'
    <1>t. /\ toplevel \in Seq(Pkg) /\ top \in Nat \ {0} /\ TARGET_ARCH \in Arch
          /\ visits \in Seq(VisitFrame) /\ processed \subseteq Build
          /\ links \in [Build -> SUBSET (Kind \X Build)] /\ buildlist \in Seq(Build)
        BY Zenon DEF TypeInv, TypeOK, VisitFrame
    <1>w. /\ ProcessedExact /\ VisitedOnce /\ ListedOnce
          /\ LinksProcessed /\ TopsProcessed /\ DoneVisiting
        BY SMTT(30) DEF WalkInv
    <1>s. UNCHANGED <<visits, processed, links, buildlist>> =>
              (ProcessedExact /\ VisitedOnce /\ ListedOnce /\ LinksProcessed)'
        <2> SUFFICES ASSUME UNCHANGED <<visits, processed, links, buildlist>>
                     PROVE  (ProcessedExact /\ VisitedOnce /\ ListedOnce /\ LinksProcessed)'
            BY SMTT(30)
        <2>1. Stacked' = Stacked /\ Elems(buildlist') = Elems(buildlist)
            BY Zenon DEF Stacked
        <2> QED BY Zenon, <1>w, <2>1 DEF ProcessedExact, VisitedOnce, ListedOnce, LinksProcessed
    <1>1. /\ phase = "builds" /\ visits = <<>> /\ top \in 1..Len(toplevel)
          /\ UNCHANGED <<toplevel, TARGET_ARCH, phase, links, buildlist>>
        BY <1>t DEF VisitTop
    <1>2. TopBuild \in Build
        BY <1>t, <1>1 DEF TopBuild, Build
    <1>3. CASE TopBuild \in processed
        <2>1. top' = top + 1 /\ UNCHANGED <<visits, processed>>
            BY Zenon, <1>3 DEF VisitTop
        <2>2. \A k \in 1..Len(toplevel) : k < top' => <<toplevel[k], TARGET_ARCH>> \in processed
            <3> TAKE k \in 1..Len(toplevel)
            <3>1. k < top' => k < top \/ k = top
                BY <1>t, <2>1
            <3> QED BY Zenon, <1>w, <1>1, <1>3, <3>1 DEF TopsProcessed, TopBuild
        <2>3. TopsProcessed' /\ DoneVisiting'
            BY Zenon, <1>1, <2>1, <2>2 DEF TopsProcessed, DoneVisiting
        <2> QED BY Zenon, <1>s, <1>1, <2>1, <2>3 DEF WalkInv
    <1>4. CASE TopBuild \notin processed
        <2>1. /\ visits' = Append(visits, Visit(TopBuild))
              /\ processed' = processed \cup {TopBuild} /\ top' = top
            BY <1>1, <1>4 DEF VisitTop
        <2>2. Stacked' = Stacked \cup {TopBuild} /\ Len(visits') = 1
            BY <1>t, <1>1, <1>2, <2>1, PushFacts
        <2>3. ProcessedExact'
            BY SMTT(30), <1>w, <1>1, <1>4, <2>1, <2>2 DEF ProcessedExact
        <2>4. VisitedOnce' /\ ListedOnce' /\ LinksProcessed' /\ TopsProcessed' /\ DoneVisiting'
            BY SMTT(30), <1>w, <1>1, <2>1, <2>2
               DEF VisitedOnce, ListedOnce, LinksProcessed, TopsProcessed, DoneVisiting
        <2> QED BY Zenon, <2>3, <2>4 DEF WalkInv
    <1> QED BY Zenon, <1>3, <1>4

\* SkipEdge or LinkEdge keeps WalkInv.
LEMMA WalkSkipEdgeOrLinkEdge == ASSUME TypeInv, WalkInv, SkipEdge \/ LinkEdge PROVE WalkInv'
    <1>t. /\ toplevel \in Seq(Pkg) /\ top \in Nat \ {0} /\ TARGET_ARCH \in Arch
          /\ visits \in Seq(VisitFrame) /\ processed \subseteq Build
          /\ links \in [Build -> SUBSET (Kind \X Build)] /\ buildlist \in Seq(Build)
        BY Zenon DEF TypeInv, TypeOK, VisitFrame
    <1>w. /\ ProcessedExact /\ VisitedOnce /\ ListedOnce
          /\ LinksProcessed /\ TopsProcessed /\ DoneVisiting
        BY SMTT(30) DEF WalkInv
    <1>1. /\ AtEdge /\ visits' = NextDirective(visits)
          /\ UNCHANGED <<toplevel, TARGET_ARCH, phase, top, processed, buildlist>>
        BY Zenon DEF SkipEdge, LinkEdge
    <1>2. /\ Len(visits') = Len(visits) /\ Stacked' = Stacked
          /\ \A i \in 1..Len(visits) : visits'[i].build = visits[i].build
        BY SMTT(30), <1>1, AdvanceFacts
    <1>3. \A b \in Build : \A l \in links'[b] : l \in links[b] \/ l[2] \in processed
        BY SMTT(30), <1>t DEF SkipEdge, LinkEdge
    <1>4. phase' # "done"
        BY Zenon, <1>1 DEF AtEdge
    <1>5. ProcessedExact'
        BY SMTT(30), <1>w, <1>1, <1>2 DEF ProcessedExact
    <1>6. VisitedOnce' /\ ListedOnce' /\ LinksProcessed' /\ TopsProcessed' /\ DoneVisiting'
        BY <1>w, <1>1, <1>2, <1>3, <1>4
           DEF VisitedOnce, ListedOnce, LinksProcessed, TopsProcessed, DoneVisiting
    <1> QED BY Zenon, <1>5, <1>6 DEF WalkInv

\* DescendEdge keeps WalkInv.
LEMMA WalkDescendEdge == ASSUME TypeInv, WalkInv, DescendEdge PROVE WalkInv'
    <1>t. /\ toplevel \in Seq(Pkg) /\ top \in Nat \ {0} /\ TARGET_ARCH \in Arch
          /\ visits \in Seq(VisitFrame) /\ processed \subseteq Build
          /\ links \in [Build -> SUBSET (Kind \X Build)] /\ buildlist \in Seq(Build)
        BY Zenon DEF TypeInv, TypeOK, VisitFrame
    <1>w. /\ ProcessedExact /\ VisitedOnce /\ ListedOnce
          /\ LinksProcessed /\ TopsProcessed /\ DoneVisiting
        BY SMTT(30) DEF WalkInv
    <1>1. /\ AtEdge /\ EdgeTarget \notin processed
          /\ visits' = Append(visits, Visit(EdgeTarget)) /\ processed' = processed \cup {EdgeTarget}
          /\ UNCHANGED <<toplevel, TARGET_ARCH, phase, top, links, buildlist>>
        BY Zenon DEF DescendEdge
    <1>2. EdgeTarget \in Build /\ phase' # "done"
        BY Zenon, <1>1, EdgeFacts DEF AtEdge
    <1>3. /\ Len(visits) \in Nat /\ Len(visits') = Len(visits) + 1
          /\ \A i \in 1..Len(visits) : visits'[i].build = visits[i].build
          /\ visits'[Len(visits) + 1].build = EdgeTarget
          /\ Stacked' = Stacked \cup {EdgeTarget}
        BY SMTT(30), <1>t, <1>1, <1>2, PushFacts
    <1>4. ASSUME NEW i \in 1..Len(visits'), NEW j \in 1..Len(visits'),
                 visits'[i].build = visits'[j].build
          PROVE  i = j
        <2>1. \A m \in 1..Len(visits') : m \in 1..Len(visits) \/ m = Len(visits) + 1
            BY SMTT(30), <1>3
        <2>2. \A m \in 1..Len(visits) : visits[m].build # EdgeTarget
            BY Zenon, <1>w, <1>1 DEF ProcessedExact, Stacked
        <2> QED BY SMTT(30), <1>w, <1>3, <1>4, <2>1, <2>2 DEF VisitedOnce
    <1>5. ProcessedExact'
        BY Zenon, <1>w, <1>1, <1>3 DEF ProcessedExact
    <1>6. VisitedOnce'
        BY Zenon, <1>4 DEF VisitedOnce
    <1>7. ListedOnce' /\ LinksProcessed' /\ TopsProcessed' /\ DoneVisiting'
        BY Zenon, <1>w, <1>1, <1>2 DEF ListedOnce, LinksProcessed, TopsProcessed, DoneVisiting
    <1> QED BY Zenon, <1>5, <1>6, <1>7 DEF WalkInv

\* FinishVisit keeps WalkInv.
LEMMA WalkFinishVisit == ASSUME TypeInv, WalkInv, FinishVisit PROVE WalkInv'
    <1>w. /\ ProcessedExact /\ VisitedOnce /\ ListedOnce
          /\ LinksProcessed /\ TopsProcessed /\ DoneVisiting
        BY SMTT(30) DEF WalkInv
    <1> DEFINE b == Last1(visits).build
    <1>1. /\ b \in Build
          /\ Len(visits) \in Nat \ {0}
          /\ Len(visits') = Len(visits) - 1
          /\ \A i \in 1..Len(visits') : i \in 1..Len(visits) /\ visits'[i].build = visits[i].build
          /\ visits[Len(visits)].build = b
          /\ Stacked = Stacked' \cup {b}
          /\ Elems(buildlist') = Elems(buildlist) \cup {b}
          /\ Len(buildlist) \in Nat
          /\ Len(buildlist') = Len(buildlist) + 1
          /\ \A i \in 1..Len(buildlist) : buildlist'[i] = buildlist[i]
          /\ buildlist'[Len(buildlist) + 1] = b
        BY Zenon, FinishFacts
    <1>2. UNCHANGED <<toplevel, TARGET_ARCH, phase, top, processed, links>> /\ phase = "builds"
        BY Zenon DEF FinishVisit
    <1> HIDE DEF b
    <1>3. b \notin Elems(buildlist)
        BY Zenon, <1>w, <1>1 DEF ProcessedExact
    <1>4. b \notin Stacked'
        <2>1. ASSUME NEW i \in 1..Len(visits') PROVE visits'[i].build # b
            <3>1. i # Len(visits) /\ Len(visits) \in 1..Len(visits) /\ i \in 1..Len(visits)
                BY <1>1
            <3> QED BY Zenon, <1>w, <1>1, <3>1 DEF VisitedOnce
        <2> QED BY Zenon, <2>1 DEF Stacked
    <1>5. VisitedOnce'
        BY Zenon, <1>w, <1>1 DEF VisitedOnce
    <1>6. ASSUME NEW i \in 1..Len(buildlist'), NEW j \in 1..Len(buildlist'),
                 buildlist'[i] = buildlist'[j]
          PROVE  i = j
        <2>1. \A m \in 1..Len(buildlist') : m \in 1..Len(buildlist) \/ m = Len(buildlist) + 1
            BY <1>1
        <2>2. \A m \in 1..Len(buildlist) : buildlist[m] # b
            BY Zenon, <1>3 DEF Elems
        <2> QED BY Zenon, <1>w, <1>1, <1>6, <2>1, <2>2 DEF ListedOnce
    <1>7. ProcessedExact'
        BY SMTT(30), <1>w, <1>1, <1>2, <1>3, <1>4 DEF ProcessedExact
    <1>8. ListedOnce' /\ LinksProcessed' /\ TopsProcessed' /\ DoneVisiting'
        BY Zenon, <1>w, <1>2, <1>6 DEF ListedOnce, LinksProcessed, TopsProcessed, DoneVisiting
    <1> QED BY SMTT(30), <1>5, <1>7, <1>8 DEF WalkInv

\* Resolved keeps WalkInv.
LEMMA WalkResolved == ASSUME TypeInv, WalkInv, Resolved PROVE WalkInv'
    <1>w. /\ ProcessedExact /\ VisitedOnce /\ ListedOnce
          /\ LinksProcessed /\ TopsProcessed /\ DoneVisiting
        BY SMTT(30) DEF WalkInv
    <1>s. UNCHANGED <<visits, processed, links, buildlist>> =>
              (ProcessedExact /\ VisitedOnce /\ ListedOnce /\ LinksProcessed)'
        <2> SUFFICES ASSUME UNCHANGED <<visits, processed, links, buildlist>>
                     PROVE  (ProcessedExact /\ VisitedOnce /\ ListedOnce /\ LinksProcessed)'
            BY SMTT(30)
        <2>1. Stacked' = Stacked /\ Elems(buildlist') = Elems(buildlist)
            BY Zenon DEF Stacked
        <2> QED BY Zenon, <1>w, <2>1 DEF ProcessedExact, VisitedOnce, ListedOnce, LinksProcessed
    <1>1. /\ UNCHANGED <<toplevel, TARGET_ARCH, top, buildVars>> /\ phase = "builds"
          /\ visits = <<>> /\ top > Len(toplevel)
        BY Zenon DEF Resolved
    <1>2. TopsProcessed' /\ DoneVisiting'
        BY Zenon, <1>w, <1>1 DEF TopsProcessed, DoneVisiting, buildVars
    <1> QED BY Zenon, <1>s, <1>1, <1>2 DEF WalkInv, buildVars

\* A step that changes nothing keeps WalkInv.
LEMMA WalkStutter == ASSUME TypeInv, WalkInv, UNCHANGED vars PROVE WalkInv'
    <1>w. /\ ProcessedExact /\ VisitedOnce /\ ListedOnce
          /\ LinksProcessed /\ TopsProcessed /\ DoneVisiting
        BY SMTT(30) DEF WalkInv
    <1>s. UNCHANGED <<visits, processed, links, buildlist>> =>
              (ProcessedExact /\ VisitedOnce /\ ListedOnce /\ LinksProcessed)'
        <2> SUFFICES ASSUME UNCHANGED <<visits, processed, links, buildlist>>
                     PROVE  (ProcessedExact /\ VisitedOnce /\ ListedOnce /\ LinksProcessed)'
            BY SMTT(30)
        <2>1. Stacked' = Stacked /\ Elems(buildlist') = Elems(buildlist)
            BY Zenon DEF Stacked
        <2> QED BY Zenon, <1>w, <2>1 DEF ProcessedExact, VisitedOnce, ListedOnce, LinksProcessed
    <1>1. TopsProcessed' /\ DoneVisiting'
        BY Zenon, <1>w DEF TopsProcessed, DoneVisiting, vars, buildVars
    <1> QED BY Zenon, <1>s, <1>1 DEF WalkInv, vars, buildVars

\* Every action keeps WalkInv: a build is processed when it is listed or on the stack, once.
LEMMA WalkStep == TypeInv /\ WalkInv /\ [Next]_vars => WalkInv'
    <1> SUFFICES ASSUME TypeInv, WalkInv, [Next]_vars PROVE WalkInv'
        BY Zenon
    <1> QED BY Zenon, WalkResolveDeps, WalkVisitTop, WalkSkipEdgeOrLinkEdge, WalkDescendEdge,
               WalkFinishVisit, WalkResolved, WalkStutter DEF Next, ResolveBuilds, Stop

(***************************************************************************)
(* For any mix of architectures, once resolve_builds returns the PkgBuild  *)
(* graph is closed: what a listed build depends on is listed, no build is  *)
(* listed twice, and every named package is there for TARGET_ARCH.         *)
(***************************************************************************)
THEOREM ClosedCorrect == Spec => []BuildlistClosed
    <1>1. TypeInv /\ WalkInv => BuildlistClosed
        <2> SUFFICES ASSUME TypeInv, WalkInv, phase = "done" PROVE BuildlistClosed
            BY Zenon DEF BuildlistClosed
        <2>1. visits = <<>> /\ top > Len(toplevel)
            BY Zenon DEF WalkInv, DoneVisiting
        <2>2. processed = Elems(buildlist)
            BY <2>1 DEF WalkInv, ProcessedExact, Stacked
        <2>3. Elems(buildlist) \subseteq Build
            BY DEF TypeInv, TypeOK, Elems
        <2>4. \A k \in 1..Len(toplevel) : k < top
            BY <2>1 DEF TypeInv, TypeOK
        <2> QED BY Zenon, <2>2, <2>3, <2>4 
                DEF WalkInv, ListedOnce, LinksProcessed, TopsProcessed, BuildlistClosed, Elems
    <1> QED BY <1>1, TypeInit, TypeStep, WalkInit, WalkStep, PTL DEF Spec

-----------------------------------------------------------------------------
(***************************************************************************)
(* Projects in which everything is built for one architecture: no call is  *)
(* made for another one, and a directive counts exactly when its condition *)
(* holds for it.                                                           *)
(***************************************************************************)
FramesNative ==
    \A i \in 1..Len(deppath) :
        /\ deppath[i].arch = NATIVE_ARCH
        /\ deppath[i].cond_ARCH \in {NoArch, NATIVE_ARCH}
        /\ deppath[i].archdep_archs \subseteq {NATIVE_ARCH}

\* An ARCHDEPENDS directive of p names one of its ArchdepArchs.
LEMMA ArchdepNamed ==
    ASSUME TypeInv, NEW p \in Pkg, NEW i \in 1..Len(Declared(p)),
           Declared(p)[i].kind = "ARCHDEPENDS"
    PROVE  Declared(p)[i].arch \in ArchdepArchs(p)
    <1> DEFINE s == project[p]["DEPENDS"]
               t == project[p]["BUILDTOOL"]
               u == project[p]["ARCHDEPENDS"]
    <1>1. WellFormed(project) /\ \A k \in Kind : project[p][k] \in Seq(Dep)
        BY ConstantsAssumption DEF TypeInv, DepLists
    <1>2. "DEPENDS" \in Kind /\ "BUILDTOOL" \in Kind
        BY SMTT(30) DEF Kind
    <1>3. /\ \A j \in 1..Len(s) : s[j].kind = "DEPENDS"
          /\ \A j \in 1..Len(t) : t[j].kind = "BUILDTOOL"
        BY SMTT(30), <1>1, <1>2 DEF WellFormed
    <1>4. s \in Seq(Dep) /\ t \in Seq(Dep) /\ u \in Seq(Dep) /\ Declared(p) = s \o t \o u
        BY Zenon, <1>1 DEF Kind, Declared
    <1>5. \A x : x \in ArchdepArchs(p) <=> \E j \in 1..Len(u) : u[j].arch = x
        BY Zenon DEF ArchdepArchs
    <1> HIDE DEF s, t, u
    <1>6. \E j \in 1..Len(u) : (s \o t \o u)[i] = u[j]
        <2> DEFINE Fits(x) == x.kind = "ARCHDEPENDS" => \E j \in 1..Len(u) : x = u[j]
        <2>1. /\ \A j \in 1..Len(s) : Fits(s[j])
              /\ \A j \in 1..Len(t) : Fits(t[j])
              /\ \A j \in 1..Len(u) : Fits(u[j])
            BY SMTT(30), <1>3
        <2> HIDE DEF Fits
        <2>2. \A m \in 1..Len(s \o t \o u) : Fits((s \o t \o u)[m])
            BY SMTT(30), <1>4, <2>1, ConcatFacts
        <2>3. Fits((s \o t \o u)[i])
            BY Zenon, <1>4, <2>2
        <2> QED BY SMTT(30), <1>4, <2>3 DEF Fits
    <1> QED BY SMTT(30), <1>4, <1>5, <1>6

\* What the innermost call has at hand when everything is native.
LEMMA NativeFacts ==
    ASSUME TypeInv, SingleArch, FramesNative, AtDirective
    PROVE  /\ Passes <=> NATIVE_ARCH \in Current.cond
           /\ DepArch(Last1(deppath).arch, Current) = NATIVE_ARCH
           /\ Current.kind = "ARCHDEPENDS" => Current.arch = NATIVE_ARCH
           /\ ChildFrame(Last1(deppath), Current).arch = NATIVE_ARCH
           /\ ChildFrame(Last1(deppath), Current).cond_ARCH \in {NoArch, NATIVE_ARCH}
           /\ ChildFrame(Last1(deppath), Current).archdep_archs \subseteq {NATIVE_ARCH}
    <1> DEFINE f == Last1(deppath)
               d == Current
    <1>1. deppath \in Seq(DepFrame) /\ deppath # <<>> /\ f \in DepFrame /\ Sound(d)
        BY Zenon, CurrentFacts
    <1>2. f.pkg \in Pkg /\ f.pos \in 1..Len(Declared(f.pkg)) /\ d = Declared(f.pkg)[f.pos]
        <2>1. f.pkg \in Pkg /\ f.pos \in Nat \ {0}
            BY Zenon, <1>1 DEF DepFrame
        <2>2. Declared(f.pkg) \in Seq(Dep)
            BY SMTT(30), <2>1, DeclaredFacts
        <2> QED BY <2>1, <2>2 DEF AtDirective, Current
    <1>3. /\ f.arch = NATIVE_ARCH /\ f.cond_ARCH \in {NoArch, NATIVE_ARCH}
          /\ f.archdep_archs \subseteq {NATIVE_ARCH}
        <2>1. Len(deppath) \in 1..Len(deppath) /\ f = deppath[Len(deppath)]
            BY <1>1, PopFacts DEF Last1
        <2> QED BY Zenon, <2>1 DEF FramesNative
    <1>4. ArchdepArchs(f.pkg) \subseteq {NATIVE_ARCH} /\ TARGET_ARCH = NATIVE_ARCH
        BY SMTT(30), <1>2 DEF SingleArch
    <1>5. d.kind = "ARCHDEPENDS" => d.arch \in ArchdepArchs(f.pkg)
        BY Zenon, <1>2, ArchdepNamed
    <1>6. d.kind \in Kind /\ NATIVE_ARCH # NoArch
        BY Zenon, <1>1, ConstantsAssumption DEF Sound, Dep
    <1> HIDE DEF f, d
    <1>7. CondArchs(f, d) = {NATIVE_ARCH}
        <2>1. CASE d.kind = "ARCHDEPENDS"
            BY Zenon, <1>4, <1>5, <2>1 DEF CondArchs
        <2>2. CASE d.kind # "ARCHDEPENDS" /\ f.archdep_archs # {}
            BY Zenon, <1>3, <2>2 DEF CondArchs
        <2>3. CASE d.kind = "BUILDTOOL" /\ f.archdep_archs = {}
            BY Zenon, <1>4, <2>3 DEF CondArchs
        <2>4. CASE d.kind = "DEPENDS" /\ f.archdep_archs = {}
            BY Zenon, <1>3, <1>6, <2>4 DEF CondArchs
        <2> QED BY Zenon, <1>6, <2>1, <2>2, <2>3, <2>4 DEF Kind
    <1>8. DepArch(f.arch, d) = NATIVE_ARCH /\ (d.kind = "ARCHDEPENDS" => d.arch = NATIVE_ARCH)
        BY Zenon, <1>3, <1>4, <1>5, <1>6 DEF DepArch, Kind
    <1>9. /\ ChildFrame(f, d).arch = NATIVE_ARCH
          /\ ChildFrame(f, d).cond_ARCH \in {NoArch, NATIVE_ARCH}
          /\ ChildFrame(f, d).archdep_archs \subseteq {NATIVE_ARCH}
        BY SMTT(30), <1>3, <1>4, <1>6, <1>8 DEF ChildFrame, Frame, Kind
    <1>10. Passes <=> NATIVE_ARCH \in d.cond
        BY Zenon, <1>7 DEF Passes, f, d
    <1> QED BY Zenon, <1>8, <1>9, <1>10 DEF f, d

\* ResolveTop keeps FramesNative.
LEMMA NativeResolveTop == ASSUME SingleArch, FramesNative, TypeInv, ResolveTop PROVE FramesNative'
    <1>1. deppath' = <<>> \/ deppath' = <<Frame(toplevel[top], TARGET_ARCH, NoArch, {})>>
        BY Zenon DEF ResolveTop
    <1>2. CASE deppath' = <<>>
        BY <1>2 DEF FramesNative
    <1>3. CASE deppath' = <<Frame(toplevel[top], TARGET_ARCH, NoArch, {})>>
        <2>1. /\ Len(deppath') = 1 /\ deppath'[1].arch = TARGET_ARCH
              /\ deppath'[1].cond_ARCH = NoArch /\ deppath'[1].archdep_archs = {}
            BY Zenon, <1>3 DEF Frame
        <2> QED BY <2>1 DEF FramesNative, SingleArch
    <1> QED BY Zenon, <1>1, <1>2, <1>3

\* SkipDep or AppendDep keeps FramesNative.
LEMMA NativeAdvance ==
    ASSUME SingleArch, FramesNative, TypeInv, SkipDep \/ AppendDep
    PROVE  FramesNative'
    <1>t. deppath \in Seq(DepFrame) /\ Len(deppath) \in Nat
        BY SMTT(30) DEF TypeInv, TypeOK
    <1> DEFINE f == [Last1(deppath) EXCEPT !.pos = @ + 1]
    <1>1. AtDirective /\ deppath' = SetLast(deppath, f)
        BY Zenon DEF SkipDep, AppendDep, LoadsDep, NextDirective
    <1>2. deppath # <<>> /\ Last1(deppath) \in DepFrame /\ f \in DepFrame
        BY Zenon, <1>1, CurrentFacts
    <1>3. /\ f.arch = Last1(deppath).arch /\ f.cond_ARCH = Last1(deppath).cond_ARCH
          /\ f.archdep_archs = Last1(deppath).archdep_archs
        BY Zenon, <1>2 DEF DepFrame
    <1> HIDE DEF f
    <1>4. /\ Len(deppath') = Len(deppath)
          /\ \A i \in 1..Len(deppath) : i # Len(deppath) => deppath'[i] = deppath[i]
          /\ deppath'[Len(deppath)] = f
        <2> DEFINE g == SetLast(deppath, f)
        <2>1. /\ Len(g) = Len(deppath) /\ g[Len(deppath)] = f
              /\ \A i \in 1..Len(deppath) : i # Len(deppath) => g[i] = deppath[i]
            BY <1>t, <1>2, SetLastFacts
        <2>2. deppath' = g
            BY Zenon, <1>1
        <2> HIDE DEF g
        <2> QED BY Zenon, <2>1, <2>2
    <1>5. ASSUME NEW i \in 1..Len(deppath)
          PROVE  /\ deppath'[i].arch = deppath[i].arch
                      /\ deppath'[i].cond_ARCH = deppath[i].cond_ARCH
                 /\ deppath'[i].archdep_archs = deppath[i].archdep_archs
        BY Zenon, <1>3, <1>4 DEF Last1
    <1> QED BY Zenon, <1>4, <1>5 DEF FramesNative

\* DescendDep keeps FramesNative.
LEMMA NativeDescendDep == ASSUME SingleArch, FramesNative, TypeInv, DescendDep PROVE FramesNative'
    <1>t. deppath \in Seq(DepFrame) /\ Len(deppath) \in Nat
        BY DEF TypeInv, TypeOK
    <1> DEFINE f == ChildFrame(Last1(deppath), Current)
    <1>1. AtDirective /\ deppath' = Append(deppath, f) /\ f \in DepFrame
        BY Zenon, ChildFrameType DEF DescendDep, LoadsDep
    <1>2. /\ f.arch = NATIVE_ARCH /\ f.cond_ARCH \in {NoArch, NATIVE_ARCH}
          /\ f.archdep_archs \subseteq {NATIVE_ARCH}
        BY Zenon, <1>1, NativeFacts
    <1> HIDE DEF f
    <1>3. \A i \in 1..Len(deppath') : (i \in 1..Len(deppath) /\ deppath'[i] = deppath[i])
            \/ deppath'[i] = f
        BY <1>t, <1>1
    <1> QED BY Zenon, <1>2, <1>3 DEF FramesNative

\* ReturnDeps keeps FramesNative.
LEMMA NativeReturnDeps == ASSUME SingleArch, FramesNative, TypeInv, ReturnDeps PROVE FramesNative'
    <1>t. deppath \in Seq(DepFrame) /\ Len(deppath) \in Nat
        BY DEF TypeInv, TypeOK
    <1>1. deppath # <<>> /\ deppath' = Pop(deppath)
        BY Zenon DEF ReturnDeps
    <1>2. /\ Len(deppath') = Len(deppath) - 1
          /\ \A i \in 1..Len(deppath') : deppath'[i] = deppath[i]
        BY Zenon, <1>t, <1>1, PopFacts
    <1>3. \A i \in 1..Len(deppath') : i \in 1..Len(deppath)
        BY <1>t, <1>2
    <1> QED BY Zenon, <1>2, <1>3 DEF FramesNative

\* UNCHANGED depsVars keeps FramesNative.
LEMMA NativeSame == ASSUME SingleArch, FramesNative, TypeInv, UNCHANGED depsVars PROVE FramesNative'
    BY Zenon DEF FramesNative, depsVars

\* No action makes a package be built for another architecture.
LEMMA NativeStep ==
    SingleArch /\ FramesNative /\ TypeInv /\ [Next]_vars => FramesNative'
    <1> SUFFICES ASSUME SingleArch, FramesNative, TypeInv, [Next]_vars PROVE FramesNative'
        BY Zenon
    <1>6. ResolveBuilds \/ DepNotFound \/ DepCyclic \/ StartBuilds \/ Stop \/ UNCHANGED vars =>
              UNCHANGED depsVars
        BY Zenon DEF ResolveBuilds, VisitTop, SkipEdge, DescendEdge, LinkEdge, FinishVisit,
           Resolved,
           DepNotFound, DepCyclic, StartBuilds, Stop, vars
    <1> QED BY Zenon, NativeResolveTop, NativeAdvance, NativeDescendDep, NativeReturnDeps, NativeSame, <1>6
               DEF Next, ResolveDeps

\* Whether there is one architecture is settled before the walks begin.
LEMMA SingleArchStep == [Next]_vars => UNCHANGED <<project, toplevel, TARGET_ARCH>>
  /\ (SingleArch' <=> SingleArch)
    <1> SUFFICES ASSUME [Next]_vars
                 PROVE  UNCHANGED <<project, toplevel, TARGET_ARCH>> /\ (SingleArch' <=> SingleArch)
        BY Zenon
    <1>1. UNCHANGED <<project, toplevel, TARGET_ARCH>>
        BY Zenon DEF Next, ResolveDeps, ResolveTop, SkipDep, DepNotFound, DepCyclic, DescendDep,
           AppendDep,
           ReturnDeps, StartBuilds, ResolveBuilds, VisitTop, SkipEdge, DescendEdge, LinkEdge,
           FinishVisit,
           Resolved, Stop, vars
    <1> QED BY Zenon, <1>1 DEF SingleArch, ArchdepArchs

-----------------------------------------------------------------------------
(***************************************************************************)
(* The buildlist is sorted, when there is one architecture.                *)
(*                                                                         *)
(* q is done before p: the call of resolve_deps on q has returned, and it  *)
(* returned before any call on p.                                          *)
(***************************************************************************)
DoneBefore(s, q, p) ==
    \E i \in 1..Len(s) : s[i] = q /\ \A j \in 1..Len(s) : s[j] = p => i < j

DepStacked == {deppath[i].pkg : i \in 1..Len(deppath)}

\* deps_resolved marks the packages whose call has returned or is going on.
MarksExact ==
    /\ deps_resolved = Elems(returned) \cup DepStacked
    /\ DepStacked \cap Elems(returned) = {}
    /\ \A i, j \in 1..Len(deppath) : deppath[i].pkg = deppath[j].pkg => i = j

\* A resolved dependency was done before its dependant.
DepsDoneBefore ==
    \A p \in Pkg, k \in Kind : \A i \in 1..Len(resolved[p][k]) :
        DoneBefore(returned, resolved[p][k][i].pkg, p)

DepsInv == MarksExact /\ DepsDoneBefore

\* No package returns before itself: each returns once.
LEMMA DoneBeforeIrreflexive ==
    ASSUME TypeInv, NEW p PROVE ~DoneBefore(returned, p, p)
    BY DEF DoneBefore, TypeInv, TypeOK

\* The order of the returns is transitive.
LEMMA DoneBeforeTransitive ==
    ASSUME TypeInv, NEW p, NEW q, NEW r, DoneBefore(returned, p, q), DoneBefore(returned, q, r)
    PROVE  DoneBefore(returned, p, r)
    <1>1. PICK i \in 1..Len(returned) :
              returned[i] = p /\ \A j \in 1..Len(returned) : returned[j] = q => i < j
        BY Zenon DEF DoneBefore
    <1>2. PICK m \in 1..Len(returned) :
              returned[m] = q /\ \A j \in 1..Len(returned) : returned[j] = r => m < j
        BY Zenon DEF DoneBefore
    <1>3. i < m /\ Len(returned) \in Nat
        BY <1>1, <1>2 DEF TypeInv, TypeOK
    <1>4. \A j \in 1..Len(returned) : returned[j] = r => i < j
        BY SMTT(30), <1>2, <1>3
    <1> QED BY Zenon, <1>1, <1>4 DEF DoneBefore

\* Moving on to the next directive leaves the packages on deppath alone.
LEMMA DepAdvanceFacts ==
    ASSUME TypeInv, AtDirective, deppath' = NextDirective(deppath)
    PROVE  /\ Len(deppath') = Len(deppath)
           /\ \A i \in 1..Len(deppath) : deppath'[i].pkg = deppath[i].pkg
           /\ DepStacked' = DepStacked
    <1> DEFINE f == [Last1(deppath) EXCEPT !.pos = @ + 1]
               g == SetLast(deppath, f)
    <1>1. /\ deppath \in Seq(DepFrame) /\ deppath # <<>> /\ Last1(deppath) \in DepFrame
          /\ f \in DepFrame
        BY Zenon, CurrentFacts
    <1>2. f.pkg = deppath[Len(deppath)].pkg
        BY Zenon, <1>1 DEF DepFrame, Last1
    <1>3. deppath' = g
        BY Zenon DEF NextDirective
    <1> HIDE DEF f
    <1>4. /\ Len(g) = Len(deppath)
          /\ \A i \in 1..Len(deppath) : i # Len(deppath) => g[i] = deppath[i]
          /\ g[Len(deppath)] = f
        BY <1>1, SetLastFacts
    <1> HIDE DEF g
    <1>5. Len(deppath') = Len(deppath) /\ \A i \in 1..Len(deppath) : deppath'[i].pkg =
              deppath[i].pkg
        BY Zenon, <1>2, <1>3, <1>4
    <1> QED BY Zenon, <1>5 DEF DepStacked

\* DepsInv holds before the first walk.
LEMMA DepsInit == Init => DepsInv
    <1> SUFFICES ASSUME Init PROVE DepsInv
        BY Zenon
    <1>1. DepsDoneBefore
        <2>1. \A q \in Pkg, k \in Kind : resolved[q][k] = <<>>
            BY Zenon DEF Init
        <2> QED BY <2>1 DEF DepsDoneBefore
    <1>2. MarksExact
        BY DEF Init, MarksExact, DepStacked, Elems
    <1> QED BY Zenon, <1>1, <1>2 DEF DepsInv

\* ResolveTop keeps DepsInv.
LEMMA DepsResolveTop == ASSUME SingleArch, FramesNative, TypeInv, DepsInv, ResolveTop PROVE DepsInv'
    <1>m. /\ deps_resolved = Elems(returned) \cup DepStacked
          /\ DepStacked \cap Elems(returned) = {}
          /\ \A i, j \in 1..Len(deppath) : deppath[i].pkg = deppath[j].pkg => i = j
        BY Zenon DEF DepsInv, MarksExact
    <1>d. UNCHANGED <<resolved, returned>> => DepsDoneBefore'
        BY Zenon DEF DepsInv, DepsDoneBefore
    <1>1. UNCHANGED <<resolved, returned>> /\ deppath = <<>>
        BY Zenon DEF ResolveTop
    <1>2. DepStacked = {}
        BY SMTT(30), <1>1 DEF DepStacked
    <1>3. CASE toplevel[top] \in deps_resolved
        <2>1. UNCHANGED <<deppath, deps_resolved>>
            BY Zenon, <1>3 DEF ResolveTop
        <2>2. DepStacked' = DepStacked
            BY SMTT(30), <2>1 DEF DepStacked
        <2> QED BY <1>d, <1>m, <1>1, <2>1, <2>2 DEF DepsInv, MarksExact
    <1>4. CASE toplevel[top] \notin deps_resolved
        <2>1. /\ deppath' = <<Frame(toplevel[top], TARGET_ARCH, NoArch, {})>>
              /\ deps_resolved' = deps_resolved \cup {toplevel[top]}
            BY Zenon, <1>4 DEF ResolveTop
        <2>2. Len(deppath') = 1 /\ deppath'[1].pkg = toplevel[top]
            BY Zenon, <2>1 DEF Frame
        <2>3. DepStacked' = {toplevel[top]}
            BY SMTT(30), <2>2 DEF DepStacked
        <2> QED BY SMTT(30), <1>d, <1>m, <1>1, <1>2, <1>4, <2>1, <2>2, <2>3 DEF DepsInv, MarksExact
    <1> QED BY Zenon, <1>3, <1>4

\* SkipDep keeps DepsInv.
LEMMA DepsSkipDep == ASSUME SingleArch, FramesNative, TypeInv, DepsInv, SkipDep PROVE DepsInv'
    <1>m. /\ deps_resolved = Elems(returned) \cup DepStacked
          /\ DepStacked \cap Elems(returned) = {}
          /\ \A i, j \in 1..Len(deppath) : deppath[i].pkg = deppath[j].pkg => i = j
        BY Zenon DEF DepsInv, MarksExact
    <1>d. UNCHANGED <<resolved, returned>> => DepsDoneBefore'
        BY Zenon DEF DepsInv, DepsDoneBefore
    <1>1. /\ AtDirective /\ deppath' = NextDirective(deppath)
          /\ UNCHANGED <<deps_resolved, resolved, returned>>
        BY Zenon DEF SkipDep
    <1>2. /\ Len(deppath') = Len(deppath) /\ DepStacked' = DepStacked
          /\ \A i \in 1..Len(deppath) : deppath'[i].pkg = deppath[i].pkg
        BY SMTT(30), <1>1, DepAdvanceFacts
    <1> QED BY <1>d, <1>m, <1>1, <1>2 DEF DepsInv, MarksExact

\* DescendDep keeps DepsInv.
LEMMA DepsDescendDep == ASSUME SingleArch, FramesNative, TypeInv, DepsInv, DescendDep PROVE DepsInv'
    <1>t. /\ toplevel \in Seq(Pkg) /\ top \in Nat \ {0} /\ deppath \in Seq(DepFrame)
          /\ resolved \in [Pkg -> [Kind -> Seq(Dep)]] /\ returned \in Seq(Pkg)
        BY Zenon DEF TypeInv, TypeOK, DepLists
    <1>m. /\ deps_resolved = Elems(returned) \cup DepStacked
          /\ DepStacked \cap Elems(returned) = {}
          /\ \A i, j \in 1..Len(deppath) : deppath[i].pkg = deppath[j].pkg => i = j
        BY Zenon DEF DepsInv, MarksExact
    <1>d. UNCHANGED <<resolved, returned>> => DepsDoneBefore'
        BY Zenon DEF DepsInv, DepsDoneBefore
    <1> DEFINE f == ChildFrame(Last1(deppath), Current)
    <1>1. /\ Current.pkg \notin deps_resolved /\ UNCHANGED <<resolved, returned>>
          /\ deppath' = Append(deppath, f) /\ deps_resolved' = deps_resolved \cup {Current.pkg}
        BY Zenon DEF DescendDep
    <1>2. f \in DepFrame /\ f.pkg = Current.pkg
        BY Zenon, ChildFrameType DEF DescendDep, ChildFrame, Frame
    <1> HIDE DEF f
    <1>3. /\ Len(deppath) \in Nat /\ Len(deppath') = Len(deppath) + 1
          /\ \A i \in 1..Len(deppath) : deppath'[i] = deppath[i]
          /\ deppath'[Len(deppath) + 1] = f
        BY <1>t, <1>1, <1>2
    <1>4. \A m \in 1..Len(deppath') : m \in 1..Len(deppath) \/ m = Len(deppath) + 1
        BY <1>3
    <1>5. 1..Len(deppath) \subseteq 1..Len(deppath') /\ Len(deppath) + 1 \in 1..Len(deppath')
        BY <1>3
    <1>6. DepStacked' = DepStacked \cup {Current.pkg}
        BY SMTT(30), <1>2, <1>3, <1>4, <1>5 DEF DepStacked
    <1>7. \A m \in 1..Len(deppath) : deppath[m].pkg # Current.pkg
        BY SMTT(30), <1>m, <1>1 DEF DepStacked
    <1>8. \A i, j \in 1..Len(deppath') : deppath'[i].pkg = deppath'[j].pkg => i = j
        BY SMTT(30), <1>m, <1>2, <1>3, <1>4, <1>7
    <1> QED BY <1>d, <1>m, <1>1, <1>6, <1>8 DEF DepsInv, MarksExact

\* AppendDep keeps DepsInv.
LEMMA DepsAppendDep == ASSUME SingleArch, FramesNative, TypeInv, DepsInv, AppendDep PROVE DepsInv'
    <1>t. /\ toplevel \in Seq(Pkg) /\ top \in Nat \ {0} /\ deppath \in Seq(DepFrame)
          /\ resolved \in [Pkg -> [Kind -> Seq(Dep)]] /\ returned \in Seq(Pkg)
        BY Zenon DEF TypeInv, TypeOK, DepLists
    <1>m. /\ deps_resolved = Elems(returned) \cup DepStacked
          /\ DepStacked \cap Elems(returned) = {}
          /\ \A i, j \in 1..Len(deppath) : deppath[i].pkg = deppath[j].pkg => i = j
        BY Zenon DEF DepsInv, MarksExact
    <1> DEFINE d == Current
               p == Last1(deppath).pkg
    <1>1. /\ AtDirective /\ deppath' = NextDirective(deppath)
          /\ UNCHANGED <<deps_resolved, returned>>
          /\ d.pkg \in deps_resolved /\ ~OnDeppath(d.pkg, DepArch(Last1(deppath).arch, d))
        BY SMTT(30) DEF AppendDep, LoadsDep
    <1>2. /\ Len(deppath') = Len(deppath) /\ DepStacked' = DepStacked
          /\ \A i \in 1..Len(deppath) : deppath'[i].pkg = deppath[i].pkg
        BY Zenon, <1>1, DepAdvanceFacts
    <1>3. /\ Last1(deppath) \in DepFrame /\ deppath # <<>>
          /\ Sound(d) /\ DepArch(Last1(deppath).arch, d) \in Arch
        BY SMTT(30), <1>1, CurrentFacts
    <1>4. Len(deppath) \in 1..Len(deppath) /\ p = deppath[Len(deppath)].pkg
        BY SMTT(30), <1>t, <1>3, PopFacts DEF Last1
    <1>5. p \in Pkg /\ d \in Dep /\ d.kind \in Kind
        BY SMTT(30), <1>3 DEF DepFrame, Sound, Dep
    <1>6. d.pkg \notin DepStacked
        <2>1. \A i \in 1..Len(deppath) : deppath[i].arch = NATIVE_ARCH
            BY SMTT(30) DEF FramesNative
        <2>2. DepArch(Last1(deppath).arch, d) = NATIVE_ARCH
            BY Zenon, <1>1, NativeFacts
        <2> QED BY Zenon, <1>1, <2>1, <2>2 DEF OnDeppath, DepStacked
    <1>7. p \in DepStacked
        BY Zenon, <1>4 DEF DepStacked
    <1>8. DoneBefore(returned, d.pkg, p)
        <2>1. d.pkg \in Elems(returned) /\ p \notin Elems(returned)
            BY SMTT(30), <1>m, <1>1, <1>6, <1>7
        <2> HIDE DEF d, p
        <2> QED BY SMTT(30), <2>1 DEF Elems, DoneBefore
    <1>9. resolved' = resolved \/ resolved' = [resolved EXCEPT ![p][d.kind] = Append(@, d)]
        BY SMTT(30) DEF AppendDep
    <1> HIDE DEF d, p
    <1>10. DepsDoneBefore'
        <2>1. ASSUME NEW q \in Pkg, NEW k \in Kind, NEW i \in 1..Len(resolved'[q][k])
              PROVE  \/ i \in 1..Len(resolved[q][k]) /\ resolved'[q][k][i] = resolved[q][k][i]
                     \/ q = p /\ resolved'[q][k][i] = d
            <3>1. CASE resolved' = resolved
                BY SMTT(30), <3>1
            <3>2. CASE resolved' = [resolved EXCEPT ![p][d.kind] = Append(@, d)]
                <4>1. CASE q = p /\ k = d.kind
                    <5>1. resolved'[q][k] = Append(resolved[q][k], d) /\ resolved[q][k] \in Seq(Dep)
                        BY SMTT(30), <1>t, <1>5, <3>2, <4>1
                    <5> QED BY SMTT(30), <1>5, <4>1, <5>1
                <4>2. CASE ~(q = p /\ k = d.kind)
                    <5>1. resolved'[q][k] = resolved[q][k]
                        BY SMTT(30), <1>t, <1>5, <3>2, <4>2
                    <5> QED BY SMTT(30), <5>1
                <4> QED BY SMTT(30), <4>1, <4>2
            <3> QED BY SMTT(30), <1>9, <3>1, <3>2
        <2> SUFFICES ASSUME NEW q \in Pkg, NEW k \in Kind, NEW i \in 1..Len(resolved'[q][k])
                     PROVE  DoneBefore(returned', resolved'[q][k][i].pkg, q)
            BY SMTT(30) DEF DepsDoneBefore
        <2>3. DoneBefore(returned, resolved'[q][k][i].pkg, q)
            BY SMTT(30), <1>8, <2>1 DEF DepsInv, DepsDoneBefore
        <2> QED BY SMTT(30), <1>1, <2>3 DEF DoneBefore
    <1> QED BY SMTT(30), <1>m, <1>1, <1>2, <1>10 DEF DepsInv, MarksExact

\* ReturnDeps keeps DepsInv.
LEMMA DepsReturnDeps == ASSUME SingleArch, FramesNative, TypeInv, DepsInv, ReturnDeps PROVE DepsInv'
    <1>t. /\ toplevel \in Seq(Pkg) /\ top \in Nat \ {0} /\ deppath \in Seq(DepFrame)
          /\ resolved \in [Pkg -> [Kind -> Seq(Dep)]] /\ returned \in Seq(Pkg)
        BY Zenon DEF TypeInv, TypeOK, DepLists
    <1>m. /\ deps_resolved = Elems(returned) \cup DepStacked
          /\ DepStacked \cap Elems(returned) = {}
          /\ \A i, j \in 1..Len(deppath) : deppath[i].pkg = deppath[j].pkg => i = j
        BY Zenon DEF DepsInv, MarksExact
    <1> DEFINE p == Last1(deppath).pkg
    <1>1. /\ deppath # <<>> /\ returned' = Append(returned, p) /\ deppath' = Pop(deppath)
          /\ UNCHANGED <<deps_resolved, resolved>>
        BY Zenon DEF ReturnDeps
    <1>2. /\ Len(deppath) \in Nat \ {0} /\ Last1(deppath) \in DepFrame
          /\ Len(deppath') = Len(deppath) - 1
          /\ \A i \in 1..Len(deppath') : deppath'[i] = deppath[i]
        BY Zenon, <1>t, <1>1, PopFacts
    <1>3. p \in Pkg /\ p = deppath[Len(deppath)].pkg
        BY SMTT(30), <1>2 DEF DepFrame, Last1
    <1> HIDE DEF p
    <1>4. /\ Elems(returned') = Elems(returned) \cup {p}
          /\ Len(returned) \in Nat /\ Len(returned') = Len(returned) + 1
          /\ \A i \in 1..Len(returned) : returned'[i] = returned[i]
        BY SMTT(30), <1>t, <1>1, <1>3, AppendFacts
    <1>5. /\ \A i \in 1..Len(deppath) : i \in 1..Len(deppath') \/ i = Len(deppath)
          /\ \A i \in 1..Len(deppath') : i \in 1..Len(deppath) /\ i # Len(deppath)
          /\ Len(deppath) \in 1..Len(deppath)
        BY <1>2
    <1>6. DepStacked = DepStacked' \cup {p}
        BY Zenon, <1>2, <1>3, <1>5 DEF DepStacked
    <1>7. p \notin DepStacked'
        <2> SUFFICES ASSUME NEW i \in 1..Len(deppath'), deppath'[i].pkg = p PROVE FALSE
            BY Zenon DEF DepStacked
        <2>1. deppath[i].pkg = deppath[Len(deppath)].pkg
            BY Zenon, <1>2, <1>3
        <2> QED BY Zenon, <1>m, <1>5, <2>1
    <1>8. p \notin Elems(returned)
        BY SMTT(30), <1>m, <1>6
    <1>9. MarksExact'
        <2>1. \A i, j \in 1..Len(deppath') : deppath'[i].pkg = deppath'[j].pkg => i = j
            BY Zenon, <1>m, <1>2, <1>5
        <2> QED BY SMTT(30), <1>m, <1>1, <1>4, <1>6, <1>7, <1>8, <2>1 DEF MarksExact
    <1>10. ASSUME NEW q, NEW r, DoneBefore(returned, q, r) PROVE DoneBefore(returned', q, r)
        <2>1. PICK i \in 1..Len(returned) :
                  returned[i] = q /\ \A j \in 1..Len(returned) : returned[j] = r => i < j
            BY Zenon, <1>10 DEF DoneBefore
        <2>2. i \in 1..Len(returned') /\ returned'[i] = q
            BY <1>4, <2>1
        <2>3. \A j \in 1..Len(returned') : returned'[j] = r => i < j
            BY SMTT(30), <1>4, <2>1
        <2> QED BY SMTT(30), <2>2, <2>3 DEF DoneBefore
    <1>11. DepsDoneBefore'
        <2> SUFFICES ASSUME NEW q \in Pkg, NEW k \in Kind, NEW i \in 1..Len(resolved[q][k])
                     PROVE  DoneBefore(returned', resolved[q][k][i].pkg, q)
            BY Zenon, <1>1 DEF DepsDoneBefore
        <2>1. DoneBefore(returned, resolved[q][k][i].pkg, q)
            BY Zenon DEF DepsInv, DepsDoneBefore
        <2> QED BY SMTT(30), <1>1, <1>10, <2>1
    <1> QED BY Zenon, <1>9, <1>11 DEF DepsInv

\* UNCHANGED depsVars keeps DepsInv.
LEMMA DepsSame ==
    ASSUME SingleArch, FramesNative, TypeInv, DepsInv, UNCHANGED depsVars
    PROVE  DepsInv'
    <1>m. /\ deps_resolved = Elems(returned) \cup DepStacked
          /\ DepStacked \cap Elems(returned) = {}
          /\ \A i, j \in 1..Len(deppath) : deppath[i].pkg = deppath[j].pkg => i = j
        BY Zenon DEF DepsInv, MarksExact
    <1>d. UNCHANGED <<resolved, returned>> => DepsDoneBefore'
        BY Zenon DEF DepsInv, DepsDoneBefore
    <1>1. DepStacked' = DepStacked
        BY SMTT(30) DEF DepStacked, depsVars
    <1> QED BY SMTT(30), <1>d, <1>m, <1>1 DEF DepsInv, MarksExact, depsVars

\* Every action keeps DepsInv: resolved dependencies returned before their package does.
LEMMA DepsStep ==
    SingleArch /\ FramesNative /\ TypeInv /\ DepsInv /\ [Next]_vars => DepsInv'
    <1> SUFFICES ASSUME SingleArch, FramesNative, TypeInv, DepsInv, [Next]_vars PROVE DepsInv'
        BY Zenon
    <1>7. ResolveBuilds \/ DepNotFound \/ DepCyclic \/ StartBuilds \/ Stop \/ UNCHANGED vars =>
              UNCHANGED depsVars
        BY Zenon DEF ResolveBuilds, VisitTop, SkipEdge, DescendEdge, LinkEdge, FinishVisit,
           Resolved,
           DepNotFound, DepCyclic, StartBuilds, Stop, vars
    <1> QED BY Zenon, DepsResolveTop, DepsSkipDep, DepsDescendDep, DepsAppendDep, DepsReturnDeps, DepsSame,
               <1>7 DEF Next, ResolveDeps

-----------------------------------------------------------------------------
\* The visits of resolve_builds go down the order in which the calls returned.
VisitsDescend ==
    \A i, j \in 1..Len(visits) : i < j => DoneBefore(returned, visits[j].build[1],
      visits[i].build[1])

LinksListed ==
    \A b \in Build : \A l \in links[b] :
        l[2] \in Elems(buildlist) /\ (b \in Elems(buildlist) => Before(buildlist, l[2], b))

SortInv == VisitsDescend /\ LinksListed

\* The dependencies recorded for a build lie below it.
LEMMA EdgeDescends ==
    ASSUME TypeInv, DepsInv, AtEdge
    PROVE  DoneBefore(returned, EdgeTarget[1], Last1(visits).build[1])
    <1>1. /\ Last1(visits).build \in Build
          /\ \E k \in Kind : \E j \in 1..Len(resolved[Last1(visits).build[1]][k]) :
                Edge = resolved[Last1(visits).build[1]][k][j]
          /\ EdgeTarget[1] = Edge.pkg
        BY SMTT(30), EdgeFacts
    <1>2. Last1(visits).build[1] \in Pkg
        BY Zenon, <1>1 DEF Build
    <1> QED BY Zenon, <1>1, <1>2 DEF DepsInv, DepsDoneBefore

\* Nor is a dependency one of the builds being visited.
LEMMA EdgeNotStacked ==
    ASSUME TypeInv, DepsInv, SortInv, AtEdge
    PROVE  EdgeTarget \notin Stacked
    <1> DEFINE t == EdgeTarget[1]
               b == Last1(visits).build
    <1>1. visits \in Seq(VisitFrame) /\ visits # <<>>
        BY Zenon, EdgeFacts
    <1>2. Len(visits) \in Nat \ {0} /\ b = visits[Len(visits)].build
        BY Zenon, <1>1, PopFacts DEF Last1
    <1>3. DoneBefore(returned, t, b[1])
        BY Zenon, EdgeDescends
    <1> SUFFICES ASSUME NEW i \in 1..Len(visits), visits[i].build = EdgeTarget PROVE FALSE
        BY Zenon DEF Stacked
    <1>4. visits[i].build[1] = t
        BY Zenon
    <1> HIDE DEF t, b
    <1>5. CASE i = Len(visits)
        BY Zenon, <1>2, <1>3, <1>4, <1>5, DoneBeforeIrreflexive
    <1>6. CASE i # Len(visits)
        <2>1. i < Len(visits) /\ Len(visits) \in 1..Len(visits)
            BY <1>2, <1>6
        <2>2. DoneBefore(returned, b[1], t)
            BY Zenon, <1>2, <1>4, <2>1 DEF SortInv, VisitsDescend
        <2>3. DoneBefore(returned, t, t)
            BY Zenon, <1>3, <2>2, DoneBeforeTransitive
        <2> QED BY Zenon, <2>3, DoneBeforeIrreflexive
    <1> QED BY Zenon, <1>5, <1>6

\* SortInv holds before the second walk.
LEMMA SortInit == Init => SortInv
    <1> SUFFICES ASSUME Init PROVE SortInv
        BY Zenon
    <1>1. VisitsDescend
        <2>1. visits = <<>> /\ 1..Len(visits) = {}
            BY DEF Init
        <2> QED BY Zenon, <2>1 DEF VisitsDescend
    <1>2. LinksListed
        <2>1. \A b \in Build : links[b] = {}
            BY Zenon DEF Init
        <2> QED BY Zenon, <2>1 DEF LinksListed
    <1> QED BY Zenon, <1>1, <1>2 DEF SortInv

\* ResolveDeps keeps SortInv.
LEMMA SortResolveDeps == ASSUME TypeInv, WalkInv, DepsInv, SortInv, ResolveDeps PROVE SortInv'
    <1>t. /\ visits \in Seq(VisitFrame) /\ returned \in Seq(Pkg) /\ buildlist \in Seq(Build)
          /\ links \in [Build -> SUBSET (Kind \X Build)]
        BY Zenon DEF TypeInv, TypeOK, VisitFrame
    <1>i. VisitsDescend /\ LinksListed
        BY Zenon DEF SortInv
    <1>b. returned' = returned => \A q, r : DoneBefore(returned', q, r) <=>
              DoneBefore(returned, q, r)
        BY SMTT(30) DEF DoneBefore
    <1>l. UNCHANGED <<links, buildlist>> => LinksListed'
        BY Zenon, <1>i DEF LinksListed
    <1>1. UNCHANGED buildVars /\ phase = "deps"
        BY Zenon DEF ResolveDeps, ResolveTop, SkipDep, DepNotFound, DepCyclic, DescendDep,
           LoadsDep, AppendDep, ReturnDeps, StartBuilds, AtDirective
    <1>2. \A q, r : DoneBefore(returned, q, r) => DoneBefore(returned', q, r)
        <2>1. returned' = returned \/ returned' = Append(returned, Last1(deppath).pkg)
            BY Zenon DEF ResolveDeps, ResolveTop, SkipDep, DepNotFound, DepCyclic, DescendDep,
               AppendDep, ReturnDeps, StartBuilds, depsVars
        <2>2. CASE returned' = Append(returned, Last1(deppath).pkg)
            <3> SUFFICES ASSUME NEW q, NEW r, DoneBefore(returned, q, r)
                         PROVE  DoneBefore(returned', q, r)
                BY Zenon
            <3>1. PICK i \in 1..Len(returned) :
                      returned[i] = q /\ \A j \in 1..Len(returned) : returned[j] = r => i < j
                BY Zenon DEF DoneBefore
            <3>2. /\ Len(returned) \in Nat /\ Len(returned') = Len(returned) + 1
                  /\ \A j \in 1..Len(returned) : returned'[j] = returned[j]
                BY <1>t, <2>2
            <3>3. i \in 1..Len(returned') /\ returned'[i] = q
                BY SMTT(30), <3>1, <3>2
            <3>4. \A j \in 1..Len(returned') : returned'[j] = r => i < j
                BY SMTT(30), <3>1, <3>2
            <3> QED BY Zenon, <3>3, <3>4 DEF DoneBefore
        <2> QED BY SMTT(30), <1>b, <2>1, <2>2
    <1>3. VisitsDescend'
        <2> SUFFICES ASSUME NEW i \in 1..Len(visits), NEW j \in 1..Len(visits), i < j
                     PROVE  DoneBefore(returned', visits[j].build[1], visits[i].build[1])
            BY SMTT(30), <1>1 DEF VisitsDescend, buildVars
        <2>1. DoneBefore(returned, visits[j].build[1], visits[i].build[1])
            BY Zenon, <1>i DEF VisitsDescend
        <2> QED BY SMTT(30), <1>2, <2>1
    <1> QED BY SMTT(30), <1>l, <1>1, <1>3 DEF SortInv, buildVars

\* VisitTop keeps SortInv.
LEMMA SortVisitTop == ASSUME TypeInv, WalkInv, DepsInv, SortInv, VisitTop PROVE SortInv'
    <1>i. VisitsDescend /\ LinksListed
        BY Zenon DEF SortInv
    <1>l. UNCHANGED <<links, buildlist>> => LinksListed'
        BY Zenon, <1>i DEF LinksListed
    <1>1. UNCHANGED <<returned, links, buildlist>> /\ visits = <<>>
        BY Zenon DEF VisitTop, depsVars
    <1>2. visits' = <<>> \/ visits' = <<Visit(TopBuild)>>
        BY Zenon DEF VisitTop
    <1>3. VisitsDescend'
        BY SMTT(30), <1>2 DEF VisitsDescend
    <1> QED BY SMTT(30), <1>l, <1>1, <1>3 DEF SortInv

\* SkipEdge or LinkEdge keeps SortInv.
LEMMA SortAdvance == ASSUME TypeInv, WalkInv, DepsInv, SortInv, SkipEdge \/ LinkEdge PROVE SortInv'
    <1>t. /\ visits \in Seq(VisitFrame) /\ returned \in Seq(Pkg) /\ buildlist \in Seq(Build)
          /\ links \in [Build -> SUBSET (Kind \X Build)]
        BY Zenon DEF TypeInv, TypeOK, VisitFrame
    <1>i. VisitsDescend /\ LinksListed
        BY Zenon DEF SortInv
    <1>l. UNCHANGED <<links, buildlist>> => LinksListed'
        BY Zenon, <1>i DEF LinksListed
    <1>1. AtEdge /\ visits' = NextDirective(visits) /\ UNCHANGED <<returned, processed, buildlist>>
        BY SMTT(30) DEF SkipEdge, LinkEdge, depsVars
    <1>2. /\ Len(visits') = Len(visits) /\ Stacked' = Stacked
          /\ \A i \in 1..Len(visits) : visits'[i].build = visits[i].build
        BY SMTT(30), <1>1, AdvanceFacts
    <1>3. VisitsDescend'
        BY SMTT(30), <1>i, <1>1, <1>2 DEF VisitsDescend
    <1>4. \/ links' = links
          \/ /\ EdgeTarget \in processed
             /\ links' = [links EXCEPT ![Last1(visits).build] = @ \cup {<<Edge.kind, EdgeTarget>>}]
        BY Zenon DEF SkipEdge, LinkEdge
    <1>5. CASE links' = links
        BY Zenon, <1>l, <1>1, <1>3, <1>5 DEF SortInv
    <1>6. CASE /\ EdgeTarget \in processed
               /\ links' = [links EXCEPT ![Last1(visits).build] = @
                    \cup {<<Edge.kind, EdgeTarget>>}]
        <2>1. EdgeTarget \in Elems(buildlist)
            BY Zenon, <1>1, <1>6, EdgeNotStacked DEF WalkInv, ProcessedExact
        <2>2. Last1(visits).build \in Build /\ visits # <<>>
            BY Zenon, <1>1, EdgeFacts
        <2>3. Last1(visits).build \in Stacked
            BY SMTT(30), <1>t, <2>2, PopFacts DEF Stacked, Last1
        <2>4. Last1(visits).build \notin Elems(buildlist)
            BY SMTT(30), <2>3 DEF WalkInv, ProcessedExact
        <2>5. \A b \in Build : \A l \in links'[b] :
                 l \in links[b] \/ (b = Last1(visits).build /\ l[2] = EdgeTarget)
            BY SMTT(30), <1>t, <1>6, <2>2
        <2>6. LinksListed'
            BY SMTT(30), <1>i, <1>1, <2>1, <2>4, <2>5 DEF LinksListed
        <2> QED BY SMTT(30), <1>3, <2>6 DEF SortInv
    <1> QED BY SMTT(30), <1>4, <1>5, <1>6

\* DescendEdge keeps SortInv.
LEMMA SortDescendEdge == ASSUME TypeInv, WalkInv, DepsInv, SortInv, DescendEdge PROVE SortInv'
    <1>t. /\ visits \in Seq(VisitFrame) /\ returned \in Seq(Pkg) /\ buildlist \in Seq(Build)
          /\ links \in [Build -> SUBSET (Kind \X Build)]
        BY Zenon DEF TypeInv, TypeOK, VisitFrame
    <1>i. VisitsDescend /\ LinksListed
        BY Zenon DEF SortInv
    <1>l. UNCHANGED <<links, buildlist>> => LinksListed'
        BY Zenon, <1>i DEF LinksListed
    <1>1. /\ AtEdge /\ visits' = Append(visits, Visit(EdgeTarget))
          /\ UNCHANGED <<returned, links, buildlist>>
        BY Zenon DEF DescendEdge, depsVars
    <1>2. EdgeTarget \in Build /\ visits # <<>>
        BY SMTT(30), <1>1, EdgeFacts
    <1>3. /\ Len(visits) \in Nat /\ Len(visits') = Len(visits) + 1
          /\ \A i \in 1..Len(visits) : visits'[i].build = visits[i].build
          /\ visits'[Len(visits) + 1].build = EdgeTarget
        BY SMTT(30), <1>t, <1>1, <1>2, PushFacts
    <1>4. DoneBefore(returned, EdgeTarget[1], Last1(visits).build[1])
        BY SMTT(30), <1>1, EdgeDescends
    <1>5. ASSUME NEW i \in 1..Len(visits)
          PROVE  DoneBefore(returned, EdgeTarget[1], visits[i].build[1])
        <2>1. CASE i = Len(visits)
            BY SMTT(30), <1>4, <2>1 DEF Last1
        <2>2. CASE i # Len(visits)
            <3>1. i < Len(visits) /\ Len(visits) \in 1..Len(visits)
                BY SMTT(30), <1>3, <2>2
            <3>2. DoneBefore(returned, Last1(visits).build[1], visits[i].build[1])
                BY SMTT(30), <1>i, <3>1 DEF VisitsDescend, Last1
            <3> QED BY SMTT(30), <1>4, <3>2, DoneBeforeTransitive
        <2> QED BY Zenon, <2>1, <2>2
    <1>6. ASSUME NEW i \in 1..Len(visits'), NEW j \in 1..Len(visits'), i < j
          PROVE  DoneBefore(returned, visits'[j].build[1], visits'[i].build[1])
        <2>1. i \in 1..Len(visits) /\ (j \in 1..Len(visits) \/ j = Len(visits) + 1)
            <3> DEFINE n == Len(visits)
            <3>1. n \in Nat /\ i \in 1..(n + 1) /\ j \in 1..(n + 1)
                BY Zenon, <1>3
            <3> HIDE DEF n
            <3>2. i \in 1..n /\ (j \in 1..n \/ j = n + 1)
                BY Zenon, <1>6, <3>1, GrownPlaces
            <3> QED BY Zenon, <3>2 DEF n
        <2> QED BY SMTT(30), <1>i, <1>3, <1>5, <1>6, <2>1 DEF VisitsDescend
    <1>7. VisitsDescend'
        BY Zenon, <1>1, <1>6 DEF VisitsDescend
    <1> QED BY SMTT(30), <1>l, <1>1, <1>7 DEF SortInv

\* FinishVisit keeps SortInv.
LEMMA SortFinishVisit == ASSUME TypeInv, WalkInv, DepsInv, SortInv, FinishVisit PROVE SortInv'
    <1>i. VisitsDescend /\ LinksListed
        BY Zenon DEF SortInv
    <1> DEFINE b == Last1(visits).build
    <1>1. /\ b \in Build
          /\ Len(visits) \in Nat \ {0}
          /\ Len(visits') = Len(visits) - 1
          /\ \A i \in 1..Len(visits') : i \in 1..Len(visits) /\ visits'[i].build = visits[i].build
          /\ visits[Len(visits)].build = b
          /\ Stacked = Stacked' \cup {b}
          /\ Elems(buildlist') = Elems(buildlist) \cup {b}
          /\ Len(buildlist) \in Nat
          /\ Len(buildlist') = Len(buildlist) + 1
          /\ \A i \in 1..Len(buildlist) : buildlist'[i] = buildlist[i]
          /\ buildlist'[Len(buildlist) + 1] = b
        BY Zenon, FinishFacts
    <1>2. UNCHANGED <<returned, links>>
        BY SMTT(30) DEF FinishVisit, depsVars
    <1> HIDE DEF b
    <1>3. VisitsDescend'
        BY ZenonT(30), <1>i, <1>1, <1>2 DEF VisitsDescend
    <1>4. ASSUME NEW c, NEW d, Before(buildlist, c, d) PROVE Before(buildlist', c, d)
        <2>1. PICK i \in 1..Len(buildlist), j \in 1..Len(buildlist) :
                  i < j /\ buildlist[i] = c /\ buildlist[j] = d
            BY SMTT(30), <1>4 DEF Before
        <2>2. i \in 1..Len(buildlist') /\ j \in 1..Len(buildlist')
            BY SMTT(30), <1>1
        <2>3. buildlist'[i] = c /\ buildlist'[j] = d
            BY SMTT(30), <1>1, <2>1
        <2> QED BY Zenon, <2>1, <2>2, <2>3 DEF Before
    <1>5. ASSUME NEW c \in Elems(buildlist) PROVE Before(buildlist', c, b)
        <2>1. PICK i \in 1..Len(buildlist) : buildlist[i] = c
            BY SMTT(30) DEF Elems
        <2>2. /\ i \in 1..Len(buildlist') /\ Len(buildlist) + 1 \in 1..Len(buildlist')
              /\ i < Len(buildlist) + 1 /\ buildlist'[i] = c
            BY SMTT(30), <1>1, <2>1
        <2> QED BY ZenonT(30), <1>1, <2>2 DEF Before
    <1>6. LinksListed'
        <2> SUFFICES ASSUME NEW c \in Build, NEW l \in links[c]
                     PROVE  /\ l[2] \in Elems(buildlist')
                            /\ c \in Elems(buildlist') => Before(buildlist', l[2], c)
            BY SMTT(30), <1>2 DEF LinksListed
        <2>1. l[2] \in Elems(buildlist) /\ (c \in Elems(buildlist) => Before(buildlist, l[2], c))
            BY Zenon, <1>i DEF LinksListed
        <2> QED BY SMTT(30), <1>1, <1>4, <1>5, <2>1
    <1> QED BY Zenon, <1>3, <1>6 DEF SortInv

\* Resolved or Stop or A step that changes nothing keeps SortInv.
LEMMA SortSame ==
    ASSUME TypeInv, WalkInv, DepsInv, SortInv, Resolved \/ Stop \/ UNCHANGED vars
    PROVE  SortInv'
    <1>i. VisitsDescend /\ LinksListed
        BY Zenon DEF SortInv
    <1>l. UNCHANGED <<links, buildlist>> => LinksListed'
        BY Zenon, <1>i DEF LinksListed
    <1>1. UNCHANGED <<returned, visits, links, buildlist>>
        BY SMTT(30) DEF Resolved, Stop, vars, depsVars, buildVars
    <1>2. VisitsDescend'
        BY Zenon, <1>i, <1>1 DEF VisitsDescend
    <1> QED BY SMTT(30), <1>l, <1>1, <1>2 DEF SortInv

\* Every action keeps SortInv: the stack of visit_dep descends in the order of the returns.
LEMMA SortStep == TypeInv /\ WalkInv /\ DepsInv /\ SortInv /\ [Next]_vars => SortInv'
    <1> SUFFICES ASSUME TypeInv, WalkInv, DepsInv, SortInv, [Next]_vars PROVE SortInv'
        BY Zenon
    <1> QED BY Zenon, SortResolveDeps, SortVisitTop, SortAdvance, SortDescendEdge, SortFinishVisit,
               SortSame DEF Next, ResolveBuilds

(***************************************************************************)
(* When every package is built for one architecture, resolve_builds lists  *)
(* a build after everything it depends on, whatever the directives are:    *)
(* projects with cycles included, for those never get to resolve_builds.   *)
(* With two architectures it does not (MCResolve_crosscycle.cfg).          *)
(***************************************************************************)
THEOREM SortedCorrect == Spec => [](SingleArch => BuildlistSorted)
    <1> DEFINE Sorting == SingleArch => FramesNative /\ DepsInv /\ SortInv
               IInv == TypeInv /\ WalkInv /\ Sorting
    <1>1. IInv => (SingleArch => BuildlistSorted)
        <2>1. TypeInv => Elems(buildlist) \subseteq Build
            BY DEF TypeInv, TypeOK, Elems
        <2> QED BY Zenon, <2>1 DEF SortInv, LinksListed, BuildlistSorted
    <1>2. Init => IInv
        <2>1. Init => FramesNative
            BY DEF Init, FramesNative
        <2> QED BY Zenon, <2>1, TypeInit, WalkInit, DepsInit, SortInit
    <1>3. IInv /\ [Next]_vars => IInv'
        BY Zenon, TypeStep, WalkStep, SingleArchStep, NativeStep, DepsStep, SortStep
    <1> HIDE DEF IInv
    <1> QED BY <1>1, <1>2, <1>3, PTL DEF Spec

-----------------------------------------------------------------------------
(***************************************************************************)
(* What packages lead to.  Dirs, Leads and Reach are Declared, Succ and    *)
(* Closure with the project as a parameter.                                *)
(***************************************************************************)
Dirs(prj, p) == prj[p]["DEPENDS"] \o prj[p]["BUILDTOOL"] \o prj[p]["ARCHDEPENDS"]

Leads(prj, p) ==
    {Dirs(prj, p)[i].pkg : i \in {j \in 1..Len(Dirs(prj, p)) : NATIVE_ARCH
      \in Dirs(prj, p)[j].cond}}

Reach(prj, S) ==
    {x \in Name : \A T \in SUBSET Name :
        S \subseteq T /\ (\A p \in T \cap Pkg : Leads(prj, p) \subseteq T) => x \in T}

\* They are the operators of Resolve for the project at hand.
LEMMA Parameters ==
    /\ \A p : Declared(p) = Dirs(project, p) /\ Succ(p) = Leads(project, p)
    /\ \A S : Closure(S) = Reach(project, S)
    <1>1. \A p : Declared(p) = Dirs(project, p)
        BY Zenon DEF Declared, Dirs
    <1>2. \A p : Succ(p) = Leads(project, p)
        BY Zenon, <1>1 DEF Succ, Leads
    <1>3. \A S : Closure(S) = Reach(project, S)
        BY Zenon, <1>2 DEF Closure, Closed, Reach
    <1> QED BY Zenon, <1>1, <1>2, <1>3

\* A package leads to names only.
LEMMA LeadsNames ==
    ASSUME TypeInv PROVE \A p \in Pkg : Leads(project, p) \subseteq Name
    <1> SUFFICES ASSUME NEW p \in Pkg, NEW i \in 1..Len(Dirs(project, p))
                 PROVE  Dirs(project, p)[i].pkg \in Name
        BY Zenon DEF Leads
    <1>1. Sound(Dirs(project, p)[i])
        BY Zenon, DeclaredFacts, Parameters
    <1> QED BY Zenon, <1>1 DEF Sound, Dep, Name

\* What is reached is closed under what its members lead to,
LEMMA ReachClosed ==
    ASSUME NEW prj, \A p \in Pkg : Leads(prj, p) \subseteq Name, NEW S \in SUBSET Name
    PROVE  /\ S \subseteq Reach(prj, S) /\ Reach(prj, S) \subseteq Name
           /\ \A p \in Reach(prj, S) \cap Pkg : Leads(prj, p) \subseteq Reach(prj, S)
    BY Zenon DEF Reach

\* and is in every set around the start that is closed so.
LEMMA ReachLeast ==
    ASSUME NEW prj, NEW S, NEW T \in SUBSET Name, S \subseteq T,
           \A p \in T \cap Pkg : Leads(prj, p) \subseteq T
    PROVE  Reach(prj, S) \subseteq T
    BY Zenon DEF Reach

-----------------------------------------------------------------------------
(***************************************************************************)
(* The first walk.                                                         *)
(***************************************************************************)

\* A dependency on q that is recorded for p.
Recorded(res, p, q) == \E k \in Kind : \E i \in 1..Len(res[p][k]) : res[p][k][i].pkg = q

\* The named packages lead to the calls that are going on, each of which leads to the later ones.
FramesReached ==
    /\ \A i \in 1..Len(deppath) : deppath[i].pkg \in Reach(project, Elems(toplevel))
    /\ \A i, j \in 1..Len(deppath) :
           i < j => deppath[j].pkg \in Reach(project, Leads(project, deppath[i].pkg))

\* The directives a call is past, where they count, are recorded.
FramesWalked ==
    \A i \in 1..Len(deppath) : \A m \in 1..Len(Dirs(project, deppath[i].pkg)) :
        m < deppath[i].pos /\ NATIVE_ARCH \in Dirs(project, deppath[i].pkg)[m].cond =>
            Recorded(resolved, deppath[i].pkg, Dirs(project, deppath[i].pkg)[m].pkg)

\* All of them are when the call returns.
ReturnedWalked ==
    \A p \in Elems(returned) : \A q \in Leads(project, p) : Recorded(resolved, p, q)

\* Only directives that count are recorded.
RecordedSound ==
    \A p \in Pkg, k \in Kind : \A i \in 1..Len(resolved[p][k]) :
        /\ resolved[p][k][i].pkg \in Leads(project, p)
        /\ NATIVE_ARCH \in resolved[p][k][i].cond
        /\ k = "ARCHDEPENDS" => resolved[p][k][i].arch = NATIVE_ARCH

LeadInv == FramesReached /\ FramesWalked /\ ReturnedWalked /\ RecordedSound

\* What holds at a step of the first walk.
Walking == SingleArch /\ FramesNative /\ TypeInv /\ DepsInv /\ LeadInv

\* The packages a walk names and reaches.
LEMMA WalkReach ==
    ASSUME TypeInv
    PROVE  /\ Elems(toplevel) \subseteq Reach(project, Elems(toplevel))
           /\ \A p \in Reach(project, Elems(toplevel)) \cap Pkg :
                  Leads(project, p) \subseteq Reach(project, Elems(toplevel))
           /\ \A p \in Pkg : /\ Leads(project, p) \subseteq Reach(project, Leads(project, p))
                             /\ \A q \in Reach(project, Leads(project, p)) \cap Pkg :
                                    Leads(project, q) \subseteq Reach(project, Leads(project, p))
    <1>1. Elems(toplevel) \in SUBSET Name
        BY DEF TypeInv, TypeOK, Elems, Name
    <1>2. \A p \in Pkg : Leads(project, p) \in SUBSET Name
        BY Zenon, LeadsNames
    <1> QED BY Zenon, <1>1, <1>2, ReachClosed

\* A frame is of a package.
LEMMA FrameFacts ==
    ASSUME TypeInv, NEW i \in 1..Len(deppath) PROVE deppath[i].pkg \in Pkg /\ deppath[i].pos \in Nat
    <1>1. deppath[i] \in DepFrame
        BY DEF TypeInv, TypeOK
    <1> QED BY Zenon, <1>1 DEF DepFrame

\* What the innermost call has at hand.
LEMMA CurrentLeads ==
    ASSUME TypeInv, SingleArch, FramesNative, AtDirective
    PROVE  /\ Len(deppath) \in 1..Len(deppath) /\ Last1(deppath) = deppath[Len(deppath)]
           /\ Last1(deppath).pkg \in Pkg
           /\ Last1(deppath).pos \in 1..Len(Dirs(project, Last1(deppath).pkg))
           /\ Current = Dirs(project, Last1(deppath).pkg)[Last1(deppath).pos]
           /\ Passes => /\ NATIVE_ARCH \in Current.cond
                        /\ Current.pkg \in Leads(project, Last1(deppath).pkg)
           /\ NATIVE_ARCH \in Current.cond => Passes
    <1>1. deppath \in Seq(DepFrame) /\ deppath # <<>> /\ Last1(deppath) \in DepFrame
        BY Zenon, CurrentFacts
    <1>2. Len(deppath) \in 1..Len(deppath) /\ Last1(deppath) = deppath[Len(deppath)]
        BY <1>1 DEF Last1
    <1>3. Last1(deppath).pkg \in Pkg /\ Last1(deppath).pos \in Nat \ {0}
        BY Zenon, <1>1 DEF DepFrame
    <1>4. /\ Dirs(project, Last1(deppath).pkg) \in Seq(Dep)
          /\ Declared(Last1(deppath).pkg) = Dirs(project, Last1(deppath).pkg)
        BY Zenon, <1>3, DeclaredFacts, Parameters
    <1>5. /\ Last1(deppath).pos \in 1..Len(Dirs(project, Last1(deppath).pkg))
          /\ Current = Dirs(project, Last1(deppath).pkg)[Last1(deppath).pos]
        BY <1>3, <1>4 DEF AtDirective, Current
    <1>6. Passes <=> NATIVE_ARCH \in Current.cond
        BY Zenon, NativeFacts
    <1> QED BY Zenon, <1>2, <1>3, <1>5, <1>6 DEF Leads

\* Moving on to the next directive moves the innermost call only.
LEMMA AdvancePos ==
    ASSUME TypeInv, AtDirective, deppath' = NextDirective(deppath)
    PROVE  /\ Len(deppath') = Len(deppath)
           /\ \A i \in 1..Len(deppath) :
                  /\ deppath'[i].pkg = deppath[i].pkg
                  /\ deppath'[i].pos = IF i =
                         Len(deppath) THEN deppath[i].pos + 1 ELSE deppath[i].pos
    <1> DEFINE f == [Last1(deppath) EXCEPT !.pos = @ + 1]
               g == SetLast(deppath, f)
    <1>1. /\ deppath \in Seq(DepFrame) /\ deppath # <<>> /\ Last1(deppath) \in DepFrame
          /\ f \in DepFrame
        BY Zenon, CurrentFacts
    <1>2. f.pos = deppath[Len(deppath)].pos + 1
        BY Zenon, <1>1 DEF DepFrame, Last1
    <1>3. deppath' = g
        BY Zenon DEF NextDirective
    <1> HIDE DEF f
    <1>4. g[Len(deppath)] = f /\ \A i \in 1..Len(deppath) : i # Len(deppath) => g[i] = deppath[i]
        BY <1>1, SetLastFacts
    <1> HIDE DEF g
    <1> QED BY Zenon, <1>2, <1>3, <1>4, DepAdvanceFacts

\* A call that begins is past no directive.
LEMMA LeadResolveTop == ASSUME Walking, ResolveTop PROVE LeadInv'
    <1>1. deppath = <<>> /\ UNCHANGED <<project, toplevel, resolved, returned>>
        BY Zenon DEF ResolveTop
    <1>2. ReturnedWalked' /\ RecordedSound'
        BY Zenon, <1>1 DEF Walking, LeadInv, ReturnedWalked, RecordedSound
    <1>3. CASE deppath' = deppath
        BY <1>1, <1>2, <1>3 DEF LeadInv, FramesReached, FramesWalked
    <1>4. CASE top <= Len(toplevel) /\ deppath' = <<Frame(toplevel[top], TARGET_ARCH, NoArch, {})>>
        <2>1. Len(deppath') = 1 /\ deppath'[1].pkg = toplevel[top] /\ deppath'[1].pos = 1
            BY Zenon, <1>4 DEF Frame
        <2>2. toplevel[top] \in Elems(toplevel)
            <3>1. toplevel \in Seq(Pkg) /\ top \in Nat \ {0}
                BY Zenon DEF Walking, TypeInv, TypeOK
            <3> QED BY <1>4, <3>1 DEF Elems
        <2>3. FramesReached'
            BY <1>1, <2>1, <2>2, WalkReach DEF FramesReached, Walking
        <2>4. FramesWalked'
            BY <2>1 DEF FramesWalked
        <2> QED BY Zenon, <1>2, <2>3, <2>4 DEF LeadInv
    <1> QED BY Zenon, <1>3, <1>4 DEF ResolveTop

\* Moving on keeps what is reached.
LEMMA AdvanceReached ==
    ASSUME Walking, AtDirective, deppath' = NextDirective(deppath), UNCHANGED <<project, toplevel>>
    PROVE  FramesReached'
    <1>1. /\ Len(deppath') = Len(deppath)
          /\ \A i \in 1..Len(deppath) : deppath'[i].pkg = deppath[i].pkg
        BY SMTT(30), AdvancePos DEF Walking
    <1> QED BY Zenon, <1>1 DEF Walking, LeadInv, FramesReached

\* Moving on keeps what is recorded, if the directive is, should it count.
LEMMA AdvanceWalked ==
    ASSUME Walking, AtDirective, deppath' = NextDirective(deppath), UNCHANGED project,
           \A p \in Pkg : \A q : Recorded(resolved, p, q) => Recorded(resolved', p, q),
           NATIVE_ARCH \in Current.cond => Recorded(resolved', Last1(deppath).pkg, Current.pkg)
    PROVE  FramesWalked'
    <1>1. /\ Len(deppath') = Len(deppath)
          /\ \A i \in 1..Len(deppath) :
                 /\ deppath'[i].pkg = deppath[i].pkg
                 /\ deppath'[i].pos = IF i =
                        Len(deppath) THEN deppath[i].pos + 1 ELSE deppath[i].pos
        BY Zenon, AdvancePos DEF Walking
    <1>2. /\ Last1(deppath) = deppath[Len(deppath)]
          /\ Current = Dirs(project, Last1(deppath).pkg)[Last1(deppath).pos]
        BY Zenon, CurrentLeads DEF Walking
    <1>3. \A i \in 1..Len(deppath) : deppath[i].pkg \in Pkg /\ deppath[i].pos \in Nat
        BY SMTT(30), FrameFacts DEF Walking
    <1> SUFFICES ASSUME NEW i \in 1..Len(deppath), NEW m \in 1..Len(Dirs(project, deppath[i].pkg)),
                        m < deppath'[i].pos, NATIVE_ARCH \in Dirs(project, deppath[i].pkg)[m].cond
                 PROVE  Recorded(resolved', deppath[i].pkg, Dirs(project, deppath[i].pkg)[m].pkg)
        BY <1>1 DEF FramesWalked
    <1>4. CASE m < deppath[i].pos
        BY Zenon, <1>3, <1>4 DEF Walking, LeadInv, FramesWalked
    <1>5. CASE ~(m < deppath[i].pos)
        <2>1. i = Len(deppath) /\ m = deppath[i].pos
            BY SMTT(30), <1>1, <1>3, <1>5
        <2> QED BY Zenon, <1>2, <2>1
    <1> QED BY Zenon, <1>4, <1>5

\* A directive that does not count is passed over.
LEMMA LeadSkipDep == ASSUME Walking, SkipDep PROVE LeadInv'
    <1>1. /\ AtDirective /\ deppath' = NextDirective(deppath)
          /\ UNCHANGED <<project, toplevel, resolved, returned>>
        BY Zenon DEF SkipDep
    <1>2. ReturnedWalked' /\ RecordedSound'
        BY Zenon, <1>1 DEF Walking, LeadInv, ReturnedWalked, RecordedSound
    <1>3. NATIVE_ARCH \notin Current.cond
        BY Zenon, <1>1, CurrentLeads DEF SkipDep, Walking
    <1>4. FramesReached'
        BY Zenon, <1>1, AdvanceReached
    <1>5. FramesWalked'
        BY Zenon, <1>1, <1>3, AdvanceWalked
    <1> QED BY Zenon, <1>2, <1>4, <1>5 DEF LeadInv

\* A call leads to the one it makes, and so do those it was made from.
LEMMA LeadDescendDep == ASSUME Walking, DescendDep PROVE LeadInv'
    <1> DEFINE f == ChildFrame(Last1(deppath), Current)
               n == Len(deppath)
    <1>1. /\ AtDirective /\ Passes /\ Current.pkg # NoPkg /\ deppath' = Append(deppath, f)
          /\ UNCHANGED <<project, toplevel, resolved, returned>>
        BY Zenon DEF DescendDep, LoadsDep
    <1>2. f.pkg = Current.pkg /\ f.pos = 1 /\ f \in DepFrame
        BY ZenonT(30), ChildFrameType DEF ChildFrame, Frame, DescendDep, Walking
    <1> HIDE DEF f
    <1>3. deppath \in Seq(DepFrame) /\ n \in Nat \ {0}
        BY <1>1 DEF Walking, TypeInv, TypeOK, AtDirective
    <1>4. /\ Len(deppath') = n + 1 /\ deppath'[n + 1] = f
          /\ \A i \in 1..n : deppath'[i] = deppath[i] /\ deppath[i].pkg \in Pkg
        BY SMTT(30), <1>1, <1>2, <1>3, FrameFacts DEF Walking
    <1>5. Current.pkg \in Leads(project, deppath[n].pkg) /\ n \in 1..n
        BY SMTT(30), <1>1, CurrentLeads DEF Walking
    <1>6. ReturnedWalked' /\ RecordedSound'
        BY Zenon, <1>1 DEF Walking, LeadInv, ReturnedWalked, RecordedSound
    <1>7. FramesWalked'
        <2> SUFFICES ASSUME NEW i \in 1..(n + 1), NEW m \in 1..Len(Dirs(project, deppath'[i].pkg)),
                            m < deppath'[i].pos, NATIVE_ARCH
                              \in Dirs(project, deppath'[i].pkg)[m].cond
                     PROVE  Recorded(resolved, deppath'[i].pkg,
                              Dirs(project, deppath'[i].pkg)[m].pkg)
            BY Zenon, <1>1, <1>4 DEF FramesWalked
        <2>1. i \in 1..n
            BY SMTT(30), <1>2, <1>3, <1>4
        <2> QED BY SMTT(30), <1>4, <2>1 DEF Walking, LeadInv, FramesWalked
    <1>8. Current.pkg \in Reach(project, Elems(toplevel))
        BY Zenon, <1>4, <1>5, WalkReach DEF Walking, LeadInv, FramesReached
    <1>9. ASSUME NEW i \in 1..n PROVE Current.pkg \in Reach(project, Leads(project, deppath[i].pkg))
        <2>1. CASE i = n
            BY SMTT(30), <1>4, <1>5, <2>1, WalkReach DEF Walking
        <2>2. CASE i # n
            <3>1. deppath[n].pkg \in Reach(project, Leads(project, deppath[i].pkg)) \cap Pkg
                BY SMTT(30), <1>3, <1>4, <1>5, <2>2 DEF Walking, LeadInv, FramesReached
            <3> QED BY SMTT(30), <1>4, <1>5, <3>1, WalkReach DEF Walking
        <2> QED BY Zenon, <2>1, <2>2
    <1>10. FramesReached'
        <2>1. ASSUME NEW i \in 1..(n + 1) PROVE deppath'[i].pkg \in Reach(project, Elems(toplevel))
            BY SMTT(30), <1>2, <1>3, <1>4, <1>8 DEF Walking, LeadInv, FramesReached
        <2>2. ASSUME NEW i \in 1..(n + 1), NEW j \in 1..(n + 1), i < j
              PROVE  deppath'[j].pkg \in Reach(project, Leads(project, deppath'[i].pkg))
            <3>1. i \in 1..n /\ (j \in 1..n \/ j = n + 1)
                BY SMTT(30), <1>3, <2>2, GrownPlaces
            <3> QED BY Zenon, <1>2, <1>4, <1>9, <2>2, <3>1 DEF Walking, LeadInv, FramesReached
        <2> QED BY SMTT(30), <1>1, <1>4, <2>1, <2>2 DEF FramesReached
    <1> QED BY Zenon, <1>6, <1>7, <1>10 DEF LeadInv

\* The directive is recorded, and nothing else changes in what is recorded.
LEMMA AppendedDep ==
    ASSUME TypeInv, AppendDep
    PROVE  /\ \A q \in Pkg, k \in Kind : \A i \in 1..Len(resolved[q][k]) :
                  i \in 1..Len(resolved'[q][k]) /\ resolved'[q][k][i] = resolved[q][k][i]
           /\ \A q \in Pkg, k \in Kind : \A i \in 1..Len(resolved'[q][k]) :
                  \/ i \in 1..Len(resolved[q][k])
                  \/ q = Last1(deppath).pkg /\ k = Current.kind /\ resolved'[q][k][i] = Current
           /\ Recorded(resolved', Last1(deppath).pkg, Current.pkg)
    <1> DEFINE d == Current
               p == Last1(deppath).pkg
    <1>1. Sound(d) /\ d.pkg # NoPkg /\ Last1(deppath) \in DepFrame
        BY Zenon, CurrentFacts DEF AppendDep, LoadsDep
    <1>2. d \in Dep /\ d.kind \in Kind /\ p \in Pkg
        BY SMTT(30), <1>1 DEF Sound, Dep, DepFrame
    <1>3. \/ /\ resolved' = resolved
             /\ \E i \in 1..Len(resolved[p][d.kind]) : resolved[p][d.kind][i].pkg = d.pkg
          \/ resolved' = [resolved EXCEPT ![p][d.kind] = Append(@, d)]
        <2> DEFINE known == \E i \in 1..Len(resolved[p][d.kind]) :
                               /\ resolved[p][d.kind][i].pkg = d.pkg
                               /\ resolved[p][d.kind][i].arch = d.arch
        <2>1. resolved' = IF known THEN resolved ELSE [resolved EXCEPT ![p][d.kind] = Append(@, d)]
            BY Zenon DEF AppendDep
        <2>2. known => \E i \in 1..Len(resolved[p][d.kind]) : resolved[p][d.kind][i].pkg = d.pkg
            BY Zenon
        <2> HIDE DEF known, d, p
        <2> QED BY Zenon, <2>1, <2>2
    <1>4. resolved \in [Pkg -> [Kind -> Seq(Dep)]]
        BY Zenon DEF TypeInv, TypeOK, DepLists
    <1> HIDE DEF d, p
    <1>5. CASE /\ resolved' = resolved
               /\ \E i \in 1..Len(resolved[p][d.kind]) : resolved[p][d.kind][i].pkg = d.pkg
        <2>1. Recorded(resolved', p, d.pkg)
            BY Zenon, <1>2, <1>5 DEF Recorded
        <2> QED BY Zenon, <1>5, <2>1 DEF d, p
    <1>6. CASE resolved' = [resolved EXCEPT ![p][d.kind] = Append(@, d)]
        <2>1. /\ resolved[p][d.kind] \in Seq(Dep)
              /\ resolved'[p][d.kind] = Append(resolved[p][d.kind], d)
            BY Zenon, <1>2, <1>4, <1>6
        <2>2. \A q \in Pkg, k \in Kind : ~(q = p /\ k = d.kind) => resolved'[q][k] = resolved[q][k]
            BY SMTT(30), <1>2, <1>4, <1>6
        <2>3. /\ \A i \in 1..Len(resolved[p][d.kind]) :
                     /\ i \in 1..Len(resolved'[p][d.kind])
                     /\ resolved'[p][d.kind][i] = resolved[p][d.kind][i]
              /\ \A i \in 1..Len(resolved'[p][d.kind]) :
                     i \in 1..Len(resolved[p][d.kind]) \/ resolved'[p][d.kind][i] = d
              /\ \E i \in 1..Len(resolved'[p][d.kind]) : resolved'[p][d.kind][i] = d
            <3>1. Len(resolved[p][d.kind]) + 1 \in 1..Len(resolved'[p][d.kind])
                BY <2>1
            <3>2. resolved'[p][d.kind][Len(resolved[p][d.kind]) + 1] = d
                BY SMTT(30), <1>2, <2>1
            <3> QED BY SMTT(30), <1>2, <2>1, <3>1, <3>2
        <2>4. Recorded(resolved', p, d.pkg)
            BY Zenon, <1>2, <2>3 DEF Recorded
        <2>5. ASSUME NEW q \in Pkg, NEW k \in Kind
              PROVE  /\ \A i \in 1..Len(resolved[q][k]) :
                            i \in 1..Len(resolved'[q][k]) /\ resolved'[q][k][i] = resolved[q][k][i]
                     /\ \A i \in 1..Len(resolved'[q][k]) :
                            \/ i \in 1..Len(resolved[q][k])
                            \/ q = p /\ k = d.kind /\ resolved'[q][k][i] = d
            BY ZenonT(30), <2>2, <2>3
        <2> QED BY Zenon, <2>4, <2>5 DEF d, p
    <1> QED BY SMTT(30), <1>3, <1>5, <1>6

\* A directive that counts is recorded.
LEMMA LeadAppendDep == ASSUME Walking, AppendDep PROVE LeadInv'
    <1>t. TypeInv /\ SingleArch /\ FramesNative
        BY Zenon DEF Walking
    <1>1. /\ AtDirective /\ Passes /\ deppath' = NextDirective(deppath)
          /\ UNCHANGED <<project, toplevel, returned>>
        BY Zenon DEF AppendDep, LoadsDep
    <1>a. /\ \A q \in Pkg, k \in Kind : \A i \in 1..Len(resolved[q][k]) :
                  i \in 1..Len(resolved'[q][k]) /\ resolved'[q][k][i] = resolved[q][k][i]
          /\ \A q \in Pkg, k \in Kind : \A i \in 1..Len(resolved'[q][k]) :
                  \/ i \in 1..Len(resolved[q][k])
                  \/ q = Last1(deppath).pkg /\ k = Current.kind /\ resolved'[q][k][i] = Current
          /\ Recorded(resolved', Last1(deppath).pkg, Current.pkg)
        BY Zenon, <1>t, AppendedDep
    <1>2. FramesReached'
        BY SMTT(30), <1>1, AdvanceReached
    <1>3. \A p \in Pkg : \A q : Recorded(resolved, p, q) => Recorded(resolved', p, q)
        BY SMTT(30), <1>a DEF Recorded
    <1>4. FramesWalked'
        BY Zenon, <1>t, <1>1, <1>3, <1>a, AdvanceWalked
    <1>5. ReturnedWalked'
        <2>1. Elems(returned) \subseteq Pkg
            BY <1>t DEF TypeInv, TypeOK, Elems
        <2> QED BY SMTT(30), <1>1, <1>3, <2>1 DEF Walking, LeadInv, ReturnedWalked
    <1>6. RecordedSound'
        <2> SUFFICES ASSUME NEW p \in Pkg, NEW k \in Kind, NEW i \in 1..Len(resolved'[p][k])
                     PROVE  /\ resolved'[p][k][i].pkg \in Leads(project, p)
                            /\ NATIVE_ARCH \in resolved'[p][k][i].cond
                            /\ k = "ARCHDEPENDS" => resolved'[p][k][i].arch = NATIVE_ARCH
            BY Zenon, <1>1 DEF RecordedSound
        <2>1. CASE i \in 1..Len(resolved[p][k])
            <3>1. resolved'[p][k][i] = resolved[p][k][i]
                BY Zenon, <2>1, <1>a
            <3> QED BY Zenon, <2>1, <3>1 DEF Walking, LeadInv, RecordedSound
        <2>2. CASE p = Last1(deppath).pkg /\ k = Current.kind /\ resolved'[p][k][i] = Current
            <3>1. NATIVE_ARCH \in Current.cond /\ Current.pkg \in Leads(project, Last1(deppath).pkg)
                BY Zenon, <1>t, <1>1, CurrentLeads
            <3>2. Current.kind = "ARCHDEPENDS" => Current.arch = NATIVE_ARCH
                BY Zenon, <1>t, <1>1, NativeFacts
            <3> QED BY Zenon, <2>2, <3>1, <3>2
        <2>3. \/ i \in 1..Len(resolved[p][k])
              \/ p = Last1(deppath).pkg /\ k = Current.kind /\ resolved'[p][k][i] = Current
            BY <1>a
        <2> QED BY Zenon, <2>1, <2>2, <2>3
    <1> QED BY Zenon, <1>2, <1>4, <1>5, <1>6 DEF LeadInv

\* The call that returns has recorded all that counts.
LEMMA LeadReturnDeps == ASSUME Walking, ReturnDeps PROVE LeadInv'
    <1> DEFINE p == Last1(deppath).pkg
               n == Len(deppath)
    <1>1. /\ deppath # <<>> /\ Last1(deppath).pos > Len(Declared(p))
          /\ returned' = Append(returned, p) /\ deppath' = Pop(deppath)
          /\ UNCHANGED <<project, toplevel, resolved>>
        BY Zenon DEF ReturnDeps
    <1>2. deppath \in Seq(DepFrame) /\ returned \in Seq(Pkg)
        BY Zenon DEF Walking, TypeInv, TypeOK
    <1>3. /\ n \in Nat \ {0} /\ Len(deppath') = n - 1
          /\ \A i \in 1..Len(deppath') : deppath'[i] = deppath[i]
        BY ZenonT(30), <1>1, <1>2, PopFacts
    <1>4. n \in 1..n /\ Last1(deppath) = deppath[n] /\ \A i \in 1..(n - 1) : i \in 1..n
        BY <1>3 DEF Last1
    <1>5. p \in Pkg
        BY SMTT(30), <1>4, FrameFacts DEF Walking
    <1>6. Elems(returned') = Elems(returned) \cup {p}
        BY <1>1, <1>2, <1>5, AppendFacts
    <1>7. FramesReached' /\ FramesWalked'
        BY ZenonT(30), <1>1, <1>3, <1>4 DEF Walking, LeadInv, FramesReached, FramesWalked
    <1>8. ASSUME NEW q \in Leads(project, p) PROVE Recorded(resolved, p, q)
        <2>1. PICK m \in 1..Len(Dirs(project, p)) :
                  NATIVE_ARCH \in Dirs(project, p)[m].cond /\ q = Dirs(project, p)[m].pkg
            BY Zenon, <1>8 DEF Leads
        <2>2. Declared(p) = Dirs(project, p) /\ Declared(p) \in Seq(Dep)
            BY Zenon, <1>5, Parameters, DeclaredFacts DEF Walking
        <2>3. deppath[n].pos \in Nat
            BY SMTT(30), <1>4, FrameFacts DEF Walking
        <2>4. m < deppath[n].pos
            BY <1>1, <1>4, <2>2, <2>3
        <2> QED BY Zenon, <1>4, <2>1, <2>4 DEF Walking, LeadInv, FramesWalked
    <1>9. ReturnedWalked'
        BY Zenon, <1>1, <1>6, <1>8 DEF Walking, LeadInv, ReturnedWalked
    <1>10. RecordedSound'
        BY SMTT(30), <1>1 DEF Walking, LeadInv, RecordedSound
    <1> QED BY Zenon, <1>7, <1>9, <1>10 DEF LeadInv

\* The other steps leave the first walk where it is.
LEMMA LeadSame == ASSUME LeadInv, UNCHANGED <<project, toplevel, depsVars>> PROVE LeadInv'
    BY Zenon DEF LeadInv, FramesReached, FramesWalked, ReturnedWalked, RecordedSound, depsVars

\* Every step keeps LeadInv.
LEMMA LeadStep == Walking /\ [Next]_vars => LeadInv'
    <1> SUFFICES ASSUME Walking, [Next]_vars PROVE LeadInv'
        BY Zenon
    <1>1. ResolveBuilds \/ DepNotFound \/ DepCyclic \/ StartBuilds \/ Stop \/ UNCHANGED vars =>
              UNCHANGED depsVars
        BY Zenon DEF ResolveBuilds, VisitTop, SkipEdge, DescendEdge, LinkEdge, FinishVisit,
           Resolved,
           DepNotFound, DepCyclic, StartBuilds, Stop, vars
    <1>2. CASE UNCHANGED depsVars
        BY ZenonT(30), <1>2, SingleArchStep, LeadSame DEF Walking
    <1> QED BY Zenon, <1>1, <1>2, LeadResolveTop, LeadSkipDep, LeadDescendDep, LeadAppendDep,
            LeadReturnDeps DEF Next, ResolveDeps

\* LeadInv holds before the walks begin.
LEMMA LeadInit == Init => LeadInv
    <1> SUFFICES ASSUME Init PROVE LeadInv
        BY Zenon
    <1>1. deppath = <<>> /\ returned = <<>> /\ \A p \in Pkg, k \in Kind : resolved[p][k] = <<>>
        BY Zenon DEF Init
    <1> QED BY <1>1 DEF LeadInv, FramesReached, FramesWalked, ReturnedWalked, RecordedSound, Elems

-----------------------------------------------------------------------------
(***************************************************************************)
(* The verdict of the first walk.                                          *)
(***************************************************************************)

\* What the end of the first walk, or its failure, says.
Verdict ==
    /\ phase = "deps" => \A k \in 1..Len(toplevel) : k < top => toplevel[k] \in deps_resolved
    /\ phase \in {"builds", "done"} => deppath = <<>> /\ Elems(toplevel) \subseteq Elems(returned)
    /\ phase = "cyclic" =>
           \E p \in Reach(project, Elems(toplevel)) \cap Pkg : p
             \in Reach(project, Leads(project, p))
    /\ phase = "notfound" => NoPkg \in Reach(project, Elems(toplevel))

\* The first walk goes on.
LEMMA VerdictOngoing ==
    ASSUME Walking, Verdict, ResolveTop \/ SkipDep \/ DescendDep \/ AppendDep \/ ReturnDeps
    PROVE  Verdict'
    <1>1. /\ phase = "deps" /\ phase' = "deps" /\ UNCHANGED toplevel
          /\ deps_resolved \subseteq deps_resolved'
          /\ top' = top \/ (top' = top + 1 /\ toplevel[top] \in deps_resolved)
        BY Zenon DEF ResolveTop, SkipDep, DescendDep, AppendDep, ReturnDeps, AtDirective, LoadsDep
    <1>2. top \in Nat
        BY Zenon DEF Walking, TypeInv, TypeOK
    <1>3. \A k \in 1..Len(toplevel) : k < top' => k < top \/ k = top
        BY <1>1, <1>2
    <1> QED BY Zenon, <1>1, <1>3 DEF Verdict

\* A missing package is one the named packages lead to.
LEMMA VerdictNotFound == ASSUME Walking, DepNotFound PROVE Verdict'
    <1>1. /\ AtDirective /\ Passes /\ Current.pkg = NoPkg /\ phase' = "notfound"
          /\ UNCHANGED <<project, toplevel>>
        BY Zenon DEF DepNotFound
    <1>2. NoPkg \in Leads(project, Last1(deppath).pkg) /\ Last1(deppath).pkg \in Pkg
          /\ Last1(deppath).pkg \in Reach(project, Elems(toplevel))
        BY Zenon, <1>1, CurrentLeads DEF Walking, LeadInv, FramesReached
    <1>3. NoPkg \in Reach(project, Elems(toplevel))
        BY Zenon, <1>2, WalkReach DEF Walking
    <1> QED BY Zenon, <1>1, <1>3 DEF Verdict

\* A dependency on a package whose call is going on is a cycle.
LEMMA VerdictCyclic == ASSUME Walking, DepCyclic PROVE Verdict'
    <1>1. /\ AtDirective /\ Passes /\ phase' = "cyclic" /\ UNCHANGED <<project, toplevel>>
          /\ \E i \in 1..Len(deppath) : deppath[i].pkg = Current.pkg
        BY Zenon DEF DepCyclic, OnDeppath
    <1>2. PICK i \in 1..Len(deppath) : deppath[i].pkg = Current.pkg
        BY Zenon, <1>1
    <1> DEFINE p == deppath[i].pkg
               q == Last1(deppath).pkg
    <1>3. p \in Leads(project, q) /\ q \in Pkg /\ Len(deppath) \in 1..Len(deppath)
          /\ q = deppath[Len(deppath)].pkg
        BY Zenon, <1>1, <1>2, CurrentLeads DEF Walking
    <1>4. p \in Pkg /\ p \in Reach(project, Elems(toplevel))
        BY Zenon, FrameFacts DEF Walking, LeadInv, FramesReached
    <1>5. CASE i = Len(deppath)
        <2>1. p \in Reach(project, Leads(project, p))
            BY Zenon, <1>3, <1>4, <1>5, WalkReach DEF Walking
        <2> QED BY Zenon, <1>1, <1>4, <2>1 DEF Verdict
    <1>6. CASE i # Len(deppath)
        <2>1. i < Len(deppath)
            BY <1>3, <1>6
        <2>2. q \in Reach(project, Leads(project, p))
            BY Zenon, <1>3, <2>1 DEF Walking, LeadInv, FramesReached
        <2>3. p \in Reach(project, Leads(project, p))
            BY Zenon, <1>3, <1>4, <2>2, WalkReach DEF Walking
        <2> QED BY Zenon, <1>1, <1>4, <2>3 DEF Verdict
    <1> QED BY Zenon, <1>5, <1>6

\* When the first walk is over, all its calls have returned.
LEMMA VerdictStartBuilds == ASSUME Walking, Verdict, StartBuilds PROVE Verdict'
    <1>1. /\ phase = "deps" /\ deppath = <<>> /\ top > Len(toplevel) /\ phase' = "builds"
          /\ UNCHANGED <<toplevel, deppath, returned>>
        BY Zenon DEF StartBuilds, depsVars
    <1>2. toplevel \in Seq(Pkg) /\ top \in Nat
        BY Zenon DEF Walking, TypeInv, TypeOK
    <1>3. deps_resolved = Elems(returned)
        BY <1>1 DEF Walking, DepsInv, MarksExact, DepStacked
    <1>4. Elems(toplevel) \subseteq Elems(returned)
        BY SMTT(30), <1>1, <1>2, <1>3 DEF Verdict, Elems
    <1> QED BY Zenon, <1>1, <1>4 DEF Verdict

\* The second walk and the end leave it at that.
LEMMA VerdictStays ==
    ASSUME Walking, Verdict, ResolveBuilds \/ Stop \/ UNCHANGED vars
    PROVE  Verdict'
    <1>1. /\ UNCHANGED <<project, toplevel, deppath, deps_resolved, returned>>
          /\ \/ UNCHANGED <<phase, top>>
             \/ phase = "builds" /\ phase' \in {"builds", "done"}
        BY Zenon DEF ResolveBuilds, VisitTop, SkipEdge, DescendEdge, LinkEdge, FinishVisit,
           Resolved,
           AtEdge, Stop, vars, depsVars
    <1> QED BY Zenon, <1>1 DEF Verdict

\* Every step keeps Verdict.
LEMMA VerdictStep == Walking /\ Verdict /\ [Next]_vars => Verdict'
    BY Zenon, VerdictOngoing, VerdictNotFound, VerdictCyclic, VerdictStartBuilds, VerdictStays
       DEF Next, ResolveDeps

\* No package that has returned is on a cycle: what it leads to has returned before it.
LEMMA ReturnedAcyclic ==
    ASSUME Walking, NEW p \in Elems(returned)
    PROVE  p \notin Reach(project, Leads(project, p))
    <1> DEFINE T == {x \in Pkg : DoneBefore(returned, x, p)}
    <1>1. Elems(returned) \subseteq Pkg
        BY SMTT(30) DEF Walking, TypeInv, TypeOK, Elems
    <1>2. \A x : DoneBefore(returned, x, p) => x \in Elems(returned)
        BY Zenon DEF DoneBefore, Elems
    <1>3. \A x \in Elems(returned) : \A y \in Leads(project, x) : y \in Pkg
            /\ DoneBefore(returned, y, x)
        <2> SUFFICES ASSUME NEW x \in Elems(returned), NEW y \in Leads(project, x)
                     PROVE  y \in Pkg /\ DoneBefore(returned, y, x)
            BY SMTT(30)
        <2>1. PICK k \in Kind : \E i \in 1..Len(resolved[x][k]) : resolved[x][k][i].pkg = y
            BY SMTT(30) DEF Walking, LeadInv, ReturnedWalked, Recorded
        <2>2. PICK i \in 1..Len(resolved[x][k]) : resolved[x][k][i].pkg = y
            BY Zenon, <2>1
        <2>3. DoneBefore(returned, y, x)
            BY Zenon, <1>1, <2>2 DEF Walking, DepsInv, DepsDoneBefore
        <2>4. y \in Pkg
            BY Zenon, <1>1, <2>2 DEF Walking, TypeInv, RealEdges
        <2> QED BY Zenon, <2>3, <2>4
    <1>4. Leads(project, p) \subseteq T
        BY Zenon, <1>3
    <1>5. ASSUME NEW x \in T, NEW y \in Leads(project, x) PROVE y \in T
        <2>1. y \in Pkg /\ DoneBefore(returned, y, x) /\ DoneBefore(returned, x, p)
            BY Zenon, <1>2, <1>3
        <2> QED BY Zenon, <2>1, DoneBeforeTransitive DEF Walking
    <1>6. p \notin T
        BY Zenon, DoneBeforeIrreflexive DEF Walking
    <1>7. T \in SUBSET Name
        BY Zenon DEF Name
    <1> HIDE DEF T
    <1>8. Reach(project, Leads(project, p)) \subseteq T
        BY Zenon, <1>4, <1>5, <1>7, ReachLeast
    <1> QED BY SMTT(30), <1>6, <1>8

\* What has returned holds all that the named packages lead to.
LEMMA ReachReturned ==
    ASSUME Walking, Elems(toplevel) \subseteq Elems(returned)
    PROVE  Reach(project, Elems(toplevel)) \subseteq Elems(returned)
    <1>1. Elems(returned) \subseteq Pkg
        BY DEF Walking, TypeInv, TypeOK, Elems
    <1>2. ASSUME NEW x \in Elems(returned), NEW y \in Leads(project, x) PROVE y \in Elems(returned)
        <2>1. PICK k \in Kind : \E i \in 1..Len(resolved[x][k]) : resolved[x][k][i].pkg = y
            BY Zenon DEF Walking, LeadInv, ReturnedWalked, Recorded
        <2>2. PICK i \in 1..Len(resolved[x][k]) : resolved[x][k][i].pkg = y
            BY Zenon, <2>1
        <2>3. DoneBefore(returned, y, x)
            BY Zenon, <1>1, <2>2 DEF Walking, DepsInv, DepsDoneBefore
        <2> QED BY Zenon, <2>3 DEF DoneBefore, Elems
    <1>3. Elems(returned) \in SUBSET Name
        BY Zenon, <1>1 DEF Name
    <1> QED BY Zenon, <1>2, <1>3, ReachLeast

ExactInv == TypeInv /\ (SingleArch => FramesNative /\ DepsInv /\ LeadInv /\ Verdict)

\* ExactInv is an invariant.
LEMMA ExactInvariant == Spec => []ExactInv
    <1>1. Init => ExactInv
        <2>1. Init => FramesNative
            BY DEF Init, FramesNative
        <2>2. Init => Verdict
            BY DEF Init, Verdict
        <2> QED BY Zenon, <2>1, <2>2, TypeInit, DepsInit, LeadInit DEF ExactInv
    <1>2. ExactInv /\ [Next]_vars => ExactInv'
        BY Zenon, TypeStep, SingleArchStep, NativeStep, DepsStep, LeadStep, VerdictStep
           DEF ExactInv, Walking
    <1> QED BY <1>1, <1>2, PTL DEF Spec

(***************************************************************************)
(* In every project with one architecture, resolve_deps raises             *)
(* PkgCyclicDepError only if the named packages lead into a cycle and      *)
(* PkgNotFound only if they lead to a missing package, and it lets a       *)
(* project through only if they lead to neither.                           *)
(***************************************************************************)
THEOREM VerdictCorrect == Spec => []CycleVerdictExact
    <1>1. ExactInv => CycleVerdictExact
        <2> SUFFICES ASSUME ExactInv, SingleArch PROVE CycleVerdictExact
            BY Zenon DEF CycleVerdictExact
        <2>1. Walking /\ Verdict
            BY Zenon DEF ExactInv, Walking
        <2>2. phase \in {"builds", "done"} =>
                  /\ NoPkg \notin Reach(project, Elems(toplevel))
                  /\ \A p \in Reach(project, Elems(toplevel)) : p \notin Reach(project,
                       Leads(project, p))
            <3> SUFFICES ASSUME phase \in {"builds", "done"}
                         PROVE  /\ NoPkg \notin Reach(project, Elems(toplevel))
                                /\ \A p \in Reach(project, Elems(toplevel)) :
                                       p \notin Reach(project, Leads(project, p))
                BY Zenon
            <3>1. Reach(project, Elems(toplevel)) \subseteq Elems(returned)
                BY SMTT(30), <2>1, ReachReturned DEF Verdict
            <3>2. Elems(returned) \subseteq Pkg
                BY SMTT(30), <2>1 DEF Walking, TypeInv, TypeOK, Elems
            <3> QED BY Zenon, <2>1, <3>1, <3>2, ReturnedAcyclic, ConstantsAssumption
        <2> QED BY Zenon, <2>1, <2>2, Parameters DEF Verdict, CycleVerdictExact, OnCycle
    <1> QED BY <1>1, ExactInvariant, PTL

-----------------------------------------------------------------------------
(***************************************************************************)
(* The second walk.                                                        *)
(***************************************************************************)

\* EdgesOf, with what is resolved as a parameter.
EdgesIn(res, p) == res[p]["BUILDTOOL"] \o res[p]["DEPENDS"] \o res[p]["ARCHDEPENDS"]

\* The second walk makes builds of what the named packages lead to, for the one architecture.
BuildsReached ==
    \A b \in processed : b[1] \in Reach(project, Elems(toplevel)) /\ b[2] = NATIVE_ARCH

\* The dependencies of what is listed, and those a visit is past, are processed.
VisitsWalked ==
    /\ \A b \in Elems(buildlist) : \A i \in 1..Len(EdgesIn(resolved, b[1])) :
           TargetOf(b, EdgesIn(resolved, b[1])[i]) \in processed
    /\ \A v \in 1..Len(visits) : \A i \in 1..Len(EdgesIn(resolved, visits[v].build[1])) :
           i < visits[v].pos =>
               TargetOf(visits[v].build, EdgesIn(resolved, visits[v].build[1])[i]) \in processed

\* The second walk comes after the first.
BuildsLater ==
    phase \notin {"builds", "done"} => visits = <<>> /\ processed = {} /\ buildlist = <<>>

CompleteInv == BuildsReached /\ VisitsWalked /\ BuildsLater

\* What holds at a step of the second walk.
Visiting == Walking /\ WalkInv /\ CompleteInv

\* A resolved dependency counts, and is built for the one architecture.
LEMMA EdgesNative ==
    ASSUME Walking, NEW p \in Pkg, NEW i \in 1..Len(EdgesIn(resolved, p))
    PROVE  /\ EdgesIn(resolved, p)[i].pkg \in Leads(project, p)
           /\ NATIVE_ARCH \in EdgesIn(resolved, p)[i].cond
           /\ DepArch(NATIVE_ARCH, EdgesIn(resolved, p)[i]) = NATIVE_ARCH
    <1> DEFINE e == EdgesIn(resolved, p)[i]
    <1>1. EdgesOf(p) = EdgesIn(resolved, p)
        BY SMTT(30) DEF EdgesOf, EdgesIn
    <1>2. PICK k \in Kind : \E j \in 1..Len(resolved[p][k]) : e = resolved[p][k][j]
        <2>1. TypeInv /\ i \in 1..Len(EdgesOf(p)) /\ e = EdgesOf(p)[i]
            BY Zenon, <1>1 DEF Walking
        <2>2. \E k \in Kind : \E j \in 1..Len(resolved[p][k]) : EdgesOf(p)[i] = resolved[p][k][j]
            BY ZenonT(30), <2>1, EdgesFacts
        <2> QED BY Zenon, <2>1, <2>2
    <1>3. PICK j \in 1..Len(resolved[p][k]) : e = resolved[p][k][j]
        BY Zenon, <1>2
    <1> HIDE DEF e
    <1>4. /\ e.pkg \in Leads(project, p) /\ NATIVE_ARCH \in e.cond
          /\ k = "ARCHDEPENDS" => e.arch = NATIVE_ARCH
        BY Zenon, <1>3 DEF Walking, LeadInv, RecordedSound
    <1>5. e.kind = k
        BY Zenon, <1>3 DEF Walking, TypeInv, RealEdges
    <1>6. DepArch(NATIVE_ARCH, e) = NATIVE_ARCH
        BY SMTT(30), <1>4, <1>5 DEF DepArch, Kind
    <1> QED BY Zenon, <1>4, <1>6 DEF e

\* What is recorded for a package is among the edges of its visit.
LEMMA EdgesComplete ==
    ASSUME TypeInv, NEW p \in Pkg, NEW q, Recorded(resolved, p, q)
    PROVE  \E i \in 1..Len(EdgesIn(resolved, p)) : EdgesIn(resolved, p)[i].pkg = q
    <1> DEFINE s == resolved[p]["BUILDTOOL"]
               t == resolved[p]["DEPENDS"]
               u == resolved[p]["ARCHDEPENDS"]
    <1>1. s \in Seq(Dep) /\ t \in Seq(Dep) /\ u \in Seq(Dep)
        BY SMTT(30) DEF TypeInv, TypeOK, DepLists, Kind
    <1>2. \/ \E j \in 1..Len(s) : s[j].pkg = q
          \/ \E j \in 1..Len(t) : t[j].pkg = q
          \/ \E j \in 1..Len(u) : u[j].pkg = q
        BY Zenon DEF Recorded, Kind
    <1>3. EdgesIn(resolved, p) = s \o t \o u
        BY Zenon DEF EdgesIn
    <1> HIDE DEF s, t, u
    <1>4. /\ s \o t \in Seq(Dep) /\ Len(s) \in Nat /\ Len(t) \in Nat /\ Len(u) \in Nat
          /\ Len(s \o t) = Len(s) + Len(t) /\ Len(s \o t \o u) = Len(s) + Len(t) + Len(u)
        BY <1>1
    <1>5. ASSUME NEW j \in 1..Len(s \o t)
          PROVE  (s \o t \o u)[j] = (s \o t)[j] /\ j \in 1..Len(s \o t \o u)
        BY SMTT(30), <1>1, <1>4
    <1>6. CASE \E j \in 1..Len(s) : s[j].pkg = q
        <2>1. PICK j \in 1..Len(s) : s[j].pkg = q
            BY Zenon, <1>6
        <2>2. j \in 1..Len(s \o t) /\ (s \o t)[j] = s[j]
            BY SMTT(30), <1>1, <1>4
        <2> QED BY Zenon, <1>3, <1>5, <2>1, <2>2
    <1>7. CASE \E j \in 1..Len(t) : t[j].pkg = q
        <2>1. PICK j \in 1..Len(t) : t[j].pkg = q
            BY Zenon, <1>7
        <2>2. Len(s) + j \in 1..Len(s \o t) /\ (s \o t)[Len(s) + j] = t[j]
            BY <1>1, <1>4
        <2> QED BY SMTT(30), <1>3, <1>5, <2>1, <2>2
    <1>8. CASE \E j \in 1..Len(u) : u[j].pkg = q
        <2>1. PICK j \in 1..Len(u) : u[j].pkg = q
            BY Zenon, <1>8
        <2>2. /\ Len(s \o t) + j \in 1..Len(s \o t \o u)
              /\ (s \o t \o u)[Len(s \o t) + j] = u[j]
            BY SMTT(30), <1>1, <1>4
        <2> QED BY Zenon, <1>3, <2>1, <2>2
    <1> QED BY SMTT(30), <1>2, <1>6, <1>7, <1>8

\* A visit is of a processed build, of a package the named ones lead to.
LEMMA VisitFacts ==
    ASSUME Visiting, NEW v \in 1..Len(visits)
    PROVE  /\ visits[v].build \in Build /\ visits[v].build[1] \in Pkg
           /\ visits[v].pos \in Nat /\ visits[v].build \in processed
           /\ visits[v].build[1] \in Reach(project, Elems(toplevel))
           /\ visits[v].build[2] = NATIVE_ARCH
    <1>1. visits[v] \in VisitFrame
        <2>1. visits \in Seq(VisitFrame)
            BY Zenon DEF Visiting, Walking, TypeInv, TypeOK, VisitFrame
        <2> QED BY <2>1
    <1>2. visits[v].build \in Build /\ visits[v].build[1] \in Pkg /\ visits[v].pos \in Nat
        BY Zenon, <1>1 DEF VisitFrame, Build
    <1>3. visits[v].build \in processed
        BY SMTT(30) DEF Visiting, WalkInv, ProcessedExact, Stacked
    <1> QED BY Zenon, <1>2, <1>3 DEF Visiting, CompleteInv, BuildsReached

\* What the innermost visit has at hand.
LEMMA EdgeNative ==
    ASSUME Visiting, AtEdge
    PROVE  /\ Len(visits) \in 1..Len(visits) /\ Last1(visits) = visits[Len(visits)]
           /\ Edge = EdgesIn(resolved, Last1(visits).build[1])[Last1(visits).pos]
           /\ Last1(visits).build[2] \in Edge.cond
           /\ EdgeTarget[1] \in Reach(project, Elems(toplevel)) /\ EdgeTarget[2] = NATIVE_ARCH
    <1>1. visits \in Seq(VisitFrame) /\ visits # <<>>
        BY Zenon, EdgeFacts DEF Visiting, Walking
    <1>2. Len(visits) \in 1..Len(visits) /\ Last1(visits) = visits[Len(visits)]
        BY <1>1 DEF Last1
    <1> DEFINE b == Last1(visits).build
    <1>3. /\ b[1] \in Pkg /\ Last1(visits).pos \in Nat
          /\ b[1] \in Reach(project, Elems(toplevel)) /\ b[2] = NATIVE_ARCH
        BY Zenon, <1>2, VisitFacts
    <1>4. EdgesOf(b[1]) = EdgesIn(resolved, b[1]) /\ EdgesOf(b[1]) \in Seq(Dep)
        BY Zenon, <1>3, EdgesFacts DEF EdgesOf, EdgesIn, Visiting, Walking
    <1>5. Last1(visits).pos # 0
        <2>1. Last1(visits) \in VisitFrame
            BY SMTT(30), EdgeFacts DEF Visiting, Walking
        <2> QED BY Zenon, <2>1 DEF VisitFrame
    <1>6. Last1(visits).pos \in 1..Len(EdgesIn(resolved, b[1]))
        BY SMTT(30), <1>3, <1>4, <1>5 DEF AtEdge
    <1>7. Edge = EdgesIn(resolved, b[1])[Last1(visits).pos]
        BY Zenon, <1>4 DEF Edge
    <1>8. /\ Edge.pkg \in Leads(project, b[1]) /\ NATIVE_ARCH \in Edge.cond
          /\ DepArch(NATIVE_ARCH, Edge) = NATIVE_ARCH
        BY Zenon, <1>3, <1>6, <1>7, EdgesNative DEF Visiting
    <1>9. EdgeTarget = <<Edge.pkg, NATIVE_ARCH>>
        BY Zenon, <1>3, <1>8 DEF EdgeTarget, TargetOf
    <1>10. Edge.pkg \in Reach(project, Elems(toplevel))
        BY ZenonT(30), <1>3, <1>8, WalkReach DEF Visiting, Walking
    <1> QED BY ZenonT(30), <1>2, <1>3, <1>7, <1>8, <1>9, <1>10

\* The first walk comes before the second.
LEMMA CompleteResolveDeps == ASSUME Visiting, ResolveDeps PROVE CompleteInv'
    <1>1. phase = "deps" /\ UNCHANGED buildVars
        BY Zenon DEF ResolveDeps, ResolveTop, SkipDep, DepNotFound, DepCyclic, DescendDep,
           AppendDep,
           ReturnDeps, StartBuilds, LoadsDep, AtDirective
    <1>2. visits' = <<>> /\ processed' = {} /\ buildlist' = <<>>
        BY Zenon, <1>1 DEF Visiting, CompleteInv, BuildsLater, buildVars
    <1> QED BY <1>2 DEF CompleteInv, BuildsReached, VisitsWalked, BuildsLater, Elems

\* The visit of a named package begins.
LEMMA CompleteVisitTop == ASSUME Visiting, VisitTop PROVE CompleteInv'
    <1>1. /\ phase' = "builds" /\ UNCHANGED <<project, toplevel, resolved, buildlist>>
          /\ \/ UNCHANGED <<visits, processed>>
             \/ /\ visits' = <<Visit(TopBuild)>> /\ processed' = processed \cup {TopBuild}
                /\ top <= Len(toplevel)
        BY SMTT(30) DEF VisitTop, depsVars
    <1>2. CASE UNCHANGED <<visits, processed>>
        BY <1>1, <1>2 DEF Visiting, CompleteInv, BuildsReached, VisitsWalked, BuildsLater
    <1>3. CASE /\ visits' = <<Visit(TopBuild)>> /\ processed' = processed \cup {TopBuild}
               /\ top <= Len(toplevel)
        <2>1. toplevel[top] \in Elems(toplevel) /\ TARGET_ARCH = NATIVE_ARCH
            BY SMTT(30), <1>3 DEF Visiting, Walking, TypeInv, TypeOK, Elems, SingleArch
        <2>2. TopBuild[1] \in Reach(project, Elems(toplevel)) /\ TopBuild[2] = NATIVE_ARCH
            BY SMTT(30), <2>1, WalkReach DEF TopBuild, Visiting, Walking
        <2>3. BuildsReached'
            BY Zenon, <1>1, <1>3, <2>2 DEF Visiting, CompleteInv, BuildsReached
        <2>4. Len(visits') = 1 /\ visits'[1].pos = 1
            BY SMTT(30), <1>3 DEF Visit
        <2>5. VisitsWalked'
            BY SMTT(30), <1>1, <1>3, <2>4 DEF Visiting, CompleteInv, VisitsWalked
        <2> QED BY SMTT(30), <1>1, <2>3, <2>5 DEF CompleteInv, BuildsLater
    <1> QED BY Zenon, <1>1, <1>2, <1>3

\* No resolved dependency is passed over.
LEMMA CompleteSkipEdge == ASSUME Visiting, SkipEdge PROVE FALSE
    BY Zenon, EdgeNative DEF SkipEdge

\* The visit of a dependency begins.
LEMMA CompleteDescendEdge == ASSUME Visiting, DescendEdge PROVE CompleteInv'
    <1>1. /\ AtEdge /\ phase' = "builds" /\ UNCHANGED <<project, toplevel, resolved, buildlist>>
          /\ visits' = Append(visits, Visit(EdgeTarget)) /\ processed' = processed \cup {EdgeTarget}
        BY Zenon DEF DescendEdge, depsVars, AtEdge
    <1>2. visits \in Seq(VisitFrame) /\ EdgeTarget \in Build
        BY Zenon, <1>1, EdgeFacts DEF Visiting, Walking
    <1>3. Visit(EdgeTarget) \in VisitFrame /\ Visit(EdgeTarget).pos = 1
        BY <1>2 DEF Visit, VisitFrame
    <1>4. /\ Len(visits) \in Nat /\ Len(visits') = Len(visits) + 1
          /\ \A v \in 1..Len(visits) : visits'[v] = visits[v]
          /\ visits'[Len(visits) + 1].pos = 1
        BY SMTT(30), <1>1, <1>2, <1>3
    <1>5. BuildsReached'
        BY Zenon, <1>1, EdgeNative DEF Visiting, CompleteInv, BuildsReached
    <1>6. \A v \in 1..Len(visits') : v \in 1..Len(visits) \/ visits'[v].pos = 1
        BY SMTT(30), <1>4
    <1>7. VisitsWalked'
        <2>1. ASSUME NEW v \in 1..Len(visits'),
                     NEW i \in 1..Len(EdgesIn(resolved, visits'[v].build[1])), i < visits'[v].pos
              PROVE  TargetOf(visits'[v].build, EdgesIn(resolved, visits'[v].build[1])[i])
                       \in processed
            BY SMTT(30), <1>4, <1>6, <2>1 DEF Visiting, CompleteInv, VisitsWalked
        <2> QED BY SMTT(30), <1>1, <2>1 DEF Visiting, CompleteInv, VisitsWalked
    <1> QED BY Zenon, <1>1, <1>5, <1>7 DEF CompleteInv, BuildsLater

\* A dependency that is linked is processed.
LEMMA CompleteLinkEdge == ASSUME Visiting, LinkEdge PROVE CompleteInv'
    <1>1. /\ AtEdge /\ phase' = "builds" /\ visits' = NextDirective(visits)
          /\ TargetOf(Last1(visits).build, Edge) \in processed
          /\ UNCHANGED <<project, toplevel, resolved, processed, buildlist>>
        BY Zenon DEF LinkEdge, EdgeTarget, depsVars, AtEdge
    <1> DEFINE f == [Last1(visits) EXCEPT !.pos = @ + 1]
               g == SetLast(visits, f)
    <1>2. /\ visits \in Seq(VisitFrame) /\ visits # <<>> /\ Last1(visits) \in VisitFrame
          /\ f \in VisitFrame
        BY Zenon, <1>1, EdgeFacts DEF Visiting, Walking
    <1>3. f.pos = Last1(visits).pos + 1
        BY Zenon, <1>2 DEF VisitFrame
    <1>4. visits' = g
        BY Zenon, <1>1 DEF NextDirective
    <1> HIDE DEF f
    <1>5. g[Len(visits)] = f /\ \A v \in 1..Len(visits) : v # Len(visits) => g[v] = visits[v]
        BY SMTT(30), <1>2, SetLastFacts
    <1> HIDE DEF g
    <1>6. /\ Len(visits') = Len(visits)
          /\ \A v \in 1..Len(visits) : visits'[v].build = visits[v].build
        BY SMTT(30), <1>1, AdvanceFacts DEF Visiting, Walking
    <1>7. /\ Last1(visits) = visits[Len(visits)]
          /\ Edge = EdgesIn(resolved, Last1(visits).build[1])[Last1(visits).pos]
        BY SMTT(30), <1>1, EdgeNative
    <1>8. ASSUME NEW v \in 1..Len(visits), NEW i \in 1..Len(EdgesIn(resolved, visits[v].build[1])),
                 i < visits'[v].pos
          PROVE  TargetOf(visits[v].build, EdgesIn(resolved, visits[v].build[1])[i]) \in processed
        <2>1. CASE i < visits[v].pos
            BY ZenonT(30), <2>1 DEF Visiting, CompleteInv, VisitsWalked
        <2>2. CASE ~(i < visits[v].pos)
            <3>1. v = Len(visits) /\ i = visits[v].pos
                BY SMTT(30), <1>3, <1>4, <1>5, <1>7, <1>8, <2>2, VisitFacts
            <3> QED BY SMTT(30), <1>1, <1>7, <3>1
        <2> QED BY Zenon, <2>1, <2>2
    <1>9. VisitsWalked'
        BY SMTT(30), <1>1, <1>6, <1>8 DEF Visiting, CompleteInv, VisitsWalked
    <1> QED BY SMTT(30), <1>1, <1>9 DEF Visiting, CompleteInv, BuildsReached, BuildsLater

\* A visit ends when it is past its dependencies.
LEMMA CompleteFinishVisit == ASSUME Visiting, FinishVisit PROVE CompleteInv'
    <1> DEFINE b == Last1(visits).build
    <1>1. /\ phase' = "builds" /\ visits # <<>> /\ Last1(visits).pos > Len(EdgesOf(b[1]))
          /\ UNCHANGED <<project, toplevel, resolved, processed>> /\ visits' = Pop(visits)
        BY Zenon DEF FinishVisit, depsVars
    <1>2. visits \in Seq(VisitFrame)
        BY Zenon DEF Visiting, Walking, TypeInv, TypeOK, VisitFrame
    <1>3. /\ Len(visits) \in Nat \ {0} /\ Len(visits') = Len(visits) - 1
          /\ \A v \in 1..Len(visits') : visits'[v] = visits[v]
        BY SMTT(30), <1>1, <1>2, PopFacts
    <1>4. /\ Len(visits) \in 1..Len(visits) /\ Last1(visits) = visits[Len(visits)]
          /\ \A v \in 1..Len(visits') : v \in 1..Len(visits)
        BY SMTT(30), <1>3 DEF Last1
    <1>5. Elems(buildlist') = Elems(buildlist) \cup {b}
        BY Zenon, FinishFacts DEF Visiting, Walking
    <1>6. b[1] \in Pkg /\ Last1(visits).pos \in Nat
        BY Zenon, <1>4, VisitFacts
    <1>7. EdgesOf(b[1]) = EdgesIn(resolved, b[1]) /\ EdgesOf(b[1]) \in Seq(Dep)
        BY Zenon, <1>6, EdgesFacts DEF EdgesOf, EdgesIn, Visiting, Walking
    <1>8. \A i \in 1..Len(EdgesIn(resolved, b[1])) : i < visits[Len(visits)].pos
        BY <1>1, <1>4, <1>6, <1>7
    <1>9. \A i \in 1..Len(EdgesIn(resolved, b[1])) : TargetOf(b, EdgesIn(resolved, b[1])[i])
            \in processed
        BY Zenon, <1>4, <1>8 DEF Visiting, CompleteInv, VisitsWalked
    <1>10. VisitsWalked'
        <2>1. \A v \in 1..Len(visits') : v \in 1..Len(visits) /\ visits'[v] = visits[v]
            BY Zenon, <1>3, <1>4
        <2> QED BY ZenonT(30), <1>1, <1>5, <1>9, <2>1 DEF Visiting, CompleteInv, VisitsWalked
    <1> QED BY SMTT(30), <1>1, <1>10 DEF Visiting, CompleteInv, BuildsReached, BuildsLater

\* Every step keeps CompleteInv.
LEMMA CompleteStep == Visiting /\ [Next]_vars => CompleteInv'
    <1> SUFFICES ASSUME Visiting, [Next]_vars PROVE CompleteInv'
        BY Zenon
    <1>1. CASE Resolved \/ Stop \/ UNCHANGED vars
        <2>1. /\ UNCHANGED <<project, toplevel, resolved, visits, processed, buildlist>>
              /\ phase' = phase \/ phase' = "done"
            BY ZenonT(30), <1>1 DEF Resolved, Stop, vars, depsVars, buildVars
        <2> QED BY Zenon, <2>1 DEF Visiting, CompleteInv, BuildsReached, VisitsWalked, BuildsLater
    <1> QED BY ZenonT(30), <1>1, CompleteResolveDeps, CompleteVisitTop, CompleteSkipEdge,
            CompleteDescendEdge, CompleteLinkEdge, CompleteFinishVisit DEF Next, ResolveBuilds

\* CompleteInv holds before the walks begin.
LEMMA CompleteInit == Init => CompleteInv
    BY DEF Init, CompleteInv, BuildsReached, VisitsWalked, BuildsLater, Elems

(***************************************************************************)
(* In every project with one architecture, what resolve_builds returns is  *)
(* what the named packages lead to, each package once.                     *)
(***************************************************************************)
THEOREM CompleteCorrect == Spec => []BuildlistComplete
    <1> DEFINE IInv == ExactInv /\ WalkInv /\ (SingleArch => CompleteInv)
    <1>1. IInv => BuildlistComplete
        <2> SUFFICES ASSUME IInv, SingleArch, phase = "done"
                     PROVE  /\ Elems(buildlist) = Reach(project, Elems(toplevel)) \X {TARGET_ARCH}
                            /\ \A i, j \in 1..Len(buildlist) : buildlist[i] = buildlist[j] => i = j
            BY Zenon, Parameters DEF BuildlistComplete
        <2>1. Walking /\ Verdict /\ WalkInv /\ CompleteInv
            BY SMTT(30) DEF ExactInv, Walking
        <2>2. processed = Elems(buildlist)
            BY <2>1 DEF WalkInv, DoneVisiting, ProcessedExact, Stacked
        <2>3. /\ toplevel \in Seq(Pkg) /\ top \in Nat /\ buildlist \in Seq(Build)
              /\ TARGET_ARCH = NATIVE_ARCH
            BY Zenon, <2>1 DEF Walking, TypeInv, TypeOK, SingleArch
        <2>4. \A q \in Elems(toplevel) : <<q, NATIVE_ARCH>> \in Elems(buildlist)
            <3>1. top > Len(toplevel)
                BY Zenon, <2>1 DEF WalkInv, DoneVisiting
            <3>2. \A k \in 1..Len(toplevel) : k < top
                BY <2>3, <3>1
            <3>3. \A k \in 1..Len(toplevel) : <<toplevel[k], TARGET_ARCH>> \in processed
                BY Zenon, <2>1, <3>2 DEF WalkInv, TopsProcessed
            <3> QED BY Zenon, <2>2, <2>3, <3>3 DEF Elems
        <2>5. /\ Elems(returned) \subseteq Pkg
              /\ Reach(project, Elems(toplevel)) \subseteq Elems(returned)
            <3>1. Elems(returned) \subseteq Pkg
                BY <2>1 DEF Walking, TypeInv, TypeOK, Elems
            <3> QED BY SMTT(30), <2>1, <3>1, ReachReturned DEF Verdict
        <2> DEFINE T == {q \in Reach(project, Elems(toplevel)) : <<q, NATIVE_ARCH>>
              \in Elems(buildlist)}
        <2>6. ASSUME NEW q \in T, NEW r \in Leads(project, q) PROVE r \in T
            <3>1. q \in Pkg /\ q \in Elems(returned) /\ <<q, NATIVE_ARCH>> \in Elems(buildlist)
                BY Zenon, <2>5
            <3>2. Recorded(resolved, q, r)
                BY Zenon, <2>1, <3>1 DEF Walking, LeadInv, ReturnedWalked
            <3>3. PICK i \in 1..Len(EdgesIn(resolved, q)) : EdgesIn(resolved, q)[i].pkg = r
                BY Zenon, <2>1, <3>1, <3>2, EdgesComplete DEF Walking
            <3> DEFINE e == EdgesIn(resolved, q)[i]
                       b == <<q, NATIVE_ARCH>>
            <3>4. DepArch(NATIVE_ARCH, e) = NATIVE_ARCH
                BY Zenon, <2>1, <3>1, EdgesNative
            <3>5. b[1] = q /\ b[2] = NATIVE_ARCH /\ b \in Elems(buildlist)
                BY SMTT(30), <3>1
            <3>6. TargetOf(b, e) \in Elems(buildlist)
                <4> HIDE DEF b
                <4> QED BY SMTT(30), <2>1, <2>2, <3>5 DEF CompleteInv, VisitsWalked
            <3>7. TargetOf(b, e) = <<r, NATIVE_ARCH>>
                BY Zenon, <3>3, <3>4 DEF TargetOf
            <3>8. r \in Reach(project, Elems(toplevel))
                BY Zenon, <2>1, <3>1, WalkReach DEF Walking
            <3> QED BY Zenon, <3>6, <3>7, <3>8
        <2>7. Elems(toplevel) \subseteq T /\ T \in SUBSET Name
            BY Zenon, <2>1, <2>4, <2>5, WalkReach DEF Walking, Name
        <2>8. Reach(project, Elems(toplevel)) \subseteq T
            <3> HIDE DEF T
            <3> QED BY Zenon, <2>6, <2>7, ReachLeast
        <2>9. ASSUME NEW b \in Elems(buildlist)
              PROVE  b \in Reach(project, Elems(toplevel)) \X {NATIVE_ARCH}
            <3>1. b \in Build
                BY <2>3 DEF Elems
            <3>2. b[1] \in Reach(project, Elems(toplevel)) /\ b[2] = NATIVE_ARCH
                BY Zenon, <2>1, <2>2 DEF CompleteInv, BuildsReached
            <3> QED BY Zenon, <3>1, <3>2 DEF Build
        <2>10. ASSUME NEW b \in Reach(project, Elems(toplevel)) \X {NATIVE_ARCH}
               PROVE  b \in Elems(buildlist)
            BY <2>8
        <2> QED BY SMTT(30), <2>1, <2>3, <2>9, <2>10 DEF WalkInv, ListedOnce
    <1>2. Spec => []ExactInv
        BY Zenon, ExactInvariant
    <1>3. Init => WalkInv /\ (SingleArch => CompleteInv)
        BY Zenon, WalkInit, CompleteInit
    <1>4. ExactInv /\ WalkInv /\ (SingleArch => CompleteInv) /\ [Next]_vars =>
              WalkInv' /\ (SingleArch' => CompleteInv')
        BY Zenon, WalkStep, SingleArchStep, CompleteStep DEF ExactInv, Walking, Visiting
    <1> QED BY <1>1, <1>2, <1>3, <1>4, PTL DEF Spec
=============================================================================
