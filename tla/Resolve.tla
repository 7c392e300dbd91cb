------------------------------ MODULE Resolve ------------------------------
(***************************************************************************)
(* How pbuild turns the dependency directives of a project into the list  *)
(* of builds it performs: Pkg.resolve_deps (a depth-first walk over        *)
(* packages which loads them, prunes conditional dependencies and looks    *)
(* for cycles) and then resolve_builds (a depth-first walk over            *)
(* (package, architecture) pairs which makes the PkgBuild objects and the  *)
(* buildlist).  The recursion of each walk is an explicit stack.           *)
(***************************************************************************)
EXTENDS Naturals, Sequences

CONSTANTS
    Pkg,            \* the packages that exist in the source tree
    NoPkg,          \* the name of a package without an index file
    Arch,           \* VALID_ARCHS
    NoArch,         \* the empty arch string
    NATIVE_ARCH,
    Projects,       \* the dependency declarations to consider
    TopLists,       \* the package lists a user may name on the command line
    Targets(_)      \* the architectures a user may build a project for

Kind == {"DEPENDS", "BUILDTOOL", "ARCHDEPENDS"}

(***************************************************************************)
(* One directive.  cond is the set of values of ARCH for which its         *)
(* conditional expression evaluates to true, all of Arch when there is no  *)
(* condition.  arch is used by ARCHDEPENDS only.                           *)
(***************************************************************************)
Dep == [kind : Kind, pkg : Pkg \cup {NoPkg}, arch : Arch \cup {NoArch}, cond : SUBSET Arch]

DepLists == [Kind -> Seq(Dep)]

\* Every directive sits in the list of its kind; ARCHDEPENDS names an arch.
WellFormed(prj) ==
    \A p \in Pkg, k \in Kind : \A i \in 1..Len(prj[p][k]) :
        LET d == prj[p][k][i]
        IN  d.kind = k /\ (k = "ARCHDEPENDS" <=> d.arch # NoArch)

ASSUME ConstantsAssumption ==
    /\ NoPkg \notin Pkg
    /\ NoArch \notin Arch
    /\ NATIVE_ARCH \in Arch
    /\ \A prj \in Projects : prj \in [Pkg -> DepLists] /\ WellFormed(prj)
    /\ \A prj \in Projects : Targets(prj) \subseteq Arch
    /\ \A tops \in TopLists : tops \in Seq(Pkg)

VARIABLES
    project,        \* the directives in the index files of the packages
    toplevel,       \* top_level_pkgs
    TARGET_ARCH,    \* the architecture the user builds for
    phase,          \* which walk main() is in, or how it ended
    top,            \* the loop index over top_level_pkgs
    deppath,        \* the call stack of Pkg.resolve_deps
    deps_resolved,  \* the packages whose deps_resolved is True
    resolved,       \* Pkg.deps, Pkg.hostdeps and Pkg.archdeps
    returned,       \* history: the order in which calls of resolve_deps returned
    visits,         \* the call stack of visit_dep
    processed,      \* the (pkg, arch) keys of the interned PkgBuilds
    links,          \* PkgBuild.deps, .hostdeps and .archdeps
    buildlist

depsVars == <<deppath, deps_resolved, resolved, returned>>
buildVars == <<visits, processed, links, buildlist>>
vars == <<project, toplevel, TARGET_ARCH, phase, top, depsVars, buildVars>>

Build == Pkg \X Arch

Last1(s) == s[Len(s)]
Pop(s) == SubSeq(s, 1, Len(s) - 1)
SetLast(s, f) == [s EXCEPT ![Len(s)] = f]
Elems(s) == {s[i] : i \in 1..Len(s)}

Init ==
    /\ project \in Projects
    /\ toplevel \in TopLists
    /\ TARGET_ARCH \in Targets(project)
    /\ phase = "deps"
    /\ top = 1
    /\ deppath = <<>>
    /\ deps_resolved = {}
    /\ resolved = [p \in Pkg |-> [k \in Kind |-> <<>>]]
    /\ returned = <<>>
    /\ visits = <<>>
    /\ processed = {}
    /\ links = [b \in Build |-> {}]
    /\ buildlist = <<>>

-----------------------------------------------------------------------------
(***************************************************************************)
(* Pkg.resolve_deps                                                        *)
(***************************************************************************)

\* The directives of p in the order resolve_deps goes through them.
Declared(p) == project[p]["DEPENDS"] \o project[p]["BUILDTOOL"] \o project[p]["ARCHDEPENDS"]

\* set(m): the architectures named by the ARCHDEPENDS directives of p.
ArchdepArchs(p) ==
    {project[p]["ARCHDEPENDS"][i].arch : i \in 1..Len(project[p]["ARCHDEPENDS"])}

Frame(p, arch, cond_ARCH, archs) ==
    [pkg |-> p, arch |-> arch, cond_ARCH |-> cond_ARCH, archdep_archs |-> archs, pos |-> 1]

\* The directive the innermost call is at.
Current == Declared(Last1(deppath).pkg)[Last1(deppath).pos]

AtDirective ==
    /\ phase = "deps"
    /\ deppath # <<>>
    /\ Last1(deppath).pos <= Len(Declared(Last1(deppath).pkg))

\* The values of ARCH a condition is tried with: it passes when one passes.
CondArchs(f, d) ==
    CASE d.kind = "ARCHDEPENDS"  -> ArchdepArchs(f.pkg)
      [] d.kind # "ARCHDEPENDS" /\ f.archdep_archs # {} -> f.archdep_archs
      [] d.kind = "BUILDTOOL" /\ f.archdep_archs = {} -> {TARGET_ARCH}
      [] d.kind = "DEPENDS" /\ f.archdep_archs = {} ->
            {IF f.cond_ARCH = NoArch THEN f.arch ELSE f.cond_ARCH}

\* The architecture a dependency d of a package walked for arch is used for.
DepArch(arch, d) ==
    CASE d.kind = "DEPENDS"     -> arch
      [] d.kind = "BUILDTOOL"   -> NATIVE_ARCH
      [] d.kind = "ARCHDEPENDS" -> d.arch

ChildFrame(f, d) ==
    Frame(d.pkg, DepArch(f.arch, d),
          CASE d.kind = "DEPENDS"     -> f.cond_ARCH
            [] d.kind = "BUILDTOOL"   -> TARGET_ARCH
            [] d.kind = "ARCHDEPENDS" -> NoArch,
          IF d.kind = "ARCHDEPENDS" THEN ArchdepArchs(f.pkg) ELSE f.archdep_archs)

NextDirective(s) == SetLast(s, [Last1(s) EXCEPT !.pos = @ + 1])

Passes == CondArchs(Last1(deppath), Current) \cap Current.cond # {}

\* Mutant: only the immediate dependant is looked at.
OnDeppath_Mut(p, arch) == Last1(deppath).pkg = p /\ Last1(deppath).arch = arch

OnDeppath(p, arch) == \E i \in 1..Len(deppath) : deppath[i].pkg = p /\ deppath[i].arch = arch

\* resolve_deps(top_level_pkgs): the loop over the packages named by the user.
ResolveTop ==
    /\ phase = "deps"
    /\ deppath = <<>>
    /\ top <= Len(toplevel)
    /\ IF toplevel[top] \in deps_resolved
       THEN top' = top + 1 /\ UNCHANGED <<deppath, deps_resolved>>
       ELSE /\ deppath' = <<Frame(toplevel[top], TARGET_ARCH, NoArch, {})>>
            /\ deps_resolved' = deps_resolved \cup {toplevel[top]}
            /\ UNCHANGED top
    /\ UNCHANGED <<project, toplevel, TARGET_ARCH, phase, resolved, returned, buildVars>>

\* Mutant: the loop goes on without moving to the next directive.
SkipDep_Mut == AtDirective /\ ~Passes /\ UNCHANGED vars

\* A condition that no arch passes: the dependency is dropped.
SkipDep ==
    /\ AtDirective
    /\ ~Passes
    /\ deppath' = NextDirective(deppath)
    /\ UNCHANGED <<project, toplevel, TARGET_ARCH, phase, top, deps_resolved, resolved, returned, buildVars>>

\* load_pkg raises PkgNotFound; main() reports it and exits with status 1.
DepNotFound ==
    /\ AtDirective
    /\ Passes
    /\ Current.pkg = NoPkg
    /\ phase' = "notfound"
    /\ UNCHANGED <<project, toplevel, TARGET_ARCH, top, depsVars, buildVars>>

\* _load_dep raises PkgCyclicDepError; main() reports it and exits with status 1.
DepCyclic ==
    /\ AtDirective
    /\ Passes
    /\ Current.pkg # NoPkg
    /\ OnDeppath(Current.pkg, DepArch(Last1(deppath).arch, Current))
    /\ phase' = "cyclic"
    /\ UNCHANGED <<project, toplevel, TARGET_ARCH, top, depsVars, buildVars>>

\* Mutant: a missing package is not an error.
LoadsDep_Mut ==
    AtDirective /\ Passes /\ ~OnDeppath(Current.pkg, DepArch(Last1(deppath).arch, Current))

LoadsDep ==
    /\ AtDirective
    /\ Passes
    /\ Current.pkg # NoPkg
    /\ ~OnDeppath(Current.pkg, DepArch(Last1(deppath).arch, Current))

\* The dependency is met for the first time: recurse into it.
DescendDep ==
    /\ LoadsDep
    /\ Current.pkg \notin deps_resolved
    /\ deppath' = Append(deppath, ChildFrame(Last1(deppath), Current))
    /\ deps_resolved' = deps_resolved \cup {Current.pkg}
    /\ UNCHANGED <<project, toplevel, TARGET_ARCH, phase, top, resolved, returned, buildVars>>

\* Its dependencies are resolved: add it to the list unless it is there.
AppendDep ==
    /\ LoadsDep
    /\ Current.pkg \in deps_resolved
    /\ LET d == Current
           p == Last1(deppath).pkg
           known == \E i \in 1..Len(resolved[p][d.kind]) :
                        /\ resolved[p][d.kind][i].pkg = d.pkg
                        /\ resolved[p][d.kind][i].arch = d.arch
       IN  resolved' = IF known THEN resolved
                       ELSE [resolved EXCEPT ![p][d.kind] = Append(@, d)]
    /\ deppath' = NextDirective(deppath)
    /\ UNCHANGED <<project, toplevel, TARGET_ARCH, phase, top, deps_resolved, returned, buildVars>>

\* deppath.pop()
ReturnDeps ==
    /\ phase = "deps"
    /\ deppath # <<>>
    /\ Last1(deppath).pos > Len(Declared(Last1(deppath).pkg))
    /\ returned' = Append(returned, Last1(deppath).pkg)
    /\ deppath' = Pop(deppath)
    /\ UNCHANGED <<project, toplevel, TARGET_ARCH, phase, top, deps_resolved, resolved, buildVars>>

\* main() goes on to resolve_builds.
StartBuilds ==
    /\ phase = "deps"
    /\ deppath = <<>>
    /\ top > Len(toplevel)
    /\ phase' = "builds"
    /\ top' = 1
    /\ UNCHANGED <<project, toplevel, TARGET_ARCH, depsVars, buildVars>>

-----------------------------------------------------------------------------
(***************************************************************************)
(* resolve_builds                                                          *)
(***************************************************************************)

\* Mutant: the BUILDTOOLs are forgotten.
EdgesOf_Mut(p) == resolved[p]["DEPENDS"] \o resolved[p]["ARCHDEPENDS"]

\* The dependencies of p in the order visit_dep goes through them.
EdgesOf(p) == resolved[p]["BUILDTOOL"] \o resolved[p]["DEPENDS"] \o resolved[p]["ARCHDEPENDS"]

Visit(b) == [build |-> b, pos |-> 1]

AtEdge ==
    /\ phase = "builds"
    /\ visits # <<>>
    /\ Last1(visits).pos <= Len(EdgesOf(Last1(visits).build[1]))

Edge == EdgesOf(Last1(visits).build[1])[Last1(visits).pos]

\* The PkgBuild an edge of the build b leads to.
TargetOf(b, e) == <<e.pkg, DepArch(b[2], e)>>

EdgeTarget == TargetOf(Last1(visits).build, Edge)

\* Mutant: the named packages are visited for the native arch.
TopBuild_Mut == <<toplevel[top], NATIVE_ARCH>>

TopBuild == <<toplevel[top], TARGET_ARCH>>

\* for pkg in top_level_pkgs: visit_dep(pkg, TARGET_ARCH)
VisitTop ==
    /\ phase = "builds"
    /\ visits = <<>>
    /\ top <= Len(toplevel)
    /\ IF TopBuild \in processed
       THEN top' = top + 1 /\ UNCHANGED <<visits, processed>>
       ELSE /\ visits' = <<Visit(TopBuild)>>
            /\ processed' = processed \cup {TopBuild}
            /\ UNCHANGED top
    /\ UNCHANGED <<project, toplevel, TARGET_ARCH, phase, depsVars, links, buildlist>>

\* The condition of the dependency fails for the arch of this build.
SkipEdge ==
    /\ AtEdge
    /\ Last1(visits).build[2] \notin Edge.cond
    /\ visits' = NextDirective(visits)
    /\ UNCHANGED <<project, toplevel, TARGET_ARCH, phase, top, depsVars, processed, links, buildlist>>

\* intern_pkgbuild makes a new PkgBuild: visit its dependencies first.
DescendEdge ==
    /\ AtEdge
    /\ Last1(visits).build[2] \in Edge.cond
    /\ EdgeTarget \notin processed
    /\ visits' = Append(visits, Visit(EdgeTarget))
    /\ processed' = processed \cup {EdgeTarget}
    /\ UNCHANGED <<project, toplevel, TARGET_ARCH, phase, top, depsVars, links, buildlist>>

\* visit_dep has returned the dependency's PkgBuild: record it.
LinkEdge ==
    /\ AtEdge
    /\ Last1(visits).build[2] \in Edge.cond
    /\ EdgeTarget \in processed
    /\ links' = [links EXCEPT ![Last1(visits).build] = @ \cup {<<Edge.kind, EdgeTarget>>}]
    /\ visits' = NextDirective(visits)
    /\ UNCHANGED <<project, toplevel, TARGET_ARCH, phase, top, depsVars, processed, buildlist>>

\* Mutant: the list is built back to front.
FinishVisit_Mut ==
    /\ phase = "builds"
    /\ visits # <<>>
    /\ Last1(visits).pos > Len(EdgesOf(Last1(visits).build[1]))
    /\ buildlist' = <<Last1(visits).build>> \o buildlist
    /\ visits' = Pop(visits)
    /\ UNCHANGED <<project, toplevel, TARGET_ARCH, phase, top, depsVars, processed, links>>

\* buildlist.append(b)
FinishVisit ==
    /\ phase = "builds"
    /\ visits # <<>>
    /\ Last1(visits).pos > Len(EdgesOf(Last1(visits).build[1]))
    /\ buildlist' = Append(buildlist, Last1(visits).build)
    /\ visits' = Pop(visits)
    /\ UNCHANGED <<project, toplevel, TARGET_ARCH, phase, top, depsVars, processed, links>>

Resolved ==
    /\ phase = "builds"
    /\ visits = <<>>
    /\ top > Len(toplevel)
    /\ phase' = "done"
    /\ UNCHANGED <<project, toplevel, TARGET_ARCH, top, depsVars, buildVars>>

-----------------------------------------------------------------------------
ResolveDeps ==
    \/ ResolveTop \/ SkipDep \/ DepNotFound \/ DepCyclic
    \/ DescendDep \/ AppendDep \/ ReturnDeps \/ StartBuilds

ResolveBuilds ==
    \/ VisitTop \/ SkipEdge \/ DescendEdge \/ LinkEdge \/ FinishVisit \/ Resolved

Ended == phase \in {"done", "notfound", "cyclic"}

\* The two walks are over; nothing here happens after that.
Stop == Ended /\ UNCHANGED vars

Next == ResolveDeps \/ ResolveBuilds \/ Stop

Spec == Init /\ [][Next]_vars

\* The walks run in one thread and wait for nothing.
FairSpec == Spec /\ WF_vars(ResolveDeps \/ ResolveBuilds)

-----------------------------------------------------------------------------
DepFrame ==
    [pkg : Pkg, arch : Arch, cond_ARCH : Arch \cup {NoArch},
     archdep_archs : SUBSET Arch, pos : Nat \ {0}]

TypeOK ==
    /\ project \in [Pkg -> DepLists]
    /\ toplevel \in Seq(Pkg)
    /\ TARGET_ARCH \in Arch
    /\ phase \in {"deps", "builds", "done", "notfound", "cyclic"}
    /\ top \in Nat \ {0}
    /\ deppath \in Seq(DepFrame)
    /\ deps_resolved \subseteq Pkg
    /\ resolved \in [Pkg -> DepLists]
    /\ returned \in Seq(Pkg)
    /\ visits \in Seq([build : Build, pos : Nat \ {0}])
    /\ processed \subseteq Build
    /\ links \in [Build -> SUBSET (Kind \X Build)]
    /\ buildlist \in Seq(Build)

Before(s, b, c) == \E i, j \in 1..Len(s) : i < j /\ s[i] = b /\ s[j] = c

(***************************************************************************)
(* The buildlist is "topologically ordered by dependencies" (the comment   *)
(* on resolve_builds): a build is listed after every PkgBuild it is linked *)
(* to.  build_pkgs builds in that order, so this is what makes the outputs *)
(* of the dependencies exist when the sandbox of a dependant is set up.    *)
(***************************************************************************)
BuildlistSorted ==
    \A c \in Elems(buildlist) : \A l \in links[c] : Before(buildlist, l[2], c)

-----------------------------------------------------------------------------
(***************************************************************************)
(* A reference for projects in which everything is built for one           *)
(* architecture: there a directive counts exactly when its condition holds *)
(* for that arch.                                                          *)
(***************************************************************************)
SingleArch == TARGET_ARCH = NATIVE_ARCH /\ \A p \in Pkg : ArchdepArchs(p) \subseteq {NATIVE_ARCH}

Succ(p) ==
    {Declared(p)[i].pkg : i \in {j \in 1..Len(Declared(p)) : NATIVE_ARCH \in Declared(p)[j].cond}}

Name == Pkg \cup {NoPkg}

Closed(T) == \A p \in T \cap Pkg : Succ(p) \subseteq T

\* What the packages in S lead to, themselves included: the least closed set around S.
Closure(S) == {x \in Name : \A T \in SUBSET Name : S \subseteq T /\ Closed(T) => x \in T}

OnCycle(p) == p \in Closure(Succ(p))

(***************************************************************************)
(* Cycle detection is exact: resolve_deps raises PkgCyclicDepError only    *)
(* when the named packages really lead into a cycle, and once it lets a    *)
(* project through, no package the named ones lead to is on a cycle and    *)
(* none is missing.  Only one call per package walks its directives, so    *)
(* this rests on a package already marked deps_resolved being either on    *)
(* deppath (a cycle) or finished (harmless).  With several architectures   *)
(* it is not exact.                                                        *)
(***************************************************************************)
CycleVerdictExact ==
    LET reach == Closure(Elems(toplevel))
    IN  SingleArch =>
        /\ phase = "cyclic" => \E p \in reach \cap Pkg : OnCycle(p)
        /\ phase = "notfound" => NoPkg \in reach
        /\ phase \in {"builds", "done"} =>
               NoPkg \notin reach /\ \A p \in reach : ~OnCycle(p)

(***************************************************************************)
(* When resolve_builds returns, every package the named ones lead to is in *)
(* the buildlist exactly once, and nothing else is: the dedup by the       *)
(* processed table neither loses a package that two dependants share nor   *)
(* builds it twice.  This holds where everything is built for one arch.    *)
(***************************************************************************)
BuildlistComplete ==
    SingleArch /\ phase = "done" =>
        /\ Elems(buildlist) = Closure(Elems(toplevel)) \X {TARGET_ARCH}
        /\ \A i, j \in 1..Len(buildlist) : buildlist[i] = buildlist[j] => i = j

(***************************************************************************)
(* When resolve_builds returns, the PkgBuild objects form a closed graph:  *)
(* every build some listed build is linked to is itself listed, once, and  *)
(* so are the named packages for TARGET_ARCH.  With several architectures  *)
(* a package is listed once per architecture it is used for.               *)
(***************************************************************************)
BuildlistClosed ==
    phase = "done" =>
        /\ \A b \in Elems(buildlist) : \A l \in links[b] : l[2] \in Elems(buildlist)
        /\ \A p \in Elems(toplevel) : <<p, TARGET_ARCH>> \in Elems(buildlist)
        /\ \A i, j \in 1..Len(buildlist) : buildlist[i] = buildlist[j] => i = j

(***************************************************************************)
(* Both walks end, cycles in the directives included: every call of        *)
(* resolve_deps and visit_dep marks its package first, so no cycle can     *)
(* make them recurse forever.                                              *)
(***************************************************************************)
ResolveTerminates == <>Ended
=============================================================================
