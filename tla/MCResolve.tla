----------------------------- MODULE MCResolve -----------------------------
(***************************************************************************)
(* Small projects for Resolve.                                             *)
(***************************************************************************)
EXTENDS Resolve, SequencesExt

CONSTANTS pa, pb, pc,      \* packages
          native, target   \* architectures

Directive(k, p, cnd) ==
    [kind |-> k, pkg |-> p, arch |-> IF k = "ARCHDEPENDS" THEN NATIVE_ARCH ELSE NoArch, cond |-> cnd]

\* A package whose directives are one per pair <<kind, pkg>> of the set E.
Lists(E, cnd) ==
    [k \in Kind |-> SetToSeq({Directive(k, e[2], cnd) : e \in {x \in E : x[1] = k}})]

-----------------------------------------------------------------------------
(***************************************************************************)
(* One architecture: every graph over three packages in which pa and pb    *)
(* name any packages with DEPENDS and pa names any with BUILDTOOL; pc has  *)
(* one directive of any kind, which may name a missing package or have a   *)
(* condition that never holds.                                             *)
(***************************************************************************)
NativeProjects ==
    LET D == {"DEPENDS"} \X Pkg
        T == {"BUILDTOOL"} \X {pb, pc}
        C == {<<{<<k, p>>}, cnd>> : k \in Kind, p \in Pkg \cup {NoPkg}, cnd \in {{}, Arch}}
                \cup {<<{}, Arch>>}
    IN  {[p \in Pkg |-> CASE p = pa -> Lists(da \cup ta, Arch)
                          [] p = pb -> Lists(db, Arch)
                          [] p = pc -> Lists(dc[1], dc[2])]
            : da \in SUBSET D, ta \in SUBSET T, db \in SUBSET D, dc \in C}

-----------------------------------------------------------------------------
(***************************************************************************)
(* Cross builds, from native to target: every project in which pa may use  *)
(* pb and pc, and pb may use pc, with any kind of directive and any        *)
(* condition.                                                              *)
(***************************************************************************)
Uses(p) ==
    {{}} \cup {{Directive(k, p, cnd)} : k \in Kind, cnd \in {Arch, {native}, {target}}}

ListsOf(D) == [k \in Kind |-> SetToSeq({d \in D : d.kind = k})]

CrossProjects ==
    {[p \in Pkg |-> CASE p = pa -> ListsOf(ab \cup ac)
                      [] p = pb -> ListsOf(bc)
                      [] p = pc -> ListsOf({})]
        : ab \in Uses(pb), ac \in Uses(pc), bc \in Uses(pc)}

-----------------------------------------------------------------------------
AllProjects == NativeProjects \cup CrossProjects

Tops == {<<pa>>, <<pb, pa>>, <<pc, pa>>}

MCTargets(prj) ==
    {native : x \in {prj} \cap NativeProjects} \cup {target : x \in {prj} \cap CrossProjects}

CrossTarget(prj) == {target}

\* Two packages that use each other, in every way.
MutualProjects ==
    {[p \in Pkg |-> CASE p = pa -> ListsOf(ab) [] p = pb -> ListsOf(ba) [] p = pc -> ListsOf({})]
        : ab \in Uses(pb), ba \in Uses(pa)}
=============================================================================
