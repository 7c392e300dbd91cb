------------------------------ MODULE MCPBuild ------------------------------
(***************************************************************************)
(* Instances of PBuild for TLC.  Graph names the packages and how they     *)
(* depend on each other; Embeds, which layers end up in an output: a       *)
(* script may use a layer (a compiler, a header) or merely have it mounted.*)
(***************************************************************************)
EXTENDS PBuild, TLC

CONSTANTS
    Graph,              \* one of the names in Shape
    Versions,           \* bound: how many contents the sources of a package take
    OptionNames         \* the command lines, by name

(***************************************************************************)
(* Packages are numbered in the order of the buildlist.                    *)
(*   chain  3 DEPENDS 2 DEPENDS 1                                          *)
(*   pair   2 DEPENDS 1                                                    *)
(*   meta   4 DEPENDS 3, a metapackage that DEPENDS 2 [transitive], and  *)
(*          has the BUILDTOOL 1                                            *)
(*   tool   3 DEPENDS 2, which has only the BUILDTOOL 1                    *)
(*   trans  3 DEPENDS 2 DEPENDS 1 [transitive], and 3 uses 1               *)
(***************************************************************************)
None == [x \in 1..4 |-> {}]
Shape ==
    [chain |-> [n |-> 3, deps |-> (2 :> {1} @@ 3 :> {2} @@ None), host |-> None,
                trans |-> None, meta |-> {}, embeds |-> (2 :> {1} @@ 3 :> {2} @@ None),
                tops |-> {{3}, {2}}],
     pair  |-> [n |-> 2, deps |-> (2 :> {1} @@ None), host |-> None,
                trans |-> None, meta |-> {}, embeds |-> (2 :> {1} @@ None),
                tops |-> {{2}, {1}}],
     meta  |-> [n |-> 4, deps |-> (4 :> {3} @@ 3 :> {2} @@ None),
                host |-> (4 :> {1} @@ None),
                trans |-> (3 :> {2} @@ None), meta |-> {3},
                embeds |-> (4 :> {2} @@ None), tops |-> {{4}, {3}}],
     tool  |-> [n |-> 3, deps |-> (3 :> {2} @@ None), host |-> (2 :> {1} @@ None),
                trans |-> None, meta |-> {}, embeds |-> (2 :> {1} @@ 3 :> {2} @@ None),
                tops |-> {{3}}],
     trans |-> [n |-> 3, deps |-> (3 :> {2} @@ 2 :> {1} @@ None), host |-> None,
                trans |-> (2 :> {1} @@ None), meta |-> {}, embeds |-> (3 :> {1} @@ None),
                tops |-> {{3}, {2}}]][Graph]

MCBuild == 1..Shape.n
MCIndex == [p \in MCBuild |-> p]
MCdeps == [p \in MCBuild |-> Shape.deps[p]]
MChostdeps == [p \in MCBuild |-> Shape.host[p]]
MCtransitive == [p \in MCBuild |-> Shape.trans[p]]
MCMeta == Shape.meta
MCTopSets == Shape.tops \cup {{}}
MCVal == 1..Versions

\* The output of a script names its package, its sources and what it embeds.
MCMake(p, v, ins) == [of |-> p, src |-> v, ins |-> [d \in Shape.embeds[p] |-> ins[d]]]
MCMetaSum(p, sums) == [of |-> p, src |-> 0, ins |-> sums]

\* What package n can produce, given what the packages before it can.
MCContent[n \in 1..Shape.n] ==
    IF n \in Shape.meta
    THEN LET d == CHOOSE x \in Shape.deps[n] : TRUE
         IN  {MCMetaSum(n, d :> sum) : sum \in MCContent[d] \cup {NoSum}}
    ELSE IF Shape.embeds[n] = {} THEN {[of |-> n, src |-> v, ins |-> <<>>] : v \in MCVal}
    ELSE LET d == CHOOSE x \in Shape.embeds[n] : TRUE
         IN  {[of |-> n, src |-> v, ins |-> d :> made] : v \in MCVal, made \in MCContent[d] \cup {Junk}}

CommandLine ==
    LET clean == [Plain EXCEPT !.force = TRUE, !.clean = TRUE]
    IN  [plain |-> Plain,
         force |-> [Plain EXCEPT !.force = TRUE],
         clean |-> clean,
         clean_all |-> [clean EXCEPT !.clean_all = TRUE],
         cleanup |-> [Plain EXCEPT !.cleanup = TRUE],
         skip_deps |-> [Plain EXCEPT !.skip_deps = TRUE],
         skip_deps_shell |-> [Plain EXCEPT !.skip_deps = TRUE, !.shell = TRUE],
         dry_run |-> [Plain EXCEPT !.dry_run = TRUE],
         dry_run_cleanup |-> [Plain EXCEPT !.dry_run = TRUE, !.cleanup = TRUE]]
MCOption == {CommandLine[name] : name \in OptionNames}
=============================================================================
