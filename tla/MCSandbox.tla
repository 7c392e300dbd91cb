----------------------------- MODULE MCSandbox -----------------------------
(***************************************************************************)
(* Sandbox for TLC.                                                        *)
(***************************************************************************)
EXTENDS Sandbox, TLC

\* Three invocations that build two packages, one after the other; two invocations at
\* once that build the same package.
MCSetups == {[procs |-> 3, pkgs |-> 2, alive |-> 1], [procs |-> 2, pkgs |-> 1, alive |-> 2]}

\* Three invocations that build one package, one after the other.
InTurn == {[procs |-> 3, pkgs |-> 1, alive |-> 1]}

Symmetry == Permutations(Proc) \cup Permutations(Pkg)
=============================================================================
