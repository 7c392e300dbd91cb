----------------------------- MODULE MCCondvar -----------------------------
(***************************************************************************)
(* Condvar for TLC: three threads are signaled once; two are signaled      *)
(* twice; one is signaled while another comes.                             *)
(***************************************************************************)
EXTENDS Condvar, TLC

MCStarts == {[blocked |-> 3, coming |-> 0, signals |-> 1],
             [blocked |-> 2, coming |-> 0, signals |-> 2],
             [blocked |-> 1, coming |-> 1, signals |-> 1]}

Symmetry == Permutations(Waiters)
=============================================================================
