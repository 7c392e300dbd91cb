------------------------------ MODULE MCLmdb ------------------------------
(***************************************************************************)
(* A reader r and two writers v and w that share a database, in three      *)
(* setups.  Storage and the reader table hardly meet, and a model with     *)
(* both system crashes and readers is out of reach.                        *)
(***************************************************************************)
EXTENDS LmdbStore, TLC

CONSTANTS r, v, w

\* A reader and a writer; a writer on a system that crashes; two writers.
MCSetups == {[procs |-> {r, w}, crashes |-> FALSE],
             [procs |-> {w}, crashes |-> TRUE],
             [procs |-> {v, w}, crashes |-> FALSE]}

\* A reader and a writer.
ReaderSetup == {[procs |-> {r, w}, crashes |-> FALSE]}

Symmetry == Permutations(Leaves)
=============================================================================
