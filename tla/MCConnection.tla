---------------------------- MODULE MCConnection ----------------------------
(***************************************************************************)
(* Instances of Connection for TLC.  The threads are interchangeable, so   *)
(* safety runs may identify states that differ by a permutation of them.   *)
(***************************************************************************)
EXTENDS Connection, TLC

Symmetry == Permutations(Threads)
=============================================================================
