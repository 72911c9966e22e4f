---------------------------- MODULE MCQuexFlow ----------------------------
(***************************************************************************)
(* A small instance of QuexFlow for TLC.                                   *)
(***************************************************************************)
EXTENDS QuexFlow, TLC

CONSTANTS p1, p2, o1, o2, c1, c2, f1, f2

\* The pools, the feeds and the Quex cores can be renamed in every state.
Symmetry == Permutations(Pools) \cup Permutations(Feeds) \cup Permutations(QuexCores)
=============================================================================
