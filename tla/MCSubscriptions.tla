---------------------------- MODULE MCSubscriptions ----------------------------
(***************************************************************************)
(* TLC's instances of Subscriptions.                                       *)
(***************************************************************************)
EXTENDS Subscriptions, TLC

Symmetry == Permutations(Personas) \cup Permutations(Ids)
=============================================================================
