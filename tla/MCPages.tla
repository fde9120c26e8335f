-------------------------------- MODULE MCPages --------------------------------
(***************************************************************************)
(* TLC's instance of Pages.                                                *)
(***************************************************************************)
EXTENDS Pages, TLC

Symmetry == Permutations(Requests) \cup Permutations(Profiles)
              \cup Permutations(Media) \cup Permutations(Dids)
=============================================================================
