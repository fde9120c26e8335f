------------------------------- MODULE MCAccounts -------------------------------
(***************************************************************************)
(* TLC's instances of Accounts.                                            *)
(***************************************************************************)
EXTENDS Accounts, TLC

\* Dids are not interchangeable where some of them are legacy dids.
Symmetry == Permutations(Personas) \cup Permutations(Prefs)
              \cup Permutations(Links) \cup Permutations(Tokens)
=============================================================================
