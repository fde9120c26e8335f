----------------------------- MODULE MCChatMessages -----------------------------
(***************************************************************************)
(* TLC's instances of ChatMessages.                                        *)
(***************************************************************************)
EXTENDS ChatMessages, TLC

Symmetry == Permutations(Servers) \cup Permutations(Rooms) \cup Permutations(Messages)
              \cup Permutations(Personas)
=============================================================================
