------------------------------ MODULE MCChatRooms ------------------------------
(***************************************************************************)
(* TLC's instances of ChatRooms.                                           *)
(***************************************************************************)
EXTENDS ChatRooms, TLC

Symmetry == Permutations(Servers) \cup Permutations(Rooms)
              \cup Permutations(Personas)
=============================================================================
