----------------------------- MODULE MCChatRooms -----------------------------
(***************************************************************************)
(* ChatRooms for TLC: ids and slots are interchangeable in the runs that   *)
(* check no liveness.                                                      *)
(***************************************************************************)
EXTENDS ChatRooms, TLC

Symmetry == Permutations(Users) \cup Permutations(Rooms) \cup Permutations(Messages)
              \cup Permutations(Slots)
=============================================================================
