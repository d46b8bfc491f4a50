------------------------- MODULE MCRoomReachability -------------------------
(***************************************************************************)
(* The bounds are numbers and stand in the configurations.                 *)
(***************************************************************************)
EXTENDS RoomReachability

=============================================================================
