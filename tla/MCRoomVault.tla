----------------------------- MODULE MCRoomVault -----------------------------
EXTENDS RoomVault, TLC

CONSTANTS none, small, large

(* One snapshot that fits in one chunk and one that needs two.             *)
MCSnapshots == {none, small, large}
MCChunkCount == none :> 1 @@ small :> 1 @@ large :> 2

=============================================================================
