CONSTANTS
  none = none
  small = small
  large = large
  Snapshots <- MCSnapshots
  Empty = none
  Generations = {g1, g2, g3}
  ChunkCount <- MCChunkCount
  MaxChunks = 2
  LostReplies = {"chunk", "manifest"}
  Absent = Absent
SPECIFICATION Spec
INVARIANTS TypeOK VaultReadable NoGarbageWithoutFault
PROPERTY ImplementsDurableRooms
