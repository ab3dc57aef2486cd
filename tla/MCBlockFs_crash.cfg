CONSTANTS
  DataBlocks <- MCBlocks
  Inodes <- MCInodes
  Names <- MCNames
  EntryLen <- MCEntryLen
  Writes <- MCWrites
  First = "a"
  MaxSyncs = 1
  Sizes <- MCSizes
  BLOCK_SIZE = 2
  DIRECT_BLOCKS = 3
  U32 = 16
  DeviceBlocks = 10
  Lookalikes <- MCLookalikes
  Foreign = {2}
  Cuts = {1}
  MaxOps = 3
SPECIFICATION Spec
INVARIANTS TypeOK OneOwner FreeBlocksExact CleanOnDisk Durable ReadBack LinksCoverNames
