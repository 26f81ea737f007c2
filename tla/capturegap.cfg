SPECIFICATION RingSpec
CONSTANTS
  QueueItems = 2
  PacketBytes = 2
  Chunks <- PcmChunks
  MaxBytes = 16
CHECK_DEADLOCK FALSE
INVARIANTS GapWhereDropped
