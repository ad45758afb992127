CONSTANTS
  MaxByte = 15
  CrcLow <- Low
  CrcHigh <- High
  Streams <- MCStreams
  ReadSize = 6
  BufferLimit = 21
  BufferKeep = 10
  MaxLost = 1
  QueueSize = 1
  TextLimit = 4
  MaxReadings = 2
SPECIFICATION FairPathSpec
INVARIANTS SinglePass FoundInTime EveryTagIsSeen NoneForgotten OncePerReading
PROPERTY QueueDrains
CHECK_DEADLOCK FALSE
