\* Two tags, two tag events and two errors in the channels.  A session ends.
SPECIFICATION FairSpec
CONSTANTS
  e1 = e1  e2 = e2
  EPC <- TwoTags
  TagBuffer = 2
  ErrBuffer = 2
INVARIANTS NoSilentInventory DoneIsClosedOnce
PROPERTIES OnlyAFullChannelLoses SessionEnds
CHECK_DEADLOCK FALSE
