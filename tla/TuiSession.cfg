\* Two keys and plans of two endpoints.  Without keys the UI waits.
SPECIFICATION FairSpec
CONSTANTS
  PlanLength = 2
  MaxKeys = 2
  MaxSends = 1
INVARIANTS PolledWhileReading ReadingIsAnnounced LiveSessionIsHeard
PROPERTIES LostReaderIsNoticed ConnectEnds
CHECK_DEADLOCK FALSE
