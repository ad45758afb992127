\* The UI's own bot and one started by hand, two notices.
SPECIFICATION Spec
CONSTANTS
  own = own  m1 = m1
  Own = own
  Manual <- OneManual
  MaxNotices = 2
INVARIANTS NoBotLeftBehind AloneMeansReachable LastNoticeHolds
PROPERTIES TuiMovesOn
CHECK_DEADLOCK FALSE
