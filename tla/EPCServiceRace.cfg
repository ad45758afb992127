\* One EPC, two workers, two goroutines that make any call.
SPECIFICATION Spec
CONSTANTS
  e1 = e1  e2 = e2  c1 = c1  c2 = c2  w1 = w1  w2 = w2
  EPC <- OneEPC
  NoEPC = NoEPC
  Readers <- FirstTwo
  Controllers <- FirstTwo
  Refreshers <- FirstTwo
  Webhooks <- FirstTwo
  Workers <- TwoWorkers
  QueueSize = 1
  SubmitRetry = 1
  ScanDefault = FALSE
  ERPFails = TRUE
  MaxDrafts = 2
  MaxLate = 1
SYMMETRY WorkerSymmetry
INVARIANTS QueueBookkeeping NoParallelSubmit SubmitsAreLicensed
PROPERTIES NeverOverlooked ImplementsLedger
