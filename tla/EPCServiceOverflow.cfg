\* Two EPCs through a channel of capacity one, so that it overflows: one worker,
\* the refresh ticker and a reader.
SPECIFICATION FairSpec
CONSTANTS
  e1 = e1  e2 = e2  c1 = c1  c2 = c2  w1 = w1  w2 = w2
  EPC <- TwoEPCs
  NoEPC = NoEPC
  Readers <- First
  Controllers <- Nobody
  Refreshers <- Second
  Webhooks <- Nobody
  Workers <- OneWorker
  QueueSize = 1
  SubmitRetry = 0
  ScanDefault = TRUE
  ERPFails = TRUE
  MaxDrafts = 2
  MaxLate = 0
INVARIANTS QueueBookkeeping
PROPERTIES DraftEventuallyClosed
