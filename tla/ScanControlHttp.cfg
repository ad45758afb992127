\* One HTTP client.
SPECIFICATION ControlSpec
CONSTANTS
  bot = bot  ipc1 = ipc1  ipc2 = ipc2  web = web  main = main  r1 = r1  r2 = r2  r3 = r3
  Callers <- TheWeb
  Telegram <- Nobody
  Http <- TheWeb
  Ipc <- Nobody
  Main <- Nobody
  Wired <- TheWeb
  ScanDefault = FALSE
  Loops <- TwoLoops
  NoLoop = NoLoop
INVARIANTS ActiveScanHasReader
