\* AutoScan: the main goroutine starts the reader beside Telegram and an HTTP client.
SPECIFICATION ControlFairSpec
CONSTANTS
  bot = bot  ipc1 = ipc1  ipc2 = ipc2  web = web  main = main  r1 = r1  r2 = r2  r3 = r3
  Callers <- BotWebMain
  Telegram <- TheBot
  Http <- TheWeb
  Ipc <- Nobody
  Main <- TheMain
  Wired <- BotWebMain
  ScanDefault = FALSE
  Loops <- TwoLoops
  NoLoop = NoLoop
INVARIANTS OneReaderLoop CancelNeverLost
PROPERTY StopReturns
