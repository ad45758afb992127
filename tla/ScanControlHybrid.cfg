\* The hybrid backend: Telegram and two IPC connections, all with the scanner.
SPECIFICATION ControlSpec
CONSTANTS
  bot = bot  ipc1 = ipc1  ipc2 = ipc2  web = web  main = main  r1 = r1  r2 = r2  r3 = r3
  Callers <- BotAndIpcs
  Telegram <- TheBot
  Http <- Nobody
  Ipc <- TwoIpcs
  Main <- Nobody
  Wired <- BotAndIpcs
  ScanDefault = TRUE
  Loops <- ThreeLoops
  NoLoop = NoLoop
SYMMETRY IpcsAndLoops
INVARIANTS ControlTypeOK ActiveScanHasReader RetuneIsInForce
