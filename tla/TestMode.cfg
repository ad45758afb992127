\* Two EPCs, two chats, two tests; Telegram may fail.
SPECIFICATION Spec
CONSTANTS
  e1 = e1  e2 = e2  a = a  b = b
  EPC <- TwoEPCs
  Chats <- TwoChats
  NoChat = NoChat
  MaxSessions = 2
  TelegramFails = TRUE
SYMMETRY Interchangeable
INVARIANTS MessagesAccounted
PROPERTIES OneMessagePerRead OnlyFinishedTestsAreCleaned
