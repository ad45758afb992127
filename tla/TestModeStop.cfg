\* One EPC, one chat, one test; Telegram does not fail.
SPECIFICATION Spec
CONSTANTS
  e1 = e1  e2 = e2  a = a  b = b
  EPC <- OneEPC
  Chats <- OneChat
  NoChat = NoChat
  MaxSessions = 1
  TelegramFails = FALSE
INVARIANTS StopRemovesLiveMessages
