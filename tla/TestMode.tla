------------------------------ MODULE TestMode ------------------------------
(***************************************************************************)
(* The /test mode of the Telegram bot: a chat uploads a list of EPCs, every *)
(* EPC of it that is read is announced once with a live message, and        *)
(* /test_stop removes the live messages and reports the result.             *)
(*                                                                         *)
(* Three kinds of goroutines meet here: the Telegram poller, which handles  *)
(* one update at a time; the reader, which records reads; and one goroutine *)
(* for every announced EPC, which sends its message while the test may be   *)
(* stopped or replaced.  The state is that of testmode.Manager and the      *)
(* references testReadRefs of the bot, each behind a mutex of its own.      *)
(*                                                                         *)
(* Left out: the parsing of the file (its result is a nonempty set of       *)
(* EPCs), the user's own messages, the text of the messages.                *)
(***************************************************************************)
EXTENDS Naturals, FiniteSets

CONSTANTS
  EPC, Chats,
  NoChat,         \* ownerChatID = 0
  MaxSessions,    \* bound: files loaded
  TelegramFails   \* whether calls of the Telegram API may fail

ASSUME TestModeAssumption ==
  /\ NoChat \notin Chats
  /\ MaxSessions \in Nat \ {0}
  /\ TelegramFails \in BOOLEAN

Sessions == 1..MaxSessions
Messages == Sessions \X EPC

VARIABLES
  awaiting, owner,     \* Manager.awaitingFile, ownerChatID
  active, session,     \* Manager.active, sessionID
  expected, read,      \* Manager.expected, read
  chatOf,              \* the chat a test's matches carry (MatchResult.ChatID)
  refs,                \* Bot.testReadRefs
  prompts,             \* the chats with a prompt message (Bot.testPrompts)
  bpc, who, todo,      \* the poller: its place, the chat it serves, messages to delete
  sender,              \* the goroutines sendTestMatch, by message
  shown,               \* live messages in the chats
  stopped,             \* history: tests ended by /test_stop
  lost                 \* history: messages nobody will remove: their reference was
                       \* wiped by a new file, or a Telegram call for them failed

managerVars == <<awaiting, owner, active, session, expected, read, chatOf>>
pollerVars  == <<bpc, who, todo, prompts>>
vars == <<managerVars, refs, pollerVars, sender, shown, stopped, lost>>

\* Everything stays in its range; what was read was expected, so that the result
\* of /test_stop never counts more reads than EPCs.
TypeOK ==
  /\ awaiting \in BOOLEAN /\ active \in BOOLEAN
  /\ owner \in Chats \cup {NoChat}
  /\ session \in 0..MaxSessions
  /\ expected \in SUBSET EPC /\ read \in SUBSET expected
  /\ chatOf \in [Sessions -> Chats \cup {NoChat}]
  /\ refs \in [Sessions -> SUBSET EPC]
  /\ prompts \in SUBSET Chats
  /\ bpc \in {"idle", "fetch", "clear", "take", "delete", "prompt"}
  /\ who \in Chats \cup {NoChat}
  /\ todo \in SUBSET Messages
  /\ sender \in [Messages -> {"none", "check", "send", "recheck", "append", "retract", "done"}]
  /\ shown \in SUBSET Messages
  /\ stopped \in SUBSET Sessions
  /\ lost \in SUBSET Messages

Init ==
  /\ awaiting = FALSE /\ owner = NoChat
  /\ active = FALSE /\ session = 0
  /\ expected = {} /\ read = {}
  /\ chatOf = [s \in Sessions |-> NoChat]
  /\ refs = [s \in Sessions |-> {}]
  /\ prompts = {}
  /\ bpc = "idle" /\ who = NoChat /\ todo = {}
  /\ sender = [m \in Messages |-> "none"]
  /\ shown = {} /\ stopped = {} /\ lost = {}

\* IsSessionActive
IsSessionActive(s) == active /\ session = s

\* IsAwaitingFile
IsAwaitingFile(c) == awaiting /\ owner \in {NoChat, c}

-----------------------------------------------------------------------------
(* The poller: /test and the file.                                         *)

\* /test: whatever was there is forgotten, the test of another chat too.  The
\* command may carry the file.
RequestFile(c) ==
  /\ bpc = "idle"
  /\ awaiting' = TRUE /\ owner' = c
  /\ active' = FALSE
  /\ expected' = {} /\ read' = {}
  /\ who' = c
  /\ bpc' \in {"fetch", "prompt"}
  /\ UNCHANGED <<session, chatOf, refs, todo, prompts, sender, shown, stopped, lost>>

\* A document from a chat that is expected to send one.
FileArrives(c) ==
  /\ bpc = "idle"
  /\ IsAwaitingFile(c)
  /\ who' = c
  /\ bpc' = "fetch"
  /\ UNCHANGED <<managerVars, refs, todo, prompts, sender, shown, stopped, lost>>

\* The file cannot be fetched or holds no EPC: the chat may send another one.
UploadFails ==
  /\ bpc = "fetch"
  /\ bpc' = "prompt"
  /\ UNCHANGED <<managerVars, refs, who, todo, prompts, sender, shown, stopped, lost>>

\* Mistake: a new file goes on under the number of the test before it.
LoadFileSameSession(S) ==
  /\ bpc = "fetch"
  /\ awaiting' = FALSE /\ owner' = who
  /\ active' = TRUE
  /\ session' = IF session = 0 THEN 1 ELSE session
  /\ expected' = S /\ read' = {}
  /\ chatOf' = [chatOf EXCEPT ![session'] = who]
  /\ bpc' = "clear"
  /\ UNCHANGED <<refs, who, todo, prompts, sender, shown, stopped, lost>>

\* LoadFile: a new test with the EPCs S.
LoadFile(S) ==
  /\ bpc = "fetch"
  /\ session < MaxSessions
  /\ awaiting' = FALSE /\ owner' = who
  /\ active' = TRUE
  /\ session' = session + 1
  /\ expected' = S /\ read' = {}
  /\ chatOf' = [chatOf EXCEPT ![session + 1] = who]
  /\ bpc' = "clear"
  /\ UNCHANGED <<refs, who, todo, prompts, sender, shown, stopped, lost>>

\* clearTestReadRefsForChat: the references of the chat go, those the new test
\* already has too; their messages stay in the chat.
ClearTestReadRefs ==
  LET mine == {s \in Sessions : chatOf[s] = who} IN
  /\ bpc = "clear"
  /\ refs' = [s \in Sessions |-> IF s \in mine THEN {} ELSE refs[s]]
  /\ lost' = lost \cup {m \in Messages : m[1] \in mine /\ m[2] \in refs[m[1]]}
  /\ bpc' = "prompt"
  /\ UNCHANGED <<managerVars, who, todo, prompts, sender, shown, stopped>>

\* sendOrEditTestPrompt, and the prompt of /test: the prompt is edited, or a new
\* one is sent and remembered, or neither works.
Prompt ==
  /\ bpc = "prompt"
  /\ \/ who \in prompts /\ UNCHANGED prompts
     \/ prompts' = prompts \cup {who}
     \/ TelegramFails /\ UNCHANGED prompts
  /\ bpc' = "idle"
  /\ UNCHANGED <<managerVars, refs, who, todo, sender, shown, stopped, lost>>

-----------------------------------------------------------------------------
(* The poller: /test_stop.                                                 *)

\* Stop: only the chat of an active test; otherwise the command is refused.
StopTest(c) ==
  /\ bpc = "idle"
  /\ active /\ owner \in {NoChat, c}
  /\ active' = FALSE /\ awaiting' = FALSE
  /\ expected' = {} /\ read' = {}
  /\ who' = c
  /\ stopped' = stopped \cup {session}
  /\ bpc' = "take"
  /\ UNCHANGED <<owner, session, chatOf, refs, todo, prompts, sender, shown, lost>>

TakeTestReadRefs ==
  /\ bpc = "take"
  /\ todo' = {session} \X refs[session]
  /\ refs' = [refs EXCEPT ![session] = {}]
  /\ bpc' = "delete"
  /\ UNCHANGED <<managerVars, who, prompts, sender, shown, stopped, lost>>

\* deleteMessage: when it fails nobody tries again.
DeleteMessage(m) ==
  \/ shown' = shown \ {m} /\ UNCHANGED lost
  \/ TelegramFails /\ lost' = lost \cup {m} /\ UNCHANGED shown

DeleteRead(m) ==
  /\ bpc = "delete"
  /\ m \in todo
  /\ todo' = todo \ {m}
  /\ DeleteMessage(m)
  /\ UNCHANGED <<managerVars, refs, bpc, who, prompts, sender, stopped>>

DeletesDone ==
  /\ bpc = "delete"
  /\ todo = {}
  /\ bpc' = "prompt"
  /\ UNCHANGED <<managerVars, refs, who, todo, prompts, sender, shown, stopped, lost>>

-----------------------------------------------------------------------------
(* The reader and the goroutines it starts.                                *)

\* Mistake: a read is announced every time.
RecordReadAgain(e) ==
  /\ active /\ e \in expected
  /\ read' = read \cup {e}
  /\ sender' = [sender EXCEPT ![<<session, e>>] = "check"]
  /\ UNCHANGED <<awaiting, owner, active, session, expected, chatOf, refs, pollerVars,
                 shown, stopped, lost>>

\* OnReaderEPC: the first read of an expected EPC starts a goroutine.
RecordRead(e) ==
  /\ active /\ e \in expected \ read
  /\ read' = read \cup {e}
  /\ sender' = [sender EXCEPT ![<<session, e>>] = "check"]
  /\ UNCHANGED <<awaiting, owner, active, session, expected, chatOf, refs, pollerVars,
                 shown, stopped, lost>>

SenderGoto(m, from, to) ==
  /\ sender[m] = from
  /\ sender' = [sender EXCEPT ![m] = to]

\* sendTestMatch: nothing is sent for a test that is over.
CheckBefore(m) ==
  /\ SenderGoto(m, "check", IF IsSessionActive(m[1]) THEN "send" ELSE "done")
  /\ UNCHANGED <<managerVars, refs, pollerVars, shown, stopped, lost>>

SendMatch(m) ==
  /\ SenderGoto(m, "send", "recheck")
  /\ shown' = shown \cup {m}
  /\ UNCHANGED <<managerVars, refs, pollerVars, stopped, lost>>

\* The request fails, or its answer is lost: the message may be there.
SendMatchFails(m) ==
  /\ TelegramFails
  /\ SenderGoto(m, "send", "done")
  /\ \/ shown' = shown \cup {m} /\ lost' = lost \cup {m}
     \/ UNCHANGED <<shown, lost>>
  /\ UNCHANGED <<managerVars, refs, pollerVars, stopped>>

\* The test may have been stopped while the message was being sent.
CheckAfter(m) ==
  /\ SenderGoto(m, "recheck", IF IsSessionActive(m[1]) THEN "append" ELSE "retract")
  /\ UNCHANGED <<managerVars, refs, pollerVars, shown, stopped, lost>>

Retract(m) ==
  /\ SenderGoto(m, "retract", "done")
  /\ DeleteMessage(m)
  /\ UNCHANGED <<managerVars, refs, pollerVars, stopped>>

\* Mistake: the reference replaces the ones before it.
AppendOverwrites(m) ==
  /\ SenderGoto(m, "append", "done")
  /\ refs' = [refs EXCEPT ![m[1]] = {m[2]}]
  /\ UNCHANGED <<managerVars, pollerVars, shown, stopped, lost>>

\* appendTestReadRef, whatever has become of the test since the check.
AppendTestReadRef(m) ==
  /\ SenderGoto(m, "append", "done")
  /\ refs' = [refs EXCEPT ![m[1]] = @ \cup {m[2]}]
  /\ UNCHANGED <<managerVars, pollerVars, shown, stopped, lost>>

-----------------------------------------------------------------------------
(* The specification.                                                      *)

\* handleUpdate and what its handlers go on with.
Poller ==
  \/ \E c \in Chats : RequestFile(c) \/ FileArrives(c) \/ StopTest(c)
  \/ \E S \in SUBSET EPC \ {{}} : LoadFile(S)
  \/ UploadFails \/ ClearTestReadRefs \/ Prompt \/ TakeTestReadRefs \/ DeletesDone
  \/ \E m \in Messages : DeleteRead(m)

SendTestMatch(m) ==
  \/ CheckBefore(m) \/ SendMatch(m) \/ SendMatchFails(m) \/ CheckAfter(m)
  \/ Retract(m) \/ AppendTestReadRef(m)

Next ==
  \/ Poller
  \/ \E e \in EPC : RecordRead(e)
  \/ \E m \in Messages : SendTestMatch(m)

Spec == Init /\ [][Next]_vars

-----------------------------------------------------------------------------
(* Properties.                                                             *)

\* Somebody still has the message in hand: its goroutine, or the poller that
\* is about to delete it.
InHand(m) == sender[m] \in {"recheck", "append", "retract"} \/ m \in todo

\* Every live message in a chat is in hand or referenced, unless a failed call
\* of Telegram or a new file made the bot forget it: neither the stop racing
\* the senders nor the senders racing each other lose a reference.
MessagesAccounted ==
  \A m \in shown \ lost : InHand(m) \/ m[2] \in refs[m[1]]

\* README 4.11 rule 6: an EPC of a test is announced once, however often it is
\* read, and whatever tests came before.
OneMessagePerRead ==
  [][\A m \in Messages : sender'[m] = "check" => sender[m] \in {"none", "check"}]_vars

\* A live message disappears only once its test is over: neither a late
\* goroutine of an earlier test nor the stop of one removes a message of the
\* running test.
OnlyFinishedTestsAreCleaned ==
  [][\A m \in shown \ shown' : ~IsSessionActive(m[1])]_vars

\* README 4.11 rule 8 says that /test_stop removes the live messages: when the
\* poller is idle and no goroutine is at work for a test that was stopped, none
\* of its messages is left.
StopRemovesLiveMessages ==
  \A s \in stopped :
    bpc = "idle" /\ (\A e \in EPC : sender[<<s, e>>] \in {"none", "done"})
      => \A e \in EPC : <<s, e>> \notin shown
=============================================================================
