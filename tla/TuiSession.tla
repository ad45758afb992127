------------------------------ MODULE TuiSession ------------------------------
(***************************************************************************)
(* The session of the terminal UI (internal/tui) with its own reader        *)
(* connection.  Update handles one key or message at a time; everything     *)
(* that waits is a Bubble Tea command: a goroutine whose result comes back  *)
(* as a message, in no particular order and whatever happened meanwhile.    *)
(* Neither commands nor messages have identifiers, so they are counted.     *)
(* A command that changes nothing but its own result is one step with the   *)
(* handler of its message: a failed dial or write, a wait on a channel of    *)
(* the reader.                                                              *)
(*                                                                         *)
(* Left out: screens, cursors and the raw input mode (they decide which     *)
(* keys work, and the user can always get where a key works), texts, the    *)
(* inventory settings, the configuration commands (a failure only changes   *)
(* the status line), the counting of tags, quitting, and the bot's side:    *)
(* the delivery of notices and EPCs, and the polling of its status.         *)
(***************************************************************************)
EXTENDS Naturals

CONSTANTS
  PlanLength, \* endpoints of a connect plan
  MaxKeys,    \* bound: keys the user presses
  MaxSends    \* bound: inventory commands being written

ASSUME PlanAssumption == PlanLength \in Nat \ {0}
ASSUME BoundsAssumption == MaxKeys \in Nat /\ MaxSends \in Nat

VARIABLES
  scanning, pendingConnect, pendingAction, connecting,
  candidates,  \* whether candidates is not empty
  planned,     \* whether connectQueue is not empty
  attempt,     \* connectAttempt
  running,     \* inventoryRunning
  awaiting,    \* awaitingProbe
  notice,      \* the last call of botSyncClient: onStartReading or onStopReading
  session,     \* reader.Client.session and the state of its connection
  waits,       \* whether some waitPacketCmd, waitReaderErrCmd waits on the session's channel
  oldWaits,    \* whether some may be left on channels of earlier sessions or the nil channel
  cmds,        \* commands under way and messages not handled, by kind
  keys         \* keys pressed

planVars  == <<planned, attempt, connecting>>
readVars  == <<running, notice>>
waitVars  == <<waits, oldWaits>>
scanVars  == <<scanning, pendingConnect, candidates>>
vars == <<scanVars, pendingAction, planVars, readVars, awaiting, session, waitVars, cmds, keys>>

\* A reconnect closes, dials and is connected; a disconnect hangs up and has hung up.
Kinds == {"close", "dial", "connected", "hangup", "hungup", "error",
          "tick", "probeTimeout", "probeSend", "inventorySend"}

\* No session; up; cut by Disconnect; its read loop over with the error in the channel,
\* and with the error taken.
SessionStates == {"none", "up", "cut", "failed", "drained"}

Channels == {"packets", "errors"}

\* The model's fields keep their ranges; an attempt is an index of the plan.
TypeOK ==
  /\ scanning \in BOOLEAN /\ pendingConnect \in BOOLEAN /\ candidates \in BOOLEAN
  /\ pendingAction \in {"none", "start", "probe", "raw"}
  /\ planned \in BOOLEAN /\ connecting \in BOOLEAN
  /\ attempt \in 0..(PlanLength - 1)
  /\ running \in BOOLEAN /\ awaiting \in BOOLEAN
  /\ notice \in {"none", "start", "stop"}
  /\ session \in SessionStates
  /\ waits \in SUBSET Channels /\ oldWaits \in SUBSET Channels
  /\ cmds \in [Kinds -> Nat]
  /\ keys \in 0..MaxKeys

\* NewModel and Init: a scan is under way, and the first connection shall start reading.
Init ==
  /\ scanning = TRUE /\ pendingConnect = TRUE /\ candidates = FALSE
  /\ pendingAction = "start"
  /\ planned = FALSE /\ attempt = 0 /\ connecting = FALSE
  /\ running = FALSE /\ notice = "none" /\ awaiting = FALSE
  /\ session = "none"
  /\ waits = {} /\ oldWaits = {}
  /\ cmds = [k \in Kinds |-> 0]
  /\ keys = 0

-----------------------------------------------------------------------------
(* Commands.                                                               *)

One(k, S) == IF k \in S THEN 1 ELSE 0

\* Commands of the kinds new are started.
Issue(new) == cmds' = [k \in Kinds |-> cmds[k] + One(k, new)]

\* A command or message of kind c is done with, and those of the kinds new follow.
Deliver(c, new) ==
  /\ cmds[c] > 0
  /\ cmds' = [k \in Kinds |-> (cmds[k] + One(k, new)) - One(k, {c})]

\* IsConnected
Connected == session # "none"

\* waitPacketCmd, waitReaderErrCmd: on the channel of the present session, or the nil
\* channel, which answers at once like a closed one.
Listen(channels) ==
  IF Connected THEN waits' = waits \cup channels /\ UNCHANGED oldWaits
               ELSE oldWaits' = oldWaits \cup channels /\ UNCHANGED waits

-----------------------------------------------------------------------------
(* The reader client, as the commands use it.                              *)

\* Disconnect closes the connection.
CloseConn == session' = IF session = "up" THEN "cut" ELSE session

\* reconnectCmd: Disconnect.  Its wait for the read loop is left by a time-out, so
\* Connect may come before the session is forgotten.
ReconnectCloses ==
  /\ Deliver("close", {"dial"})
  /\ CloseConn
  /\ UNCHANGED <<scanVars, pendingAction, planVars, readVars, awaiting, waitVars, keys>>

\* Connect: no session before and after the dial; the new one is installed and its
\* read loop started.
ConnectSucceeds ==
  /\ ~Connected
  /\ Deliver("dial", {"connected"})
  /\ session' = "up"
  /\ UNCHANGED <<scanVars, pendingAction, planVars, readVars, awaiting, waitVars, keys>>

\* disconnectCmd.  Closing a connection that Disconnect has closed before is an error,
\* which is only shown.
HangUp ==
  /\ \/ session # "cut" /\ Deliver("hangup", {"hungup"})
     \/ session \notin {"none", "up"} /\ Deliver("hangup", {})
  /\ CloseConn
  /\ UNCHANGED <<scanVars, pendingAction, planVars, readVars, awaiting, waitVars, keys>>

\* readLoop: Read fails, because of Disconnect or of the other side; the error is left
\* in the channel, and the deferred call closes the channels.
ReadFails ==
  /\ session \in {"up", "cut"}
  /\ session' = "failed"
  /\ UNCHANGED <<scanVars, pendingAction, planVars, readVars, awaiting, waitVars, cmds, keys>>

\* Later it clears the session.  An error that somebody waits for is still delivered.
ForgetSession ==
  /\ session \in {"failed", "drained"}
  /\ session' = "none"
  /\ waits' = {} /\ oldWaits' = oldWaits \cup waits
  /\ Issue(IF session = "failed" /\ "errors" \in waits THEN {"error"} ELSE {})
  /\ UNCHANGED <<scanVars, pendingAction, planVars, readVars, awaiting, keys>>

-----------------------------------------------------------------------------
(* Starting, stopping and the connect plan.                                *)

StartReading == running' = TRUE /\ notice' = "start"

\* Every stop tells the bot, if there was something to stop.
StopReading ==
  /\ running' = FALSE
  /\ notice' = IF running THEN "stop" ELSE notice

DropPlan == planned' = FALSE /\ attempt' = 0

\* beginConnectPlan; the plan of at least one candidate is not empty.
BeginPlan == planned' = TRUE /\ attempt' = 0 /\ connecting' = TRUE

\* Mistake: no progress.
NextAttemptSame == attempt' = attempt

\* retryNextConnect has another endpoint, and moves on to it.  When it has none it
\* clears the plan of its own copy of the Model, which its callers drop: the plan stays.
CanRetry == planned /\ attempt + 1 < PlanLength
NextAttempt == attempt' = attempt + 1
Retry ==
  /\ CanRetry
  /\ NextAttempt
  /\ connecting' = TRUE
  /\ UNCHANGED planned

-----------------------------------------------------------------------------
(* Messages.                                                               *)

\* onScanFinished: the scan failed.  pendingAction is left as it is.
ScanFailed ==
  /\ scanning
  /\ scanning' = FALSE /\ pendingConnect' = FALSE /\ connecting' = FALSE
  /\ UNCHANGED <<candidates, pendingAction, planned, attempt, readVars, awaiting, session, waitVars, cmds, keys>>

ScanFoundNothing ==
  /\ scanning
  /\ scanning' = FALSE /\ pendingConnect' = FALSE /\ candidates' = FALSE
  /\ pendingAction' = "none"
  /\ DropPlan /\ connecting' = FALSE
  /\ UNCHANGED <<readVars, awaiting, session, waitVars, cmds, keys>>

ScanFound ==
  /\ scanning
  /\ scanning' = FALSE /\ pendingConnect' = FALSE /\ candidates' = TRUE
  /\ \/ pendingConnect /\ BeginPlan /\ Issue({"close"})
     \/ ~pendingConnect /\ UNCHANGED <<planVars, cmds>>
  /\ UNCHANGED <<pendingAction, readVars, awaiting, session, waitVars, keys>>

\* Connect finds a session or cannot dial; onConnectFinished with the error.
ConnectRefused ==
  /\ \/ /\ Retry
        /\ Deliver("dial", {"close"})
        /\ UNCHANGED pendingAction
     \/ /\ ~CanRetry
        /\ Deliver("dial", {})
        /\ connecting' = FALSE /\ pendingAction' = "none"
        /\ UNCHANGED <<planned, attempt>>
  /\ UNCHANGED <<scanVars, readVars, awaiting, session, waitVars, keys>>

\* The commands that follow a connection, beside the two waits.
AfterConnect ==
  CASE pendingAction = "start" -> {"tick"}
    [] pendingAction = "probe" -> {"probeSend"}
    [] pendingAction = "raw"   -> {}
    [] OTHER                   -> {"probeSend", "probeTimeout"}

\* Mistake: the pending start does not tell the bot.
ConnectFinishedQuietly ==
  /\ Deliver("connected", AfterConnect)
  /\ DropPlan /\ connecting' = FALSE
  /\ Listen(Channels)
  /\ awaiting' = (pendingAction = "none")
  /\ running' = (pendingAction = "start")
  /\ pendingAction' = "none"
  /\ UNCHANGED <<scanVars, notice, session, keys>>

\* onConnectFinished.  A reading that was going on ends without a notice.
ConnectFinished ==
  /\ Deliver("connected", AfterConnect)
  /\ DropPlan /\ connecting' = FALSE
  /\ Listen(Channels)
  /\ awaiting' = (pendingAction = "none")
  /\ running' = (pendingAction = "start")
  /\ notice' = IF pendingAction = "start" THEN "start" ELSE notice
  /\ pendingAction' = "none"
  /\ UNCHANGED <<scanVars, session, keys>>

\* disconnectFinishedMsg
HungUp ==
  /\ Deliver("hungup", {})
  /\ StopReading
  /\ awaiting' = FALSE
  /\ DropPlan /\ connecting' = FALSE
  /\ UNCHANGED <<scanVars, pendingAction, session, waitVars, keys>>

\* inventoryTickMsg: nothing to do any more.
TickIdle ==
  /\ ~running
  /\ Deliver("tick", {})
  /\ UNCHANGED <<scanVars, pendingAction, planVars, readVars, awaiting, session, waitVars, keys>>

\* Mistake: wait for the reader to come back.
TickUnconnectedWaits ==
  /\ running /\ ~Connected
  /\ Deliver("tick", {"tick"})
  /\ UNCHANGED <<scanVars, pendingAction, planVars, readVars, awaiting, session, waitVars, keys>>

\* The reader is gone.
TickUnconnected ==
  /\ running /\ ~Connected
  /\ Deliver("tick", {})
  /\ StopReading
  /\ UNCHANGED <<scanVars, pendingAction, planVars, awaiting, session, waitVars, keys>>

\* Mistake: the timer is not set again.
TickRoundOnce ==
  /\ running /\ Connected
  /\ cmds["inventorySend"] < MaxSends
  /\ Deliver("tick", {"inventorySend"})
  /\ UNCHANGED <<scanVars, pendingAction, planVars, readVars, awaiting, session, waitVars, keys>>

\* One more round.  The second command of every sixth round is left out: it succeeds or
\* fails like that of the next round.
TickRound ==
  /\ running /\ Connected
  /\ cmds["inventorySend"] < MaxSends
  /\ Deliver("tick", {"inventorySend", "tick"})
  /\ UNCHANGED <<scanVars, pendingAction, planVars, readVars, awaiting, session, waitVars, keys>>

\* sendNamedCmdSilent of an inventory command: only a failure is a message.
InventorySent ==
  /\ Connected
  /\ Deliver("inventorySend", {})
  /\ UNCHANGED <<scanVars, pendingAction, planVars, readVars, awaiting, session, waitVars, keys>>

InventorySendFails ==
  /\ Deliver("inventorySend", {})
  /\ StopReading
  /\ UNCHANGED <<scanVars, pendingAction, planVars, awaiting, session, waitVars, keys>>

\* commandSentMsg of probe-info: awaitingProbe is set when the send is reported,
\* be the answer there already or not.
ProbeSent ==
  /\ Deliver("probeSend", {})
  /\ awaiting' \in {awaiting, TRUE}
  /\ UNCHANGED <<scanVars, pendingAction, planVars, readVars, session, waitVars, keys>>

\* probeTimeoutMsg
ProbeTimeoutIgnored ==
  /\ ~awaiting \/ running
  /\ Deliver("probeTimeout", {})
  /\ UNCHANGED <<scanVars, pendingAction, planVars, readVars, awaiting, session, waitVars, keys>>

ProbeTimeout ==
  /\ awaiting /\ ~running
  /\ awaiting' = FALSE
  /\ \/ Retry /\ Deliver("probeTimeout", {"close"})
     \/ ~CanRetry /\ Deliver("probeTimeout", {"hangup"}) /\ UNCHANGED planVars
  /\ UNCHANGED <<scanVars, pendingAction, readVars, session, waitVars, keys>>

\* handleProtocolFrame, for the frames of a packet: one of an inventory or with the
\* reader info answers the probe.
HandleFrames == awaiting' \in {awaiting, FALSE}

\* Mistake: no further wait.
PacketMsgLast ==
  /\ "packets" \in waits
  /\ waits' = waits \ {"packets"}
  /\ HandleFrames
  /\ UNCHANGED <<scanVars, pendingAction, planVars, readVars, session, oldWaits, cmds, keys>>

\* packetMsg
PacketMsg ==
  /\ "packets" \in waits
  /\ Listen({"packets"})
  /\ HandleFrames
  /\ UNCHANGED <<scanVars, pendingAction, planVars, readVars, session, cmds, keys>>

\* A packet of an earlier session that was still in its channel.
OldPacketMsg ==
  /\ "packets" \in oldWaits
  /\ Listen({"packets"})
  /\ HandleFrames
  /\ UNCHANGED <<scanVars, pendingAction, planVars, readVars, session, cmds, keys>>

\* packetChannelClosedMsg, readerErrChannelClosedMsg: an old wait becomes one on the
\* present session, or ends.
ChannelClosed(channel) ==
  /\ channel \in oldWaits
  /\ Connected
  /\ Listen({channel})
  /\ UNCHANGED <<scanVars, pendingAction, planVars, readVars, awaiting, session, cmds, keys>>

\* readerErrMsg while the failed session is not yet forgotten, and while another one has
\* taken its place: nothing but the next wait.
ReaderErrEarly ==
  /\ session = "failed"
  /\ "errors" \in waits
  /\ session' = "drained"
  /\ UNCHANGED <<scanVars, pendingAction, planVars, readVars, awaiting, waitVars, cmds, keys>>

ReaderErrLate ==
  /\ Connected
  /\ Deliver("error", {})
  /\ Listen({"errors"})
  /\ UNCHANGED <<scanVars, pendingAction, planVars, readVars, awaiting, session, keys>>

\* readerErrMsg when the client is not connected.  A retry of the plan does not wait for
\* errors again.
ReaderErr ==
  /\ ~Connected
  /\ StopReading /\ awaiting' = FALSE
  /\ \/ /\ ~connecting /\ Retry
        /\ Deliver("error", {"close"})
        /\ UNCHANGED waitVars
     \/ /\ connecting \/ ~CanRetry
        /\ Deliver("error", {})
        /\ connecting' = FALSE /\ UNCHANGED <<planned, attempt>>
        /\ Listen({"errors"})
  /\ UNCHANGED <<scanVars, pendingAction, session, keys>>

-----------------------------------------------------------------------------
(* Keys.                                                                   *)

Press == keys < MaxKeys /\ keys' = keys + 1

\* runScanCmd, or the one under way, with a connection to follow.
ScanThenConnect ==
  /\ scanning' = TRUE /\ pendingConnect' = TRUE
  /\ UNCHANGED <<candidates, cmds>>

\* requestConnectionForAction: connect first, act on connectFinishedMsg.
RequestConnection(action) ==
  /\ Press
  /\ ~Connected
  /\ pendingAction' = action
  /\ \/ candidates /\ BeginPlan /\ Issue({"close"}) /\ UNCHANGED scanVars
     \/ ~candidates /\ ScanThenConnect /\ UNCHANGED planVars
  /\ UNCHANGED <<readVars, awaiting, session, waitVars>>

\* The reader was connected between the look of runControlAction and this one: the action
\* is left to the connectFinishedMsg that is on its way.
RequestWhileConnecting(action) ==
  /\ Press
  /\ cmds["connected"] > 0
  /\ pendingAction' = action
  /\ UNCHANGED <<scanVars, planVars, readVars, awaiting, session, waitVars, cmds>>

\* runControlAction: Start, Stop, Probe, Disconnect, Rescan.
KeyStart ==
  /\ Press
  /\ Connected /\ ~running
  /\ StartReading
  /\ Issue({"tick"})
  /\ UNCHANGED <<scanVars, pendingAction, planVars, awaiting, session, waitVars>>

KeyStop ==
  /\ Press
  /\ running
  /\ StopReading
  /\ UNCHANGED <<scanVars, pendingAction, planVars, awaiting, session, waitVars, cmds>>

KeyProbe ==
  /\ Press
  /\ Connected
  /\ Issue({"probeSend"})
  /\ UNCHANGED <<scanVars, pendingAction, planVars, readVars, awaiting, session, waitVars>>

KeyDisconnect ==
  /\ Press
  /\ Connected
  /\ Issue({"hangup"})
  /\ UNCHANGED <<scanVars, pendingAction, planVars, readVars, awaiting, session, waitVars>>

KeyRescan ==
  /\ Press
  /\ ScanThenConnect
  /\ DropPlan
  /\ UNCHANGED <<pendingAction, connecting, readVars, awaiting, session, waitVars>>

\* runQuickConnect
KeyQuickConnect ==
  /\ Press
  /\ \/ (scanning \/ ~candidates) /\ ScanThenConnect /\ UNCHANGED planVars
     \/ ~scanning /\ candidates /\ BeginPlan /\ Issue({"close"}) /\ UNCHANGED scanVars
  /\ UNCHANGED <<pendingAction, readVars, awaiting, session, waitVars>>

\* The devices page: scan, connect the selected device.
KeyScan ==
  /\ Press
  /\ ~scanning
  /\ scanning' = TRUE /\ pendingConnect' = FALSE
  /\ DropPlan
  /\ UNCHANGED <<candidates, pendingAction, connecting, readVars, awaiting, session, waitVars, cmds>>

KeyConnectSelected ==
  /\ Press
  /\ candidates
  /\ BeginPlan
  /\ Issue({"close"})
  /\ UNCHANGED <<scanVars, pendingAction, readVars, awaiting, session, waitVars>>

-----------------------------------------------------------------------------
(* The specification.                                                      *)

Keys ==
  \/ \E a \in {"start", "probe", "raw"} : RequestConnection(a) \/ RequestWhileConnecting(a)
  \/ KeyStart \/ KeyStop \/ KeyProbe \/ KeyDisconnect \/ KeyRescan
  \/ KeyQuickConnect \/ KeyScan \/ KeyConnectSelected

ScanResult == ScanFailed \/ ScanFoundNothing \/ ScanFound
Dial == ConnectRefused \/ ConnectSucceeds
ConnectStep == ReconnectCloses \/ Dial \/ ConnectFinished
Tick == TickIdle \/ TickUnconnected \/ TickRound
Write == InventorySent \/ InventorySendFails
ProbeExpires == ProbeTimeoutIgnored \/ ProbeTimeout

Next ==
  \/ Keys
  \/ ScanResult \/ ConnectStep \/ HangUp \/ HungUp
  \/ Tick \/ Write \/ ProbeSent \/ ProbeExpires
  \/ ReadFails \/ ForgetSession
  \/ PacketMsg \/ OldPacketMsg \/ ReaderErrEarly \/ ReaderErrLate \/ ReaderErr
  \/ \E c \in Channels : ChannelClosed(c)

Spec == Init /\ [][Next]_vars

\* Commands are goroutines that end by a result or a time-out, and Update gets round
\* to every message; what the properties need of that is that connects go on and ticks
\* are handled.  Neither keys nor packets nor failures of the other side are promised.
Fairness == WF_vars(ConnectStep) /\ WF_vars(Tick)

FairSpec == Spec /\ Fairness

-----------------------------------------------------------------------------
(* Properties.                                                             *)

\* A reading is polled: while inventoryRunning is set a tick is under way, although
\* any number of handlers start and stop readings while old ticks are still to come.
PolledWhileReading == running => cmds["tick"] > 0

\* While the UI reads, the last thing the bot was told is that it does: a stop that
\* was meant for an earlier reading is never the last word.
ReadingIsAnnounced == running => notice = "start"

\* A connected reader is listened to, for packets and for errors, from the moment its
\* connectFinishedMsg is handled, whichever of the overlapping connects, closed
\* channels and late packets came first.
LiveSessionIsHeard == session = "up" => cmds["connected"] > 0 \/ waits = Channels

\* A reading does not outlive its reader, even when the read error was handled while
\* the session was not yet forgotten and so went unnoticed: the next tick stops it.
LostReaderIsNoticed == running /\ ~Connected ~> ~running \/ Connected

\* "connecting" does not last: every plan ends with a connection or after its last
\* endpoint, also when plans, rescans and stale results overlap.
ConnectEnds == connecting ~> ~connecting
=============================================================================
