--------------------------- MODULE TuiSessionProofs ---------------------------
(***************************************************************************)
(* TuiSession keeps its types, polls and announces every reading and        *)
(* listens to every live session, for plans of any length and any number of *)
(* keys.                                                                    *)
(***************************************************************************)
EXTENDS TuiSession, TLAPS

Inv == TypeOK /\ PolledWhileReading /\ ReadingIsAnnounced /\ LiveSessionIsHeard

USE PlanAssumption, BoundsAssumption DEF planVars, readVars, waitVars, scanVars

\* Starting commands takes none away.
LEMMA IssueAdds ==
  ASSUME cmds \in [Kinds -> Nat], NEW new, Issue(new)
  PROVE  /\ cmds' \in [Kinds -> Nat]
         /\ \A k \in Kinds : cmds'[k] >= cmds[k] /\ (k \in new => cmds'[k] > 0)
BY DEF Issue, One

\* Handling a message takes away one of its own kind only, and what follows is there.
LEMMA DeliverTakesOne ==
  ASSUME cmds \in [Kinds -> Nat], NEW c \in Kinds, NEW new, Deliver(c, new)
  PROVE  /\ cmds' \in [Kinds -> Nat]
         /\ \A k \in Kinds : (k # c => cmds'[k] >= cmds[k]) /\ (k \in new => cmds'[k] > 0)
BY DEF Deliver, One

\* The initial states satisfy the inductive invariant.
LEMMA InitInv == Init => Inv
<1> SUFFICES ASSUME Init PROVE Inv
    OBVIOUS
<1>1. attempt \in 0..(PlanLength - 1) /\ keys \in 0..MaxKeys
  BY DEF Init
<1>2. cmds \in [Kinds -> Nat]
  BY DEF Init
<1>3. TypeOK
  BY <1>1, <1>2 DEF Init, TypeOK, SessionStates
<1>4. PolledWhileReading /\ ReadingIsAnnounced /\ LiveSessionIsHeard
  BY DEF Init, PolledWhileReading, ReadingIsAnnounced, LiveSessionIsHeard
<1> QED BY <1>3, <1>4 DEF Inv

\* The steps of the reader client keep the inductive invariant.
LEMMA ClientInv ==
  ASSUME Inv,
         ReconnectCloses \/ ConnectSucceeds \/ HangUp \/ ReadFails \/ ForgetSession
  PROVE  Inv'
<1> USE DEF Inv
<1>0. cmds \in [Kinds -> Nat] /\ {"tick", "connected"} \subseteq Kinds
  BY DEF TypeOK, Kinds
<1>1. CASE ReconnectCloses
  <2>1. "close" \in Kinds
    BY DEF Kinds
  <2>2. cmds' \in [Kinds -> Nat]
    BY <1>0, <1>1, <2>1, DeliverTakesOne DEF ReconnectCloses
  <2>3. TypeOK'
    BY <1>1, <2>2 DEF ReconnectCloses, CloseConn, TypeOK, SessionStates
  <2>4. PolledWhileReading' /\ ReadingIsAnnounced' /\ LiveSessionIsHeard'
    BY <1>0, <1>1, <2>1, DeliverTakesOne DEF ReconnectCloses, CloseConn, TypeOK, PolledWhileReading, ReadingIsAnnounced, LiveSessionIsHeard
  <2> QED BY <2>3, <2>4
<1>2. CASE ConnectSucceeds
  <2>1. "dial" \in Kinds
    BY DEF Kinds
  <2>2. cmds' \in [Kinds -> Nat]
    BY <1>0, <1>2, <2>1, DeliverTakesOne DEF ConnectSucceeds
  <2>3. TypeOK'
    BY <1>2, <2>2 DEF ConnectSucceeds, TypeOK, SessionStates
  <2>4. PolledWhileReading' /\ ReadingIsAnnounced' /\ LiveSessionIsHeard'
    BY <1>0, <1>2, <2>1, DeliverTakesOne DEF ConnectSucceeds, TypeOK, PolledWhileReading, ReadingIsAnnounced, LiveSessionIsHeard
  <2> QED BY <2>3, <2>4
<1>3. CASE HangUp
  <2>1. "hangup" \in Kinds
    BY DEF Kinds
  <2>2. cmds' \in [Kinds -> Nat]
    BY <1>0, <1>3, <2>1, DeliverTakesOne DEF HangUp
  <2>3. TypeOK'
    BY <1>3, <2>2 DEF HangUp, CloseConn, TypeOK, SessionStates
  <2>4. PolledWhileReading' /\ ReadingIsAnnounced' /\ LiveSessionIsHeard'
    BY <1>0, <1>3, <2>1, DeliverTakesOne DEF HangUp, CloseConn, TypeOK, PolledWhileReading, ReadingIsAnnounced, LiveSessionIsHeard
  <2> QED BY <2>3, <2>4
<1>4. CASE ReadFails
  <2>1. TypeOK'
    BY <1>4 DEF ReadFails, TypeOK, SessionStates
  <2>2. PolledWhileReading' /\ ReadingIsAnnounced' /\ LiveSessionIsHeard'
    BY <1>0, <1>4 DEF ReadFails, TypeOK, PolledWhileReading, ReadingIsAnnounced, LiveSessionIsHeard
  <2> QED BY <2>1, <2>2
<1>5. CASE ForgetSession
  <2>1. cmds' \in [Kinds -> Nat]
    BY <1>0, <1>5, IssueAdds DEF ForgetSession, TypeOK
  <2>2. TypeOK'
    BY <1>5, <2>1 DEF ForgetSession, TypeOK, SessionStates
  <2>3. PolledWhileReading' /\ ReadingIsAnnounced' /\ LiveSessionIsHeard'
    BY <1>0, <1>5, IssueAdds DEF ForgetSession, TypeOK, PolledWhileReading, ReadingIsAnnounced, LiveSessionIsHeard
  <2> QED BY <2>2, <2>3
<1> QED BY <1>1, <1>2, <1>3, <1>4, <1>5

\* The results of scans, connects and disconnects keep the inductive invariant.
LEMMA ConnectInv ==
  ASSUME Inv,
         ScanFailed \/ ScanFoundNothing \/ ScanFound \/ ConnectRefused \/
         ConnectFinished \/ HungUp
  PROVE  Inv'
<1> USE DEF Inv
<1>0. cmds \in [Kinds -> Nat] /\ {"tick", "connected"} \subseteq Kinds
  BY DEF TypeOK, Kinds
<1>1. CASE ScanFailed
  <2>1. TypeOK'
    BY <1>1 DEF ScanFailed, TypeOK, SessionStates
  <2>2. PolledWhileReading' /\ ReadingIsAnnounced' /\ LiveSessionIsHeard'
    BY <1>0, <1>1 DEF ScanFailed, TypeOK, PolledWhileReading, ReadingIsAnnounced, LiveSessionIsHeard
  <2> QED BY <2>1, <2>2
<1>2. CASE ScanFoundNothing
  <2>1. attempt' \in 0..(PlanLength - 1) /\ keys' \in 0..MaxKeys
    BY <1>2 DEF ScanFoundNothing, DropPlan, TypeOK
  <2>2. TypeOK'
    BY <1>2, <2>1 DEF ScanFoundNothing, DropPlan, TypeOK, SessionStates
  <2>3. PolledWhileReading' /\ ReadingIsAnnounced' /\ LiveSessionIsHeard'
    BY <1>0, <1>2 DEF ScanFoundNothing, DropPlan, TypeOK, PolledWhileReading, ReadingIsAnnounced, LiveSessionIsHeard
  <2> QED BY <2>2, <2>3
<1>3. CASE ScanFound
  <2>1. cmds' \in [Kinds -> Nat]
    BY <1>0, <1>3, IssueAdds DEF ScanFound, TypeOK
  <2>2. attempt' \in 0..(PlanLength - 1) /\ keys' \in 0..MaxKeys
    BY <1>3 DEF ScanFound, BeginPlan, TypeOK
  <2>3. TypeOK'
    BY <1>3, <2>1, <2>2 DEF ScanFound, BeginPlan, TypeOK, SessionStates
  <2>4. PolledWhileReading' /\ ReadingIsAnnounced' /\ LiveSessionIsHeard'
    BY <1>0, <1>3, IssueAdds DEF ScanFound, BeginPlan, TypeOK, PolledWhileReading, ReadingIsAnnounced, LiveSessionIsHeard
  <2> QED BY <2>3, <2>4
<1>4. CASE ConnectRefused
  <2>1. "dial" \in Kinds
    BY DEF Kinds
  <2>2. cmds' \in [Kinds -> Nat]
    BY <1>0, <1>4, <2>1, DeliverTakesOne DEF ConnectRefused
  <2>3. attempt' \in 0..(PlanLength - 1) /\ keys' \in 0..MaxKeys
    BY <1>4 DEF ConnectRefused, Retry, CanRetry, NextAttempt, TypeOK
  <2>4. TypeOK'
    <3>1. /\ scanning' \in BOOLEAN /\ pendingConnect' \in BOOLEAN /\ candidates' \in BOOLEAN
          /\ pendingAction' \in {"none", "start", "probe", "raw"}
          /\ planned' \in BOOLEAN /\ connecting' \in BOOLEAN
      BY <1>4 DEF ConnectRefused, Retry, CanRetry, NextAttempt, TypeOK, SessionStates
    <3>2. /\ running' \in BOOLEAN /\ awaiting' \in BOOLEAN
          /\ notice' \in {"none", "start", "stop"}
          /\ session' \in SessionStates
          /\ waits' \in SUBSET Channels /\ oldWaits' \in SUBSET Channels
      BY <1>4 DEF ConnectRefused, Retry, CanRetry, NextAttempt, TypeOK, SessionStates
    <3>3. attempt' \in 0..(PlanLength - 1) /\ keys' \in 0..MaxKeys
      BY <1>4, <2>2, <2>3 DEF ConnectRefused, Retry, CanRetry, NextAttempt, TypeOK, SessionStates
    <3> QED BY <2>2, <3>1, <3>2, <3>3 DEF TypeOK
  <2>5. PolledWhileReading' /\ ReadingIsAnnounced' /\ LiveSessionIsHeard'
    <3>1. PolledWhileReading'
      BY <1>0, <1>4, <2>1, DeliverTakesOne DEF ConnectRefused, Retry, CanRetry, NextAttempt, TypeOK, PolledWhileReading
    <3>2. ReadingIsAnnounced'
      BY <1>0, <1>4, <2>1, DeliverTakesOne DEF ConnectRefused, Retry, CanRetry, NextAttempt, TypeOK, ReadingIsAnnounced
    <3>3. LiveSessionIsHeard'
      BY <1>0, <1>4, <2>1, DeliverTakesOne DEF ConnectRefused, Retry, CanRetry, NextAttempt, TypeOK, LiveSessionIsHeard
    <3> QED BY <3>1, <3>2, <3>3
  <2> QED BY <2>4, <2>5
<1>5. CASE ConnectFinished
  <2>1. "connected" \in Kinds
    BY DEF Kinds
  <2>2. cmds' \in [Kinds -> Nat]
    BY <1>0, <1>5, <2>1, DeliverTakesOne DEF ConnectFinished
  <2>3. attempt' \in 0..(PlanLength - 1) /\ keys' \in 0..MaxKeys
    BY <1>5 DEF ConnectFinished, AfterConnect, DropPlan, Listen, Connected, TypeOK
  <2>4. TypeOK'
    BY <1>5, <2>2, <2>3 DEF ConnectFinished, AfterConnect, DropPlan, Listen, Connected, TypeOK, SessionStates
  <2>5. PolledWhileReading' /\ ReadingIsAnnounced' /\ LiveSessionIsHeard'
    BY <1>0, <1>5, <2>1, DeliverTakesOne DEF ConnectFinished, AfterConnect, DropPlan, Listen, Connected, TypeOK, PolledWhileReading, ReadingIsAnnounced, LiveSessionIsHeard
  <2> QED BY <2>4, <2>5
<1>6. CASE HungUp
  <2>1. "hungup" \in Kinds
    BY DEF Kinds
  <2>2. cmds' \in [Kinds -> Nat]
    BY <1>0, <1>6, <2>1, DeliverTakesOne DEF HungUp
  <2>3. attempt' \in 0..(PlanLength - 1) /\ keys' \in 0..MaxKeys
    BY <1>6 DEF HungUp, StopReading, DropPlan, TypeOK
  <2>4. TypeOK'
    BY <1>6, <2>2, <2>3 DEF HungUp, StopReading, DropPlan, TypeOK, SessionStates
  <2>5. PolledWhileReading' /\ ReadingIsAnnounced' /\ LiveSessionIsHeard'
    BY <1>0, <1>6, <2>1, DeliverTakesOne DEF HungUp, StopReading, DropPlan, TypeOK, PolledWhileReading, ReadingIsAnnounced, LiveSessionIsHeard
  <2> QED BY <2>4, <2>5
<1> QED BY <1>1, <1>2, <1>3, <1>4, <1>5, <1>6

\* Ticks, writes and probes keep the inductive invariant.
LEMMA ReadingInv ==
  ASSUME Inv,
         TickIdle \/ TickUnconnected \/ TickRound \/ InventorySent \/
         InventorySendFails \/ ProbeSent \/ ProbeTimeoutIgnored \/ ProbeTimeout
  PROVE  Inv'
<1> USE DEF Inv
<1>0. cmds \in [Kinds -> Nat] /\ {"tick", "connected"} \subseteq Kinds
  BY DEF TypeOK, Kinds
<1>1. CASE TickIdle
  <2>1. cmds' \in [Kinds -> Nat]
    BY <1>0, <1>1, DeliverTakesOne DEF TickIdle, TypeOK
  <2>2. TypeOK'
    BY <1>1, <2>1 DEF TickIdle, TypeOK, SessionStates
  <2>3. PolledWhileReading' /\ ReadingIsAnnounced' /\ LiveSessionIsHeard'
    BY <1>0, <1>1, DeliverTakesOne DEF TickIdle, TypeOK, PolledWhileReading, ReadingIsAnnounced, LiveSessionIsHeard
  <2> QED BY <2>2, <2>3
<1>2. CASE TickUnconnected
  <2>1. cmds' \in [Kinds -> Nat]
    BY <1>0, <1>2, DeliverTakesOne DEF TickUnconnected, TypeOK
  <2>2. TypeOK'
    BY <1>2, <2>1 DEF TickUnconnected, StopReading, TypeOK, SessionStates
  <2>3. PolledWhileReading' /\ ReadingIsAnnounced' /\ LiveSessionIsHeard'
    BY <1>0, <1>2, DeliverTakesOne DEF TickUnconnected, StopReading, TypeOK, PolledWhileReading, ReadingIsAnnounced, LiveSessionIsHeard
  <2> QED BY <2>2, <2>3
<1>3. CASE TickRound
  <2>1. cmds' \in [Kinds -> Nat]
    BY <1>0, <1>3, DeliverTakesOne DEF TickRound, TypeOK
  <2>2. TypeOK'
    BY <1>3, <2>1 DEF TickRound, TypeOK, SessionStates
  <2>3. PolledWhileReading' /\ ReadingIsAnnounced' /\ LiveSessionIsHeard'
    BY <1>0, <1>3, DeliverTakesOne DEF TickRound, TypeOK, PolledWhileReading, ReadingIsAnnounced, LiveSessionIsHeard
  <2> QED BY <2>2, <2>3
<1>4. CASE InventorySent
  <2>1. "inventorySend" \in Kinds
    BY DEF Kinds
  <2>2. cmds' \in [Kinds -> Nat]
    BY <1>0, <1>4, <2>1, DeliverTakesOne DEF InventorySent
  <2>3. TypeOK'
    BY <1>4, <2>2 DEF InventorySent, TypeOK, SessionStates
  <2>4. PolledWhileReading' /\ ReadingIsAnnounced' /\ LiveSessionIsHeard'
    BY <1>0, <1>4, <2>1, DeliverTakesOne DEF InventorySent, TypeOK, PolledWhileReading, ReadingIsAnnounced, LiveSessionIsHeard
  <2> QED BY <2>3, <2>4
<1>5. CASE InventorySendFails
  <2>1. "inventorySend" \in Kinds
    BY DEF Kinds
  <2>2. cmds' \in [Kinds -> Nat]
    BY <1>0, <1>5, <2>1, DeliverTakesOne DEF InventorySendFails
  <2>3. TypeOK'
    <3>1. /\ scanning' \in BOOLEAN /\ pendingConnect' \in BOOLEAN /\ candidates' \in BOOLEAN
          /\ pendingAction' \in {"none", "start", "probe", "raw"}
          /\ planned' \in BOOLEAN /\ connecting' \in BOOLEAN
      BY <1>5 DEF InventorySendFails, StopReading, TypeOK, SessionStates
    <3>2. /\ running' \in BOOLEAN /\ awaiting' \in BOOLEAN
          /\ notice' \in {"none", "start", "stop"}
          /\ session' \in SessionStates
          /\ waits' \in SUBSET Channels /\ oldWaits' \in SUBSET Channels
      BY <1>5 DEF InventorySendFails, StopReading, TypeOK, SessionStates
    <3>3. attempt' \in 0..(PlanLength - 1) /\ keys' \in 0..MaxKeys
      BY <1>5, <2>2 DEF InventorySendFails, StopReading, TypeOK, SessionStates
    <3> QED BY <2>2, <3>1, <3>2, <3>3 DEF TypeOK
  <2>4. PolledWhileReading' /\ ReadingIsAnnounced' /\ LiveSessionIsHeard'
    <3>1. PolledWhileReading'
      BY <1>0, <1>5, <2>1, DeliverTakesOne DEF InventorySendFails, StopReading, TypeOK, PolledWhileReading
    <3>2. ReadingIsAnnounced'
      BY <1>0, <1>5, <2>1, DeliverTakesOne DEF InventorySendFails, StopReading, TypeOK, ReadingIsAnnounced
    <3>3. LiveSessionIsHeard'
      BY <1>0, <1>5, <2>1, DeliverTakesOne DEF InventorySendFails, StopReading, TypeOK, LiveSessionIsHeard
    <3> QED BY <3>1, <3>2, <3>3
  <2> QED BY <2>3, <2>4
<1>6. CASE ProbeSent
  <2>1. "probeSend" \in Kinds
    BY DEF Kinds
  <2>2. cmds' \in [Kinds -> Nat]
    BY <1>0, <1>6, <2>1, DeliverTakesOne DEF ProbeSent
  <2>a. awaiting' \in BOOLEAN
    BY <1>6, Zenon DEF ProbeSent, TypeOK
  <2>3. TypeOK'
    BY <1>6, <2>2, <2>a DEF ProbeSent, TypeOK, SessionStates
  <2>4. PolledWhileReading' /\ ReadingIsAnnounced' /\ LiveSessionIsHeard'
    BY <1>0, <1>6, <2>1, DeliverTakesOne DEF ProbeSent, TypeOK, PolledWhileReading, ReadingIsAnnounced, LiveSessionIsHeard
  <2> QED BY <2>3, <2>4
<1>7. CASE ProbeTimeoutIgnored
  <2>1. "probeTimeout" \in Kinds
    BY DEF Kinds
  <2>2. cmds' \in [Kinds -> Nat]
    BY <1>0, <1>7, <2>1, DeliverTakesOne DEF ProbeTimeoutIgnored
  <2>3. TypeOK'
    BY <1>7, <2>2 DEF ProbeTimeoutIgnored, TypeOK, SessionStates
  <2>4. PolledWhileReading' /\ ReadingIsAnnounced' /\ LiveSessionIsHeard'
    BY <1>0, <1>7, <2>1, DeliverTakesOne DEF ProbeTimeoutIgnored, TypeOK, PolledWhileReading, ReadingIsAnnounced, LiveSessionIsHeard
  <2> QED BY <2>3, <2>4
<1>8. CASE ProbeTimeout
  <2>1. "probeTimeout" \in Kinds
    BY DEF Kinds
  <2>2. cmds' \in [Kinds -> Nat]
    BY <1>0, <1>8, <2>1, DeliverTakesOne DEF ProbeTimeout
  <2>3. attempt' \in 0..(PlanLength - 1) /\ keys' \in 0..MaxKeys
    BY <1>8 DEF ProbeTimeout, Retry, CanRetry, NextAttempt, TypeOK
  <2>4. TypeOK'
    <3>1. /\ scanning' \in BOOLEAN /\ pendingConnect' \in BOOLEAN /\ candidates' \in BOOLEAN
          /\ pendingAction' \in {"none", "start", "probe", "raw"}
          /\ planned' \in BOOLEAN /\ connecting' \in BOOLEAN
      BY <1>8 DEF ProbeTimeout, Retry, CanRetry, NextAttempt, TypeOK, SessionStates
    <3>2. /\ running' \in BOOLEAN /\ awaiting' \in BOOLEAN
          /\ notice' \in {"none", "start", "stop"}
          /\ session' \in SessionStates
          /\ waits' \in SUBSET Channels /\ oldWaits' \in SUBSET Channels
      BY <1>8 DEF ProbeTimeout, Retry, CanRetry, NextAttempt, TypeOK, SessionStates
    <3>3. attempt' \in 0..(PlanLength - 1) /\ keys' \in 0..MaxKeys
      BY <1>8, <2>2, <2>3 DEF ProbeTimeout, Retry, CanRetry, NextAttempt, TypeOK, SessionStates
    <3> QED BY <2>2, <3>1, <3>2, <3>3 DEF TypeOK
  <2>5. PolledWhileReading' /\ ReadingIsAnnounced' /\ LiveSessionIsHeard'
    <3>1. PolledWhileReading'
      BY <1>0, <1>8, <2>1, DeliverTakesOne DEF ProbeTimeout, Retry, CanRetry, NextAttempt, TypeOK, PolledWhileReading
    <3>2. ReadingIsAnnounced'
      BY <1>0, <1>8, <2>1, DeliverTakesOne DEF ProbeTimeout, Retry, CanRetry, NextAttempt, TypeOK, ReadingIsAnnounced
    <3>3. LiveSessionIsHeard'
      BY <1>0, <1>8, <2>1, DeliverTakesOne DEF ProbeTimeout, Retry, CanRetry, NextAttempt, TypeOK, LiveSessionIsHeard
    <3> QED BY <3>1, <3>2, <3>3
  <2> QED BY <2>4, <2>5
<1> QED BY <1>1, <1>2, <1>3, <1>4, <1>5, <1>6, <1>7, <1>8

\* Packets, errors and closed channels keep the inductive invariant.
LEMMA ListenInv ==
  ASSUME Inv,
         PacketMsg \/ OldPacketMsg \/ ReaderErrEarly \/ ReaderErrLate \/ ReaderErr \/
         (\E c \in Channels : ChannelClosed(c))
  PROVE  Inv'
<1> USE DEF Inv
<1>0. cmds \in [Kinds -> Nat] /\ {"tick", "connected"} \subseteq Kinds
  BY DEF TypeOK, Kinds
<1>1. CASE PacketMsg
  <2>a. awaiting' \in BOOLEAN
    BY <1>1, Zenon DEF PacketMsg, HandleFrames, TypeOK
  <2>b. waits' \in SUBSET Channels /\ oldWaits' \in SUBSET Channels
    BY <1>1 DEF PacketMsg, Listen, Channels, TypeOK
  <2>1. TypeOK'
    BY <1>1, <2>a, <2>b DEF PacketMsg, TypeOK, SessionStates
  <2>2. PolledWhileReading' /\ ReadingIsAnnounced' /\ LiveSessionIsHeard'
    BY <1>0, <1>1 DEF PacketMsg, Listen, Connected, Channels, TypeOK, PolledWhileReading, ReadingIsAnnounced, LiveSessionIsHeard
  <2> QED BY <2>1, <2>2
<1>2. CASE OldPacketMsg
  <2>1. TypeOK'
    <3>a. awaiting' \in BOOLEAN
      BY <1>2, Zenon DEF OldPacketMsg, HandleFrames, TypeOK
    <3>b. waits' \in SUBSET Channels /\ oldWaits' \in SUBSET Channels
      BY <1>2 DEF OldPacketMsg, Listen, Channels, TypeOK
    <3>. QED
      BY <1>2, <3>a, <3>b DEF OldPacketMsg, TypeOK, SessionStates
  <2>2. PolledWhileReading' /\ ReadingIsAnnounced' /\ LiveSessionIsHeard'
    BY <1>0, <1>2 DEF OldPacketMsg, Listen, Connected, Channels, TypeOK, PolledWhileReading, ReadingIsAnnounced, LiveSessionIsHeard
  <2> QED BY <2>1, <2>2
<1>3. CASE ReaderErrEarly
  <2>1. TypeOK'
    BY <1>3 DEF ReaderErrEarly, TypeOK, SessionStates
  <2>2. PolledWhileReading' /\ ReadingIsAnnounced' /\ LiveSessionIsHeard'
    BY <1>0, <1>3 DEF ReaderErrEarly, TypeOK, PolledWhileReading, ReadingIsAnnounced, LiveSessionIsHeard
  <2> QED BY <2>1, <2>2
<1>4. CASE ReaderErrLate
  <2>1. "error" \in Kinds
    BY DEF Kinds
  <2>2. cmds' \in [Kinds -> Nat]
    BY <1>0, <1>4, <2>1, DeliverTakesOne DEF ReaderErrLate
  <2>b. waits' \in SUBSET Channels /\ oldWaits' \in SUBSET Channels
    BY <1>4 DEF ReaderErrLate, Listen, Channels, TypeOK
  <2>3. TypeOK'
    BY <1>4, <2>2, <2>b DEF ReaderErrLate, TypeOK, SessionStates
  <2>4. PolledWhileReading' /\ ReadingIsAnnounced' /\ LiveSessionIsHeard'
    BY <1>0, <1>4, <2>1, DeliverTakesOne DEF ReaderErrLate, Listen, Connected, Channels, TypeOK, PolledWhileReading, ReadingIsAnnounced, LiveSessionIsHeard
  <2> QED BY <2>3, <2>4
<1>5. CASE ReaderErr
  <2>1. "error" \in Kinds
    BY DEF Kinds
  <2>2. cmds' \in [Kinds -> Nat]
    BY <1>0, <1>5, <2>1, DeliverTakesOne DEF ReaderErr
  <2>3. attempt' \in 0..(PlanLength - 1) /\ keys' \in 0..MaxKeys
    BY <1>5 DEF ReaderErr, Retry, CanRetry, NextAttempt, Listen, Connected, Channels, StopReading, TypeOK
  <2>4. TypeOK'
    BY <1>5, <2>2, <2>3 DEF ReaderErr, Retry, CanRetry, NextAttempt, Listen, Connected, Channels, StopReading, TypeOK, SessionStates
  <2>5. PolledWhileReading' /\ ReadingIsAnnounced' /\ LiveSessionIsHeard'
    BY <1>0, <1>5, <2>1, DeliverTakesOne DEF ReaderErr, Retry, CanRetry, NextAttempt, Listen, Connected, Channels, StopReading, TypeOK, PolledWhileReading, ReadingIsAnnounced, LiveSessionIsHeard
  <2> QED BY <2>4, <2>5
<1>6. CASE (\E c \in Channels : ChannelClosed(c))
  <2>b. waits' \in SUBSET Channels /\ oldWaits' \in SUBSET Channels
    BY <1>6 DEF ChannelClosed, Listen, Channels, TypeOK
  <2>1. TypeOK'
    BY <1>6, <2>b DEF ChannelClosed, TypeOK, SessionStates
  <2>2. PolledWhileReading' /\ ReadingIsAnnounced' /\ LiveSessionIsHeard'
    BY <1>0, <1>6 DEF ChannelClosed, Listen, Connected, Channels, TypeOK, PolledWhileReading, ReadingIsAnnounced, LiveSessionIsHeard
  <2> QED BY <2>1, <2>2
<1> QED BY <1>1, <1>2, <1>3, <1>4, <1>5, <1>6

\* Keys keep the inductive invariant.
LEMMA KeysInv ==
  ASSUME Inv,
         (\E a \in {"start", "probe", "raw"} : RequestConnection(a)) \/ (\E a \in
         {"start", "probe", "raw"} : RequestWhileConnecting(a)) \/ KeyStart \/ KeyStop
         \/ KeyProbe \/ KeyDisconnect \/ KeyRescan \/ KeyQuickConnect \/ KeyScan \/
         KeyConnectSelected
  PROVE  Inv'
<1> USE DEF Inv
<1>0. cmds \in [Kinds -> Nat] /\ {"tick", "connected"} \subseteq Kinds
  BY DEF TypeOK, Kinds
<1>1. CASE (\E a \in {"start", "probe", "raw"} : RequestConnection(a))
  <2>1. cmds' \in [Kinds -> Nat]
    BY <1>0, <1>1, IssueAdds DEF RequestConnection, ScanThenConnect, TypeOK
  <2>2. attempt' \in 0..(PlanLength - 1) /\ keys' \in 0..MaxKeys
    BY <1>1 DEF RequestConnection, Press, BeginPlan, ScanThenConnect, Connected, TypeOK
  <2>3. TypeOK'
    BY <1>1, <2>1, <2>2 DEF RequestConnection, Press, BeginPlan, ScanThenConnect, Connected, TypeOK, SessionStates
  <2>4. PolledWhileReading' /\ ReadingIsAnnounced' /\ LiveSessionIsHeard'
    BY <1>0, <1>1, IssueAdds DEF RequestConnection, Press, BeginPlan, ScanThenConnect, Connected, TypeOK, PolledWhileReading, ReadingIsAnnounced, LiveSessionIsHeard
  <2> QED BY <2>3, <2>4
<1>2. CASE (\E a \in {"start", "probe", "raw"} : RequestWhileConnecting(a))
  <2>1. attempt' \in 0..(PlanLength - 1) /\ keys' \in 0..MaxKeys
    BY <1>2 DEF RequestWhileConnecting, Press, TypeOK
  <2>2. TypeOK'
    BY <1>2, <2>1 DEF RequestWhileConnecting, Press, TypeOK, SessionStates
  <2>3. PolledWhileReading' /\ ReadingIsAnnounced' /\ LiveSessionIsHeard'
    BY <1>0, <1>2 DEF RequestWhileConnecting, Press, TypeOK, PolledWhileReading, ReadingIsAnnounced, LiveSessionIsHeard
  <2> QED BY <2>2, <2>3
<1>3. CASE KeyStart
  <2>1. cmds' \in [Kinds -> Nat]
    BY <1>0, <1>3, IssueAdds DEF KeyStart, TypeOK
  <2>2. attempt' \in 0..(PlanLength - 1) /\ keys' \in 0..MaxKeys
    BY <1>3 DEF KeyStart, Press, StartReading, TypeOK
  <2>3. TypeOK'
    BY <1>3, <2>1, <2>2 DEF KeyStart, Press, StartReading, TypeOK, SessionStates
  <2>4. PolledWhileReading' /\ ReadingIsAnnounced' /\ LiveSessionIsHeard'
    BY <1>0, <1>3, IssueAdds DEF KeyStart, Press, StartReading, TypeOK, PolledWhileReading, ReadingIsAnnounced, LiveSessionIsHeard
  <2> QED BY <2>3, <2>4
<1>4. CASE KeyStop
  <2>1. attempt' \in 0..(PlanLength - 1) /\ keys' \in 0..MaxKeys
    BY <1>4 DEF KeyStop, Press, StopReading, TypeOK
  <2>2. TypeOK'
    BY <1>4, <2>1 DEF KeyStop, Press, StopReading, TypeOK, SessionStates
  <2>3. PolledWhileReading' /\ ReadingIsAnnounced' /\ LiveSessionIsHeard'
    BY <1>0, <1>4 DEF KeyStop, Press, StopReading, TypeOK, PolledWhileReading, ReadingIsAnnounced, LiveSessionIsHeard
  <2> QED BY <2>2, <2>3
<1>5. CASE KeyProbe
  <2>1. cmds' \in [Kinds -> Nat]
    BY <1>0, <1>5, IssueAdds DEF KeyProbe, TypeOK
  <2>2. attempt' \in 0..(PlanLength - 1) /\ keys' \in 0..MaxKeys
    BY <1>5 DEF KeyProbe, Press, TypeOK
  <2>3. TypeOK'
    BY <1>5, <2>1, <2>2 DEF KeyProbe, Press, TypeOK, SessionStates
  <2>4. PolledWhileReading' /\ ReadingIsAnnounced' /\ LiveSessionIsHeard'
    BY <1>0, <1>5, IssueAdds DEF KeyProbe, Press, TypeOK, PolledWhileReading, ReadingIsAnnounced, LiveSessionIsHeard
  <2> QED BY <2>3, <2>4
<1>6. CASE KeyDisconnect
  <2>1. cmds' \in [Kinds -> Nat]
    BY <1>0, <1>6, IssueAdds DEF KeyDisconnect, TypeOK
  <2>2. attempt' \in 0..(PlanLength - 1) /\ keys' \in 0..MaxKeys
    BY <1>6 DEF KeyDisconnect, Press, TypeOK
  <2>3. TypeOK'
    BY <1>6, <2>1, <2>2 DEF KeyDisconnect, Press, TypeOK, SessionStates
  <2>4. PolledWhileReading' /\ ReadingIsAnnounced' /\ LiveSessionIsHeard'
    BY <1>0, <1>6, IssueAdds DEF KeyDisconnect, Press, TypeOK, PolledWhileReading, ReadingIsAnnounced, LiveSessionIsHeard
  <2> QED BY <2>3, <2>4
<1>7. CASE KeyRescan
  <2>1. attempt' \in 0..(PlanLength - 1) /\ keys' \in 0..MaxKeys
    BY <1>7 DEF KeyRescan, Press, ScanThenConnect, DropPlan, TypeOK
  <2>2. TypeOK'
    BY <1>7, <2>1 DEF KeyRescan, Press, ScanThenConnect, DropPlan, TypeOK, SessionStates
  <2>3. PolledWhileReading' /\ ReadingIsAnnounced' /\ LiveSessionIsHeard'
    BY <1>0, <1>7 DEF KeyRescan, Press, ScanThenConnect, DropPlan, TypeOK, PolledWhileReading, ReadingIsAnnounced, LiveSessionIsHeard
  <2> QED BY <2>2, <2>3
<1>8. CASE KeyQuickConnect
  <2>1. cmds' \in [Kinds -> Nat]
    BY <1>0, <1>8, IssueAdds DEF KeyQuickConnect, ScanThenConnect, TypeOK
  <2>2. attempt' \in 0..(PlanLength - 1) /\ keys' \in 0..MaxKeys
    BY <1>8 DEF KeyQuickConnect, Press, ScanThenConnect, BeginPlan, TypeOK
  <2>3. TypeOK'
    <3>1. /\ scanning' \in BOOLEAN /\ pendingConnect' \in BOOLEAN /\ candidates' \in BOOLEAN
          /\ planned' \in BOOLEAN /\ connecting' \in BOOLEAN
      BY <1>8 DEF KeyQuickConnect, ScanThenConnect, BeginPlan, TypeOK
    <3>2. UNCHANGED <<pendingAction, readVars, awaiting, session, waitVars>>
      BY <1>8 DEF KeyQuickConnect
    <3> QED BY <2>1, <2>2, <3>1, <3>2 DEF TypeOK
  <2>4. PolledWhileReading' /\ ReadingIsAnnounced' /\ LiveSessionIsHeard'
    <3>1. PolledWhileReading'
      BY <1>0, <1>8, IssueAdds DEF KeyQuickConnect, Press, ScanThenConnect, BeginPlan, TypeOK, PolledWhileReading
    <3>2. ReadingIsAnnounced'
      BY <1>0, <1>8, IssueAdds DEF KeyQuickConnect, Press, ScanThenConnect, BeginPlan, TypeOK, ReadingIsAnnounced
    <3>3. LiveSessionIsHeard'
      BY <1>0, <1>8, IssueAdds DEF KeyQuickConnect, Press, ScanThenConnect, BeginPlan, TypeOK, LiveSessionIsHeard
    <3> QED BY <3>1, <3>2, <3>3
  <2> QED BY <2>3, <2>4
<1>9. CASE KeyScan
  <2>1. attempt' \in 0..(PlanLength - 1) /\ keys' \in 0..MaxKeys
    BY <1>9 DEF KeyScan, Press, DropPlan, TypeOK
  <2>2. TypeOK'
    BY <1>9, <2>1 DEF KeyScan, Press, DropPlan, TypeOK, SessionStates
  <2>3. PolledWhileReading' /\ ReadingIsAnnounced' /\ LiveSessionIsHeard'
    BY <1>0, <1>9 DEF KeyScan, Press, DropPlan, TypeOK, PolledWhileReading, ReadingIsAnnounced, LiveSessionIsHeard
  <2> QED BY <2>2, <2>3
<1>10. CASE KeyConnectSelected
  <2>1. cmds' \in [Kinds -> Nat]
    BY <1>0, <1>10, IssueAdds DEF KeyConnectSelected, TypeOK
  <2>2. attempt' \in 0..(PlanLength - 1) /\ keys' \in 0..MaxKeys
    BY <1>10 DEF KeyConnectSelected, Press, BeginPlan, TypeOK
  <2>3. TypeOK'
    BY <1>10, <2>1, <2>2 DEF KeyConnectSelected, Press, BeginPlan, TypeOK, SessionStates
  <2>4. PolledWhileReading' /\ ReadingIsAnnounced' /\ LiveSessionIsHeard'
    BY <1>0, <1>10, IssueAdds DEF KeyConnectSelected, Press, BeginPlan, TypeOK, PolledWhileReading, ReadingIsAnnounced, LiveSessionIsHeard
  <2> QED BY <2>3, <2>4
<1> QED BY <1>1, <1>2, <1>3, <1>4, <1>5, <1>6, <1>7, <1>8, <1>9, <1>10

\* Every step, and every step that changes nothing, keeps it.
LEMMA NextInv == Inv /\ [Next]_vars => Inv'
<1> SUFFICES ASSUME Inv, [Next]_vars PROVE Inv'
    OBVIOUS
<1>1. CASE UNCHANGED vars
  BY <1>1 DEF vars, Inv, TypeOK, PolledWhileReading, ReadingIsAnnounced, LiveSessionIsHeard
<1>2. CASE Next
  BY <1>2, ClientInv, ConnectInv, ReadingInv, ListenInv, KeysInv
     DEF Next, Keys, ScanResult, ConnectStep, Dial, Tick, Write, ProbeExpires
<1> QED BY <1>1, <1>2

\* The inductive invariant holds throughout.
LEMMA Invariance == Spec => []Inv
BY InitInv, NextInv, PTL DEF Spec

\* The model's fields keep their ranges; in particular an attempt is always an index of
\* the connect plan, however plans, rescans and stale results overlap.
THEOREM TypeCorrect == Spec => []TypeOK
<1>1. Inv => TypeOK
  BY DEF Inv
<1> QED BY <1>1, Invariance, PTL

\* No reading is ever without a tick under way.
THEOREM PollingCorrect == Spec => []PolledWhileReading
<1>1. Inv => PolledWhileReading
  BY DEF Inv
<1> QED BY <1>1, Invariance, PTL

\* While the UI reads, the bot was last told that it does.
THEOREM AnnouncementCorrect == Spec => []ReadingIsAnnounced
<1>1. Inv => ReadingIsAnnounced
  BY DEF Inv
<1> QED BY <1>1, Invariance, PTL

\* A live session is listened to once its connectFinishedMsg is handled.
THEOREM ListeningCorrect == Spec => []LiveSessionIsHeard
<1>1. Inv => LiveSessionIsHeard
  BY DEF Inv
<1> QED BY <1>1, Invariance, PTL
=============================================================================
