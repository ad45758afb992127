------------------------------- MODULE BotSync -------------------------------
(***************************************************************************)
(* The notices scan_start and scan_stop of the terminal UI on their way to  *)
(* the bot that happens to own the socket.                                  *)
(*                                                                          *)
(* Every notice is sent by a goroutine of its own, so notices that are      *)
(* under way together may arrive in any order.  The client gives up after   *)
(* its time-out; the handler in the bot does not notice and goes on, and    *)
(* raises the flag when its refresh of the cache is over.  Other writers of *)
(* the flag, and the reader, belong to ScanControl.                         *)
(***************************************************************************)
EXTENDS SideCar, Naturals, Sequences

CONSTANT MaxNotices     \* notices of one behaviour

ASSUME NoticesAssumption == MaxNotices \in Nat

VARIABLES
  reading,  \* Model.inventoryRunning
  notices,  \* the notices in the order of the calls, TRUE for scan_start
  client,   \* client[n]: the goroutine that sends notice n
  server,   \* server[n]: the bot that got it and where its handler is
  apart,    \* apart[n]: nothing was under way when notice n was made
  scan      \* scan[b]: Service.scanActive of a bot

syncVars == <<reading, notices, client, server, apart, scan>>
vars == <<carVars, syncVars>>

Unsent == [bot |-> Own, at |-> "nowhere"]

\* refresh   RefreshCache is under way       refused   it has failed
\* set       SetScanActive comes next        done      it has returned
Handlers ==
  [bot : Bots, at : {"nowhere", "refresh", "set", "refused", "done", "over"}]

SyncTypeOK ==
  /\ CarTypeOK
  /\ reading \in BOOLEAN
  /\ notices \in Seq(BOOLEAN) /\ Len(notices) <= MaxNotices
  /\ client \in Seq({"dial", "await", "ok", "failed"}) /\ Len(client) = Len(notices)
  /\ server \in Seq(Handlers) /\ Len(server) = Len(notices)
  /\ apart \in Seq(BOOLEAN) /\ Len(apart) = Len(notices)
  /\ scan \in [Bots -> BOOLEAN]

Init ==
  /\ CarInit
  /\ reading = FALSE
  /\ notices = <<>> /\ client = <<>> /\ server = <<>> /\ apart = <<>>
  /\ scan = [b \in Bots |-> FALSE]

\* Nothing will happen for this notice any more.
Settled(n) ==
  /\ client[n] \in {"ok", "failed"}
  /\ server[n].at \in {"nowhere", "over"} \/ ~Up(server[n].bot)

-----------------------------------------------------------------------------
(* The UI and the client goroutines; they live as long as the process.      *)

Announce(on) ==
  /\ Len(notices) < MaxNotices
  /\ notices' = Append(notices, on)
  /\ client' = Append(client, "dial")
  /\ server' = Append(server, Unsent)
  /\ apart' = Append(apart, \A n \in 1..Len(notices) : Settled(n))
  /\ UNCHANGED <<carVars, scan>>

\* onStartReading and onStopReading.
StartReading == tui = "runs" /\ ~reading /\ reading' = TRUE /\ Announce(TRUE)
StopReading  == tui = "runs" /\ reading /\ reading' = FALSE /\ Announce(FALSE)

\* A connection that was made during a reading ends it without a notice.
Reconnected ==
  /\ tui = "runs" /\ reading
  /\ reading' = FALSE
  /\ UNCHANGED <<carVars, notices, client, server, apart, scan>>

TuiAlive == tui \in {"runs", "term", "reap"}

\* roundTrip connects to the bot the path names now, and writes the frame.
Dial(n) ==
  /\ TuiAlive /\ client[n] = "dial"
  /\ \E b \in Bots :
       /\ Reachable(b)
       /\ server' = [server EXCEPT ![n] =
                       [bot |-> b, at |-> IF notices[n] THEN "refresh" ELSE "set"]]
  /\ client' = [client EXCEPT ![n] = "await"]
  /\ UNCHANGED <<carVars, reading, notices, apart, scan>>

\* Nobody is there, or the dial or the write of the frame fails.
DialFails(n) ==
  /\ TuiAlive /\ client[n] = "dial"
  /\ client' = [client EXCEPT ![n] = "failed"]
  /\ UNCHANGED <<carVars, reading, notices, server, apart, scan>>

\* The deadline of the connection passes, or the bot has ended.
GivesUp(n) ==
  /\ TuiAlive /\ client[n] = "await"
  /\ client' = [client EXCEPT ![n] = "failed"]
  /\ UNCHANGED <<carVars, reading, notices, server, apart, scan>>

-----------------------------------------------------------------------------
(* handleRequest in the bot; its context is the bot's, not the connection's. *)

HandlerAt(n, at) == server[n].at = at /\ Up(server[n].bot)
HandlerGoto(n, at) == server' = [server EXCEPT ![n].at = at]

Refresh(n) ==
  /\ HandlerAt(n, "refresh")
  /\ HandlerGoto(n, "set") \/ HandlerGoto(n, "refused")
  /\ UNCHANGED <<carVars, reading, notices, client, apart, scan>>

SetScanActive(n) ==
  /\ HandlerAt(n, "set")
  /\ scan' = [scan EXCEPT ![server[n].bot] = notices[n]]
  /\ HandlerGoto(n, "done")
  /\ UNCHANGED <<carVars, reading, notices, client, apart>>

\* Mistake: the answer is sent before the flag is set.
RespondEarly(n) ==
  /\ server[n].at \in {"set", "done", "refused"} /\ Up(server[n].bot)
  /\ HandlerGoto(n, IF server[n].at = "set" THEN "set" ELSE "over")
  /\ client' = [client EXCEPT ![n] =
                  IF @ # "await" THEN @
                  ELSE IF server[n].at = "refused" THEN "failed" ELSE "ok"]
  /\ UNCHANGED <<carVars, reading, notices, apart, scan>>

\* The response; nobody reads it when the client has given up.
Respond(n) ==
  /\ HandlerAt(n, "done") \/ HandlerAt(n, "refused")
  /\ HandlerGoto(n, "over")
  /\ client' = [client EXCEPT ![n] =
                  IF @ # "await" THEN @
                  ELSE IF server[n].at = "done" THEN "ok" ELSE "failed"]
  /\ UNCHANGED <<carVars, reading, notices, apart, scan>>

-----------------------------------------------------------------------------

NoticeStep ==
  \E n \in 1..Len(notices) :
    \/ Dial(n) \/ DialFails(n) \/ GivesUp(n)
    \/ Refresh(n) \/ SetScanActive(n) \/ Respond(n)

Next ==
  \/ CarNext /\ UNCHANGED syncVars
  \/ StartReading \/ StopReading \/ Reconnected
  \/ NoticeStep

\* The steps of startBotSidecar and terminateProcessGroup: their pings, waits and
\* the deadline in waitForBot are bounded in time.  Bots need not make progress.
Fairness == WF_vars(TuiStep /\ UNCHANGED syncVars)

Spec == Init /\ [][Next]_vars /\ Fairness

-----------------------------------------------------------------------------
(* Properties.                                                             *)

\* The last notice, made when nothing else was under way and answered with ok, has
\* done its work: the bot that answered has the scan on or off as the UI wanted.
\* Earlier notices whose client gave up, whose handler was slow, or that went to
\* another bot have no say any more.
LastNoticeHolds ==
  LET n == Len(notices)
      b == server[n].bot
  IN  n > 0 => (apart[n] /\ client[n] = "ok" /\ Up(b) => scan[b] = notices[n])
=============================================================================
