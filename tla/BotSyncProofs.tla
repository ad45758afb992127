---------------------------- MODULE BotSyncProofs ----------------------------
(***************************************************************************)
(* Proofs about SideCar and BotSync, for any number of bots and notices: no  *)
(* bot is left behind, a bot without rivals has its socket, and a notice     *)
(* that was answered while nothing else was under way has done its work.     *)
(***************************************************************************)
EXTENDS BotSync, TLAPS

USE DEF carVars, syncVars

-----------------------------------------------------------------------------
(* Steps of the processes.                                                 *)

LEMMA CarTypeStep == CarTypeOK /\ [CarNext]_carVars => CarTypeOK'
<1> SUFFICES ASSUME CarTypeOK, [CarNext]_carVars PROVE CarTypeOK'
  OBVIOUS
<1> USE DEF CarTypeOK, BotStages, TuiPlaces
<1>0. Own \in Bots /\ Manual \subseteq Bots
  BY DEF Bots
<1>1. ASSUME NEW b \in Bots, ManualStart(b) \/ ManualStop(b) PROVE CarTypeOK'
  BY <1>1 DEF ManualStart, ManualStop
<1>2. ASSUME NEW b \in Bots, RemoveOld(b) \/ RemoveAgain(b) PROVE CarTypeOK'
  BY <1>2 DEF RemoveOld, RemoveAgain
<1>3. ASSUME NEW b \in Bots, Listen(b) PROVE CarTypeOK'
  BY <1>3 DEF Listen
<1>4. ASSUME NEW b \in Bots, CloseListener(b) \/ ProcessEnds(b) PROVE CarTypeOK'
  BY <1>4 DEF CloseListener, ProcessEnds, PathAfter
<1>5. CASE WrapperExits
  BY <1>5 DEF WrapperExits
<1>6. CASE FirstPingAnswered \/ FirstPingFails \/ SpawnFails \/ WaitPings \/ WaitFails
  BY <1>6 DEF FirstPingAnswered, FirstPingFails, SpawnFails, WaitPings, WaitFails, TuiGoto
<1>7. CASE Spawn
  BY <1>0, <1>7 DEF Spawn
<1>8. CASE Terminate \/ Reap
  BY <1>0, <1>8 DEF Terminate, Reap, TuiGoto
<1>9. CASE Kill
  BY <1>0, <1>9 DEF Kill, PathAfter
<1>10. CASE Quit \/ Fatal
  BY <1>10 DEF Quit, Fatal, TuiGoto
<1>11. CASE UNCHANGED carVars
  BY <1>11
<1> QED
  BY <1>1, <1>2, <1>3, <1>4, <1>5, <1>6, <1>7, <1>8, <1>9, <1>10, <1>11
     DEF CarNext, BotStep, TuiStep

\* The UI's own bot is started once, and a wrapper ends with the bot or by the
\* signal that the bot has got as well.
OwnInv ==
  /\ tui \in {"begin", "spawn"} => stage[Own] = "none" /\ leader = "none"
  /\ leader = "up" => wrapped /\ stage[Own] # "none"
  /\ leader = "exited" => wrapped /\ (stage[Own] = "dead" \/ Own \in signalled)
  /\ NoBotLeftBehind

LEMMA OwnStep == CarTypeOK /\ OwnInv /\ [CarNext]_carVars => OwnInv'
<1> SUFFICES ASSUME CarTypeOK, OwnInv, [CarNext]_carVars PROVE OwnInv'
  OBVIOUS
<1> USE DEF CarTypeOK, OwnInv, NoBotLeftBehind, Up
<1>0. Own \in Bots /\ Own \notin Manual
  BY OwnIsNotManual DEF Bots
<1>1. ASSUME NEW b \in Bots, ManualStart(b) \/ ManualStop(b) PROVE OwnInv'
  BY <1>0, <1>1 DEF ManualStart, ManualStop
<1>2. ASSUME NEW b \in Bots, RemoveOld(b) \/ RemoveAgain(b) PROVE OwnInv'
  BY <1>0, <1>2 DEF RemoveOld, RemoveAgain
<1>3. ASSUME NEW b \in Bots, Listen(b) \/ CloseListener(b) PROVE OwnInv'
  BY <1>0, <1>3 DEF Listen, CloseListener
<1>4. ASSUME NEW b \in Bots, ProcessEnds(b) PROVE OwnInv'
  BY <1>0, <1>4 DEF ProcessEnds
<1>5. CASE WrapperExits
  <2>1. leader' = "exited" /\ leader = "up" /\ UNCHANGED <<tui, wrapped, stage, signalled>>
    BY <1>5 DEF WrapperExits
  <2>2. stage[Own] = "dead" \/ Own \in signalled
    BY <1>5 DEF WrapperExits
  <2>3. wrapped
    BY <2>1
  <2> QED
    BY <2>1, <2>2, <2>3
<1>6. CASE FirstPingAnswered \/ FirstPingFails \/ SpawnFails \/ WaitPings \/ WaitFails
  BY <1>6 DEF FirstPingAnswered, FirstPingFails, SpawnFails, WaitPings, WaitFails, TuiGoto
<1>7. CASE Spawn
  BY <1>0, <1>7 DEF Spawn
<1>8. CASE Terminate \/ Reap
  BY <1>0, <1>8 DEF Terminate, Reap, TuiGoto, LeaderExited
<1>9. CASE Kill
  BY <1>0, <1>9 DEF Kill
<1>10. CASE Quit \/ Fatal
  BY <1>10 DEF Quit, Fatal, TuiGoto
<1>11. CASE UNCHANGED carVars
  BY <1>11
<1> QED
  BY <1>1, <1>2, <1>3, <1>4, <1>5, <1>6, <1>7, <1>8, <1>9, <1>10, <1>11
     DEF CarNext, BotStep, TuiStep

\* A bot that has begun never begins again, and one that is over stays over.
GoesOn(b) ==
  /\ stage'[b] = "none" => stage[b] = "none"
  /\ stage'[b] = "boot" => stage[b] \in {"none", "boot"}
  /\ stage[b] = "dead" => stage'[b] = "dead"

LEMMA StagesGoOn ==
  ASSUME CarTypeOK, OwnInv, [CarNext]_carVars, NEW b \in Bots
  PROVE  GoesOn(b)
<1> USE DEF CarTypeOK, GoesOn
<1>0. Own \in Bots
  BY DEF Bots
<1>1. ASSUME NEW o \in Bots, ManualStart(o) \/ ManualStop(o) PROVE GoesOn(b)
  BY <1>1 DEF ManualStart, ManualStop
<1>2. ASSUME NEW o \in Bots, RemoveOld(o) \/ Listen(o) \/ CloseListener(o) \/ RemoveAgain(o)
      PROVE  GoesOn(b)
  BY <1>2 DEF RemoveOld, Listen, CloseListener, RemoveAgain
<1>3. ASSUME NEW o \in Bots, ProcessEnds(o) PROVE GoesOn(b)
  BY <1>3 DEF ProcessEnds
<1>4. CASE Spawn
  BY <1>0, <1>4 DEF Spawn, OwnInv
<1>5. CASE Kill
  BY <1>0, <1>5 DEF Kill
<1>6. CASE stage' = stage
  BY <1>6
<1>7. WrapperExits \/ Quit \/ Fatal \/ UNCHANGED carVars => stage' = stage
  BY DEF WrapperExits, Quit, Fatal, TuiGoto
<1>8. TuiStep => Spawn \/ Kill \/ stage' = stage
  BY DEF TuiStep, FirstPingAnswered, FirstPingFails, SpawnFails, WaitPings, WaitFails,
         Terminate, Reap, TuiGoto
<1> QED
  BY <1>1, <1>2, <1>3, <1>4, <1>5, <1>6, <1>7, <1>8 DEF CarNext, BotStep

-----------------------------------------------------------------------------
(* A bot without rivals.                                                   *)

Alone(b) == \A o \in Bots \ {b} : stage[o] \in {"none", "boot"}

\* A bot that is alone finds the path free when it listens.
AloneInv ==
  \A b \in Bots :
    Alone(b) =>
      /\ stage[b] # "failed"
      /\ stage[b] = "bind" => path = "free"
      /\ stage[b] = "serving" => path = b

LEMMA AloneStep == CarTypeOK /\ OwnInv /\ AloneInv /\ [CarNext]_carVars => AloneInv'
<1> SUFFICES ASSUME CarTypeOK, OwnInv, AloneInv, [CarNext]_carVars,
                    NEW b \in Bots, Alone(b)'
             PROVE  /\ stage'[b] # "failed"
                    /\ stage'[b] = "bind" => path' = "free"
                    /\ stage'[b] = "serving" => path' = b
  BY DEF AloneInv
<1> DEFINE Goal == /\ stage'[b] # "failed"
                   /\ stage'[b] = "bind" => path' = "free"
                   /\ stage'[b] = "serving" => path' = b
<1>0. Own \in Bots
  BY DEF Bots
<1>1. Alone(b)
  BY StagesGoOn DEF Alone, GoesOn
<1>2. /\ stage[b] # "failed"
      /\ stage[b] = "bind" => path = "free"
      /\ stage[b] = "serving" => path = b
  BY <1>1, Zenon DEF AloneInv
<1>3. ASSUME NEW o \in Bots, ManualStart(o) \/ ManualStop(o) PROVE Goal
  BY <1>2, <1>3 DEF ManualStart, ManualStop, CarTypeOK
<1>4. ASSUME NEW o \in Bots, RemoveOld(o) \/ Listen(o) PROVE Goal
  <2>1. stage'[o] \notin {"none", "boot"}
    BY <1>4 DEF RemoveOld, Listen, CarTypeOK
  <2>2. o = b
    BY <2>1 DEF Alone
  <2> QED
    BY <1>2, <1>4, <2>2 DEF RemoveOld, Listen, CarTypeOK
<1>5. ASSUME NEW o \in Bots, CloseListener(o) \/ RemoveAgain(o) \/ ProcessEnds(o) PROVE Goal
  <2>1. stage'[o] \notin {"none", "boot", "failed", "bind", "serving"}
    BY <1>5 DEF CloseListener, RemoveAgain, ProcessEnds, CarTypeOK
  <2>2. o = b
    BY <2>1 DEF Alone
  <2> QED
    BY <2>1, <2>2
<1>6. CASE Spawn
  BY <1>0, <1>2, <1>6 DEF Spawn, CarTypeOK
<1>7. CASE Kill
  <2>1. stage'[Own] = "dead"
    BY <1>0, <1>7 DEF Kill, CarTypeOK
  <2>2. Own = b
    BY <1>0, <2>1 DEF Alone
  <2> QED
    BY <2>1, <2>2
<1>8. CASE stage' = stage /\ path' = path
  BY <1>2, <1>8
<1>9. WrapperExits \/ Quit \/ Fatal \/ UNCHANGED carVars => stage' = stage /\ path' = path
  BY DEF WrapperExits, Quit, Fatal, TuiGoto
<1>10. TuiStep => Spawn \/ Kill \/ (stage' = stage /\ path' = path)
  BY DEF TuiStep, FirstPingAnswered, FirstPingFails, SpawnFails, WaitPings, WaitFails,
         Terminate, Reap, TuiGoto
<1> QED
  BY <1>3, <1>4, <1>5, <1>6, <1>7, <1>8, <1>9, <1>10 DEF CarNext, BotStep

\* What holds of the processes.
CarInv == CarTypeOK /\ OwnInv /\ AloneInv

LEMMA CarInitially == CarInit => CarInv
<1> SUFFICES ASSUME CarInit PROVE CarInv
  OBVIOUS
<1>0. Own \in Bots
  BY DEF Bots
<1>1. stage \in [Bots -> BotStages] /\ tui \in TuiPlaces
  BY DEF CarInit, BotStages, TuiPlaces
<1>2. \A b \in Bots : stage[b] = "none"
  BY DEF CarInit
<1>3. OwnInv
  BY <1>0, <1>2 DEF CarInit, OwnInv, NoBotLeftBehind
<1>4. AloneInv
  BY <1>2 DEF AloneInv
<1>5. CarTypeOK
  BY <1>1, Zenon DEF CarInit, CarTypeOK
<1> QED
  BY <1>3, <1>4, <1>5 DEF CarInv

LEMMA CarStep == CarInv /\ [CarNext]_carVars => CarInv'
  BY CarTypeStep, OwnStep, AloneStep DEF CarInv

\* A step of the composed system is one of the processes or leaves them alone.
LEMMA StepRefines == [Next]_vars => [CarNext]_carVars
  BY DEF Next, StartReading, StopReading, Reconnected, Announce, NoticeStep, Dial, DialFails,
         GivesUp, Refresh, SetScanActive, Respond, vars

THEOREM CarCorrect == Spec => []CarInv
<1>1. Init => CarInv
  BY CarInitially DEF Init
<1>2. CarInv /\ [Next]_vars => CarInv'
  BY CarStep, StepRefines
<1> QED
  BY <1>1, <1>2, PTL DEF Spec

\* No bot of the UI is left behind when the UI ends by itself.
THEOREM BotsAreEnded == Spec => []NoBotLeftBehind
<1>1. CarInv => NoBotLeftBehind
  BY DEF CarInv, OwnInv
<1> QED
  BY <1>1, CarCorrect, PTL

\* A bot gets its socket and keeps it as long as no other bot comes to the path.
THEOREM AloneIsReachable == Spec => []AloneMeansReachable
<1>1. CarInv => AloneMeansReachable
  BY Zenon DEF CarInv, AloneInv, Alone, AloneMeansReachable
<1> QED
  BY <1>1, CarCorrect, PTL

-----------------------------------------------------------------------------
(* Notices.                                                                *)

Ids == 1..Len(notices)

LEMMA ReplaceEntry ==
  ASSUME NEW S, NEW s \in Seq(S), NEW i \in 1..Len(s), NEW x \in S
  PROVE  [s EXCEPT ![i] = x] \in Seq(S) /\ Len([s EXCEPT ![i] = x]) = Len(s)
  OBVIOUS

LEMMA SyncTypeStep == CarInv /\ SyncTypeOK /\ [Next]_vars => SyncTypeOK'
<1> SUFFICES ASSUME CarInv, SyncTypeOK, [Next]_vars PROVE SyncTypeOK'
  OBVIOUS
<1>0. CarTypeOK' /\ Own \in Bots
  BY CarStep, StepRefines DEF CarInv, Bots
<1>1. CASE StartReading \/ StopReading
  <2>1. PICK on \in BOOLEAN : Announce(on) /\ reading' \in BOOLEAN
    BY <1>1 DEF StartReading, StopReading
  <2>2. Len(notices) \in Nat /\ Len(notices) < MaxNotices /\ MaxNotices \in Nat
    BY <2>1, NoticesAssumption DEF Announce, SyncTypeOK
  <2>3. notices' \in Seq(BOOLEAN) /\ Len(notices') = Len(notices) + 1
    BY <2>1 DEF Announce, SyncTypeOK
  <2>4. /\ client' \in Seq({"dial", "await", "ok", "failed"})
        /\ Len(client') = Len(client) + 1
    BY <2>1 DEF Announce, SyncTypeOK
  <2>5. Unsent \in Handlers
    BY <1>0 DEF Unsent, Handlers
  <2>6. server' \in Seq(Handlers) /\ Len(server') = Len(server) + 1
    BY <2>1, <2>5 DEF Announce, SyncTypeOK
  <2>7. (\A n \in 1..Len(notices) : Settled(n)) \in BOOLEAN
    OBVIOUS
  <2>8. apart' \in Seq(BOOLEAN) /\ Len(apart') = Len(apart) + 1
    BY <2>1, <2>7 DEF Announce, SyncTypeOK
  <2>9. scan' = scan
    BY <2>1 DEF Announce
  <2> QED
    BY <1>0, <2>1, <2>2, <2>3, <2>4, <2>6, <2>8, <2>9 DEF SyncTypeOK
<1>2. ASSUME NEW n \in Ids, Dial(n) PROVE SyncTypeOK'
  <2>1. PICK b \in Bots : server' = [server EXCEPT ![n] =
                             [bot |-> b, at |-> IF notices[n] THEN "refresh" ELSE "set"]]
    BY <1>2 DEF Dial
  <2>2. server' \in Seq(Handlers) /\ Len(server') = Len(server)
    <3>1. [bot |-> b, at |-> IF notices[n] THEN "refresh" ELSE "set"] \in Handlers
      BY DEF Handlers
    <3>2. server \in Seq(Handlers) /\ n \in 1..Len(server)
      BY DEF SyncTypeOK, Ids
    <3> QED
      BY <2>1, <3>1, <3>2, ReplaceEntry
  <2>3. client' \in Seq({"dial", "await", "ok", "failed"}) /\ Len(client') = Len(client)
    <3>1. n \in 1..Len(client)
      BY DEF SyncTypeOK, Ids
    <3> QED
      BY <1>2, <3>1, ReplaceEntry DEF Dial, SyncTypeOK
  <2> QED
    BY <1>0, <1>2, <2>2, <2>3 DEF Dial, SyncTypeOK
<1>3. ASSUME NEW n \in Ids, DialFails(n) \/ GivesUp(n) PROVE SyncTypeOK'
  <2>1. client' \in Seq({"dial", "await", "ok", "failed"}) /\ Len(client') = Len(client)
    <3>1. n \in 1..Len(client)
      BY DEF SyncTypeOK, Ids
    <3>2. client' = [client EXCEPT ![n] = "failed"]
      BY <1>3 DEF DialFails, GivesUp
    <3>3. client \in Seq({"dial", "await", "ok", "failed"})
      BY DEF SyncTypeOK
    <3> QED
      BY <3>1, <3>2, <3>3, ReplaceEntry
  <2> QED
    BY <1>0, <1>3, <2>1 DEF DialFails, GivesUp, SyncTypeOK
<1>4. ASSUME NEW n \in Ids, NEW at \in {"set", "refused", "done", "over"}, HandlerGoto(n, at)
      PROVE  server' \in Seq(Handlers) /\ Len(server') = Len(server)
  <2>1. server \in Seq(Handlers) /\ n \in 1..Len(server)
    BY DEF SyncTypeOK, Ids
  <2>2. [server[n] EXCEPT !.at = at] \in Handlers
    <3>1. server[n] \in Handlers
      BY <2>1
    <3>2. server[n] = [bot |-> server[n].bot, at |-> server[n].at] /\ server[n].bot \in Bots
      BY <3>1 DEF Handlers
    <3>3. [server[n] EXCEPT !.at = at] = [bot |-> server[n].bot, at |-> at]
      BY <3>2
    <3> QED
      BY <3>2, <3>3 DEF Handlers
  <2>3. server' = [server EXCEPT ![n] = [server[n] EXCEPT !.at = at]]
    BY <1>4 DEF HandlerGoto
  <2> QED
    BY <2>1, <2>2, <2>3, ReplaceEntry
<1>5. ASSUME NEW n \in Ids, Refresh(n) PROVE SyncTypeOK'
  <2>1. server' \in Seq(Handlers) /\ Len(server') = Len(server)
    BY <1>4, <1>5 DEF Refresh
  <2> QED
    BY <1>0, <1>5, <2>1 DEF Refresh, SyncTypeOK
<1>6. ASSUME NEW n \in Ids, SetScanActive(n) PROVE SyncTypeOK'
  <2>1. server' \in Seq(Handlers) /\ Len(server') = Len(server)
    BY <1>4, <1>6 DEF SetScanActive
  <2>2. scan' \in [Bots -> BOOLEAN]
    <3>1. notices[n] \in BOOLEAN
      BY DEF SyncTypeOK, Ids
    <3> QED
      BY <1>6, <3>1, Zenon DEF SetScanActive, SyncTypeOK
  <2> QED
    BY <1>0, <1>6, <2>1, <2>2 DEF SetScanActive, SyncTypeOK
<1>7. ASSUME NEW n \in Ids, Respond(n) PROVE SyncTypeOK'
  <2>1. server' \in Seq(Handlers) /\ Len(server') = Len(server)
    BY <1>4, <1>7 DEF Respond
  <2>2. client' \in Seq({"dial", "await", "ok", "failed"}) /\ Len(client') = Len(client)
    <3>1. n \in 1..Len(client) /\ client[n] \in {"dial", "await", "ok", "failed"}
      BY DEF SyncTypeOK, Ids
    <3> DEFINE x == IF client[n] # "await" THEN client[n]
                    ELSE IF server[n].at = "done" THEN "ok" ELSE "failed"
    <3>2. x \in {"dial", "await", "ok", "failed"}
      BY <3>1
    <3>3. client' = [client EXCEPT ![n] = x]
      BY <1>7 DEF Respond
    <3> HIDE DEF x
    <3> QED
      BY <3>1, <3>2, <3>3, ReplaceEntry DEF SyncTypeOK
  <2> QED
    BY <1>0, <1>7, <2>1, <2>2 DEF Respond, SyncTypeOK
<1>8. CASE Reconnected
  BY <1>0, <1>8 DEF Reconnected, SyncTypeOK
<1>9. CASE (CarNext /\ UNCHANGED syncVars) \/ UNCHANGED vars
  BY <1>0, <1>9 DEF vars, SyncTypeOK
<1> QED
  BY <1>1, <1>2, <1>3, <1>5, <1>6, <1>7, <1>8, <1>9 DEF Next, NoticeStep, Ids

\* A request that was sent has been got by a bot; an answer was got after the handler
\* had done its work.
Trip(n) ==
  /\ client[n] = "dial" => server[n].at = "nowhere"
  /\ client[n] = "await" => server[n].at # "nowhere"
  /\ client[n] = "ok" => server[n].at = "over"
  /\ server[n].at # "nowhere" => stage[server[n].bot] # "none"

TripInv == \A n \in Ids : Trip(n)

\* When the last notice was made with nothing under way, nothing older is under way;
\* and once its handler has set the flag, the flag is what it asked for.
LastInv ==
  LET n == Len(notices)
  IN  n > 0 /\ apart[n] =>
        /\ \A m \in 1..(n - 1) : Settled(m)
        /\ server[n].at = "done" \/ client[n] = "ok" => scan[server[n].bot] = notices[n]

\* What a step does to the entries of the notices it is not about, and to its own.
LEMMA OwnEntry ==
  ASSUME SyncTypeOK, NEW n \in Ids, NEW at, HandlerGoto(n, at)
  PROVE  /\ server'[n].at = at /\ server'[n].bot = server[n].bot
         /\ \A m \in Ids \ {n} : server'[m] = server[m]
<1>1. server \in Seq(Handlers) /\ n \in 1..Len(server)
  BY DEF SyncTypeOK, Ids
<1>2. server[n] \in Handlers
  BY <1>1
<1> QED
  BY <1>1, <1>2 DEF HandlerGoto, Handlers, SyncTypeOK, Ids

LEMMA OwnClient ==
  ASSUME SyncTypeOK, NEW n \in Ids, NEW x, client' = [client EXCEPT ![n] = x]
  PROVE  client'[n] = x /\ \A m \in Ids \ {n} : client'[m] = client[m]
  BY DEF SyncTypeOK, Ids

LEMMA TripStep == CarInv /\ SyncTypeOK /\ TripInv /\ [Next]_vars => TripInv'
<1> SUFFICES ASSUME CarInv, SyncTypeOK, TripInv, [Next]_vars PROVE \A m \in Ids' : Trip(m)'
  BY DEF TripInv
<1>t. \A m \in Ids : Trip(m)
  BY DEF TripInv
<1>b. \A m \in Ids : server[m] \in Handlers /\ server[m].bot \in Bots
  <2>1. \A m \in Ids : server[m] \in Handlers
    BY DEF SyncTypeOK, Ids
  <2> QED
    BY <2>1 DEF Handlers
<1>1. CASE StartReading \/ StopReading
  <2>1. PICK on \in BOOLEAN : Announce(on)
    BY <1>1 DEF StartReading, StopReading
  <2>2. Len(notices) \in Nat /\ Len(notices') = Len(notices) + 1 /\ stage' = stage
    BY <2>1 DEF Announce, SyncTypeOK
  <2>3. \A m \in Ids : client'[m] = client[m] /\ server'[m] = server[m]
    BY <2>1 DEF Announce, SyncTypeOK, Ids
  <2>4. client'[Len(notices) + 1] = "dial" /\ server'[Len(notices) + 1] = Unsent
    BY <2>1 DEF Announce, SyncTypeOK
  <2>5. ASSUME NEW m \in Ids' PROVE Trip(m)'
    <3>1. CASE m \in Ids
      BY <1>t, <2>2, <2>3, <3>1 DEF Trip
    <3>2. CASE m = Len(notices) + 1
      BY <2>4, <3>2 DEF Trip, Unsent
    <3> QED
      BY <2>2, <3>1, <3>2 DEF Ids
  <2> QED
    BY <2>5
<1>2. ASSUME NEW n \in Ids, Dial(n) PROVE \A m \in Ids' : Trip(m)'
  <2>1. PICK b \in Bots : Reachable(b) /\ server' = [server EXCEPT ![n] =
                             [bot |-> b, at |-> IF notices[n] THEN "refresh" ELSE "set"]]
    BY <1>2 DEF Dial
  <2>2. client'[n] = "await" /\ \A m \in Ids \ {n} : client'[m] = client[m]
    BY <1>2, OwnClient DEF Dial
  <2>3. /\ server'[n].bot = b /\ server'[n].at \in {"refresh", "set"}
        /\ \A m \in Ids \ {n} : server'[m] = server[m]
    BY <2>1 DEF SyncTypeOK, Ids
  <2>4. stage' = stage /\ Ids' = Ids /\ stage[b] = "serving"
    BY <1>2, <2>1 DEF Dial, Reachable, Ids
  <2> QED
    BY <1>t, <2>2, <2>3, <2>4 DEF Trip
<1>3. ASSUME NEW n \in Ids, DialFails(n) \/ GivesUp(n) PROVE \A m \in Ids' : Trip(m)'
  <2>1. client'[n] = "failed" /\ \A m \in Ids \ {n} : client'[m] = client[m]
    BY <1>3, OwnClient DEF DialFails, GivesUp
  <2>2. stage' = stage /\ server' = server /\ Ids' = Ids
    BY <1>3 DEF DialFails, GivesUp, Ids
  <2> QED
    BY <1>t, <2>1, <2>2 DEF Trip
<1>4. ASSUME NEW n \in Ids, Refresh(n) \/ SetScanActive(n) PROVE \A m \in Ids' : Trip(m)'
  <2>1. PICK at \in {"set", "refused", "done"} : HandlerGoto(n, at)
    BY <1>4 DEF Refresh, SetScanActive
  <2>2. /\ server'[n].at = at /\ server'[n].bot = server[n].bot
        /\ \A m \in Ids \ {n} : server'[m] = server[m]
    BY <2>1, OwnEntry
  <2>3. server[n].at \in {"refresh", "set"}
    BY <1>4 DEF Refresh, SetScanActive, HandlerAt
  <2>4. stage' = stage /\ client' = client /\ Ids' = Ids
    BY <1>4 DEF Refresh, SetScanActive, Ids
  <2> QED
    BY <1>t, <2>2, <2>3, <2>4 DEF Trip
<1>5. ASSUME NEW n \in Ids, Respond(n) PROVE \A m \in Ids' : Trip(m)'
  <2>1. /\ server'[n].at = "over" /\ server'[n].bot = server[n].bot
        /\ \A m \in Ids \ {n} : server'[m] = server[m]
    BY <1>5, OwnEntry DEF Respond
  <2>2. /\ client'[n] = (IF client[n] # "await" THEN client[n]
                         ELSE IF server[n].at = "done" THEN "ok" ELSE "failed")
        /\ \A m \in Ids \ {n} : client'[m] = client[m]
    BY <1>5, OwnClient DEF Respond
  <2>3. server[n].at \in {"done", "refused"}
    BY <1>5 DEF Respond, HandlerAt
  <2>4. stage' = stage /\ Ids' = Ids
    BY <1>5 DEF Respond, Ids
  <2> QED
    BY <1>t, <2>1, <2>2, <2>3, <2>4 DEF Trip
<1>6. CASE UNCHANGED syncVars \/ Reconnected
  <2>1. UNCHANGED <<client, server, Ids>>
    BY <1>6 DEF Reconnected, Ids
  <2>2. \A b \in Bots : stage'[b] = "none" => stage[b] = "none"
    BY StagesGoOn, StepRefines DEF CarInv, GoesOn
  <2> QED
    BY <1>t, <1>b, <2>1, <2>2 DEF Trip
<1> QED
  BY <1>1, <1>2, <1>3, <1>4, <1>5, <1>6 DEF Next, NoticeStep, Ids, vars

\* A step of one notice leaves the processes and the other notices alone.
LEMMA OthersStay ==
  ASSUME SyncTypeOK, NEW k \in Ids,
         Dial(k) \/ DialFails(k) \/ GivesUp(k) \/ Refresh(k) \/ SetScanActive(k) \/ Respond(k)
  PROVE  /\ stage' = stage /\ notices' = notices /\ apart' = apart
         /\ \A m \in Ids \ {k} : client'[m] = client[m] /\ server'[m] = server[m]
<1>1. stage' = stage /\ notices' = notices /\ apart' = apart
  BY DEF Dial, DialFails, GivesUp, Refresh, SetScanActive, Respond
<1>2. \A m \in Ids \ {k} : client'[m] = client[m]
  BY OwnClient DEF Dial, DialFails, GivesUp, Refresh, SetScanActive, Respond
<1>3. ASSUME NEW m \in Ids \ {k} PROVE server'[m] = server[m]
  <2>1. CASE Dial(k)
    BY <2>1 DEF Dial, SyncTypeOK, Ids
  <2>2. CASE DialFails(k) \/ GivesUp(k)
    BY <2>2 DEF DialFails, GivesUp
  <2>3. CASE Refresh(k) \/ SetScanActive(k) \/ Respond(k)
    <3>1. PICK at \in {"set", "refused", "done", "over"} : HandlerGoto(k, at)
      BY <2>3 DEF Refresh, SetScanActive, Respond
    <3> QED
      BY <3>1, OwnEntry
  <2> QED
    BY <2>1, <2>2, <2>3
<1> QED
  BY <1>1, <1>2, <1>3

\* Nothing happens any more for a notice that is settled.
LEMMA SettledStays ==
  ASSUME CarInv, SyncTypeOK, TripInv, [Next]_vars, NEW n \in Ids, Settled(n)
  PROVE  Settled(n)'
<1>1. CASE client'[n] = client[n] /\ server'[n] = server[n]
  <2>1. server[n] \in Handlers
    BY DEF SyncTypeOK, Ids
  <2>2. server[n].bot \in Bots
    BY <2>1 DEF Handlers
  <2>3. GoesOn(server[n].bot)
    BY <2>2, StagesGoOn, StepRefines DEF CarInv
  <2>4. server[n].at # "nowhere" => stage[server[n].bot] # "none"
    BY DEF TripInv, Trip
  <2> QED
    BY <1>1, <2>3, <2>4 DEF Settled, Up, GoesOn
<1>2. CASE StartReading \/ StopReading
  <2>1. PICK on \in BOOLEAN : Announce(on)
    BY <1>2 DEF StartReading, StopReading
  <2>2. client'[n] = client[n] /\ server'[n] = server[n]
    BY <2>1 DEF Announce, SyncTypeOK, Ids
  <2> QED
    BY <1>1, <2>2
<1>3. ASSUME NEW k \in Ids,
             Dial(k) \/ DialFails(k) \/ GivesUp(k) \/ Refresh(k) \/ SetScanActive(k) \/ Respond(k)
      PROVE  Settled(n)'
  <2>1. k # n
    BY <1>3 DEF Settled, Dial, DialFails, GivesUp, Refresh, SetScanActive, Respond, HandlerAt
  <2>2. client'[n] = client[n] /\ server'[n] = server[n]
    BY <1>3, <2>1, OthersStay
  <2> QED
    BY <1>1, <2>2
<1>4. CASE UNCHANGED syncVars \/ Reconnected
  BY <1>1, <1>4 DEF Reconnected
<1> QED
  BY <1>2, <1>3, <1>4 DEF Next, NoticeStep, Ids, vars

LEMMA LastStep == CarInv /\ SyncTypeOK /\ TripInv /\ LastInv /\ [Next]_vars => LastInv'
<1> SUFFICES ASSUME CarInv, SyncTypeOK, TripInv, LastInv, [Next]_vars PROVE LastInv'
  OBVIOUS
<1> DEFINE n == Len(notices)
<1>n. n \in Nat
  BY DEF SyncTypeOK
<1>1. CASE StartReading \/ StopReading
  <2>1. PICK on \in BOOLEAN : Announce(on)
    BY <1>1 DEF StartReading, StopReading
  <2>2. Len(notices') = n + 1 /\ apart'[n + 1] = (\A m \in 1..n : Settled(m))
    <3>1. Len(notices') = n + 1 /\ Len(apart) = n
      BY <2>1 DEF Announce, SyncTypeOK
    <3>2. \A x \in BOOLEAN : Append(apart, x)[n + 1] = x
      BY <1>n, <3>1 DEF SyncTypeOK
    <3>3. apart' = Append(apart, \A m \in 1..n : Settled(m))
      BY <2>1 DEF Announce
    <3> HIDE DEF n
    <3> QED
      BY <3>1, <3>2, <3>3, Zenon
  <2>3. client'[n + 1] = "dial" /\ server'[n + 1].at = "nowhere"
    BY <2>1 DEF Announce, SyncTypeOK, Unsent
  <2>4. ASSUME \A m \in 1..n : Settled(m) PROVE \A m \in 1..n : Settled(m)'
    BY <2>4, SettledStays DEF Ids
  <2>5. (n + 1) - 1 = n
    BY <1>n
  <2> QED
    BY <2>2, <2>3, <2>4, <2>5 DEF LastInv
<1>2. ASSUME NEW k \in Ids,
             Dial(k) \/ DialFails(k) \/ GivesUp(k) \/ Refresh(k) \/ SetScanActive(k) \/ Respond(k)
      PROVE  LastInv'
  <2>1. /\ stage' = stage /\ notices' = notices /\ apart' = apart
        /\ \A m \in Ids \ {k} : client'[m] = client[m] /\ server'[m] = server[m]
    BY <1>2, OthersStay
  <2> SUFFICES ASSUME n > 0, apart[n]
               PROVE  /\ \A m \in 1..(n - 1) : Settled(m)'
                      /\ server'[n].at = "done" \/ client'[n] = "ok"
                           => scan'[server'[n].bot] = notices[n]
    BY <2>1 DEF LastInv
  <2>2. /\ \A m \in 1..(n - 1) : Settled(m)
        /\ server[n].at = "done" \/ client[n] = "ok" => scan[server[n].bot] = notices[n]
    BY DEF LastInv
  <2>3. \A m \in 1..(n - 1) : Settled(m)'
    BY <1>n, <2>2, SettledStays DEF Ids
  <2>4. k = n
    <3>1. ~Settled(k)
      BY <1>2 DEF Settled, Dial, DialFails, GivesUp, Refresh, SetScanActive, Respond, HandlerAt
    <3> QED
      BY <1>n, <2>2, <3>1 DEF Ids
  <2>5. n \in Ids /\ Trip(n)
    BY <2>4 DEF TripInv
  <2>6. CASE Dial(n)
    <3>1. client'[n] = "await"
      BY <2>5, <2>6, OwnClient DEF Dial
    <3>2. server'[n].at \in {"refresh", "set"}
      BY <2>5, <2>6 DEF Dial, SyncTypeOK, Ids
    <3> QED
      BY <2>3, <3>1, <3>2
  <2>7. CASE DialFails(n) \/ GivesUp(n)
    <3>1. client'[n] = "failed" /\ server' = server /\ scan' = scan
      BY <2>5, <2>7, OwnClient DEF DialFails, GivesUp
    <3> QED
      BY <2>2, <2>3, <3>1
  <2>8. CASE Refresh(n)
    <3>1. server'[n].at \in {"set", "refused"}
      BY <2>5, <2>8, OwnEntry DEF Refresh
    <3>2. client' = client /\ client[n] # "ok"
      BY <2>5, <2>8 DEF Refresh, HandlerAt, Trip
    <3> QED
      BY <2>3, <3>1, <3>2
  <2>9. CASE SetScanActive(n)
    <3>1. server'[n].bot = server[n].bot
      BY <2>5, <2>9, OwnEntry DEF SetScanActive
    <3>2. server[n] \in Handlers
      BY <2>5 DEF SyncTypeOK, Ids
    <3>3. server[n].bot \in Bots
      BY <3>2 DEF Handlers
    <3>4. scan'[server[n].bot] = notices[n]
      BY <2>9, <3>3, Zenon DEF SetScanActive, SyncTypeOK
    <3> QED
      BY <2>3, <3>1, <3>4
  <2>10. CASE Respond(n)
    <3>1. server'[n].at = "over" /\ server'[n].bot = server[n].bot /\ scan' = scan
      BY <2>5, <2>10, OwnEntry DEF Respond
    <3>2. client'[n] = (IF client[n] # "await" THEN client[n]
                        ELSE IF server[n].at = "done" THEN "ok" ELSE "failed")
      BY <2>5, <2>10, OwnClient DEF Respond
    <3>3. client'[n] = "ok" => client[n] = "ok" \/ server[n].at = "done"
      BY <3>2
    <3> QED
      BY <2>2, <2>3, <3>1, <3>3
  <2> QED
    BY <1>2, <2>4, <2>6, <2>7, <2>8, <2>9, <2>10
<1>3. CASE UNCHANGED syncVars \/ Reconnected
  <2>1. UNCHANGED <<notices, client, server, apart, scan>>
    BY <1>3 DEF Reconnected
  <2>2. ASSUME NEW m \in 1..(n - 1), Settled(m) PROVE Settled(m)'
    BY <1>n, <2>2, SettledStays DEF Ids
  <2> QED
    BY <2>1, <2>2 DEF LastInv
<1> QED
  BY <1>1, <1>2, <1>3 DEF Next, NoticeStep, Ids, vars

\* The inductive invariant of the composed system.
SyncInv == CarInv /\ SyncTypeOK /\ TripInv /\ LastInv

LEMMA SyncInit == Init => SyncInv
<1> SUFFICES ASSUME Init PROVE SyncInv
  OBVIOUS
<1>1. CarInv
  BY CarInitially DEF Init
<1>2. Len(notices) = 0
  BY DEF Init
<1>3. scan \in [Bots -> BOOLEAN] /\ reading \in BOOLEAN
  BY Zenon DEF Init
<1>4. SyncTypeOK
  BY <1>1, <1>3, NoticesAssumption DEF Init, CarInv, SyncTypeOK
<1>5. TripInv /\ LastInv
  BY <1>2 DEF TripInv, LastInv, Ids
<1> QED
  BY <1>1, <1>4, <1>5 DEF SyncInv

THEOREM SyncCorrect == Spec => []SyncInv
<1>1. SyncInv /\ [Next]_vars => SyncInv'
  BY CarStep, StepRefines, SyncTypeStep, TripStep, LastStep DEF SyncInv
<1> QED
  BY <1>1, SyncInit, PTL DEF Spec

\* The variables keep their types.
THEOREM TypeCorrect == Spec => []SyncTypeOK
<1>1. SyncInv => SyncTypeOK
  BY DEF SyncInv
<1> QED
  BY <1>1, SyncCorrect, PTL

\* The last notice holds when it was made with nothing under way and answered with ok,
\* however many notices came before it and whatever became of them.
THEOREM LastNoticeCorrect == Spec => []LastNoticeHolds
<1>1. SyncInv => LastNoticeHolds
  BY DEF SyncInv, LastInv, LastNoticeHolds
<1> QED
  BY <1>1, SyncCorrect, PTL
=============================================================================
