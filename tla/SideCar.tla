------------------------------- MODULE SideCar -------------------------------
(***************************************************************************)
(* The terminal UI and the bot processes that share one IPC socket.         *)
(*                                                                          *)
(* st8508-tui asks the socket whether a bot is there, starts one in a       *)
(* process group of its own if not, waits until the socket answers, and     *)
(* ends the group when it quits.  Meanwhile other bots may be started and   *)
(* stopped by hand.  Every bot removes whatever the socket's path names     *)
(* before it listens, and again when it stops.  The leader of the UI's      *)
(* process group is the bot itself, or a shell or go run around it.         *)
(***************************************************************************)
CONSTANTS
  Own,      \* the bot the UI may start
  Manual    \* bots started by hand

ASSUME OwnIsNotManual == Own \notin Manual

Bots == {Own} \cup Manual

VARIABLES
  tui,        \* where st8508-tui is
  wrapped,    \* the group is led by sh -lc or go run
  leader,     \* the wrapper: "none", "up" or "exited"
  stage,      \* stage[b]: how far the bot's main and its IPC server have come
  signalled,  \* the bots whose context is cancelled: a signal, or stop()
  path        \* the bot whose socket the path names, "free", or "stale": a dead bot's

carVars == <<tui, wrapped, leader, stage, signalled, path>>

\* boot     main up to ipcServer.Run        failed   Listen returned an error
\* bind     the path is removed             closing  the listener is closed
\* serving  connections are accepted        closed   Run has returned
BotStages ==
  {"none", "boot", "bind", "serving", "failed", "closing", "closed", "dead"}

TuiPlaces ==
  {"begin", "spawn", "wait", "runs", "term", "reap", "gone", "fatal"}

CarTypeOK ==
  /\ tui \in TuiPlaces
  /\ wrapped \in BOOLEAN /\ leader \in {"none", "up", "exited"}
  /\ stage \in [Bots -> BotStages]
  /\ signalled \in SUBSET Bots
  /\ path \in Bots \cup {"free", "stale"}

CarInit ==
  /\ tui = "begin"
  /\ wrapped \in BOOLEAN /\ leader = "none"
  /\ stage = [b \in Bots |-> "none"]
  /\ signalled = {}
  /\ path \in {"free", "stale"}

Up(b) == stage[b] \notin {"none", "dead"}

\* Whoever dials the path reaches the IPC server of this bot.
Reachable(b) == path = b /\ stage[b] = "serving"

\* The path after one of its owners has died is a file nobody listens to.
PathAfter(b) == IF path = b THEN "stale" ELSE path

-----------------------------------------------------------------------------
(* A bot.                                                                  *)

ManualStart(b) ==
  /\ b \in Manual /\ stage[b] = "none"
  /\ stage' = [stage EXCEPT ![b] = "boot"]
  /\ UNCHANGED <<tui, wrapped, leader, signalled, path>>

\* Somebody interrupts a bot that was started by hand.
ManualStop(b) ==
  /\ b \in Manual /\ Up(b) /\ b \notin signalled
  /\ signalled' = signalled \cup {b}
  /\ UNCHANGED <<tui, wrapped, leader, stage, path>>

\* Mistake: a file that is there already is left alone.
RemoveOldKept(b) ==
  /\ stage[b] = "boot"
  /\ stage' = [stage EXCEPT ![b] = "bind"]
  /\ UNCHANGED <<tui, wrapped, leader, signalled, path>>

\* Server.Run starts: os.Remove takes whatever file there is.
RemoveOld(b) ==
  /\ stage[b] = "boot"
  /\ stage' = [stage EXCEPT ![b] = "bind"]
  /\ path' = "free"
  /\ UNCHANGED <<tui, wrapped, leader, signalled>>

\* Listen, which fails when another bot has bound the path in between: stop().  The
\* directory is taken to be there and writable: without it no bot ever has a socket.
Listen(b) ==
  /\ stage[b] = "bind"
  /\ \/ /\ path = "free"
        /\ path' = b
        /\ stage' = [stage EXCEPT ![b] = "serving"]
        /\ UNCHANGED signalled
     \/ /\ path # "free"
        /\ stage' = [stage EXCEPT ![b] = "failed"]
        /\ signalled' = signalled \cup {b}
        /\ UNCHANGED path
  /\ UNCHANGED <<tui, wrapped, leader>>

\* The context is cancelled, or Accept fails for good and Run returns with stop().
\* Closing a Unix listener unlinks its path, whatever that names by now.
CloseListener(b) ==
  /\ stage[b] = "serving"
  /\ stage' = [stage EXCEPT ![b] = "closing"]
  /\ signalled' = signalled \cup {b}
  /\ path' = "free"
  /\ UNCHANGED <<tui, wrapped, leader>>

\* The deferred os.Remove of Run.
RemoveAgain(b) ==
  /\ stage[b] = "closing"
  /\ stage' = [stage EXCEPT ![b] = "closed"]
  /\ path' = "free"
  /\ UNCHANGED <<tui, wrapped, leader, signalled>>

\* main returns as soon as the context is cancelled, whatever its goroutines still
\* have to do; or the configuration is refused, the process crashes or is killed.
ProcessEnds(b) ==
  /\ Up(b)
  /\ stage' = [stage EXCEPT ![b] = "dead"]
  /\ path' = PathAfter(b)
  /\ UNCHANGED <<tui, wrapped, leader, signalled>>

\* go run and the shell end with the bot, or by the signal that the group gets; nobody
\* kills them alone, which would leave Getpgid without a process and the bot unsignalled.
WrapperExits ==
  /\ leader = "up"
  /\ ~Up(Own) \/ Own \in signalled
  /\ leader' = "exited"
  /\ UNCHANGED <<tui, wrapped, stage, signalled, path>>

BotStep ==
  \/ \E b \in Bots :
       \/ ManualStart(b) \/ ManualStop(b)
       \/ RemoveOld(b) \/ Listen(b) \/ CloseListener(b) \/ RemoveAgain(b)
       \/ ProcessEnds(b)
  \/ WrapperExits

-----------------------------------------------------------------------------
(* st8508-tui.                                                             *)

TuiGoto(place) ==
  tui' = place /\ UNCHANGED <<wrapped, leader, stage, signalled, path>>

\* The process startBotSidecar has started and Wait has been called for is over.
LeaderExited == IF wrapped THEN leader = "exited" ELSE stage[Own] = "dead"

\* A bot answers the first status request: none is started, stopBot does nothing.
FirstPingAnswered == tui = "begin" /\ (\E b \in Bots : Reachable(b)) /\ TuiGoto("runs")

\* No answer in time.
FirstPingFails == tui = "begin" /\ TuiGoto("spawn")

\* The log file, the command or its start fails: log.Fatal before there is a bot.
SpawnFails == tui = "spawn" /\ TuiGoto("gone")

\* cmd.Start with Setpgid.
Spawn ==
  /\ tui = "spawn"
  /\ tui' = "wait"
  /\ stage' = [stage EXCEPT ![Own] = "boot"]
  /\ leader' = IF wrapped THEN "up" ELSE "none"
  /\ UNCHANGED <<wrapped, signalled, path>>

\* Whichever bot it is that answers.
WaitPings == tui = "wait" /\ (\E b \in Bots : Reachable(b)) /\ TuiGoto("runs")

\* Mistake: the error is returned and the process is left running.
WaitFailsLeaves == tui = "wait" /\ TuiGoto("gone")

\* The process is over, or the deadline has passed: the group is ended.
WaitFails == tui = "wait" /\ TuiGoto("term")

\* tui.Run returns: the deferred stopBot ends the group, if there is one.
Quit == tui = "runs" /\ TuiGoto(IF stage[Own] = "none" THEN "gone" ELSE "term")

\* tui.Run returns an error and log.Fatal skips the deferred stopBot, or the UI dies.
Fatal == tui \in TuiPlaces \ {"gone", "fatal"} /\ TuiGoto("fatal")

\* Getpgid finds no process when the leader was waited for; else SIGTERM to the group.
Terminate ==
  /\ tui = "term"
  /\ IF LeaderExited
     THEN TuiGoto("gone")
     ELSE /\ tui' = "reap"
          /\ signalled' = signalled \cup {Own}
          /\ UNCHANGED <<wrapped, leader, stage, path>>

Reap == tui = "reap" /\ LeaderExited /\ TuiGoto("gone")

\* Mistake: there is no SIGKILL.
KillNever == FALSE /\ UNCHANGED carVars

\* The leader is still there after two seconds: SIGKILL to the group.
Kill ==
  /\ tui = "reap" /\ ~LeaderExited
  /\ stage' = [stage EXCEPT ![Own] = "dead"]
  /\ leader' = IF wrapped THEN "exited" ELSE leader
  /\ path' = PathAfter(Own)
  /\ UNCHANGED <<tui, wrapped, signalled>>

TuiStep ==
  \/ FirstPingAnswered \/ FirstPingFails \/ SpawnFails \/ Spawn
  \/ WaitPings \/ WaitFails \/ Terminate \/ Reap \/ Kill

CarNext == BotStep \/ TuiStep \/ Quit \/ Fatal

CarSpec == CarInit /\ [][CarNext]_carVars

-----------------------------------------------------------------------------
(* Properties.                                                             *)

\* When st8508-tui has ended by itself, after a session or after a start that
\* failed, the bot it had started is over as well; a bot under a shell or go run
\* has at least been told to stop, since the wrapper's end is all that
\* terminateProcessGroup waits for.
NoBotLeftBehind ==
  tui = "gone" => \/ ~Up(Own)
                  \/ wrapped /\ Own \in signalled

\* A bot has no enemy but other bots: as long as no other bot has come as far as
\* the socket, it gets its socket whatever a dead bot left behind, and is the one
\* that clients of the path reach.
AloneMeansReachable ==
  \A b \in Bots :
    (\A o \in Bots \ {b} : stage[o] \in {"none", "boot"})
      => stage[b] # "failed" /\ (stage[b] = "serving" => path = b)

\* The UI is never stuck before its screen comes up nor after it was left, however
\* slow the bots are and whether or not they heed SIGTERM.
TuiMovesOn ==
  tui \notin {"runs", "gone", "fatal"} ~> tui \in {"runs", "gone", "fatal"}
=============================================================================
