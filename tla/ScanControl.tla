----------------------------- MODULE ScanControl -----------------------------
(***************************************************************************)
(* Who switches the scan: the Telegram poller, IPC connections and HTTP     *)
(* handlers, each a goroutine of its own, drive two things that nothing     *)
(* keeps together, the flag scanActive of the service and the loop of the   *)
(* reader manager.  A start refreshes the cache, raises the flag and calls  *)
(* Start; a stop calls Stop and lowers the flag; /range20 changes the       *)
(* profile and restarts the reader when the flag is up.                     *)
(*                                                                         *)
(* Left out: replies, and everything of the service but the flag            *)
(* (EPCService has the rest).                                               *)
(***************************************************************************)
EXTENDS ReaderManager

CONSTANTS
  Telegram, Http, Ipc,  \* the front ends, by kind
  Main,                 \* {} or the main goroutine, when AutoScan starts the reader
  Wired,                \* front ends that were given the scanner (main.go)
  ScanDefault           \* cfg.ScanDefaultActive

ASSUME FrontEndsAssumption ==
  /\ Callers = Telegram \cup Http \cup Ipc \cup Main
  /\ Telegram \cup Http \cup Main \subseteq Wired
  /\ ScanDefault \in BOOLEAN

VARIABLES
  scanActive,  \* Service.scanActive
  hpc,         \* where a handler is
  owner,       \* the HTTP handlers that started a launch with their own context
  raised,      \* history variable: somebody has asked for the scan
  overlooked   \* history variable: the last /range20 found the flag down and a launch alive

vars == <<mvars, scanActive, hpc, owner, raised, overlooked>>
handlerVars == <<scanActive, hpc, owner, raised, overlooked>>

HandlerPlaces == {"idle", "refresh", "flagOn", "start", "autoFlag", "stop", "stopping",
                  "flagOff", "readFlag", "restop", "restopping", "restart", "return"}

\* Manager, flag and handlers stay in their ranges.
ControlTypeOK ==
  /\ TypeOK
  /\ scanActive \in BOOLEAN
  /\ hpc \in [Callers -> HandlerPlaces]
  /\ owner \in [Loops -> SUBSET Http]
  /\ raised \in BOOLEAN /\ overlooked \in BOOLEAN

\* main: with AutoScan the main goroutine starts the reader while Telegram is
\* already being polled.
ControlInit ==
  /\ Init
  /\ scanActive = ScanDefault
  /\ hpc = [c \in Callers |-> IF c \in Main THEN "start" ELSE "idle"]
  /\ owner = [r \in Loops |-> {}]
  /\ raised = FALSE /\ overlooked = FALSE

HandlerGoto(c, from, to) ==
  /\ hpc[c] = from
  /\ hpc' = [hpc EXCEPT ![c] = to]

-----------------------------------------------------------------------------
(* Starting the scan.                                                      *)

ScanStart(c) ==
  /\ c \in Telegram \cup Http \cup Ipc
  /\ HandlerGoto(c, "idle", "refresh")
  /\ UNCHANGED <<mvars, scanActive, owner, raised, overlooked>>

\* RefreshCache.  When it fails Telegram only warns; HTTP and IPC give up.
RefreshDone(c) ==
  /\ \/ HandlerGoto(c, "refresh", "flagOn")
     \/ c \in Http /\ HandlerGoto(c, "refresh", "return")
     \/ c \in Ipc /\ HandlerGoto(c, "refresh", "idle")
  /\ UNCHANGED <<mvars, scanActive, owner, raised, overlooked>>

\* SetScanActive(true); a front end without the scanner is done.
FlagOn(c) ==
  /\ HandlerGoto(c, "flagOn", IF c \in Wired THEN "start" ELSE "idle")
  /\ scanActive' = TRUE
  /\ raised' = TRUE
  /\ UNCHANGED <<mvars, owner, overlooked>>

\* Where a handler goes on after its call of scanner.Start: main raises the flag
\* only now, an HTTP handler has a context that dies with it.
AfterStart(c) == IF c \in Main THEN "autoFlag" ELSE IF c \in Http THEN "return" ELSE "idle"

\* Mistake: every launch is given the context of the call that made it.
CallStartOwned(c) ==
  /\ \E p \in {"start", "restart"} : HandlerGoto(c, p, AfterStart(c))
  /\ \/ \E r \in Loops : Start(c, r) /\ owner' = [owner EXCEPT ![r] = {c}]
     \/ StartBusy(c) /\ UNCHANGED owner
  /\ UNCHANGED <<scanActive, raised, overlooked>>

CallStart(c) ==
  /\ \E p \in {"start", "restart"} : HandlerGoto(c, p, AfterStart(c))
  /\ \/ \E r \in Loops : Start(c, r) /\ owner' = [owner EXCEPT ![r] = {c} \cap Http]
     \/ StartBusy(c) /\ UNCHANGED owner
  /\ UNCHANGED <<scanActive, raised, overlooked>>

AutoFlag(c) ==
  /\ HandlerGoto(c, "autoFlag", "idle")
  /\ scanActive' = TRUE
  /\ raised' = TRUE
  /\ UNCHANGED <<mvars, owner, overlooked>>

\* net/http cancels the context of a request when its handler returns, and with
\* it every launch that was made from it.
HttpReturn(c) ==
  /\ HandlerGoto(c, "return", "idle")
  /\ ParentDone({r \in Loops : lpc[r] # "gone" /\ c \in owner[r]})
  /\ UNCHANGED <<scanActive, owner, raised, overlooked>>

-----------------------------------------------------------------------------
(* Stopping the scan.                                                      *)

\* A front end without the scanner only lowers the flag.
ScanStop(c) ==
  /\ c \in Telegram \cup Http \cup Ipc
  /\ HandlerGoto(c, "idle", IF c \in Wired THEN "stop" ELSE "flagOff")
  /\ UNCHANGED <<mvars, scanActive, owner, raised, overlooked>>

\* The three parts of scanner.Stop, for a stop and for a restart.
CallStop(c) ==
  /\ \/ HandlerGoto(c, "stop", "stopping")
     \/ HandlerGoto(c, "restop", "restopping")
  /\ StopTake(c)
  /\ UNCHANGED <<scanActive, owner, raised, overlooked>>

InStop(c) ==
  /\ StopCancel(c)
  /\ UNCHANGED handlerVars

\* Mistake: the handler does not wait for the loop.
StopReturnedEarly(c) ==
  /\ \/ HandlerGoto(c, "stopping", "flagOff")
     \/ HandlerGoto(c, "restopping", "restart")
  /\ mpc[c] = "wait"
  /\ mpc' = [mpc EXCEPT ![c] = "idle"]
  /\ takenCancel' = [takenCancel EXCEPT ![c] = NoLoop]
  /\ takenDone' = [takenDone EXCEPT ![c] = NoLoop]
  /\ UNCHANGED <<managerVars, loopVars, scanActive, owner, raised, overlooked>>

StopReturned(c) ==
  /\ \/ HandlerGoto(c, "stopping", "flagOff")
     \/ HandlerGoto(c, "restopping", "restart")
  /\ StopWait(c)
  /\ UNCHANGED <<scanActive, owner, raised, overlooked>>

\* SetScanActive(false)
FlagOff(c) ==
  /\ HandlerGoto(c, "flagOff", "idle")
  /\ scanActive' = FALSE
  /\ UNCHANGED <<mvars, owner, raised, overlooked>>

-----------------------------------------------------------------------------
(* /range20 on and off.                                                    *)

Range20(c) ==
  /\ c \in Telegram
  /\ HandlerGoto(c, "idle", "readFlag")
  /\ \E enabled \in BOOLEAN : SetLongRangeMode(c, enabled)
  /\ UNCHANGED <<scanActive, owner, raised, overlooked>>

\* The reader is restarted only when the flag is up.
Range20Flag(c) ==
  /\ HandlerGoto(c, "readFlag", IF scanActive THEN "restop" ELSE "idle")
  /\ overlooked' = (~scanActive /\ running)
  /\ UNCHANGED <<mvars, scanActive, owner, raised>>

-----------------------------------------------------------------------------
(* The specification.                                                      *)

\* What a handler does once it was called.
HandlerStep(c) ==
  \/ RefreshDone(c) \/ FlagOn(c) \/ CallStart(c) \/ AutoFlag(c) \/ HttpReturn(c)
  \/ CallStop(c) \/ InStop(c) \/ StopReturned(c) \/ FlagOff(c) \/ Range20Flag(c)

ControlNext ==
  \/ \E c \in Callers : ScanStart(c) \/ ScanStop(c) \/ Range20(c) \/ HandlerStep(c)
  \/ \E r \in Loops : LoopStep(r) /\ UNCHANGED handlerVars

ControlSpec == ControlInit /\ [][ControlNext]_vars

\* Every goroutine that can take a step takes one, as in ReaderManager.
ControlFairSpec == ControlSpec /\ Fairness

-----------------------------------------------------------------------------
(* Properties.                                                             *)

Quiescent == \A c \in Callers : hpc[c] = "idle"

\* A reader that is going to be read: a launch nobody has cancelled.
ReaderAtWork == running /\ ~cancelled[done]

\* When no command is being handled and the scan is on because somebody asked
\* for it, the reader is at work: no interleaving of commands makes a start
\* meet a loop on its way out (Start has no effect then) and yet leave the flag
\* up, because every stop lowers the flag only after the loop it stopped is gone.
ActiveScanHasReader == Quiescent /\ scanActive /\ raised => ReaderAtWork

\* A /range20 that has stopped the launch it found, or found none, is in force: the
\* reader is configured with the profile that Status shows, whoever has started it since
\* and whatever the other front ends were doing meanwhile.  The exception is the flag
\* that is down over a launch alive, which the handler takes for a reader at rest.
RetuneIsInForce ==
  ~overlooked /\ (\A c \in Callers : hpc[c] \notin {"readFlag", "restop", "restopping"})
    => \A r \in Loops : lpc[r] \in {"start", "consume"} => profile[r] = longRange
=============================================================================
