---------------------------- MODULE ReaderManager ----------------------------
(***************************************************************************)
(* The scanner manager of internal/gobot/reader: Start launches a goroutine *)
(* (scanLoop) that keeps one reader connected and read, Stop cancels it and *)
(* waits until it has closed its done channel.  Telegram, HTTP and IPC      *)
(* handlers call Start, Stop and SetLongRangeMode from goroutines of their  *)
(* own; each call is cut where it releases Manager.mu or blocks.            *)
(*                                                                         *)
(* An element of Loops stands for one launch: its context, its done channel *)
(* and its goroutine.  It is used again once nobody refers to it any more.  *)
(* Left out: the statistics of Status, the texts of notifications, and the  *)
(* delivery of tags to onEPC, which is HandleEPC of EPCService.             *)
(***************************************************************************)
EXTENDS Naturals, FiniteSets

CONSTANTS
  Callers,  \* goroutines that call the manager
  Loops,    \* launches of scanLoop
  NoLoop    \* nil

ASSUME NoLoopAssumption == NoLoop \notin Loops

VARIABLES
  running, cancel, done,  \* Manager.running, .cancel and .done
  longRange,              \* Manager.longRange, and with it invCfg
  connected,              \* Status.Connected
  lpc,                    \* where the goroutine of a launch is
  cancelled,              \* its context is cancelled
  profile,                \* the longRange value its reader was configured with
  mpc,                    \* where a caller is inside Stop
  takenCancel, takenDone  \* the local variables of Stop

managerVars == <<running, cancel, done, longRange, connected>>
loopVars    == <<lpc, cancelled, profile>>
stopVars    == <<mpc, takenCancel, takenDone>>
mvars == <<managerVars, loopVars, stopVars>>

-----------------------------------------------------------------------------

LoopPlaces == {"top", "connect", "start", "consume", "cleanupStop", "cleanupRetry",
               "sleep", "finish", "close", "gone"}

\* Manager fields, goroutines and the locals of Stop stay in their ranges.
TypeOK ==
  /\ running \in BOOLEAN
  /\ cancel \in Loops \cup {NoLoop}
  /\ done \in Loops \cup {NoLoop}
  /\ longRange \in BOOLEAN
  /\ connected \in BOOLEAN
  /\ lpc \in [Loops -> LoopPlaces]
  /\ cancelled \in [Loops -> BOOLEAN]
  /\ profile \in [Loops -> BOOLEAN]
  /\ mpc \in [Callers -> {"idle", "cancel", "wait"}]
  /\ takenCancel \in [Callers -> Loops \cup {NoLoop}]
  /\ takenDone \in [Callers -> Loops \cup {NoLoop}]

\* reader.New
Init ==
  /\ running = FALSE
  /\ cancel = NoLoop
  /\ done = NoLoop
  /\ longRange = FALSE
  /\ connected = FALSE
  /\ lpc = [r \in Loops |-> "gone"]
  /\ cancelled = [r \in Loops |-> FALSE]
  /\ profile = [r \in Loops |-> FALSE]
  /\ mpc = [c \in Callers |-> "idle"]
  /\ takenCancel = [c \in Callers |-> NoLoop]
  /\ takenDone = [c \in Callers |-> NoLoop]

-----------------------------------------------------------------------------
(* Start, Stop and SetLongRangeMode.                                       *)

\* The launch is over and no caller still refers to its context or channel.
Free(r) ==
  /\ lpc[r] = "gone"
  /\ \A c \in Callers : takenCancel[c] # r /\ takenDone[c] # r

\* Mistake: Start does not look whether a loop is running.
StartUnchecked(c, r) ==
  /\ mpc[c] = "idle"
  /\ Free(r)
  /\ running' = TRUE
  /\ cancel' = r
  /\ done' = r
  /\ lpc' = [lpc EXCEPT ![r] = "top"]
  /\ UNCHANGED <<longRange, connected, cancelled, profile, stopVars>>

\* Start when no loop is running: a fresh context and channel, and the goroutine.
Start(c, r) ==
  /\ mpc[c] = "idle"
  /\ ~running
  /\ Free(r)
  /\ running' = TRUE
  /\ cancel' = r
  /\ done' = r
  /\ lpc' = [lpc EXCEPT ![r] = "top"]
  /\ UNCHANGED <<longRange, connected, cancelled, profile, stopVars>>

\* Start when a loop is running, even one that is cancelled already: no effect.
StartBusy(c) ==
  /\ mpc[c] = "idle"
  /\ running
  /\ UNCHANGED mvars

\* The critical section of Stop.
StopTake(c) ==
  /\ mpc[c] = "idle"
  /\ takenCancel' = [takenCancel EXCEPT ![c] = cancel]
  /\ takenDone' = [takenDone EXCEPT ![c] = done]
  /\ cancel' = NoLoop
  /\ mpc' = [mpc EXCEPT ![c] = "cancel"]
  /\ UNCHANGED <<running, done, longRange, connected, loopVars>>

\* Mistake: a Stop that finds the reader connected leaves the cancelling to
\* somebody else.
StopCancelSkipped(c) ==
  /\ mpc[c] = "cancel"
  /\ cancelled' = [r \in Loops |->
                     cancelled[r] \/ (r = takenCancel[c] /\ lpc[r] # "gone" /\ ~connected)]
  /\ mpc' = [mpc EXCEPT ![c] = "wait"]
  /\ UNCHANGED <<managerVars, lpc, profile, takenCancel, takenDone>>

\* if cancel != nil { cancel() }: without effect on a loop that has ended.
StopCancel(c) ==
  /\ mpc[c] = "cancel"
  /\ cancelled' = [r \in Loops |->
                     cancelled[r] \/ (r = takenCancel[c] /\ lpc[r] # "gone")]
  /\ mpc' = [mpc EXCEPT ![c] = "wait"]
  /\ UNCHANGED <<managerVars, lpc, profile, takenCancel, takenDone>>

\* if done != nil { <-done }
StopWait(c) ==
  /\ mpc[c] = "wait"
  /\ takenDone[c] \in {NoLoop} \cup {r \in Loops : lpc[r] = "gone"}
  /\ mpc' = [mpc EXCEPT ![c] = "idle"]
  /\ takenCancel' = [takenCancel EXCEPT ![c] = NoLoop]
  /\ takenDone' = [takenDone EXCEPT ![c] = NoLoop]
  /\ UNCHANGED <<managerVars, loopVars>>

SetLongRangeMode(c, enabled) ==
  /\ mpc[c] = "idle"
  /\ longRange' = enabled
  /\ UNCHANGED <<running, cancel, done, connected, loopVars, stopVars>>

\* A context is cancelled by whoever owns it, and with it the launches in S that
\* were started with it.
ParentDone(S) ==
  /\ S \subseteq {r \in Loops : lpc[r] # "gone"}
  /\ cancelled' = [r \in Loops |-> cancelled[r] \/ r \in S]
  /\ UNCHANGED <<managerVars, lpc, profile, stopVars>>

-----------------------------------------------------------------------------
(* scanLoop                                                                *)

LoopGoto(r, p) == lpc' = [lpc EXCEPT ![r] = p]

\* The select at the head of the loop.
LoopTop(r) ==
  /\ lpc[r] = "top"
  /\ \/ cancelled[r] /\ LoopGoto(r, "finish")
     \/ ~cancelled[r] /\ LoopGoto(r, "connect")
  /\ UNCHANGED <<managerVars, cancelled, profile, stopVars>>

\* connectAndStart up to inventoryConfig: a fixed host is dialled, otherwise the
\* network is searched and the first verified candidate is dialled; then the
\* profile is read, once.
Connect(r) ==
  /\ lpc[r] = "connect"
  /\ LoopGoto(r, "start")
  /\ profile' = [profile EXCEPT ![r] = longRange]
  /\ UNCHANGED <<managerVars, cancelled, stopVars>>

ConnectFails(r) ==
  /\ lpc[r] = "connect"
  /\ LoopGoto(r, "sleep")
  /\ UNCHANGED <<managerVars, cancelled, profile, stopVars>>

\* client.StartInventory and the update of the status.
StartInventory(r) ==
  /\ lpc[r] = "start"
  /\ connected' = TRUE
  /\ LoopGoto(r, "consume")
  /\ UNCHANGED <<running, cancel, done, longRange, cancelled, profile, stopVars>>

StartInventoryFails(r) ==
  /\ lpc[r] = "start"
  /\ LoopGoto(r, "sleep")
  /\ UNCHANGED <<managerVars, cancelled, profile, stopVars>>

\* consumeTags returns: its context is cancelled, or a channel of the client was
\* closed or delivered an error.
ConsumeTags(r) ==
  /\ lpc[r] = "consume"
  /\ \/ cancelled[r] /\ LoopGoto(r, "cleanupStop")
     \/ LoopGoto(r, "cleanupRetry")
  /\ UNCHANGED <<managerVars, cancelled, profile, stopVars>>

\* StopInventory, Close, and the status; then the loop ends or tries again.
Cleanup(r) ==
  /\ \/ lpc[r] = "cleanupStop" /\ LoopGoto(r, "finish")
     \/ lpc[r] = "cleanupRetry" /\ LoopGoto(r, "sleep")
  /\ connected' = FALSE
  /\ UNCHANGED <<running, cancel, done, longRange, cancelled, profile, stopVars>>

\* sleepWithContext
Sleep(r) ==
  /\ lpc[r] = "sleep"
  /\ \/ cancelled[r] /\ LoopGoto(r, "finish")
     \/ LoopGoto(r, "top")
  /\ UNCHANGED <<managerVars, cancelled, profile, stopVars>>

\* The deferred finishStopped runs before the deferred close(done).
FinishStopped(r) ==
  /\ lpc[r] = "finish"
  /\ running' = FALSE
  /\ cancel' = NoLoop
  /\ done' = NoLoop
  /\ connected' = FALSE
  /\ LoopGoto(r, "close")
  /\ UNCHANGED <<longRange, cancelled, profile, stopVars>>

\* The goroutine ends; nobody looks at its context and its profile any more.
CloseDone(r) ==
  /\ lpc[r] = "close"
  /\ LoopGoto(r, "gone")
  /\ cancelled' = [cancelled EXCEPT ![r] = FALSE]
  /\ profile' = [profile EXCEPT ![r] = FALSE]
  /\ UNCHANGED <<managerVars, stopVars>>

LoopStep(r) ==
  \/ LoopTop(r) \/ Connect(r) \/ ConnectFails(r) \/ StartInventory(r)
  \/ StartInventoryFails(r) \/ ConsumeTags(r) \/ Cleanup(r) \/ Sleep(r)
  \/ FinishStopped(r) \/ CloseDone(r)

-----------------------------------------------------------------------------
(* The specification: callers call in any order.                           *)

CallerStep(c) ==
  \/ \E r \in Loops : Start(c, r)
  \/ StartBusy(c) \/ StopTake(c) \/ StopCancel(c) \/ StopWait(c)
  \/ \E enabled \in BOOLEAN : SetLongRangeMode(c, enabled)

Next ==
  \/ \E c \in Callers : CallerStep(c)
  \/ \E r \in Loops : LoopStep(r)
  \/ \E S \in SUBSET Loops : ParentDone(S)

Spec == Init /\ [][Next]_mvars

\* Goroutines are scheduled: a Stop goes on and a loop never stands still, except
\* that a healthy reader may be consumed for ever unless the loop is cancelled.
Fairness ==
  /\ \A c \in Callers : WF_mvars(StopCancel(c)) /\ WF_mvars(StopWait(c))
  /\ \A r \in Loops : WF_mvars(LoopStep(r) /\ (cancelled[r] \/ lpc[r] # "consume"))

FairSpec == Spec /\ Fairness

-----------------------------------------------------------------------------
(* Properties.                                                             *)

\* The launch still uses the reader or the fields of the manager.
Live(r) == lpc[r] \notin {"close", "gone"}

\* At most one launch is alive at any time, however Start and Stop interleave
\* with a loop that is on its way out: running says whether there is one, done is
\* its channel, and Status.Connected is never left over from an earlier one.
OneReaderLoop ==
  /\ \A r \in Loops : Live(r) <=> running /\ done = r
  /\ running => done \in Loops
  /\ cancel \in {done, NoLoop}
  /\ connected => running /\ lpc[done] \in {"consume", "cleanupStop", "cleanupRetry"}

\* The cancel function of the live launch is never lost: it is in the manager,
\* has been called, or is in the hands of a Stop that is about to call it.  So a
\* second Stop, which finds cancel nil and done set, waits for somebody.
CancelNeverLost ==
  running =>
    \/ cancel = done
    \/ cancelled[done]
    \/ \E c \in Callers : mpc[c] = "cancel" /\ takenCancel[c] = done

\* Every call of Stop returns, whatever the reader does and whoever else calls
\* Start and Stop meanwhile.
StopReturns == \A c \in Callers : mpc[c] # "idle" ~> mpc[c] = "idle"
=============================================================================
