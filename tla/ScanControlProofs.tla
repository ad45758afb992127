-------------------------- MODULE ScanControlProofs --------------------------
(***************************************************************************)
(* Proofs about ReaderManager and ScanControl, for any number of callers,   *)
(* launches and front ends: the manager never has two loops alive and the   *)
(* cancel function of the live one is never lost, with any front ends; a    *)
(* /range20 that restarts the reader is in force; and where neither HTTP    *)
(* nor AutoScan is in use and every front end has the scanner, a scan       *)
(* somebody asked for always has a reader at work once all commands are     *)
(* handled.                                                                 *)
(***************************************************************************)
EXTENDS ScanControl, TLAPS

USE DEF managerVars, loopVars, stopVars, handlerVars

-----------------------------------------------------------------------------
(* The manager.                                                            *)

\* The variables keep their types.
LEMMA TypeInductive == TypeOK /\ [Next]_mvars => TypeOK'
<1> SUFFICES ASSUME TypeOK, [Next]_mvars PROVE TypeOK'
  OBVIOUS
<1> USE NoLoopAssumption DEF TypeOK
<1>1. ASSUME NEW c \in Callers, CallerStep(c) PROVE TypeOK'
  <2>1. CASE StopCancel(c)
    <3>1. cancelled' \in [Loops -> BOOLEAN]
      BY <2>1, Zenon DEF StopCancel
    <3> QED
      BY <2>1, <3>1 DEF StopCancel
  <2>2. ASSUME NEW r \in Loops, Start(c, r) PROVE TypeOK'
    BY <2>2 DEF Start, LoopPlaces
  <2>3. CASE \E enabled \in BOOLEAN : SetLongRangeMode(c, enabled)
    BY <2>3 DEF SetLongRangeMode
  <2>4. CASE StartBusy(c)
    BY <2>4 DEF StartBusy, mvars
  <2>5. CASE StopTake(c)
    BY <2>5 DEF StopTake
  <2>6. CASE StopWait(c)
    BY <2>6 DEF StopWait
  <2> HIDE DEF TypeOK
  <2> QED
    BY <1>1, <2>1, <2>2, <2>3, <2>4, <2>5, <2>6 DEF CallerStep
<1>2. ASSUME NEW r \in Loops, LoopStep(r) PROVE TypeOK'
  BY <1>2 DEF LoopStep, LoopTop, Connect, ConnectFails, StartInventory,
              StartInventoryFails, ConsumeTags, Cleanup, Sleep, FinishStopped,
              CloseDone, LoopGoto, LoopPlaces
<1>3. ASSUME NEW S \in SUBSET Loops, ParentDone(S) PROVE TypeOK'
  <2>1. cancelled' \in [Loops -> BOOLEAN]
    BY <1>3, Zenon DEF ParentDone
  <2> QED
    BY <1>3, <2>1 DEF ParentDone
<1>4. CASE UNCHANGED mvars
  BY <1>4 DEF mvars
<1> QED
  BY <1>1, <1>2, <1>3, <1>4 DEF Next

\* Manager fields, goroutines and the locals of Stop always have their types.
THEOREM TypeCorrect == Spec => []TypeOK
<1>1. Init => TypeOK
  BY DEF Init, TypeOK, LoopPlaces
<1>2. QED
  BY <1>1, TypeInductive, PTL DEF Spec

-----------------------------------------------------------------------------

\* A call of Start, Stop or SetLongRangeMode keeps the manager to one loop.
LEMMA CallerKeepsOneLoop ==
  ASSUME NEW c \in Callers, TypeOK, OneReaderLoop, CallerStep(c)
  PROVE  OneReaderLoop'
<1> USE NoLoopAssumption DEF TypeOK, OneReaderLoop, Live
<1>1. CASE \E r \in Loops : Start(c, r)
  <2> PICK r \in Loops : Start(c, r)
    BY <1>1
  <2> QED
    BY DEF Start, Free
<1>2. CASE StartBusy(c)
  BY <1>2 DEF StartBusy, mvars
<1>3. CASE StopTake(c)
  BY <1>3 DEF StopTake
<1>4. CASE StopCancel(c)
  BY <1>4 DEF StopCancel
<1>5. CASE StopWait(c)
  BY <1>5 DEF StopWait
<1>6. CASE \E enabled \in BOOLEAN : SetLongRangeMode(c, enabled)
  BY <1>6 DEF SetLongRangeMode
<1> QED
  BY <1>1, <1>2, <1>3, <1>4, <1>5, <1>6 DEF CallerStep

\* A step of a loop keeps the manager to one loop.
LEMMA LoopKeepsOneLoop ==
  ASSUME NEW r \in Loops, TypeOK, OneReaderLoop, LoopStep(r)
  PROVE  OneReaderLoop'
<1> USE NoLoopAssumption DEF TypeOK, OneReaderLoop, Live, LoopGoto
<1>1. CASE LoopTop(r)
  BY <1>1 DEF LoopTop
<1>2. CASE Connect(r)
  BY <1>2 DEF Connect
<1>3. CASE ConnectFails(r)
  BY <1>3 DEF ConnectFails
<1>4. CASE StartInventory(r)
  BY <1>4 DEF StartInventory
<1>5. CASE StartInventoryFails(r)
  BY <1>5 DEF StartInventoryFails
<1>6. CASE ConsumeTags(r)
  BY <1>6 DEF ConsumeTags
<1>7. CASE Cleanup(r)
  BY <1>7 DEF Cleanup
<1>8. CASE Sleep(r)
  BY <1>8 DEF Sleep
<1>9. CASE FinishStopped(r)
  BY <1>9 DEF FinishStopped
<1>10. CASE CloseDone(r)
  BY <1>10 DEF CloseDone
<1> QED
  BY <1>1, <1>2, <1>3, <1>4, <1>5, <1>6, <1>7, <1>8, <1>9, <1>10 DEF LoopStep

\* One loop at a time is inductive together with the types.
LEMMA OneLoopInductive ==
  TypeOK /\ OneReaderLoop /\ [Next]_mvars => OneReaderLoop'
<1> SUFFICES ASSUME TypeOK, OneReaderLoop, [Next]_mvars PROVE OneReaderLoop'
  OBVIOUS
<1>1. ASSUME NEW S \in SUBSET Loops, ParentDone(S) PROVE OneReaderLoop'
  BY <1>1 DEF ParentDone, OneReaderLoop, Live
<1>2. CASE UNCHANGED mvars
  BY <1>2 DEF mvars, OneReaderLoop, Live
<1> QED
  BY <1>1, <1>2, CallerKeepsOneLoop, LoopKeepsOneLoop DEF Next

\* However calls of Start and Stop interleave with a loop that is on its way out,
\* at most one launch is alive, and running, done and Status.Connected are about
\* that launch.
THEOREM OneLoopCorrect == Spec => []OneReaderLoop
<1>1. Init => OneReaderLoop
  BY NoLoopAssumption DEF Init, OneReaderLoop, Live
<1>2. QED
  BY <1>1, TypeCorrect, OneLoopInductive, PTL DEF Spec

-----------------------------------------------------------------------------

\* The cancel function of the live launch stays within reach.
LEMMA CancelInductive ==
  TypeOK /\ OneReaderLoop /\ CancelNeverLost /\ [Next]_mvars => CancelNeverLost'
<1> SUFFICES ASSUME TypeOK, OneReaderLoop, CancelNeverLost, [Next]_mvars
             PROVE  CancelNeverLost'
  OBVIOUS
<1> USE NoLoopAssumption DEF CancelNeverLost, OneReaderLoop, TypeOK, Live
<1>1. ASSUME NEW c \in Callers, NEW r \in Loops, Start(c, r) PROVE CancelNeverLost'
  BY <1>1 DEF Start
<1>2. ASSUME NEW c \in Callers, StartBusy(c) PROVE CancelNeverLost'
  BY <1>2 DEF StartBusy, mvars
<1>3. ASSUME NEW c \in Callers, StopTake(c) PROVE CancelNeverLost'
  <2> SUFFICES ASSUME running' PROVE \/ cancelled[done]
                                     \/ \E d \in Callers : mpc'[d] = "cancel" /\ takenCancel'[d] = done
    BY <1>3 DEF StopTake
  <2>1. CASE cancel = done
    BY <1>3, <2>1 DEF StopTake
  <2>2. CASE cancelled[done]
    BY <2>2
  <2>3. ASSUME NEW d \in Callers, mpc[d] = "cancel", takenCancel[d] = done
        PROVE  mpc'[d] = "cancel" /\ takenCancel'[d] = done
    BY <1>3, <2>3 DEF StopTake
  <2> QED
    BY <1>3, <2>1, <2>2, <2>3 DEF StopTake
<1>4. ASSUME NEW c \in Callers, StopCancel(c) PROVE CancelNeverLost'
  <2> SUFFICES ASSUME running' PROVE \/ cancel = done
                                     \/ cancelled'[done]
                                     \/ \E d \in Callers : mpc'[d] = "cancel" /\ takenCancel'[d] = done
    BY <1>4 DEF StopCancel
  <2>1. done \in Loops /\ lpc[done] # "gone"
    BY <1>4 DEF StopCancel
  <2>2. CASE cancelled[done]
    BY <1>4, <2>1, <2>2 DEF StopCancel
  <2>3. ASSUME NEW d \in Callers, mpc[d] = "cancel", takenCancel[d] = done
        PROVE  cancelled'[done] \/ (mpc'[d] = "cancel" /\ takenCancel'[d] = done)
    <3>1. CASE d = c
      BY <1>4, <2>1, <2>3, <3>1 DEF StopCancel
    <3>2. CASE d # c
      BY <1>4, <2>3, <3>2 DEF StopCancel
    <3> QED
      BY <3>1, <3>2
  <2> QED
    BY <1>4, <2>2, <2>3 DEF StopCancel
<1>5. ASSUME NEW c \in Callers, StopWait(c) PROVE CancelNeverLost'
  BY <1>5 DEF StopWait
<1>6. ASSUME NEW c \in Callers, NEW enabled \in BOOLEAN, SetLongRangeMode(c, enabled)
      PROVE  CancelNeverLost'
  BY <1>6 DEF SetLongRangeMode
<1>7. ASSUME NEW r \in Loops, LoopStep(r) PROVE CancelNeverLost'
  <2>1. CASE FinishStopped(r)
    BY <2>1 DEF FinishStopped
  <2>2. CASE CloseDone(r)
    BY <2>2 DEF CloseDone
  <2>3. CASE LoopTop(r) \/ Connect(r) \/ ConnectFails(r) \/ StartInventory(r)
    BY <2>3 DEF LoopTop, Connect, ConnectFails, StartInventory
  <2>4. CASE StartInventoryFails(r) \/ ConsumeTags(r) \/ Cleanup(r) \/ Sleep(r)
    BY <2>4 DEF StartInventoryFails, ConsumeTags, Cleanup, Sleep
  <2> QED
    BY <1>7, <2>1, <2>2, <2>3, <2>4 DEF LoopStep
<1>8. ASSUME NEW S \in SUBSET Loops, ParentDone(S) PROVE CancelNeverLost'
  BY <1>8 DEF ParentDone
<1>9. CASE UNCHANGED mvars
  BY <1>9 DEF mvars
<1> QED
  BY <1>1, <1>2, <1>3, <1>4, <1>5, <1>6, <1>7, <1>8, <1>9 DEF Next, CallerStep

\* The cancel function of the live launch is in the manager, was called, or is
\* held by a Stop that is about to call it: no Stop waits for a loop that nobody
\* is going to cancel.
THEOREM CancelCorrect == Spec => []CancelNeverLost
<1>1. Init => CancelNeverLost
  BY DEF Init, CancelNeverLost
<1>2. QED
  BY <1>1, TypeCorrect, OneLoopCorrect, CancelInductive, PTL DEF Spec

-----------------------------------------------------------------------------
(* The front ends.                                                         *)

\* A step of the composed system is a step of the manager or leaves it alone.
LEMMA StepRefines == [ControlNext]_vars => [Next]_mvars
<1> SUFFICES ASSUME [ControlNext]_vars PROVE [Next]_mvars
  OBVIOUS
<1>1. ASSUME NEW c \in Callers, ScanStart(c) \/ ScanStop(c) PROVE UNCHANGED mvars
  BY <1>1 DEF ScanStart, ScanStop
<1>2. ASSUME NEW c \in Callers, Range20(c) PROVE CallerStep(c)
  BY <1>2 DEF Range20, CallerStep
<1>3. ASSUME NEW c \in Callers, HandlerStep(c) PROVE [Next]_mvars
  <2>1. CASE RefreshDone(c) \/ FlagOn(c) \/ AutoFlag(c) \/ FlagOff(c) \/ Range20Flag(c)
    BY <2>1 DEF RefreshDone, FlagOn, AutoFlag, FlagOff, Range20Flag
  <2>2. CASE CallStart(c)
    BY <2>2 DEF CallStart, CallerStep, Next
  <2>3. CASE CallStop(c) \/ InStop(c) \/ StopReturned(c)
    BY <2>3 DEF CallStop, InStop, StopReturned, CallerStep, Next
  <2>4. CASE HttpReturn(c)
    BY <2>4 DEF HttpReturn, Next
  <2> QED
    BY <1>3, <2>1, <2>2, <2>3, <2>4 DEF HandlerStep
<1>4. ASSUME NEW r \in Loops, LoopStep(r) PROVE Next
  BY <1>4 DEF Next
<1>5. CASE UNCHANGED vars
  BY <1>5 DEF vars
<1> QED
  BY <1>1, <1>2, <1>3, <1>4, <1>5 DEF ControlNext, Next

\* So what was shown of the manager holds with its front ends.
LEMMA ManagerFacts == ControlSpec => []TypeOK /\ []OneReaderLoop /\ []CancelNeverLost
<1>1. ControlInit => Init
  BY DEF ControlInit
<1>2. ControlSpec => Spec
  BY <1>1, StepRefines, PTL DEF ControlSpec, Spec
<1> QED
  BY <1>2, TypeCorrect, OneLoopCorrect, CancelCorrect, PTL

\* What the front ends add to the manager's state keeps its type.
HandlerTypes ==
  /\ hpc \in [Callers -> HandlerPlaces]
  /\ owner \in [Loops -> SUBSET Http]

FlagTypes == scanActive \in BOOLEAN /\ raised \in BOOLEAN /\ overlooked \in BOOLEAN

\* Every step keeps the places of the handlers, and a launch belongs to HTTP
\* handlers only.
LEMMA HandlerTypesInductive == HandlerTypes /\ [ControlNext]_vars => HandlerTypes'
<1> SUFFICES ASSUME HandlerTypes, [ControlNext]_vars PROVE HandlerTypes'
  OBVIOUS
<1> USE DEF HandlerTypes, HandlerGoto, HandlerPlaces
<1>1. ASSUME NEW c \in Callers, ScanStart(c) \/ ScanStop(c) \/ Range20(c) PROVE HandlerTypes'
  BY <1>1 DEF ScanStart, ScanStop, Range20
<1>2. ASSUME NEW c \in Callers, HandlerStep(c) PROVE HandlerTypes'
  <2>1. CASE RefreshDone(c) \/ FlagOn(c) \/ AutoFlag(c) \/ HttpReturn(c)
    BY <2>1 DEF RefreshDone, FlagOn, AutoFlag, HttpReturn
  <2>2. CASE CallStart(c)
    BY <2>2 DEF CallStart, AfterStart
  <2>3. CASE CallStop(c) \/ InStop(c) \/ StopReturned(c)
    BY <2>3 DEF CallStop, InStop, StopReturned
  <2>4. CASE FlagOff(c) \/ Range20Flag(c)
    BY <2>4 DEF FlagOff, Range20Flag
  <2> QED
    BY <1>2, <2>1, <2>2, <2>3, <2>4 DEF HandlerStep
<1>3. CASE UNCHANGED handlerVars
  BY <1>3
<1>4. CASE UNCHANGED vars
  BY <1>4 DEF vars
<1> QED
  BY <1>1, <1>2, <1>3, <1>4 DEF ControlNext

\* Every step keeps the flags.
LEMMA FlagTypesInductive == FlagTypes /\ [ControlNext]_vars => FlagTypes'
<1> SUFFICES ASSUME FlagTypes, [ControlNext]_vars PROVE FlagTypes'
  OBVIOUS
<1>1. CASE UNCHANGED <<scanActive, raised, overlooked>>
  BY <1>1, Zenon DEF FlagTypes
<1>2. ASSUME NEW c \in Callers, FlagOn(c) \/ AutoFlag(c) PROVE FlagTypes'
  BY <1>2, Zenon DEF FlagOn, AutoFlag, FlagTypes
<1>3. ASSUME NEW c \in Callers, FlagOff(c) PROVE FlagTypes'
  BY <1>3, Zenon DEF FlagOff, FlagTypes
<1>4. ASSUME NEW c \in Callers, ScanStart(c) \/ ScanStop(c) \/ Range20(c)
      PROVE  UNCHANGED <<scanActive, raised, overlooked>>
  BY <1>4 DEF ScanStart, ScanStop, Range20
<1>5. ASSUME NEW c \in Callers, RefreshDone(c) \/ HttpReturn(c) \/ CallStart(c)
      PROVE  UNCHANGED <<scanActive, raised, overlooked>>
  BY <1>5 DEF RefreshDone, HttpReturn, CallStart
<1>6. ASSUME NEW c \in Callers, CallStop(c) \/ InStop(c) \/ StopReturned(c)
      PROVE  UNCHANGED <<scanActive, raised, overlooked>>
  BY <1>6 DEF CallStop, InStop, StopReturned
<1>7. CASE UNCHANGED handlerVars \/ UNCHANGED vars
  BY <1>1, <1>7 DEF vars
<1>8. ASSUME NEW c \in Callers, Range20Flag(c) PROVE FlagTypes'
  BY <1>8, Zenon DEF Range20Flag, FlagTypes
<1> QED
  BY <1>1, <1>2, <1>3, <1>4, <1>5, <1>6, <1>7, <1>8 DEF ControlNext, HandlerStep

\* Manager, flag and handlers always have their types, whoever calls.
THEOREM ControlTypeCorrect == ControlSpec => []ControlTypeOK
<1>1. ControlInit => HandlerTypes
  BY DEF ControlInit, HandlerTypes, HandlerPlaces
<1>2. ControlInit => FlagTypes
  BY FrontEndsAssumption, Zenon DEF ControlInit, FlagTypes
<1>3. TypeOK /\ HandlerTypes /\ FlagTypes => ControlTypeOK
  BY DEF HandlerTypes, FlagTypes, ControlTypeOK
<1>4. QED
  BY <1>1, <1>2, <1>3, ManagerFacts, HandlerTypesInductive, FlagTypesInductive, PTL DEF ControlSpec

-----------------------------------------------------------------------------
(* A scan that was asked for has a reader.                                 *)

\* Where a handler is when it will still start the reader or lower the flag.
Committed == {"start", "stopping", "flagOff", "restopping", "restart"}

\* What the handlers and the launches keep between them.
StopDiscipline ==
  /\ hpc \in [Callers -> HandlerPlaces \ {"return", "autoFlag"}]
  /\ \A c \in Callers : mpc[c] # "idle" => hpc[c] \in {"stopping", "restopping"}
  /\ \A c \in Callers : takenCancel[c] \in {NoLoop, takenDone[c]}
  /\ \A r \in Loops : lpc[r] = "gone" => ~cancelled[r]
  /\ \A r \in Loops : lpc[r] \in {"cleanupStop", "finish"} => cancelled[r]

\* A live launch is cancelled only while a Stop waits for it.
CancelIsAwaited ==
  running /\ cancelled[done] =>
    \E c \in Callers : mpc[c] = "wait" /\ takenDone[c] = done

\* The flag is up: the reader is at work, or somebody will see to it.
FlagIsBacked ==
  scanActive /\ raised =>
    ReaderAtWork \/ \E c \in Callers : hpc[c] \in Committed

ReaderInv == TypeOK /\ OneReaderLoop /\ StopDiscipline /\ CancelIsAwaited /\ FlagIsBacked

\* A handler step that leaves the manager alone keeps the invariant.
LEMMA HandlerAloneKeeps ==
  ASSUME Http = {}, Main = {}, Wired = Callers, ReaderInv, NEW c \in Callers,
         \/ ScanStart(c) \/ ScanStop(c) \/ RefreshDone(c) \/ FlagOn(c) \/ AutoFlag(c)
         \/ FlagOff(c) \/ Range20(c) \/ Range20Flag(c)
  PROVE  StopDiscipline' /\ CancelIsAwaited' /\ FlagIsBacked'
<1> USE DEF ReaderInv, StopDiscipline, HandlerGoto, HandlerPlaces
<1>1. UNCHANGED <<running, cancel, done, lpc, cancelled, mpc, takenCancel, takenDone>>
  <2>1. CASE Range20(c)
    BY <2>1 DEF Range20, SetLongRangeMode
  <2>2. CASE ~Range20(c)
    <3>1. UNCHANGED mvars
      BY <2>2 DEF ScanStart, ScanStop, RefreshDone, FlagOn, AutoFlag, FlagOff, Range20Flag
    <3> QED
      BY <3>1 DEF mvars
  <2> QED
    BY <2>1, <2>2
<1>2. CancelIsAwaited'
  BY <1>1 DEF CancelIsAwaited
<1>3. CASE ScanStart(c)
  <2>1. hpc[c] = "idle" /\ hpc' = [hpc EXCEPT ![c] = "refresh"] /\ UNCHANGED <<scanActive, raised>>
    BY <1>3 DEF ScanStart
  <2> QED
    BY <1>1, <1>2, <2>1 DEF FlagIsBacked, ReaderAtWork, Committed
<1>4. CASE ScanStop(c)
  <2>1. hpc[c] = "idle" /\ hpc' = [hpc EXCEPT ![c] = "stop"] /\ UNCHANGED <<scanActive, raised>>
    BY <1>4 DEF ScanStop
  <2> QED
    BY <1>1, <1>2, <2>1 DEF FlagIsBacked, ReaderAtWork, Committed
<1>5. CASE RefreshDone(c)
  <2>1. \E p \in {"flagOn", "idle"} :
          hpc[c] = "refresh" /\ hpc' = [hpc EXCEPT ![c] = p] /\ UNCHANGED <<scanActive, raised>>
    BY <1>5 DEF RefreshDone
  <2> QED
    BY <1>1, <1>2, <2>1 DEF FlagIsBacked, ReaderAtWork, Committed
<1>6. CASE FlagOn(c)
  <2>1. hpc[c] = "flagOn" /\ hpc' = [hpc EXCEPT ![c] = "start"]
    BY <1>6 DEF FlagOn
  <2> QED
    BY <1>1, <1>2, <2>1 DEF FlagIsBacked, Committed
<1>7. CASE AutoFlag(c)
  BY <1>7 DEF AutoFlag
<1>8. CASE FlagOff(c)
  <2>1. hpc[c] = "flagOff" /\ hpc' = [hpc EXCEPT ![c] = "idle"] /\ ~scanActive'
    BY <1>8 DEF FlagOff
  <2> QED
    BY <1>1, <1>2, <2>1 DEF FlagIsBacked
<1>9. CASE Range20(c)
  <2>1. hpc[c] = "idle" /\ hpc' = [hpc EXCEPT ![c] = "readFlag"] /\ UNCHANGED <<scanActive, raised>>
    BY <1>9 DEF Range20
  <2> QED
    BY <1>1, <1>2, <2>1 DEF FlagIsBacked, ReaderAtWork, Committed
<1>10. CASE Range20Flag(c)
  <2>1. \E p \in {"restop", "idle"} :
          hpc[c] = "readFlag" /\ hpc' = [hpc EXCEPT ![c] = p] /\ UNCHANGED <<scanActive, raised>>
    BY <1>10 DEF Range20Flag
  <2> QED
    BY <1>1, <1>2, <2>1 DEF FlagIsBacked, ReaderAtWork, Committed
<1> QED
  BY <1>3, <1>4, <1>5, <1>6, <1>7, <1>8, <1>9, <1>10

\* A handler's call of Start keeps the invariant: a Start without effect meets a
\* launch at work, or one that another handler's Stop is waiting for.
LEMMA CallStartKeeps ==
  ASSUME Http = {}, Main = {}, ReaderInv, NEW c \in Callers, CallStart(c)
  PROVE  StopDiscipline' /\ CancelIsAwaited' /\ FlagIsBacked'
<1> USE NoLoopAssumption DEF ReaderInv, StopDiscipline, HandlerPlaces
<1>1. /\ hpc[c] \in {"start", "restart"}
      /\ hpc' = [hpc EXCEPT ![c] = "idle"]
      /\ UNCHANGED <<scanActive, raised>>
  BY DEF CallStart, AfterStart, HandlerGoto
<1>2. CASE StartBusy(c)
  <2>1. UNCHANGED mvars /\ mpc[c] = "idle" /\ running
    BY <1>2 DEF StartBusy
  <2>2. UNCHANGED <<running, cancel, done, lpc, cancelled, mpc, takenCancel, takenDone>>
    BY <2>1 DEF mvars
  <2>3. StopDiscipline' /\ CancelIsAwaited'
    BY <1>1, <2>1, <2>2 DEF CancelIsAwaited
  <2>4. ASSUME ~ReaderAtWork PROVE \E d \in Callers : hpc'[d] \in Committed
    <3> PICK d \in Callers : mpc[d] = "wait" /\ takenDone[d] = done
      BY <2>1, <2>4 DEF CancelIsAwaited, ReaderAtWork
    <3>1. hpc[d] \in Committed /\ d # c
      BY <2>1 DEF Committed
    <3> QED
      BY <1>1, <3>1
  <2>5. ReaderAtWork' \/ ~ReaderAtWork
    BY <2>2 DEF ReaderAtWork
  <2> QED
    BY <2>3, <2>4, <2>5 DEF FlagIsBacked
<1>3. ASSUME NEW r \in Loops, Start(c, r) PROVE StopDiscipline' /\ CancelIsAwaited' /\ FlagIsBacked'
  <2>1. /\ running' /\ done' = r
        /\ lpc[r] = "gone" /\ lpc' = [lpc EXCEPT ![r] = "top"]
        /\ UNCHANGED <<cancelled, mpc, takenCancel, takenDone>>
        /\ mpc[c] = "idle"
    BY <1>3 DEF Start, Free
  <2>2. ~cancelled'[done']
    BY <2>1
  <2>3. CancelIsAwaited' /\ FlagIsBacked'
    BY <2>1, <2>2 DEF CancelIsAwaited, FlagIsBacked, ReaderAtWork
  <2>4. StopDiscipline'
    BY <1>1, <2>1 DEF TypeOK, LoopPlaces
  <2> QED
    BY <2>3, <2>4
<1> QED
  BY <1>2, <1>3 DEF CallStart

\* The three parts of Stop keep the invariant.
LEMMA StopKeeps ==
  ASSUME ReaderInv, NEW c \in Callers, CallStop(c) \/ InStop(c) \/ StopReturned(c)
  PROVE  StopDiscipline' /\ CancelIsAwaited' /\ FlagIsBacked'
<1> USE NoLoopAssumption DEF ReaderInv, StopDiscipline, HandlerPlaces, HandlerGoto
<1>1. CASE CallStop(c)
  <2>1. /\ \E p \in {"stopping", "restopping"} : hpc' = [hpc EXCEPT ![c] = p]
        /\ mpc[c] = "idle" /\ mpc' = [mpc EXCEPT ![c] = "cancel"]
        /\ takenCancel' = [takenCancel EXCEPT ![c] = cancel]
        /\ takenDone' = [takenDone EXCEPT ![c] = done]
        /\ UNCHANGED <<running, done, lpc, cancelled>>
    BY <1>1 DEF CallStop, StopTake
  <2>2. StopDiscipline'
    BY <2>1 DEF OneReaderLoop, TypeOK
  <2>3. CancelIsAwaited'
    BY <2>1 DEF CancelIsAwaited, TypeOK
  <2>4. FlagIsBacked'
    BY <2>1 DEF FlagIsBacked, Committed
  <2> QED
    BY <2>2, <2>3, <2>4
<1>2. CASE InStop(c)
  <2>1. /\ mpc[c] = "cancel" /\ mpc' = [mpc EXCEPT ![c] = "wait"]
        /\ cancelled' = [r \in Loops |->
                           cancelled[r] \/ (r = takenCancel[c] /\ lpc[r] # "gone")]
        /\ UNCHANGED <<running, done, lpc, takenCancel, takenDone, hpc, scanActive, raised>>
    BY <1>2 DEF InStop, StopCancel
  <2>2. StopDiscipline'
    BY <2>1 DEF TypeOK
  <2>3. FlagIsBacked'
    BY <2>1 DEF FlagIsBacked, Committed
  <2>4. CancelIsAwaited'
    <3> SUFFICES ASSUME running, cancelled'[done]
                 PROVE  \E d \in Callers : mpc'[d] = "wait" /\ takenDone[d] = done
      BY <2>1 DEF CancelIsAwaited
    <3>1. done \in Loops
      BY DEF OneReaderLoop
    <3>2. CASE cancelled[done]
      BY <2>1, <3>2 DEF CancelIsAwaited, TypeOK
    <3>3. CASE ~cancelled[done]
      BY <2>1, <3>1, <3>3 DEF TypeOK
    <3> QED
      BY <3>2, <3>3
  <2> QED
    BY <2>2, <2>3, <2>4
<1>3. CASE StopReturned(c)
  <2>1. /\ \E p \in {"flagOff", "restart"} : hpc' = [hpc EXCEPT ![c] = p]
        /\ mpc' = [mpc EXCEPT ![c] = "idle"]
        /\ takenDone[c] \in {NoLoop} \cup {r \in Loops : lpc[r] = "gone"}
        /\ takenCancel' = [takenCancel EXCEPT ![c] = NoLoop]
        /\ takenDone' = [takenDone EXCEPT ![c] = NoLoop]
        /\ UNCHANGED <<running, done, lpc, cancelled>>
    BY <1>3 DEF StopReturned, StopWait
  <2>2. StopDiscipline'
    BY <2>1 DEF TypeOK
  <2>3. FlagIsBacked'
    BY <2>1 DEF FlagIsBacked, Committed
  <2>4. running => takenDone[c] # done
    BY <2>1 DEF OneReaderLoop, Live
  <2>5. CancelIsAwaited'
    BY <2>1, <2>4 DEF CancelIsAwaited, TypeOK
  <2> QED
    BY <2>2, <2>3, <2>5
<1> QED
  BY <1>1, <1>2, <1>3

\* A step of a launch keeps the invariant: only a cancelled one comes to its end.
LEMMA LoopKeeps ==
  ASSUME ReaderInv, NEW r \in Loops, LoopStep(r), UNCHANGED handlerVars
  PROVE  StopDiscipline' /\ CancelIsAwaited' /\ FlagIsBacked'
<1> USE NoLoopAssumption DEF ReaderInv, StopDiscipline, LoopGoto, TypeOK
<1>1. UNCHANGED <<mpc, takenCancel, takenDone, scanActive, hpc, raised>>
  BY DEF LoopStep, LoopTop, Connect, ConnectFails, StartInventory,
         StartInventoryFails, ConsumeTags, Cleanup, Sleep, FinishStopped, CloseDone
<1>2. CASE FinishStopped(r)
  <2>1. ~ReaderAtWork /\ ~running'
    BY <1>2 DEF FinishStopped, ReaderAtWork, OneReaderLoop, Live
  <2>2. StopDiscipline'
    BY <1>1, <1>2 DEF FinishStopped
  <2> QED
    BY <1>1, <2>1, <2>2 DEF FlagIsBacked, CancelIsAwaited
<1>3. CASE CloseDone(r)
  <2>1. running => done \in Loops /\ done # r
    BY <1>3 DEF CloseDone, OneReaderLoop, Live
  <2>2. /\ UNCHANGED <<running, done>>
        /\ lpc' = [lpc EXCEPT ![r] = "gone"]
        /\ cancelled' = [cancelled EXCEPT ![r] = FALSE]
    BY <1>3 DEF CloseDone
  <2>3. running => cancelled'[done] = cancelled[done]
    BY <2>1, <2>2
  <2>4. CancelIsAwaited' /\ FlagIsBacked'
    BY <1>1, <2>2, <2>3 DEF FlagIsBacked, CancelIsAwaited, ReaderAtWork
  <2>5. StopDiscipline'
    BY <1>1, <2>2
  <2> QED
    BY <2>4, <2>5
<1>4. CASE ~FinishStopped(r) /\ ~CloseDone(r)
  <2>1. /\ UNCHANGED <<running, done, cancelled>>
        /\ \E p \in LoopPlaces \ {"gone", "close"} :
             /\ lpc' = [lpc EXCEPT ![r] = p]
             /\ p \in {"cleanupStop", "finish"} => cancelled[r]
    BY <1>4 DEF LoopStep, LoopTop, Connect, ConnectFails, StartInventory,
         StartInventoryFails, ConsumeTags, Cleanup, Sleep, LoopPlaces
  <2>2. CancelIsAwaited' /\ FlagIsBacked'
    BY <1>1, <2>1 DEF FlagIsBacked, CancelIsAwaited, ReaderAtWork
  <2>3. StopDiscipline'
    BY <1>1, <2>1
  <2> QED
    BY <2>2, <2>3
<1> QED
  BY <1>2, <1>3, <1>4

\* With the scanner in every front end, and neither HTTP requests, whose context
\* dies with their handler, nor AutoScan, which raises the flag last: once all
\* commands are handled, a scan that somebody asked for and nobody stopped has a
\* launch at work that nobody has cancelled.
THEOREM ActiveScanCorrect ==
  ASSUME Http = {}, Main = {}, Wired = Callers
  PROVE  ControlSpec => []ActiveScanHasReader
<1> DEFINE Inv == StopDiscipline /\ CancelIsAwaited /\ FlagIsBacked
<1>1. ControlInit => Inv
  BY DEF ControlInit, Init, StopDiscipline, CancelIsAwaited, FlagIsBacked, HandlerPlaces
<1>2. TypeOK /\ OneReaderLoop /\ Inv /\ [ControlNext]_vars => Inv'
  <2> SUFFICES ASSUME ReaderInv, [ControlNext]_vars PROVE Inv'
    BY DEF ReaderInv
  <2>1. ASSUME NEW c \in Callers, HandlerStep(c) PROVE Inv'
    <3>1. ASSUME HttpReturn(c) PROVE FALSE
      BY <3>1 DEF HttpReturn, HandlerGoto, ReaderInv, StopDiscipline
    <3> HIDE DEF Inv
    <3> QED
      BY <2>1, <3>1, HandlerAloneKeeps, CallStartKeeps, StopKeeps DEF HandlerStep, Inv
  <2>2. ASSUME NEW c \in Callers, ScanStart(c) \/ ScanStop(c) \/ Range20(c) PROVE Inv'
    BY <2>2, HandlerAloneKeeps
  <2>3. ASSUME NEW r \in Loops, LoopStep(r), UNCHANGED handlerVars PROVE Inv'
    BY <2>3, LoopKeeps
  <2>4. CASE UNCHANGED vars
    BY <2>4 DEF vars, mvars, ReaderInv, StopDiscipline, CancelIsAwaited, FlagIsBacked, ReaderAtWork
  <2> QED
    BY <2>1, <2>2, <2>3, <2>4 DEF ControlNext
<1>3. Inv => ActiveScanHasReader
  BY DEF FlagIsBacked, ActiveScanHasReader, Quiescent, Committed
<1> HIDE DEF Inv
<1>4. QED
  BY <1>1, <1>2, <1>3, ManagerFacts, PTL DEF ControlSpec

-----------------------------------------------------------------------------
(* A new profile is in force.                                              *)

\* The reader of this launch is set up with a profile that is not the present one.
OldProfile(r) == lpc[r] \in {"start", "consume"} /\ profile[r] # longRange

\* A /range20 that is being handled will stop this launch.
WillBeStopped(r) ==
  \E c \in Callers : hpc[c] \in {"readFlag", "restop"} \/ (hpc[c] = "restopping" /\ takenDone[c] = r)

\* Only such a launch has an old profile, or one over which the flag was down.
OldIsStopped == \A r \in Loops : OldProfile(r) => overlooked \/ WillBeStopped(r)

\* A step that neither makes a profile old nor moves a handler of /range20.
LEMMA OldIsStoppedKept ==
  ASSUME OldIsStopped, UNCHANGED overlooked,
         \A r \in Loops : OldProfile(r)' => OldProfile(r),
         \A c \in Callers : hpc[c] \in {"readFlag", "restop", "restopping"}
                             => hpc'[c] = hpc[c] /\ takenDone'[c] = takenDone[c]
  PROVE  OldIsStopped'
<1> SUFFICES ASSUME NEW r \in Loops, OldProfile(r)', ~overlooked PROVE WillBeStopped(r)'
  BY DEF OldIsStopped
<1>1. OldProfile(r) /\ WillBeStopped(r)
  BY DEF OldIsStopped
<1>2. PICK c \in Callers : hpc[c] \in {"readFlag", "restop"} \/ (hpc[c] = "restopping" /\ takenDone[c] = r)
  BY <1>1 DEF WillBeStopped
<1>3. hpc'[c] = hpc[c] /\ takenDone'[c] = takenDone[c]
  BY <1>2
<1> QED
  BY <1>2, <1>3 DEF WillBeStopped

\* A launch reads the profile when it has connected, and never gets an old one.
LEMMA LoopKeepsProfile ==
  ASSUME TypeOK, OldIsStopped, NEW r \in Loops, LoopStep(r), UNCHANGED handlerVars
  PROVE  OldIsStopped'
<1>1. UNCHANGED <<hpc, takenDone, overlooked, longRange>>
  BY DEF LoopStep, LoopTop, Connect, ConnectFails, StartInventory, StartInventoryFails,
         ConsumeTags, Cleanup, Sleep, FinishStopped, CloseDone
<1>2. ASSUME NEW s \in Loops, OldProfile(s)' PROVE OldProfile(s)
  <2> USE DEF TypeOK, OldProfile, LoopGoto
  <2>1. CASE Connect(r)
    BY <1>1, <1>2, <2>1 DEF Connect
  <2>2. CASE StartInventory(r)
    BY <1>1, <1>2, <2>2 DEF StartInventory
  <2>3. CASE CloseDone(r)
    BY <1>1, <1>2, <2>3 DEF CloseDone
  <2>4. CASE ~Connect(r) /\ ~StartInventory(r) /\ ~CloseDone(r)
    <3>1. /\ UNCHANGED profile
          /\ \E p \in {"finish", "connect", "sleep", "cleanupStop", "cleanupRetry", "top", "close"} :
               lpc' = [lpc EXCEPT ![r] = p]
      BY <2>4 DEF LoopStep, LoopTop, ConnectFails, StartInventoryFails, ConsumeTags, Cleanup,
                  Sleep, FinishStopped
    <3> QED
      BY <1>1, <1>2, <3>1
  <2> QED
    BY <2>1, <2>2, <2>3, <2>4
<1> QED
  BY <1>1, <1>2, OldIsStoppedKept

\* A Stop ends only when the launch it has taken is gone.
LEMMA StopKeepsProfile ==
  ASSUME TypeOK, HandlerTypes, OneReaderLoop, OldIsStopped, NEW c \in Callers,
         CallStop(c) \/ InStop(c) \/ StopReturned(c)
  PROVE  OldIsStopped'
<1> USE DEF TypeOK, HandlerTypes, HandlerGoto
<1>1. UNCHANGED <<lpc, profile, longRange, overlooked, done>>
  BY DEF CallStop, StopTake, InStop, StopCancel, StopReturned, StopWait
<1>2. \A r \in Loops : OldProfile(r)' <=> OldProfile(r)
  BY <1>1 DEF OldProfile
<1> SUFFICES ASSUME NEW r \in Loops, OldProfile(r), ~overlooked PROVE WillBeStopped(r)'
  BY <1>1, <1>2 DEF OldIsStopped
<1>3. PICK d \in Callers : hpc[d] \in {"readFlag", "restop"} \/ (hpc[d] = "restopping" /\ takenDone[d] = r)
  BY DEF OldIsStopped, WillBeStopped
<1>4. lpc[r] \notin {"close", "gone"} /\ done = r /\ r # NoLoop
  BY NoLoopAssumption DEF OldProfile, OneReaderLoop, Live
<1>5. CASE d # c
  <2>1. hpc'[d] = hpc[d] /\ takenDone'[d] = takenDone[d]
    BY <1>5 DEF CallStop, StopTake, InStop, StopCancel, StopReturned, StopWait
  <2> QED
    BY <1>3, <2>1 DEF WillBeStopped
<1>6. CASE d = c
  <2>1. CASE CallStop(c)
    <3>1. hpc'[c] = "restopping" /\ takenDone'[c] = r
      BY <1>3, <1>4, <1>6, <2>1 DEF CallStop, StopTake
    <3> QED
      BY <3>1 DEF WillBeStopped
  <2>2. CASE InStop(c)
    <3>1. UNCHANGED <<hpc, takenDone>>
      BY <2>2 DEF InStop, StopCancel
    <3> QED
      BY <1>3, <3>1 DEF WillBeStopped
  <2>3. CASE StopReturned(c)
    BY <1>3, <1>4, <1>6, <2>3 DEF StopReturned, StopWait
  <2> QED
    BY <2>1, <2>2, <2>3
<1> QED
  BY <1>5, <1>6

\* A Start makes a launch that has read no profile yet.
LEMMA StartKeepsProfile ==
  ASSUME TypeOK, HandlerTypes, OldIsStopped, NEW c \in Callers, CallStart(c)
  PROVE  OldIsStopped'
<1>1. /\ UNCHANGED <<profile, longRange, overlooked, takenDone>>
      /\ UNCHANGED lpc \/ \E r \in Loops : lpc' = [lpc EXCEPT ![r] = "top"]
  BY DEF CallStart, Start, StartBusy, mvars
<1>2. \A s \in Loops : OldProfile(s)' => OldProfile(s)
  BY <1>1 DEF OldProfile, TypeOK
<1>3. \A d \in Callers : hpc[d] \in {"readFlag", "restop", "restopping"} => hpc'[d] = hpc[d]
  BY DEF CallStart, HandlerGoto, HandlerTypes
<1> QED
  BY <1>1, <1>2, <1>3, OldIsStoppedKept

\* /range20 itself: from the change of the profile to the reading of the flag.
LEMMA RangeKeepsProfile ==
  ASSUME TypeOK, HandlerTypes, OneReaderLoop, OldIsStopped, NEW c \in Callers,
         Range20(c) \/ Range20Flag(c)
  PROVE  OldIsStopped'
<1> USE DEF HandlerTypes, HandlerGoto
<1>1. CASE Range20(c)
  <2>1. hpc'[c] = "readFlag"
    BY <1>1 DEF Range20
  <2> QED
    BY <2>1 DEF OldIsStopped, WillBeStopped
<1>2. CASE Range20Flag(c)
  <2>1. UNCHANGED <<lpc, profile, longRange, running, done>>
    BY <1>2 DEF Range20Flag, mvars
  <2>2. CASE scanActive
    <3>1. hpc'[c] = "restop"
      BY <1>2, <2>2 DEF Range20Flag
    <3> QED
      BY <3>1 DEF OldIsStopped, WillBeStopped
  <2>3. CASE ~scanActive /\ running
    <3>1. overlooked'
      BY <1>2, <2>3 DEF Range20Flag
    <3> QED
      BY <3>1 DEF OldIsStopped
  <2>4. CASE ~running
    <3>1. \A r \in Loops : ~OldProfile(r)'
      BY <2>1, <2>4 DEF OldProfile, OneReaderLoop, Live
    <3> QED
      BY <3>1 DEF OldIsStopped
  <2> QED
    BY <2>2, <2>3, <2>4
<1> QED
  BY <1>1, <1>2

\* The other steps of the handlers.
LEMMA OthersKeepProfile ==
  ASSUME TypeOK, HandlerTypes, OldIsStopped, NEW c \in Callers,
         \/ ScanStart(c) \/ ScanStop(c) \/ RefreshDone(c) \/ FlagOn(c) \/ AutoFlag(c)
         \/ HttpReturn(c) \/ FlagOff(c)
  PROVE  OldIsStopped'
<1>1. UNCHANGED <<lpc, profile, longRange, overlooked, takenDone>>
  <2>1. CASE HttpReturn(c)
    BY <2>1 DEF HttpReturn, ParentDone
  <2>2. CASE ~HttpReturn(c)
    BY <2>2 DEF ScanStart, ScanStop, RefreshDone, FlagOn, AutoFlag, FlagOff, mvars
  <2> QED
    BY <2>1, <2>2
<1>2. \A s \in Loops : OldProfile(s)' => OldProfile(s)
  BY <1>1 DEF OldProfile
<1>3. \A d \in Callers : hpc[d] \in {"readFlag", "restop", "restopping"} => hpc'[d] = hpc[d]
  BY DEF ScanStart, ScanStop, RefreshDone, FlagOn, AutoFlag, HttpReturn, FlagOff, HandlerGoto,
         HandlerTypes
<1> QED
  BY <1>1, <1>2, <1>3, OldIsStoppedKept

\* With any front ends, in any number: once a /range20 has stopped the launch it found, or
\* found none, every reader is set up with the new profile, whoever started it and
\* whoever stops and starts it meanwhile; unless the flag was down over a live launch.
THEOREM RetuneCorrect == ControlSpec => []RetuneIsInForce
<1>1. ControlInit => OldIsStopped /\ HandlerTypes
  BY DEF ControlInit, Init, OldIsStopped, OldProfile, HandlerTypes, HandlerPlaces
<1>2. TypeOK /\ OneReaderLoop /\ HandlerTypes /\ OldIsStopped /\ [ControlNext]_vars => OldIsStopped'
  <2> SUFFICES ASSUME TypeOK, OneReaderLoop, HandlerTypes, OldIsStopped, [ControlNext]_vars
               PROVE  OldIsStopped'
    OBVIOUS
  <2>1. CASE UNCHANGED vars
    BY <2>1 DEF vars, mvars, OldIsStopped, OldProfile, WillBeStopped
  <2> QED
    BY <2>1, LoopKeepsProfile, StopKeepsProfile, StartKeepsProfile, RangeKeepsProfile,
       OthersKeepProfile DEF ControlNext, HandlerStep
<1>3. OldIsStopped => RetuneIsInForce
  BY DEF OldIsStopped, OldProfile, WillBeStopped, RetuneIsInForce
<1> QED
  BY <1>1, <1>2, <1>3, ManagerFacts, HandlerTypesInductive, PTL DEF ControlSpec
=============================================================================
