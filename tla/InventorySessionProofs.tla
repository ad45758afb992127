------------------------ MODULE InventorySessionProofs ------------------------
(* Theorems about InventorySession, for every set of tags and every size of *)
(* the client's two channels.                                               *)
EXTENDS InventorySession, SequenceTheorems, TLAPS

USE DEF transportVars, clientVars, streamVars

-----------------------------------------------------------------------------
(* Type correctness.                                                       *)

\* emitErr keeps the number of errors within the channel, and leaves one there.
LEMMA EmitErrType ==
  ASSUME errs \in 0..ErrBuffer, EmitErr
  PROVE  errs' \in 0..ErrBuffer /\ errs' > 0
  BY BuffersAssumption DEF EmitErr

\* A step of the transmit loop that moves it to p.
LEMMA TxGotoFrame ==
  ASSUME NEW p, TxGoto(p)
  PROVE  /\ tx' = p
         /\ UNCHANGED <<upc, stopping, session, connUp, rdr, chan, on, invDone, hasCancel,
                        cancelled, run, seen, tags, given>>
  BY DEF TxGoto

\* recordTag and consumeTags keep the channel of tag events typed and within its
\* capacity.
LEMMA TagsType ==
  ASSUME TypeOK
  PROVE  /\ \A e \in EPC : RecordTag(e) => tags' \in Seq(EPC \X BOOLEAN) /\ Len(tags') <= TagBuffer
         /\ TakeTag => tags' \in Seq(EPC \X BOOLEAN) /\ Len(tags') <= TagBuffer
         /\ TakeTag => given' \in SUBSET EPC
  <1> USE BuffersAssumption DEF TypeOK
  <1>1. ASSUME NEW e \in EPC, RecordTag(e)
        PROVE  tags' \in Seq(EPC \X BOOLEAN) /\ Len(tags') <= TagBuffer
    <2>1. CASE Len(tags) < TagBuffer
      <3>1. <<e, e \notin seen>> \in EPC \X BOOLEAN
        OBVIOUS
      <3>2. tags' = Append(tags, <<e, e \notin seen>>)
        BY <1>1, <2>1 DEF RecordTag
      <3> QED
        BY <2>1, <3>1, <3>2, AppendProperties
    <2>2. CASE ~(Len(tags) < TagBuffer)
      BY <1>1, <2>2 DEF RecordTag
    <2> QED
      BY <2>1, <2>2
  <1>2. ASSUME TakeTag
        PROVE  tags' \in Seq(EPC \X BOOLEAN) /\ Len(tags') <= TagBuffer /\ given' \in SUBSET EPC
    <2>1. tags # << >> /\ tags' = Tail(tags)
      BY <1>2 DEF TakeTag
    <2>2. /\ Head(tags) \in EPC \X BOOLEAN
          /\ Tail(tags) \in Seq(EPC \X BOOLEAN)
          /\ Len(Tail(tags)) = Len(tags) - 1
      BY <2>1, HeadTailProperties
    <2>3. Len(tags) \in Nat
      BY LenProperties
    <2> QED
      BY <1>2, <2>1, <2>2, <2>3 DEF TakeTag
  <1> QED
    BY <1>1, <1>2

\* The types in three parts, each checked for all steps: the flags, the places of the
\* goroutines and of the channels of the session, and the channels of the client.
Flags ==
  /\ stopping \in BOOLEAN /\ session \in BOOLEAN /\ connUp \in BOOLEAN
  /\ on \in BOOLEAN /\ hasCancel \in BOOLEAN /\ cancelled \in BOOLEAN

Places ==
  /\ upc \in {"connect", "start", "apply", "consume", "stop", "cancel", "wait",
              "close", "closing", "closed"}
  /\ rdr \in {"none", "read", "closeChans", "clear", "ended"}
  /\ chan \in {"open", "failed", "closed"}
  /\ invDone \in {"none", "open", "closed"}
  /\ run \in {"none", "begin", "select", "finish", "closeDone", "ended"}
  /\ tx \in {"none", "next", "send", "sleep", "stopAsync", "ended"}

Channels ==
  /\ errs \in 0..ErrBuffer
  /\ seen \in SUBSET EPC
  /\ tags \in Seq(EPC \X BOOLEAN) /\ Len(tags) <= TagBuffer
  /\ given \in SUBSET EPC

\* Every step of one of the four goroutines or of the environment keeps the flags.
LEMMA FlagsNext == Flags /\ [Next]_vars => Flags'
  <1> SUFFICES ASSUME Flags, [Next]_vars PROVE Flags'
    OBVIOUS
  <1> USE DEF Flags
  <1>1. CASE UNCHANGED vars
    BY <1>1 DEF vars
  <1>2. CASE Reconnect
    BY <1>2, Zenon DEF Reconnect
  <1>3. CASE StartRefused
    BY <1>3, Zenon DEF StartRefused
  <1>4. CASE StartInventory
    BY <1>4, Zenon DEF StartInventory
  <1>5. CASE ApplyDone
    BY <1>5, Zenon DEF ApplyDone
  <1>6. CASE ApplyFails
    BY <1>6, Zenon DEF ApplyFails
  <1>7. CASE TakeTag
    BY <1>7, Zenon DEF TakeTag
  <1>8. CASE ConsumeEnds
    BY <1>8, Zenon DEF ConsumeEnds
  <1>9. CASE StopIdle
    BY <1>9, Zenon DEF StopIdle
  <1>10. CASE StopInventory
    BY <1>10, Zenon DEF StopInventory
  <1>11. CASE StopCancel
    BY <1>11, Zenon DEF StopCancel
  <1>12. CASE StopWait
    BY <1>12, Zenon DEF StopWait
  <1>13. CASE Disconnect
    BY <1>13, Zenon DEF Disconnect
  <1>14. CASE DisconnectReturns
    BY <1>14, Zenon DEF DisconnectReturns
  <1>15. CASE ReadFails
    BY <1>15, Zenon DEF ReadFails
  <1>16. CASE CloseChannels
    BY <1>16, Zenon DEF CloseChannels
  <1>17. CASE ForgetSession
    BY <1>17, Zenon DEF ForgetSession
  <1>18. CASE RunBegins
    BY <1>18, Zenon DEF RunBegins
  <1>19. CASE RunEnds
    BY <1>19, Zenon DEF RunEnds
  <1>20. CASE FinishInventoryRun
    BY <1>20, Zenon DEF FinishInventoryRun
  <1>21. CASE CloseDone
    BY <1>21, Zenon DEF CloseDone
  <1>22. CASE TxNext
    BY <1>22, Zenon DEF TxNext, TxGoto
  <1>23. CASE TxSends
    BY <1>23, Zenon DEF TxSends, TxGoto
  <1>24. CASE TxFails
    BY <1>24, Zenon DEF TxFails, TxGoto
  <1>25. CASE TxSleeps
    BY <1>25, Zenon DEF TxSleeps, TxGoto
  <1>26. CASE StopInventoryAsync
    BY <1>26, Zenon DEF StopInventoryAsync
  <1>27. CASE BadFrame
    BY <1>27, Zenon DEF BadFrame
  <1>28. CASE StopRequested
    BY <1>28, Zenon DEF StopRequested
  <1>29. CASE ConnectionLost
    BY <1>29, Zenon DEF ConnectionLost
  <1>30. ASSUME NEW e \in EPC, RecordTag(e) PROVE Flags'
    BY <1>30, Zenon DEF RecordTag
  <1> QED
    BY <1>1, <1>2, <1>3, <1>4, <1>5, <1>6, <1>7, <1>8, <1>9, <1>10,
       <1>11, <1>12, <1>13, <1>14, <1>15, <1>16, <1>17, <1>18, <1>19, <1>20,
       <1>21, <1>22, <1>23, <1>24, <1>25, <1>26, <1>27, <1>28, <1>29, <1>30
       DEF Next, ScanLoop, ReadLoop, RunStep, TxStep

\* Every such step keeps the places.
LEMMA PlacesNext == Places /\ [Next]_vars => Places'
  <1> SUFFICES ASSUME Places, [Next]_vars PROVE Places'
    OBVIOUS
  <1> USE DEF Places
  <1>1. CASE UNCHANGED vars
    BY <1>1 DEF vars
  <1>2. CASE Reconnect \/ StartRefused \/ StartInventory \/ ApplyDone \/ ApplyFails
    BY <1>2 DEF Reconnect, StartRefused, StartInventory, ApplyDone, ApplyFails
  <1>3. CASE TakeTag \/ ConsumeEnds
    BY <1>3 DEF TakeTag, ConsumeEnds
  <1>4. CASE StopIdle \/ StopInventory \/ StopCancel \/ StopWait \/ Disconnect \/ DisconnectReturns
    BY <1>4 DEF StopIdle, StopInventory, StopCancel, StopWait, Disconnect, DisconnectReturns
  <1>5. CASE ReadLoop
    BY <1>5 DEF ReadLoop, ReadFails, CloseChannels, ForgetSession
  <1>6. CASE RunStep
    BY <1>6 DEF RunStep, RunBegins, RunEnds, FinishInventoryRun, CloseDone
  <1>7. CASE TxStep
    BY <1>7 DEF TxStep, TxNext, TxSends, TxFails, TxSleeps, StopInventoryAsync, TxGoto
  <1>8. ASSUME NEW e \in EPC, RecordTag(e) PROVE Places'
    BY <1>8 DEF RecordTag
  <1>9. CASE BadFrame \/ StopRequested \/ ConnectionLost
    BY <1>9 DEF BadFrame, StopRequested, ConnectionLost
  <1> QED
    BY <1>1, <1>2, <1>3, <1>4, <1>5, <1>6, <1>7, <1>8, <1>9 DEF Next, ScanLoop

\* Every such step keeps the channels.
LEMMA ChannelsNext == TypeOK /\ [Next]_vars => Channels'
  <1> SUFFICES ASSUME TypeOK, [Next]_vars PROVE Channels'
    OBVIOUS
  <1> USE DEF TypeOK, Channels
  <1>1. CASE UNCHANGED vars
    BY <1>1 DEF vars
  <1>2. CASE Reconnect \/ StartRefused \/ StartInventory \/ ApplyDone \/ ApplyFails
    BY <1>2 DEF Reconnect, StartRefused, StartInventory, ApplyDone, ApplyFails
  <1>3. CASE TakeTag
    BY <1>3, TagsType DEF TakeTag
  <1>4. CASE ConsumeEnds
    BY <1>4, BuffersAssumption DEF ConsumeEnds
  <1>5. CASE StopIdle \/ StopInventory \/ StopCancel \/ StopWait \/ Disconnect \/ DisconnectReturns
    BY <1>5 DEF StopIdle, StopInventory, StopCancel, StopWait, Disconnect, DisconnectReturns
  <1>6. CASE ReadLoop
    BY <1>6 DEF ReadLoop, ReadFails, CloseChannels, ForgetSession
  <1>7. CASE RunStep
    BY <1>7, EmitErrType DEF RunStep, RunBegins, RunEnds, FinishInventoryRun, CloseDone
  <1>8. CASE TxStep
    BY <1>8, EmitErrType
       DEF TxStep, TxNext, TxSends, TxFails, TxSleeps, StopInventoryAsync, TxGoto
  <1>9. CASE BadFrame
    BY <1>9, EmitErrType DEF BadFrame
  <1>10. ASSUME NEW e \in EPC, RecordTag(e) PROVE Channels'
    BY <1>10, TagsType DEF RecordTag
  <1>11. CASE StopRequested \/ ConnectionLost
    BY <1>11 DEF StopRequested, ConnectionLost
  <1> QED
    BY <1>1, <1>2, <1>3, <1>4, <1>5, <1>6, <1>7, <1>8, <1>9, <1>10, <1>11 DEF Next, ScanLoop

\* The parts together.
LEMMA TypeNext == TypeOK /\ [Next]_vars => TypeOK'
  <1>1. TypeOK => Flags /\ Places
    BY DEF TypeOK, Flags, Places
  <1>2. Flags' /\ Places' /\ Channels' => TypeOK'
    BY DEF TypeOK, Flags, Places, Channels
  <1> QED
    BY <1>1, <1>2, FlagsNext, PlacesNext, ChannelsNext

\* The initial state is well typed.
LEMMA TypeInit == Init => TypeOK
  <1> SUFFICES ASSUME Init PROVE TypeOK
    OBVIOUS
  <1>1. Flags
    BY Zenon DEF Init, Flags
  <1>2. Places
    BY DEF Init, Places
  <1>3. Channels
    BY BuffersAssumption DEF Init, Channels
  <1> QED
    BY <1>1, <1>2, <1>3 DEF TypeOK, Flags, Places, Channels

\* The goroutines stay where the code has a place for them and neither channel of
\* the client (client_core.go: NewClient) holds more than its capacity.
THEOREM TypeCorrect == Spec => []TypeOK
  BY TypeInit, TypeNext, PTL DEF Spec

-----------------------------------------------------------------------------
(* An inventory that died is noticed, and its end is announced once.        *)

\* Where the goroutines are before ApplyInventoryConfig has succeeded, and what
\* the lock and the order of the steps guarantee from then on.
Phases ==
  /\ upc \in {"connect", "start", "apply"} => run = "none" /\ tx = "none"
  /\ upc \in {"connect", "start"} => ~on
  /\ upc = "apply" => on /\ invDone = "open" /\ ~cancelled
  /\ upc \in {"consume", "stop", "cancel", "wait"} => run # "none"
  /\ on /\ upc # "apply" => run \in {"begin", "select", "finish"}

\* inventoryRun is the one that closes done.
DoneFollowsRun ==
  /\ run \in {"begin", "select", "finish", "closeDone"} => invDone = "open"
  /\ run = "ended" => invDone = "closed"

\* Whatever keeps the inventory from going on has left an error: not only that a
\* goroutine has ended, but also what makes the other one end without one.
TroubleIsReported ==
  (/\ upc = "consume"
   /\ ~stopping
   /\ \/ run \in {"finish", "closeDone", "ended"}
      \/ tx \in {"stopAsync", "ended"}
      \/ cancelled
      \/ ~on)
  => errs > 0

SessionInv == Phases /\ DoneFollowsRun /\ TroubleIsReported

\* The invariant is about these variables only.
LEMMA SessionFrame ==
  ASSUME SessionInv,
         UNCHANGED <<upc, stopping, on, invDone, cancelled, run, tx, errs>>
  PROVE  SessionInv'
  BY DEF SessionInv, Phases, DoneFollowsRun, TroubleIsReported

\* A new client has no inventory.
LEMMA SessionInit == Init => SessionInv
  BY DEF Init, SessionInv, Phases, DoneFollowsRun, TroubleIsReported

\* Every step keeps the invariant.
LEMMA SessionNext == TypeOK /\ SessionInv /\ [Next]_vars => SessionInv'
  <1> SUFFICES ASSUME TypeOK, SessionInv, [Next]_vars PROVE SessionInv'
    OBVIOUS
  <1> USE DEF TypeOK
  <1> USE DEF SessionInv, Phases, DoneFollowsRun, TroubleIsReported
  <1>1. CASE UNCHANGED vars
    BY <1>1, SessionFrame DEF vars
  <1>2. CASE Reconnect \/ StartRefused
    BY <1>2 DEF Reconnect, StartRefused
  <1>3. CASE StartInventory
    BY <1>3 DEF StartInventory
  <1>4. CASE ApplyDone
    BY <1>4 DEF ApplyDone
  <1>5. CASE ApplyFails
    BY <1>5 DEF ApplyFails
  <1>6. CASE TakeTag
    BY <1>6, SessionFrame DEF TakeTag
  <1>7. CASE ConsumeEnds
    BY <1>7 DEF ConsumeEnds
  <1>8. CASE StopIdle \/ StopInventory
    BY <1>8 DEF StopIdle, StopInventory
  <1>9. CASE StopCancel \/ StopWait
    BY <1>9 DEF StopCancel, StopWait
  <1>10. CASE Disconnect \/ DisconnectReturns
    BY <1>10 DEF Disconnect, DisconnectReturns
  <1>11. CASE ReadLoop
    BY <1>11, SessionFrame DEF ReadLoop, ReadFails, CloseChannels, ForgetSession
  <1>12. CASE RunBegins
    BY <1>12, EmitErrType DEF RunBegins
  <1>13. CASE RunEnds
    BY <1>13, EmitErrType DEF RunEnds, Cancelled
  <1>14. CASE FinishInventoryRun
    BY <1>14 DEF FinishInventoryRun
  <1>15. CASE CloseDone
    BY <1>15 DEF CloseDone
  <1>16. CASE TxNext \/ TxSends
    BY <1>16 DEF TxNext, TxSends, TxGoto
  <1>17. CASE TxFails
    BY <1>17, EmitErrType, TxGotoFrame DEF TxFails
  <1>18. CASE TxSleeps
    BY <1>18 DEF TxSleeps, TxGoto, Cancelled
  <1>19. CASE StopInventoryAsync
    BY <1>19 DEF StopInventoryAsync
  <1>20. CASE BadFrame
    BY <1>20, EmitErrType DEF BadFrame
  <1>21. ASSUME NEW e \in EPC, RecordTag(e) PROVE SessionInv'
    BY <1>21, SessionFrame DEF RecordTag
  <1>22. CASE StopRequested
    BY <1>22 DEF StopRequested
  <1>23. CASE ConnectionLost
    BY <1>23, SessionFrame DEF ConnectionLost
  <1> QED
    BY <1>1, <1>2, <1>3, <1>4, <1>5, <1>6, <1>7, <1>8, <1>9, <1>10, <1>11, <1>12, <1>13,
       <1>14, <1>15, <1>16, <1>17, <1>18, <1>19, <1>20, <1>21, <1>22, <1>23
       DEF Next, ScanLoop, RunStep, TxStep

\* scanLoop never waits for tags of an inventory that has ended without leaving it
\* an error (client_inventory_runtime.go: inventoryRun, inventoryTxLoop,
\* stopInventoryAsync; manager.go: consumeTags).
THEOREM NoSilentInventoryCorrect == Spec => []NoSilentInventory
  <1>1. SessionInv => NoSilentInventory
    BY DEF SessionInv, TroubleIsReported, NoSilentInventory
  <1> QED
    BY <1>1, TypeInit, TypeNext, SessionInit, SessionNext, PTL DEF Spec

\* The done channel of an inventory is closed once, and a StopInventory that waits
\* on it is answered (client_inventory_control.go: StopInventory;
\* client_inventory_runtime.go: finishInventoryRun).
THEOREM DoneCorrect == Spec => []DoneIsClosedOnce
  <1>1. TypeOK /\ SessionInv => DoneIsClosedOnce
    BY DEF TypeOK, SessionInv, Phases, DoneFollowsRun, DoneIsClosedOnce
  <1> QED
    BY <1>1, TypeInit, TypeNext, SessionInit, SessionNext, PTL DEF Spec

-----------------------------------------------------------------------------
(* Which tags a session may lose.                                          *)

\* A step that leaves the stream alone loses nothing.
LEMMA LostFrame ==
  ASSUME NEW e \in EPC, UNCHANGED <<seen, tags, given>>
  PROVE  Lost(e)' => Lost(e)
  BY DEF Lost

\* A report that is recorded while the channel has room is not lost, nor is one
\* that was recorded before.
LEMMA RecordTagKeeps ==
  ASSUME TypeOK, NEW e \in EPC, NEW f \in EPC, RecordTag(f), Lost(e)'
  PROVE  Lost(e) \/ Len(tags) = TagBuffer
  <1> USE DEF TypeOK
  <1> SUFFICES ASSUME ~(Len(tags) = TagBuffer) PROVE Lost(e)
    OBVIOUS
  <1>1. Len(tags) \in Nat /\ Len(tags) < TagBuffer
    BY LenProperties, BuffersAssumption
  <1>2. /\ tags' = Append(tags, <<f, f \notin seen>>)
        /\ seen' = seen \cup {f} /\ given' = given
    BY <1>1 DEF RecordTag
  <1>3. <<f, f \notin seen>> \in EPC \X BOOLEAN
    OBVIOUS
  <1>4. /\ Len(tags') = Len(tags) + 1
        /\ \A i \in 1..Len(tags) : tags'[i] = tags[i]
        /\ tags'[Len(tags) + 1] = <<f, f \notin seen>>
    BY <1>2, <1>3, AppendProperties
  <1>5. \A i \in 1..Len(tags') : tags'[i] # <<e, TRUE>>
    BY DEF Lost
  <1>6. Len(tags) + 1 \in 1..Len(tags') /\ 1..Len(tags) \subseteq 1..Len(tags')
    BY <1>1, <1>4
  <1>7. \A i \in 1..Len(tags) : tags[i] # <<e, TRUE>>
    BY <1>4, <1>5, <1>6, Zenon
  <1>8. <<f, f \notin seen>> # <<e, TRUE>>
    BY <1>4, <1>5, <1>6, Zenon
  <1>9. e \in seen
    BY <1>2, <1>8 DEF Lost
  <1> QED
    BY <1>2, <1>7, <1>9 DEF Lost

\* What a first report says.
LEMMA FirstReport ==
  ASSUME NEW report, NEW e, report = <<e, TRUE>>
  PROVE  report[1] = e /\ report[2]
  OBVIOUS

\* A first report that is taken out of the channel is passed on.
LEMMA TakeTagKeeps ==
  ASSUME TypeOK, NEW e \in EPC, TakeTag, Lost(e)'
  PROVE  Lost(e)
  <1> USE DEF TypeOK
  <1>1. tags # << >> /\ tags' = Tail(tags) /\ seen' = seen
    BY DEF TakeTag
  <1>2. given' = IF Head(tags)[2] THEN given \cup {Head(tags)[1]} ELSE given
    BY DEF TakeTag
  <1>3. /\ Len(tags) \in Nat \ {0} /\ Len(tags') = Len(tags) - 1
        /\ Head(tags) = tags[1]
        /\ \A i \in 1..Len(tags') : tags'[i] = tags[i + 1]
    BY <1>1, LenProperties, HeadTailProperties, EmptySeq
  <1>4. ASSUME NEW i \in 1..Len(tags), tags[i] = <<e, TRUE>> PROVE FALSE
    <2>1. CASE i = 1
      <3>1. Head(tags) = <<e, TRUE>>
        BY <1>3, <1>4, <2>1, Zenon
      <3>2. Head(tags)[1] = e /\ Head(tags)[2]
        BY <3>1, FirstReport, Zenon
      <3>3. e \in given'
        BY <1>2, <3>2
      <3> QED
        BY <3>3 DEF Lost
    <2>2. CASE i # 1
      <3>1. i - 1 \in 1..Len(tags') /\ (i - 1) + 1 = i
        BY <1>3, <2>2
      <3>2. tags'[i - 1] = <<e, TRUE>>
        BY <1>3, <1>4, <3>1
      <3> QED
        BY <3>1, <3>2 DEF Lost
    <2> QED
      BY <2>1, <2>2
  <1>5. e \notin given
    BY <1>2 DEF Lost
  <1> QED
    BY <1>1, <1>4, <1>5 DEF Lost

\* No other step touches the stream, except that a new inventory forgets what it has seen.
LEMMA LostNext ==
  ASSUME TypeOK, [Next]_vars, NEW e \in EPC, Lost(e)'
  PROVE  Lost(e) \/ Len(tags) = TagBuffer
  <1>1. CASE TakeTag
    BY <1>1, TakeTagKeeps
  <1>2. ASSUME NEW f \in EPC, RecordTag(f) PROVE Lost(e) \/ Len(tags) = TagBuffer
    BY <1>2, RecordTagKeeps
  <1>3. CASE StartInventory
    BY <1>3 DEF StartInventory, Lost
  <1>4. CASE UNCHANGED <<seen, tags, given>>
    BY <1>4, LostFrame
  <1>5. CASE UNCHANGED vars
    BY <1>5, LostFrame DEF vars
  <1>6. CASE ReadLoop \/ RunStep \/ BadFrame \/ StopRequested \/ ConnectionLost
    BY <1>4, <1>6 DEF ReadLoop, ReadFails, CloseChannels, ForgetSession, RunStep, RunBegins,
       RunEnds, FinishInventoryRun, CloseDone, BadFrame, StopRequested, ConnectionLost
  <1>7. CASE TxStep
    BY <1>4, <1>7 DEF TxStep, TxNext, TxSends, TxFails, TxSleeps, StopInventoryAsync, TxGoto
  <1>8. CASE Reconnect \/ StartRefused \/ ApplyDone \/ ApplyFails \/ ConsumeEnds
    BY <1>4, <1>8 DEF Reconnect, StartRefused, ApplyDone, ApplyFails, ConsumeEnds
  <1>9. CASE StopIdle \/ StopInventory \/ StopCancel \/ StopWait \/ Disconnect \/ DisconnectReturns
    BY <1>4, <1>9 DEF StopIdle, StopInventory, StopCancel, StopWait, Disconnect, DisconnectReturns
  <1> QED
    BY <1>1, <1>2, <1>3, <1>5, <1>6, <1>7, <1>8, <1>9 DEF Next, ScanLoop

\* A tag misses the service only when its first report finds Client.tags full
\* (client_inventory_runtime.go: recordTag; client_events.go: emitTag;
\* manager.go: consumeTags).
THEOREM LossCorrect == Spec => OnlyAFullChannelLoses
  <1>1. TypeOK /\ [Next]_vars
        => [\A e \in EPC : Lost(e)' => Lost(e) \/ Len(tags) = TagBuffer]_vars
    BY LostNext
  <1> QED
    BY <1>1, TypeInit, TypeNext, PTL DEF Spec, OnlyAFullChannelLoses
=============================================================================
