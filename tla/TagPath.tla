------------------------------ MODULE TagPath ------------------------------
(***************************************************************************)
(* From a frame of the reader to the bot: handleProtocolFrame of           *)
(* internal/tui/update_frames.go takes the EPCs out of an inventory frame, *)
(* passes over those it has seen in this reading and offers a new one to   *)
(* the queue of botSyncClient (internal/tui/bot_sync.go), which drops it   *)
(* when it is full.  One ingestWorker sends the queue to the bot, a        *)
(* connection for each EPC; it gives up on an answer after a while, and    *)
(* the bot's handler (internal/gobot/ipc/server.go) goes on without it.    *)
(*                                                                         *)
(* handled, missed and readings are history: how often the bot handled an  *)
(* EPC, which EPCs were lost on the way, how many readings there were.     *)
(***************************************************************************)
EXTENDS FrameStream, Bags

CONSTANTS
  QueueSize,      \* BOT_SYNC_QUEUE_SIZE
  TextLimit,      \* formatHex keeps this many bytes of an EPC: 96
  MaxReadings     \* bound: readings

ASSUME PathAssumption ==
  QueueSize \in Nat \ {0} /\ TextLimit \in Nat \ {0} /\ MaxReadings \in Nat \ {0}

VARIABLES
  todo,           \* the EPCs of the frame in hand that are yet to be handled
  seen,           \* seenTagEPC
  queue,          \* the channel towards ingestWorker
  worker,         \* ingestWorker: idle, or the place in roundTrip
  sending,        \* the EPC it sends
  handlers,       \* the EPCs whose connections the bot has not handled yet, a bag
  handled, missed, readings

pathVars == <<todo, seen, queue, worker, sending, handlers, handled, missed, readings>>
vars == <<streamVars, pathVars>>

-----------------------------------------------------------------------------
(* Frames.                                                                 *)

\* formatHex without its spaces: the text of an EPC, cut after TextLimit bytes.
EpcText(epc) ==
  IF Len(epc) > TextLimit THEN [hex |-> SubSeq(epc, 1, TextLimit), dots |-> TRUE]
  ELSE [hex |-> epc, dots |-> FALSE]

NoText == EpcText(<<>>)

\* The EPCs handleProtocolFrame takes from a frame, in order.  An inventory answer is
\* read whatever its status is, and has no empty EPC; the answer to a single inventory
\* is read when its status is StatusNoTag.
FrameEPCs(frame) ==
  CASE frame.command = CmdInventory ->
         LET epcs == ParseInventoryG2Tags(frame).epcs
         IN  [i \in 1..Len(epcs) |-> EpcText(epcs[i])]
    [] frame.command = CmdInventorySingle /\ frame.status = StatusNoTag ->
         LET epcs == ParseSingleInventoryResult(frame).epcs
         IN  [i \in 1..Len(epcs) |-> EpcText(epcs[i])]
    [] OTHER -> <<>>

Elems(s) == {s[i] : i \in 1..Len(s)}

One(e) == SetToBag({e})
Copies(e, bag) == IF BagIn(e, bag) THEN bag[e] ELSE 0
Count(e, s) == Cardinality({i \in 1..Len(s) : s[i] = e})

PathInit ==
  /\ StreamInit
  /\ todo = <<>> /\ seen = {} /\ queue = <<>>
  /\ worker = "idle" /\ sending = NoText
  /\ handlers = EmptyBag /\ handled = EmptyBag
  /\ missed = {} /\ readings = 1

Receiving == (\E n \in 1..ReadSize : Receive(n) \/ Lose(n)) /\ UNCHANGED pathVars
Parsing == ParseStep /\ UNCHANGED pathVars

\* A connection is made: only the buffer is cleared.
Connected == ClearBuffer /\ UNCHANGED pathVars

\* A reading is started.
StartReading ==
  /\ readings < MaxReadings
  /\ ClearBuffer
  /\ seen' = {} /\ readings' = readings + 1
  /\ UNCHANGED <<todo, queue, worker, sending, handlers, handled, missed>>

\* handleProtocolFrame is called with the next frame.
OpenFrame ==
  /\ todo = <<>>
  /\ NextFrame
  /\ todo' = FrameEPCs(Head(frames))
  /\ UNCHANGED <<seen, queue, worker, sending, handlers, handled, missed, readings>>

\* Update returns.
Return == todo = <<>> /\ HandleEnds /\ UNCHANGED pathVars

\* Mistake: the loop over the tags ends at one that was seen before.
AfterSeenNone == <<>>
AfterSeen == Tail(todo)

\* A tag that was seen in this reading.
SeenBefore ==
  /\ phase = "handle" /\ todo # <<>>
  /\ Head(todo) \in seen
  /\ todo' = AfterSeen
  /\ UNCHANGED <<streamVars, seen, queue, worker, sending, handlers, handled, missed, readings>>

\* Mistake: a full queue loses its oldest EPC.
OfferDropsOldest(e) ==
  /\ queue' = Append(IF Len(queue) < QueueSize THEN queue ELSE Tail(queue), e)
  /\ UNCHANGED missed

\* onNewEPC: an empty EPC is not sent, one that finds the queue full is dropped.
Offer(e) ==
  \/ e = NoText /\ UNCHANGED <<queue, missed>>
  \/ e # NoText /\ Len(queue) < QueueSize /\ queue' = Append(queue, e) /\ UNCHANGED missed
  \/ e # NoText /\ Len(queue) = QueueSize /\ missed' = missed \cup {e} /\ UNCHANGED queue

\* A new tag is marked and offered.
NewTag ==
  /\ phase = "handle" /\ todo # <<>>
  /\ Head(todo) \notin seen
  /\ seen' = seen \cup {Head(todo)}
  /\ Offer(Head(todo))
  /\ todo' = Tail(todo)
  /\ UNCHANGED <<streamVars, worker, sending, handlers, handled, readings>>

-----------------------------------------------------------------------------
(* ingestWorker and roundTrip.                                             *)

WorkerTakes ==
  /\ worker = "idle" /\ queue # <<>>
  /\ worker' = "dial" /\ sending' = Head(queue) /\ queue' = Tail(queue)
  /\ UNCHANGED <<streamVars, todo, seen, handlers, handled, missed, readings>>

\* Mistake: ingestWorker leaves its loop on an error; an EPC without answer is sent again.
AfterErrorStops == "stopped"
AfterError == "idle"
WorkerGivesUpRetries ==
  /\ worker = "await"
  /\ worker' = "dial"
  /\ UNCHANGED <<streamVars, todo, seen, queue, sending, handlers, handled, missed, readings>>

\* The bot is not there: dial or write fail, and the EPC is lost.
WorkerFails ==
  /\ worker = "dial"
  /\ worker' = AfterError
  /\ missed' = missed \cup {sending}
  /\ UNCHANGED <<streamVars, todo, seen, queue, sending, handlers, handled, readings>>

\* The frame is written: the bot has a connection to handle.
WorkerSends ==
  /\ worker = "dial"
  /\ worker' = "await"
  /\ handlers' = handlers (+) One(sending)
  /\ UNCHANGED <<streamVars, todo, seen, queue, sending, handled, missed, readings>>

\* The deadline passes, or the answer or its end is read.  The error is only logged.
WorkerGivesUp ==
  /\ worker = "await"
  /\ worker' = AfterError
  /\ UNCHANGED <<streamVars, todo, seen, queue, sending, handlers, handled, missed, readings>>

\* The bot's handler runs HandleEPC and answers.
BotHandles(e) ==
  /\ handlers' = handlers (-) One(e)
  /\ handled' = handled (+) One(e)
  /\ UNCHANGED <<streamVars, todo, seen, queue, worker, sending, missed, readings>>

\* The bot ends: what it has not handled is lost.
BotEnds ==
  /\ handlers # EmptyBag
  /\ missed' = missed \cup BagToSet(handlers)
  /\ handlers' = EmptyBag
  /\ UNCHANGED <<streamVars, todo, seen, queue, worker, sending, handled, readings>>

WorkerStep == WorkerTakes \/ WorkerFails \/ WorkerSends \/ WorkerGivesUp

PathNext ==
  \/ Receiving \/ Parsing \/ Connected \/ StartReading
  \/ OpenFrame \/ SeenBefore \/ NewTag \/ Return
  \/ WorkerStep
  \/ \E e \in BagToSet(handlers) : BotHandles(e)
  \/ BotEnds

PathSpec == PathInit /\ [][PathNext]_vars

\* ingestWorker is a goroutine whose every wait has a deadline.
FairPathSpec == PathSpec /\ WF_vars(WorkerStep)

-----------------------------------------------------------------------------
(* Properties.                                                             *)

\* Between two packets every EPC of every frame that was taken since the buffer was
\* cleared is marked as seen, though the frames came in pieces and some held EPCs that
\* were seen before.
EveryTagIsSeen ==
  phase = "wait" =>
    \A t \in taken :
      Elems(FrameEPCs(FrameOf(SubSeq(got, t + 1, EndOf(t))))) \subseteq seen

\* An EPC that was seen is on its way to the bot, was handled by it, or was lost to a
\* full queue, to a bot that could not be reached or to one that ended.
NoneForgotten ==
  \A e \in seen \ {NoText} :
    \/ e \in Elems(queue) \cup missed
    \/ worker = "dial" /\ sending = e
    \/ BagIn(e, handlers (+) handled)

\* The bot is given an EPC at most once for each reading in which it was seen, however
\* often the tag answers and whatever becomes of the answers of the bot.
OncePerReading ==
  \A e \in Elems(queue) \cup {sending} \cup BagToSet(handlers (+) handled) :
    Copies(e, handlers (+) handled) + Count(e, queue)
      + (IF worker = "dial" /\ sending = e THEN 1 ELSE 0) <= readings

\* What is queued is sent: a bot that is away or does not answer delays the queue and
\* does not stop it.
QueueDrains == (queue # <<>>) ~> (queue = <<>>)
=============================================================================
