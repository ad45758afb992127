--------------------------- MODULE InventorySession ---------------------------
(***************************************************************************)
(* One reader session of the bot: the SDK client (sdk) on top of the TCP    *)
(* transport (internal/reader), as scanLoop of the reader manager uses it:  *)
(* connect, StartInventory, consume tags until something goes wrong or the  *)
(* scan is stopped, StopInventory, Close; then a new client.                *)
(*                                                                         *)
(* Four goroutines share the client: scanLoop, the transport's readLoop,    *)
(* inventoryRun and inventoryTxLoop.  Each is cut where it takes or         *)
(* releases Client.mu, uses a channel or the connection.                    *)
(*                                                                         *)
(* Left out: the frames and their parsing (a packet is the report of one    *)
(* tag), counters, A/B target switching, status events, and the commands    *)
(* themselves.                                                              *)
(***************************************************************************)
EXTENDS Naturals, Sequences

CONSTANTS
  EPC,        \* tags in front of the antennas
  TagBuffer,  \* capacity of Client.tags
  ErrBuffer   \* capacity of Client.errs

ASSUME BuffersAssumption == TagBuffer \in Nat \ {0} /\ ErrBuffer \in Nat \ {0}

VARIABLES
  upc,        \* scanLoop
  stopping,   \* the context given to StartInventory is cancelled: the manager was stopped
  session,    \* reader.Client.session is set
  connUp,     \* neither side has closed the connection
  rdr,        \* readLoop
  chan,       \* the packets and errs channels of the session: open, failed (an error is in errs), closed
  on,         \* Client.inventoryOn
  invDone,    \* the channel made for Client.inventoryDone: "none", "open", "closed"
  hasCancel,  \* Client.cancelInv is set
  cancelled,  \* the inventory context is cancelled
  run, tx,    \* inventoryRun, inventoryTxLoop
  errs,       \* number of errors in Client.errs
  seen,       \* Client.seen
  tags,       \* Client.tags: pairs of an EPC and IsNew
  given       \* EPCs passed on to onEPC

transportVars == <<session, connUp, rdr, chan>>
clientVars    == <<on, invDone, hasCancel, cancelled>>
streamVars    == <<seen, tags, given>>
vars == <<upc, stopping, transportVars, clientVars, run, tx, errs, streamVars>>

-----------------------------------------------------------------------------

\* The places of the goroutines and the channels stay in their ranges.
TypeOK ==
  /\ upc \in {"connect", "start", "apply", "consume", "stop", "cancel", "wait",
              "close", "closing", "closed"}
  /\ stopping \in BOOLEAN /\ session \in BOOLEAN /\ connUp \in BOOLEAN
  /\ rdr \in {"none", "read", "closeChans", "clear", "ended"}
  /\ chan \in {"open", "failed", "closed"}
  /\ on \in BOOLEAN /\ hasCancel \in BOOLEAN /\ cancelled \in BOOLEAN
  /\ invDone \in {"none", "open", "closed"}
  /\ run \in {"none", "begin", "select", "finish", "closeDone", "ended"}
  /\ tx \in {"none", "next", "send", "sleep", "stopAsync", "ended"}
  /\ errs \in 0..ErrBuffer
  /\ seen \in SUBSET EPC
  /\ tags \in Seq(EPC \X BOOLEAN) /\ Len(tags) <= TagBuffer
  /\ given \in SUBSET EPC

\* sdk.NewClient
Init ==
  /\ upc = "connect" /\ stopping = FALSE
  /\ session = FALSE /\ connUp = FALSE /\ rdr = "none" /\ chan = "open"
  /\ on = FALSE /\ invDone = "none" /\ hasCancel = FALSE /\ cancelled = FALSE
  /\ run = "none" /\ tx = "none" /\ errs = 0
  /\ seen = {} /\ tags = << >> /\ given = {}

\* emitErr: a full channel drops the error.
EmitErr == errs' = IF errs < ErrBuffer THEN errs + 1 ELSE errs

\* The inventory context is cancelled, by its own cancel function or its parent.
Cancelled == cancelled \/ stopping

-----------------------------------------------------------------------------
(* scanLoop: connecting and starting.                                      *)

\* The manager is stopped.
StopRequested ==
  /\ ~stopping
  /\ stopping' = TRUE
  /\ UNCHANGED <<upc, transportVars, clientVars, run, tx, errs, streamVars>>

\* Reconnect: the dial succeeds (a failure leaves the client as it was).
Reconnect ==
  /\ upc = "connect"
  /\ upc' = "start"
  /\ session' = TRUE /\ connUp' = TRUE /\ rdr' = "read" /\ chan' = "open"
  /\ UNCHANGED <<stopping, clientVars, run, tx, errs, streamVars>>

\* StartInventory on a session that is gone already: the client is dropped.
StartRefused ==
  /\ upc = "start"
  /\ ~session
  /\ upc' = "closed"
  /\ UNCHANGED <<stopping, transportVars, clientVars, run, tx, errs, streamVars>>

\* StartInventory up to ApplyInventoryConfig.
StartInventory ==
  /\ upc = "start"
  /\ session
  /\ upc' = "apply"
  /\ on' = TRUE /\ invDone' = "open" /\ hasCancel' = TRUE /\ cancelled' = FALSE
  /\ seen' = {}
  /\ UNCHANGED <<stopping, transportVars, run, tx, errs, tags, given>>

\* Every configuration command was written.
ApplyDone ==
  /\ upc = "apply"
  /\ upc' = "consume"
  /\ run' = "begin"
  /\ UNCHANGED <<stopping, transportVars, clientVars, tx, errs, streamVars>>

\* A write failed or timed out, or the context is cancelled.  The caller drops the client
\* without closing it.
ApplyFails ==
  /\ upc = "apply"
  /\ upc' = "closed"
  /\ cancelled' = TRUE /\ hasCancel' = FALSE /\ on' = FALSE /\ invDone' = "closed"
  /\ UNCHANGED <<stopping, transportVars, run, tx, errs, streamVars>>

-----------------------------------------------------------------------------
(* scanLoop: consumeTags, StopInventory, Close.                            *)

\* A tag event; only the first of an EPC is passed on.
TakeTag ==
  /\ upc = "consume"
  /\ tags # << >>
  /\ tags' = Tail(tags)
  /\ given' = IF Head(tags)[2] THEN given \cup {Head(tags)[1]} ELSE given
  /\ UNCHANGED <<upc, stopping, transportVars, clientVars, run, tx, errs, seen>>

\* consumeTags returns.
ConsumeEnds ==
  /\ upc = "consume"
  /\ \/ stopping /\ UNCHANGED errs
     \/ errs > 0 /\ errs' = errs - 1
  /\ upc' = "stop"
  /\ UNCHANGED <<stopping, transportVars, clientVars, run, tx, streamVars>>

\* The critical section of StopInventory.
StopIdle ==
  /\ upc = "stop"
  /\ ~on
  /\ upc' = "close"
  /\ UNCHANGED <<stopping, transportVars, clientVars, run, tx, errs, streamVars>>

StopInventory ==
  /\ upc = "stop"
  /\ on
  /\ upc' = "cancel"
  /\ on' = FALSE
  /\ hasCancel' = FALSE
  /\ UNCHANGED <<stopping, transportVars, invDone, cancelled, run, tx, errs, streamVars>>

StopCancel ==
  /\ upc = "cancel"
  /\ cancelled' = TRUE
  /\ upc' = "wait"
  /\ UNCHANGED <<stopping, transportVars, on, invDone, hasCancel, run, tx, errs, streamVars>>

\* <-done
StopWait ==
  /\ upc = "wait"
  /\ invDone = "closed"
  /\ upc' = "close"
  /\ UNCHANGED <<stopping, transportVars, clientVars, run, tx, errs, streamVars>>

\* Disconnect: without a session there is nothing to do; otherwise the connection
\* is closed and readLoop waited for, but not longer than 1.2 s.
Disconnect ==
  /\ upc = "close"
  /\ \/ ~session /\ upc' = "closed" /\ UNCHANGED connUp
     \/ session /\ upc' = "closing" /\ connUp' = FALSE
  /\ UNCHANGED <<stopping, session, rdr, chan, clientVars, run, tx, errs, streamVars>>

DisconnectReturns ==
  /\ upc = "closing"
  /\ upc' = "closed"
  /\ UNCHANGED <<stopping, transportVars, clientVars, run, tx, errs, streamVars>>

-----------------------------------------------------------------------------
(* The transport.                                                          *)

\* The reader or the network drops the connection.
ConnectionLost ==
  /\ connUp
  /\ connUp' = FALSE
  /\ UNCHANGED <<upc, stopping, session, rdr, chan, clientVars, run, tx, errs, streamVars>>

\* readLoop: Read fails and the error is put into the channel of the session,
\* then the channels are closed, and only then the session is forgotten.
ReadFails ==
  /\ rdr = "read"
  /\ ~connUp
  /\ rdr' = "closeChans"
  /\ chan' = "failed"
  /\ UNCHANGED <<upc, stopping, session, connUp, clientVars, run, tx, errs, streamVars>>

CloseChannels ==
  /\ rdr = "closeChans"
  /\ rdr' = "clear"
  /\ chan' = "closed"
  /\ UNCHANGED <<upc, stopping, session, connUp, clientVars, run, tx, errs, streamVars>>

ForgetSession ==
  /\ rdr = "clear"
  /\ rdr' = "ended"
  /\ session' = FALSE
  /\ UNCHANGED <<upc, stopping, connUp, chan, clientVars, run, tx, errs, streamVars>>

-----------------------------------------------------------------------------
(* inventoryRun                                                            *)

\* The channels of the session are fetched; without a session they are nil, which
\* is reported (the session may also vanish between the two fetches).
RunBegins ==
  /\ run = "begin"
  /\ \/ session /\ run' = "select" /\ tx' = "next" /\ UNCHANGED errs
     \/ ~session /\ run' = "finish" /\ EmitErr /\ UNCHANGED tx
  /\ UNCHANGED <<upc, stopping, transportVars, clientVars, streamVars>>

\* Mistake: the tag is looked up after it was added to seen.
RecordTagLate(e) ==
  /\ run = "select"
  /\ seen' = seen \cup {e}
  /\ tags' = IF Len(tags) < TagBuffer THEN Append(tags, <<e, e \notin seen'>>) ELSE tags
  /\ UNCHANGED <<upc, stopping, transportVars, clientVars, run, tx, errs, given>>

\* recordTag and emitTag: a full channel drops the event, the EPC stays seen.
RecordTag(e) ==
  /\ run = "select"
  /\ seen' = seen \cup {e}
  /\ tags' = IF Len(tags) < TagBuffer THEN Append(tags, <<e, e \notin seen>>) ELSE tags
  /\ UNCHANGED <<upc, stopping, transportVars, clientVars, run, tx, errs, given>>

\* A frame that cannot be parsed is reported as an error; the inventory goes on.
BadFrame ==
  /\ run = "select"
  /\ EmitErr
  /\ UNCHANGED <<upc, stopping, transportVars, clientVars, run, tx, streamVars>>

\* Mistake: an inventory whose channel was closed ends without an error.
RunEndsSilently ==
  /\ run = "select"
  /\ \/ Cancelled /\ UNCHANGED errs
     \/ chan = "failed" /\ EmitErr
     \/ chan = "closed" /\ UNCHANGED errs
  /\ run' = "finish"
  /\ UNCHANGED <<upc, stopping, transportVars, clientVars, tx, streamVars>>

\* The context is cancelled, or a channel of the session has an error or is closed.
RunEnds ==
  /\ run = "select"
  /\ \/ Cancelled /\ UNCHANGED errs
     \/ chan \in {"failed", "closed"} /\ EmitErr
  /\ run' = "finish"
  /\ UNCHANGED <<upc, stopping, transportVars, clientVars, tx, streamVars>>

\* finishInventoryRun: the critical section, then close(done).
FinishInventoryRun ==
  /\ run = "finish"
  /\ run' = "closeDone"
  /\ hasCancel' = FALSE /\ on' = FALSE
  /\ UNCHANGED <<upc, stopping, transportVars, invDone, cancelled, tx, errs, streamVars>>

\* Mistake: whoever cancelled the inventory is left to wait.
CloseDoneUnlessCancelled ==
  /\ run = "closeDone"
  /\ run' = "ended"
  /\ invDone' = IF cancelled THEN invDone ELSE "closed"
  /\ UNCHANGED <<upc, stopping, transportVars, on, hasCancel, cancelled, tx, errs, streamVars>>

CloseDone ==
  /\ run = "closeDone"
  /\ run' = "ended"
  /\ invDone' = "closed"
  /\ UNCHANGED <<upc, stopping, transportVars, on, hasCancel, cancelled, tx, errs, streamVars>>

-----------------------------------------------------------------------------
(* inventoryTxLoop                                                         *)

TxGoto(p) ==
  /\ tx' = p
  /\ UNCHANGED <<upc, stopping, transportVars, clientVars, run, streamVars>>

\* nextInventoryCommand
TxNext ==
  /\ tx = "next"
  /\ \/ on /\ TxGoto("send")
     \/ ~on /\ TxGoto("ended")
  /\ UNCHANGED errs

\* SendRaw.  A write can succeed on a connection that is lost already, and fail
\* on one that is not, by its deadline.
TxSends ==
  /\ tx = "send"
  /\ session
  /\ TxGoto("sleep")
  /\ UNCHANGED errs

TxFails ==
  /\ tx = "send"
  /\ TxGoto("stopAsync")
  /\ EmitErr

\* The timer fires or the context is cancelled.
TxSleeps ==
  /\ tx = "sleep"
  /\ \/ TxGoto("next")
     \/ Cancelled /\ TxGoto("ended")
  /\ UNCHANGED errs

\* stopInventoryAsync
StopInventoryAsync ==
  /\ tx = "stopAsync"
  /\ tx' = "ended"
  /\ hasCancel' = FALSE
  /\ on' = FALSE
  /\ cancelled' = (cancelled \/ hasCancel)
  /\ UNCHANGED <<upc, stopping, transportVars, invDone, run, errs, streamVars>>

-----------------------------------------------------------------------------
(* The specification.                                                      *)

ScanLoop ==
  \/ Reconnect \/ StartRefused \/ StartInventory \/ ApplyDone \/ ApplyFails
  \/ TakeTag \/ ConsumeEnds
  \/ StopIdle \/ StopInventory \/ StopCancel \/ StopWait
  \/ Disconnect \/ DisconnectReturns

ReadLoop == ReadFails \/ CloseChannels \/ ForgetSession

RunStep == RunBegins \/ RunEnds \/ FinishInventoryRun \/ CloseDone

TxStep == TxNext \/ TxSends \/ TxFails \/ TxSleeps \/ StopInventoryAsync

Next ==
  \/ ScanLoop \/ ReadLoop \/ RunStep \/ TxStep
  \/ BadFrame
  \/ \E e \in EPC : RecordTag(e)
  \/ StopRequested \/ ConnectionLost

Spec == Init /\ [][Next]_vars

\* The four goroutines are scheduled; packets, stops and losses are not promised.
Fairness == WF_vars(ScanLoop) /\ WF_vars(ReadLoop) /\ WF_vars(RunStep) /\ WF_vars(TxStep)

FairSpec == Spec /\ Fairness

-----------------------------------------------------------------------------
(* Properties.                                                             *)

\* While scanLoop consumes tags and has not been told to stop, an inventory that
\* no longer reads or no longer sends has left an error behind that ends
\* consumeTags: Client.tags is never closed, so without it the bot would wait for
\* ever on a dead reader.
NoSilentInventory ==
  (/\ upc = "consume"
   /\ ~stopping
   /\ run \in {"finish", "closeDone", "ended"} \/ tx \in {"stopAsync", "ended"})
  => errs > 0

\* The done channel of an inventory that runs is open: finishInventoryRun closes it,
\* a second close would be a panic of the bot.  Once StopInventory has taken the
\* inventory over, whoever else has stopped it meanwhile, inventoryRun is on its way
\* to close done or has closed it: the wait on done is not in vain.
DoneIsClosedOnce ==
  /\ run \in {"begin", "select", "finish", "closeDone"} => invDone = "open"
  /\ upc \in {"cancel", "wait"} /\ invDone # "closed"
       => run \in {"begin", "select", "finish", "closeDone"}

\* Once scanLoop begins to stop the inventory, whichever of the goroutines noticed
\* the trouble first, StopInventory and Close return and no goroutine of the
\* client is left.
SessionEnds ==
  upc = "stop" ~> /\ upc = "closed"
                  /\ run \in {"none", "ended"}
                  /\ tx \in {"none", "ended"}
                  /\ rdr = "ended"

\* The first report of e in this session has been dropped.
Lost(e) ==
  /\ e \in seen /\ e \notin given
  /\ \A i \in 1..Len(tags) : tags[i] # <<e, TRUE>>

\* README 3.2 has every EPC of the reader handed to the service.  consumeTags passes
\* on the first report of a tag only, so a tag is lost for the whole session when
\* that one report does not get through: this happens only when it finds the
\* channel of tag events full, never because an event was marked wrongly, was
\* skipped, or outlived the session that made it.
OnlyAFullChannelLoses ==
  [][\A e \in EPC : Lost(e)' => Lost(e) \/ Len(tags) = TagBuffer]_vars
=============================================================================
