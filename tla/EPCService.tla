----------------------------- MODULE EPCService -----------------------------
(***************************************************************************)
(* The submission service of the RFID bot: internal/gobot/service with the *)
(* draft cache of internal/gobot/cache and the ERP client of               *)
(* internal/gobot/erp.                                                     *)
(*                                                                         *)
(* Reader callbacks, IPC connections, HTTP handlers, the Telegram poller   *)
(* and the refresh ticker are goroutines that call HandleEPC,              *)
(* SetScanActive, RefreshCache and AddDraftEPCs.  Each call is cut at the  *)
(* points where the code releases Service.mu, touches the cache (which has *)
(* its own lock), sends on the channel or talks to the ERP: between two    *)
(* such points any other goroutine may run.  WorkerCount workers drain the *)
(* channel.                                                                *)
(*                                                                         *)
(* Left out: the counters of Stats, the texts of notifications, and EPC    *)
(* normalisation (an element of EPC is a normalised non-empty EPC).  A     *)
(* failed fetch changes only Stats and so is a stuttering step here.       *)
(***************************************************************************)
EXTENDS Naturals, Sequences, FiniteSets

CONSTANTS
  EPC,          \* normalised EPCs
  NoEPC,        \* the empty string, which the code never queues or submits
  Readers,      \* goroutines that report tags (HandleEPC)
  Controllers,  \* goroutines that switch the scan on and off (SetScanActive)
  Refreshers,   \* goroutines that reload the cache (RefreshCache)
  Webhooks,     \* goroutines that announce drafts (AddDraftEPCs)
  Workers,      \* submit workers
  QueueSize,    \* capacity of the channel
  SubmitRetry,  \* retries after the first failed attempt
  ScanDefault,  \* cfg.ScanDefaultActive
  ERPFails,     \* whether submit requests may fail or time out
  MaxDrafts,    \* bound of the model: drafts the ERP creates in a behaviour
  MaxLate       \* bound of the model: abandoned requests the ERP still holds

Clients == Readers \cup Controllers \cup Refreshers \cup Webhooks

ASSUME NoEPCAssumption == NoEPC \notin EPC
ASSUME QueueSizeAssumption == QueueSize \in Nat \ {0}
ASSUME SubmitRetryAssumption == SubmitRetry \in Nat
ASSUME FlagsAssumption == ScanDefault \in BOOLEAN /\ ERPFails \in BOOLEAN
ASSUME BoundsAssumption == MaxDrafts \in Nat /\ MaxLate \in Nat

VARIABLES
  drafts,      \* ERP: EPCs with an open draft
  late,        \* ERP: submit requests the bot gave up on that may still be executed
  created,     \* ERP: drafts created so far
  up,          \* the bot has finished its startup refresh and runs
  cache,       \* cache.Store.epcs
  recentSeen,  \* "none": not in the map; "stale": older than RecentSeenTTL
  scanActive,
  queue,       \* the channel
  queued,      \* Service.queued
  inflight,    \* Service.inflight
  pc, arg, todo, mark,    \* callers: place, EPC list, EPCs left to enqueue, EPC just marked
  wpc, wepc, attempt,     \* workers: place, EPC, attempt
  history      \* history variable: has the EPC been read, and with the scan on

erpVars    == <<drafts, late, created>>
seenVars   == <<recentSeen, history>>
queueVars  == <<queue, queued>>
clientVars == <<pc, arg, todo, mark>>
workerVars == <<wpc, wepc, attempt, inflight>>
vars == <<erpVars, up, cache, seenVars, scanActive, queueVars, clientVars, workerVars>>

-----------------------------------------------------------------------------
(* The type invariant and the initial state.                               *)

ClientPlaces == {"idle", "lookup", "replace", "collect", "collectAll",
                 "gate", "enqueue", "send", "drop"}
WorkerPlaces == {"recv", "unmark", "check", "lock", "submit", "remove", "unlock"}

\* The variables of the service, its callers, its workers and the ERP stay in
\* the ranges the Go types and the configuration checks give them; in
\* particular the channel never exceeds its capacity and a worker never makes
\* more than SubmitRetry + 1 attempts.
TypeOK ==
  /\ drafts \in SUBSET EPC
  /\ late \in SUBSET EPC
  /\ created \in 0..MaxDrafts
  /\ up \in BOOLEAN
  /\ cache \in SUBSET EPC
  /\ recentSeen \in [EPC -> {"none", "fresh", "stale"}]
  /\ scanActive \in BOOLEAN
  /\ queue \in Seq(EPC)
  /\ Len(queue) <= QueueSize
  /\ queued \in SUBSET EPC
  /\ inflight \in SUBSET EPC
  /\ pc \in [Clients -> ClientPlaces]
  /\ arg \in [Clients -> SUBSET EPC]
  /\ todo \in [Clients -> SUBSET EPC]
  /\ mark \in [Clients -> EPC \cup {NoEPC}]
  /\ wpc \in [Workers -> WorkerPlaces]
  /\ wepc \in [Workers -> EPC \cup {NoEPC}]
  /\ attempt \in [Workers -> 0..SubmitRetry]
  /\ history \in [EPC -> {"unread", "read", "licensed"}]

\* A process that has just been started: service.New, cache.New.
Init ==
  /\ drafts = {}
  /\ late = {}
  /\ created = 0
  /\ up = FALSE
  /\ cache = {}
  /\ recentSeen = [e \in EPC |-> "none"]
  /\ scanActive = ScanDefault
  /\ queue = << >>
  /\ queued = {}
  /\ inflight = {}
  /\ pc = [c \in Clients |-> "idle"]
  /\ arg = [c \in Clients |-> {}]
  /\ todo = [c \in Clients |-> {}]
  /\ mark = [c \in Clients |-> NoEPC]
  /\ wpc = [w \in Workers |-> "recv"]
  /\ wepc = [w \in Workers |-> NoEPC]
  /\ attempt = [w \in Workers |-> 0]
  /\ history = [e \in EPC |-> "unread"]

-----------------------------------------------------------------------------
(* Environment: the ERP, the clock and the process.                        *)

\* Somebody creates a stock entry draft for e in the ERP.
CreateDraft(e) ==
  /\ e \notin drafts
  /\ created < MaxDrafts
  /\ drafts' = drafts \cup {e}
  /\ created' = created + 1
  /\ UNCHANGED <<late, up, cache, seenVars, scanActive, queueVars, clientVars, workerVars>>

\* Somebody submits or deletes the draft in the ERP itself.
CloseDraft(e) ==
  /\ e \in drafts
  /\ drafts' = drafts \ {e}
  /\ UNCHANGED <<late, created, up, cache, seenVars, scanActive, queueVars, clientVars, workerVars>>

\* The ERP executes a submit request whose caller has already timed out.
LateSubmit(e) ==
  /\ e \in late
  /\ late' = late \ {e}
  /\ drafts' = drafts \ {e}
  /\ UNCHANGED <<created, up, cache, seenVars, scanActive, queueVars, clientVars, workerVars>>

\* The reading of e becomes older than RecentSeenTTL.
Age(e) ==
  /\ recentSeen[e] = "fresh"
  /\ recentSeen' = [recentSeen EXCEPT ![e] = "stale"]
  /\ UNCHANGED <<erpVars, up, cache, history, scanActive, queueVars, clientVars, workerVars>>

\* main: the startup refresh, whose failure is only logged, runs before any
\* other goroutine exists.  Nothing has been seen yet, so nothing is replayed,
\* and SetScanActive(true) finds the flag already at its default.
Startup ==
  /\ ~up
  /\ up' = TRUE
  /\ cache' \in {drafts, {}}
  /\ UNCHANGED <<erpVars, seenVars, scanActive, queueVars, clientVars, workerVars>>

\* The process dies or is told to stop (main returns on ctx.Done without
\* draining the channel) and is started again.  All state was in memory; a
\* request that was on the wire may still be executed by the ERP.
Restart ==
  /\ up
  /\ up' = FALSE
  /\ cache' = {}
  /\ recentSeen' = [e \in EPC |-> "none"]
  /\ scanActive' = ScanDefault
  /\ queue' = << >>
  /\ queued' = {}
  /\ inflight' = {}
  /\ pc' = [c \in Clients |-> "idle"]
  /\ arg' = [c \in Clients |-> {}]
  /\ todo' = [c \in Clients |-> {}]
  /\ mark' = [c \in Clients |-> NoEPC]
  /\ wpc' = [w \in Workers |-> "recv"]
  /\ wepc' = [w \in Workers |-> NoEPC]
  /\ attempt' = [w \in Workers |-> 0]
  /\ history' = [e \in EPC |-> "unread"]
  /\ \E sent \in SUBSET {wepc[w] : w \in {v \in Workers : wpc[v] = "submit"}} :
       /\ Cardinality(late \cup sent) <= MaxLate
       /\ late' = late \cup sent
  /\ UNCHANGED <<drafts, created>>

-----------------------------------------------------------------------------
(* Helpers.                                                                *)

\* gcRecentSeenLocked
GC(seen) == [e \in EPC |-> IF seen[e] = "stale" THEN "none" ELSE seen[e]]

\* The caller leaves one EPC behind: it goes on with the rest of its list or
\* returns.
Continue(c, rest) ==
  /\ todo' = [todo EXCEPT ![c] = rest]
  /\ mark' = [mark EXCEPT ![c] = NoEPC]
  /\ pc' = [pc EXCEPT ![c] = IF rest = {} THEN "idle" ELSE "enqueue"]
  /\ arg' = [arg EXCEPT ![c] = {}]

\* The caller moves to place p with the EPC list S.
Goto(c, p, S) ==
  /\ pc' = [pc EXCEPT ![c] = p]
  /\ arg' = [arg EXCEPT ![c] = S]
  /\ UNCHANGED <<todo, mark>>

\* collectReplayCandidates: the EPCs of the recent-seen window that are cached,
\* restricted to the focus list unless that list is empty.
ReplayCandidates(focus) ==
  {e \in cache : /\ GC(recentSeen)[e] = "fresh"
                 /\ focus = {} \/ e \in focus}

\* The scan is on, or a call that switched it on has yet to collect its replay
\* (the flag may have been lowered again meanwhile).  For the history variable.
ScanOn == scanActive \/ \E c \in Clients : pc[c] = "collectAll"

WorkerGoto(w, p) ==
  /\ wpc' = [wpc EXCEPT ![w] = p]
  /\ UNCHANGED <<wepc, attempt>>

\* processSubmit returns; the worker waits for the next EPC.
WorkerDone(w) ==
  /\ wpc' = [wpc EXCEPT ![w] = "recv"]
  /\ wepc' = [wepc EXCEPT ![w] = NoEPC]
  /\ attempt' = [attempt EXCEPT ![w] = 0]

-----------------------------------------------------------------------------
(* Plausible mistakes, one per property: TLC must reject each of them when *)
(* it stands for the action it is named after.                             *)

\* The cache is filled after the readings were collected.
AddDraftEPCsCollectFirst(c, S) ==
  /\ up
  /\ c \in Webhooks
  /\ pc[c] = "idle"
  /\ todo' = [todo EXCEPT ![c] = ReplayCandidates(S)]
  /\ cache' = cache \cup S
  /\ pc' = [pc EXCEPT ![c] = "gate"]
  /\ UNCHANGED <<arg, mark, erpVars, up, seenVars, scanActive, queueVars, workerVars>>

\* The replay of a refresh or a webhook ignores the flag.
GateAlwaysOpen(c) ==
  /\ pc[c] = "gate"
  /\ Continue(c, todo[c])
  /\ UNCHANGED <<erpVars, up, cache, seenVars, scanActive, queueVars, workerVars>>

\* enqueue looks only at the EPCs in flight.
EnqueueMarkUnchecked(c, e) ==
  /\ pc[c] = "enqueue"
  /\ e \in todo[c] \ inflight
  /\ queued' = queued \cup {e}
  /\ todo' = [todo EXCEPT ![c] = @ \ {e}]
  /\ mark' = [mark EXCEPT ![c] = e]
  /\ pc' = [pc EXCEPT ![c] = "send"]
  /\ UNCHANGED <<arg, erpVars, up, cache, seenVars, scanActive, queue, workerVars>>

\* A full channel leaves the mark behind.
EnqueueDropKeepsMark(c) ==
  /\ pc[c] = "drop"
  /\ Continue(c, todo[c])
  /\ UNCHANGED <<erpVars, up, cache, seenVars, scanActive, queueVars, workerVars>>

\* lockInflight does not look whether another worker holds the EPC.
LockInflightUnchecked(w) ==
  /\ wpc[w] = "lock"
  /\ WorkerGoto(w, "submit")
  /\ inflight' = inflight \cup {wepc[w]}
  /\ UNCHANGED <<erpVars, up, cache, seenVars, scanActive, queueVars, clientVars>>

-----------------------------------------------------------------------------
(* HandleEPC                                                               *)

\* The critical section: record the reading, drop expired ones, read the flag.
HandleEPC(c, e) ==
  /\ up
  /\ c \in Readers
  /\ pc[c] = "idle"
  /\ recentSeen' = [GC(recentSeen) EXCEPT ![e] = "fresh"]
  /\ history' = [history EXCEPT ![e] =
                   IF ScanOn THEN "licensed" ELSE IF @ = "unread" THEN "read" ELSE @]
  /\ IF scanActive THEN Goto(c, "lookup", {e}) ELSE UNCHANGED clientVars
  /\ UNCHANGED <<erpVars, up, cache, scanActive, queueVars, workerVars>>

\* cache.Has: a hit goes on to enqueue, a miss returns.
Lookup(c) ==
  /\ pc[c] = "lookup"
  /\ Continue(c, arg[c] \cap cache)
  /\ UNCHANGED <<erpVars, up, cache, seenVars, scanActive, queueVars, workerVars>>

-----------------------------------------------------------------------------
(* SetScanActive                                                           *)

SetScanActive(c, active) ==
  /\ up
  /\ c \in Controllers
  /\ pc[c] = "idle"
  /\ scanActive' = active
  /\ history' = [e \in EPC |-> IF active /\ history[e] # "unread"
                               THEN "licensed" ELSE history[e]]
  /\ IF active /\ ~scanActive THEN Goto(c, "collectAll", {}) ELSE UNCHANGED clientVars
  /\ UNCHANGED <<erpVars, up, cache, recentSeen, queueVars, workerVars>>

\* The replay of everything seen and cached, after the flag was raised.
CollectAll(c) ==
  /\ pc[c] = "collectAll"
  /\ recentSeen' = GC(recentSeen)
  /\ Continue(c, ReplayCandidates({}))
  /\ UNCHANGED <<erpVars, up, cache, history, scanActive, queueVars, workerVars>>

-----------------------------------------------------------------------------
(* RefreshCache and AddDraftEPCs                                           *)

\* The ERP answers the fetch with its open drafts.
Fetch(c) ==
  /\ up
  /\ c \in Refreshers
  /\ pc[c] = "idle"
  /\ Goto(c, "replace", drafts)
  /\ UNCHANGED <<erpVars, up, cache, seenVars, scanActive, queueVars, workerVars>>

\* cache.Replace with what the fetch returned.
Replace(c) ==
  /\ pc[c] = "replace"
  /\ cache' = arg[c]
  /\ Goto(c, "collect", arg[c])
  /\ UNCHANGED <<erpVars, up, seenVars, scanActive, queueVars, workerVars>>

\* cache.Add with the EPCs of a webhook or an IPC request.
AddDraftEPCs(c, S) ==
  /\ up
  /\ c \in Webhooks
  /\ pc[c] = "idle"
  /\ cache' = cache \cup S
  /\ Goto(c, "collect", S)
  /\ UNCHANGED <<erpVars, up, seenVars, scanActive, queueVars, workerVars>>

Collect(c) ==
  /\ pc[c] = "collect"
  /\ recentSeen' = GC(recentSeen)
  /\ todo' = [todo EXCEPT ![c] = ReplayCandidates(arg[c])]
  /\ pc' = [pc EXCEPT ![c] = "gate"]
  /\ arg' = [arg EXCEPT ![c] = {}]
  /\ UNCHANGED <<mark, erpVars, up, cache, history, scanActive, queueVars, workerVars>>

\* if s.ScanActive() { enqueue each } : read once, before the loop.
Gate(c) ==
  /\ pc[c] = "gate"
  /\ Continue(c, IF scanActive THEN todo[c] ELSE {})
  /\ UNCHANGED <<erpVars, up, cache, seenVars, scanActive, queueVars, workerVars>>

\* RecentSeenEPCs, for the cache report: its side effect on the window.
RecentSeenEPCs ==
  /\ up
  /\ recentSeen' = GC(recentSeen)
  /\ UNCHANGED <<erpVars, up, cache, history, scanActive, queueVars, clientVars, workerVars>>

-----------------------------------------------------------------------------
(* enqueue                                                                 *)

\* First critical section: an EPC that is queued or in flight is refused.
EnqueueRefuse(c, e) ==
  /\ pc[c] = "enqueue"
  /\ e \in todo[c]
  /\ e \in queued \cup inflight
  /\ Continue(c, todo[c] \ {e})
  /\ UNCHANGED <<erpVars, up, cache, seenVars, scanActive, queueVars, workerVars>>

\* First critical section: any other EPC is marked.
EnqueueMark(c, e) ==
  /\ pc[c] = "enqueue"
  /\ e \in todo[c]
  /\ e \notin queued \cup inflight
  /\ queued' = queued \cup {e}
  /\ todo' = [todo EXCEPT ![c] = @ \ {e}]
  /\ mark' = [mark EXCEPT ![c] = e]
  /\ pc' = [pc EXCEPT ![c] = "send"]
  /\ UNCHANGED <<arg, erpVars, up, cache, seenVars, scanActive, queue, workerVars>>

\* The non-blocking send succeeds.
EnqueueSend(c) ==
  /\ pc[c] = "send"
  /\ Len(queue) < QueueSize
  /\ queue' = Append(queue, mark[c])
  /\ Continue(c, todo[c])
  /\ UNCHANGED <<erpVars, up, cache, seenVars, scanActive, queued, workerVars>>

\* The channel is full: the default branch is taken.
EnqueueFull(c) ==
  /\ pc[c] = "send"
  /\ Len(queue) = QueueSize
  /\ pc' = [pc EXCEPT ![c] = "drop"]
  /\ UNCHANGED <<arg, todo, mark, erpVars, up, cache, seenVars, scanActive, queueVars, workerVars>>

\* The default branch takes the mark back.
EnqueueDrop(c) ==
  /\ pc[c] = "drop"
  /\ queued' = queued \ {mark[c]}
  /\ Continue(c, todo[c])
  /\ UNCHANGED <<erpVars, up, cache, seenVars, scanActive, queue, workerVars>>

-----------------------------------------------------------------------------
(* worker and processSubmit                                                *)

WorkerRecv(w) ==
  /\ up
  /\ wpc[w] = "recv"
  /\ queue # << >>
  /\ queue' = Tail(queue)
  /\ wepc' = [wepc EXCEPT ![w] = Head(queue)]
  /\ wpc' = [wpc EXCEPT ![w] = "unmark"]
  /\ UNCHANGED <<attempt, erpVars, up, cache, seenVars, scanActive, queued, inflight, clientVars>>

WorkerUnmark(w) ==
  /\ wpc[w] = "unmark"
  /\ queued' = queued \ {wepc[w]}
  /\ WorkerGoto(w, "check")
  /\ UNCHANGED <<erpVars, up, cache, seenVars, scanActive, queue, inflight, clientVars>>

\* cache.Has before lockInflight.
WorkerCheck(w) ==
  /\ wpc[w] = "check"
  /\ wepc[w] \in cache
  /\ WorkerGoto(w, "lock")
  /\ UNCHANGED <<erpVars, up, cache, seenVars, scanActive, queueVars, inflight, clientVars>>

\* The EPC has left the cache since it was queued.
WorkerSkip(w) ==
  /\ wpc[w] = "check"
  /\ wepc[w] \notin cache
  /\ WorkerDone(w)
  /\ UNCHANGED <<erpVars, up, cache, seenVars, scanActive, queueVars, inflight, clientVars>>

LockInflight(w) ==
  /\ wpc[w] = "lock"
  /\ wepc[w] \notin inflight
  /\ inflight' = inflight \cup {wepc[w]}
  /\ WorkerGoto(w, "submit")
  /\ UNCHANGED <<erpVars, up, cache, seenVars, scanActive, queueVars, clientVars>>

\* Another worker holds the EPC.
LockBusy(w) ==
  /\ wpc[w] = "lock"
  /\ wepc[w] \in inflight
  /\ WorkerDone(w)
  /\ UNCHANGED <<erpVars, up, cache, seenVars, scanActive, queueVars, inflight, clientVars>>

\* SubmitByEPC answered "submitted" (the draft was open) or "not_found"; the
\* code removes the EPC from the cache in both cases.
SubmitAnswered(w) ==
  /\ wpc[w] = "submit"
  /\ drafts' = drafts \ {wepc[w]}
  /\ WorkerGoto(w, "remove")
  /\ UNCHANGED <<late, created, up, cache, seenVars, scanActive, queueVars, inflight, clientVars>>

\* SubmitByEPC returned an error or an unexpected status: the ERP may have
\* executed the request, may never, or may still do so later.
NoAnswer(w) ==
  /\ ERPFails
  /\ wpc[w] = "submit"
  /\ \/ UNCHANGED <<drafts, late>>
     \/ drafts' = drafts \ {wepc[w]} /\ UNCHANGED late
     \/ /\ Cardinality(late \cup {wepc[w]}) <= MaxLate
        /\ late' = late \cup {wepc[w]}
        /\ UNCHANGED drafts
  /\ UNCHANGED <<created, up, cache, seenVars, scanActive, queueVars, inflight, clientVars>>

\* The worker sleeps and tries again.
SubmitAgain(w) ==
  /\ NoAnswer(w)
  /\ attempt[w] < SubmitRetry
  /\ attempt' = [attempt EXCEPT ![w] = @ + 1]
  /\ UNCHANGED <<wpc, wepc>>

\* The last attempt failed: the EPC stays in the cache.
SubmitGiveUp(w) ==
  /\ NoAnswer(w)
  /\ attempt[w] = SubmitRetry
  /\ WorkerGoto(w, "unlock")

WorkerRemove(w) ==
  /\ wpc[w] = "remove"
  /\ cache' = cache \ {wepc[w]}
  /\ WorkerGoto(w, "unlock")
  /\ UNCHANGED <<erpVars, up, seenVars, scanActive, queueVars, inflight, clientVars>>

\* The deferred unlockInflight runs after the notification was delivered.
UnlockInflight(w) ==
  /\ wpc[w] = "unlock"
  /\ inflight' = inflight \ {wepc[w]}
  /\ WorkerDone(w)
  /\ UNCHANGED <<erpVars, up, cache, seenVars, scanActive, queueVars, clientVars>>

-----------------------------------------------------------------------------
(* The specification.                                                      *)

\* The rest of a call that has been started.
CallStep(c) ==
  \/ Lookup(c) \/ CollectAll(c) \/ Replace(c) \/ Collect(c) \/ Gate(c)
  \/ \E e \in EPC : EnqueueRefuse(c, e) \/ EnqueueMark(c, e)
  \/ EnqueueSend(c) \/ EnqueueFull(c) \/ EnqueueDrop(c)

Call(c) ==
  \/ \E e \in EPC : HandleEPC(c, e)
  \/ \E active \in BOOLEAN : SetScanActive(c, active)
  \/ Fetch(c)
  \/ \E S \in SUBSET EPC : AddDraftEPCs(c, S)

WorkerStep(w) ==
  \/ WorkerRecv(w) \/ WorkerUnmark(w) \/ WorkerCheck(w) \/ WorkerSkip(w)
  \/ LockInflight(w) \/ LockBusy(w)
  \/ SubmitAnswered(w) \/ SubmitAgain(w) \/ SubmitGiveUp(w)
  \/ WorkerRemove(w) \/ UnlockInflight(w)

Environment ==
  \/ \E e \in EPC : CreateDraft(e) \/ CloseDraft(e) \/ LateSubmit(e) \/ Age(e)
  \/ Startup \/ Restart \/ RecentSeenEPCs

Next ==
  \/ \E c \in Clients : Call(c) \/ CallStep(c)
  \/ \E w \in Workers : WorkerStep(w)
  \/ Environment

Spec == Init /\ [][Next]_vars

\* Fairness.  Goroutines in the middle of a call and workers are scheduled; the
\* ticker of refreshLoop keeps firing and the ERP answers a fetch again and
\* again; an ERP that is asked infinitely often to submit answers some time.
\* Callers are never obliged to call, and the ERP never to fail.
Fairness ==
  /\ WF_vars(Startup)
  /\ \A c \in Clients : WF_vars(CallStep(c))
  /\ \A c \in Refreshers : WF_vars(Fetch(c))
  /\ \A w \in Workers : /\ WF_vars(WorkerStep(w))
                        /\ SF_vars(SubmitAnswered(w))

FairSpec == Spec /\ Fairness

-----------------------------------------------------------------------------
(* Properties.                                                             *)

Marking(c) == pc[c] \in {"send", "drop"}
Owning(w)  == wpc[w] \in {"submit", "remove", "unlock"}

\* Whoever holds a mark holds one that is in the set.
MarksAreQueued ==
  /\ \A c \in Clients : Marking(c) => mark[c] \in queued
  /\ \A i \in 1..Len(queue) : queue[i] \in queued
  /\ \A w \in Workers : wpc[w] = "unmark" => wepc[w] \in queued

\* No EPC has its mark held twice.
MarksAreUnique ==
  /\ \A c, d \in Clients : Marking(c) /\ Marking(d) /\ mark[c] = mark[d] => c = d
  /\ \A i, j \in 1..Len(queue) : queue[i] = queue[j] => i = j
  /\ \A v, w \in Workers :
       wpc[v] = "unmark" /\ wpc[w] = "unmark" /\ wepc[v] = wepc[w] => v = w
  /\ \A c \in Clients, i \in 1..Len(queue) : Marking(c) => mark[c] # queue[i]
  /\ \A c \in Clients, w \in Workers :
       Marking(c) /\ wpc[w] = "unmark" => mark[c] # wepc[w]
  /\ \A i \in 1..Len(queue), w \in Workers : wpc[w] = "unmark" => queue[i] # wepc[w]

\* Somebody holds every mark in the set.
MarksAreHeld ==
  \A e \in queued :
    \/ \E c \in Clients : Marking(c) /\ mark[c] = e
    \/ \E i \in 1..Len(queue) : queue[i] = e
    \/ \E w \in Workers : wpc[w] = "unmark" /\ wepc[w] = e

\* Every mark of Service.queued belongs to exactly one of: a caller between its
\* mark and its send or rollback, an entry of the channel, a worker between
\* its receive and its delete.  So no EPC is twice in the channel, and no mark
\* is left behind that would make enqueue refuse the EPC for ever.
QueueBookkeeping == MarksAreQueued /\ MarksAreUnique /\ MarksAreHeld

\* Service.inflight holds exactly the EPCs that a worker owns.
InflightIsOwned == inflight = {wepc[w] : w \in {v \in Workers : Owning(v)}}

\* No two workers are submitting the same EPC at the same time, although the
\* mark in queued is already gone when lockInflight is called, and an EPC stays
\* in Service.inflight only while a worker owns it.
NoParallelSubmit ==
  /\ \A v, w \in Workers : Owning(v) /\ Owning(w) /\ wepc[v] = wepc[w] => v = w
  /\ InflightIsOwned

\* Nothing reaches the channel, a worker or the ERP unless, since the process
\* started, a reader has reported that tag and the scan was on, or still being
\* switched on, at that moment or later: neither a draft announced by a webhook
\* nor one found by a refresh is submitted on its own, nor a tag read only while
\* the scan was off.
SubmitsAreLicensed ==
  /\ \A e \in queued \cup inflight : history[e] = "licensed"
  /\ \A w \in Workers : wpc[w] # "recv" => history[wepc[w]] = "licensed"

\* An EPC the service ought to submit now.
Wanted(e) == up /\ scanActive /\ recentSeen[e] = "fresh" /\ e \in cache

\* A call in progress that will still try to enqueue e.
Pending(c, e) ==
  \/ pc[c] = "lookup" /\ e \in arg[c]
  \/ pc[c] = "collectAll"
  \/ pc[c] = "collect" /\ (arg[c] = {} \/ e \in arg[c])
  \/ pc[c] \in {"gate", "enqueue", "send", "drop"} /\ e \in todo[c]

\* A worker that will still submit e or take it out of the cache.
WorkedOn(w, e) ==
  wepc[w] = e /\ wpc[w] \in {"check", "lock", "submit", "remove"}

Attended(e) ==
  \/ e \in queued
  \/ \E c \in Clients : Pending(c, e)
  \/ \E w \in Workers : WorkedOn(w, e)

Unattended(e) == Wanted(e) /\ ~Attended(e)

\* The four places where the code itself abandons an EPC: the channel is full,
\* the EPC is refused or skipped because it is in flight, the last attempt failed.
Abandoned(e) ==
  \/ \E c \in Clients : EnqueueDrop(c) /\ mark[c] = e
  \/ \E c \in Clients : EnqueueRefuse(c, e) /\ e \in inflight
  \/ \E w \in Workers : LockBusy(w) /\ wepc[w] = e
  \/ \E w \in Workers : SubmitGiveUp(w) /\ wepc[w] = e

\* However readings, webhooks, refreshes, scan switches and workers interleave,
\* a tag that is seen, drafted and scanned for is never overlooked: some call or
\* worker is going to handle it, unless the code abandoned it at one of the
\* places named above.  HandleEPC records the reading before it looks into the
\* cache and AddDraftEPCs fills the cache before it collects the readings;
\* SetScanActive raises the flag before it collects.
NeverOverlooked ==
  [][\A e \in EPC : Unattended(e)' => Unattended(e) \/ Abandoned(e)]_vars

\* A draft whose tag is in the recent-seen window while the scan stays on is
\* closed in the end, whatever was dropped, refused, given up or overwritten by
\* a stale refresh in between: the periodic refresh picks it up again.
DraftEventuallyClosed ==
  \A e \in EPC :
    (up /\ scanActive /\ recentSeen[e] = "fresh" /\ e \in drafts)
      ~> (e \notin drafts \/ ~up \/ ~scanActive \/ recentSeen[e] # "fresh")

-----------------------------------------------------------------------------
(* The abstract specification this one implements.                         *)

LicensedEPCs == {e \in EPC : history[e] = "licensed"}
Requests     == {<<w, wepc[w]>> : w \in {v \in Workers : wpc[v] = "submit"}}

Ledger == INSTANCE SubmitLedger WITH licensed <- LicensedEPCs, requests <- Requests

\* Seen from the ERP the service is a ledger: it closes a draft only by a
\* request for a licensed EPC, and never has two requests for one EPC on the
\* wire, whatever its callers, workers, retries and restarts do.
ImplementsLedger == Ledger!Spec
=============================================================================
