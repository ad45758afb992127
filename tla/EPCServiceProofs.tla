-------------------------- MODULE EPCServiceProofs --------------------------
(* Theorems about EPCService, for every value of its constants. *)
EXTENDS EPCService, SequenceTheorems, TLAPS

USE DEF erpVars, seenVars, queueVars, clientVars, workerVars

-----------------------------------------------------------------------------
(* Type correctness.                                                       *)

\* A caller that has marked an EPC and a worker that has received one hold a
\* real EPC, not the empty string: without this TypeOK is not inductive.
Carrying ==
  /\ \A c \in Clients : pc[c] \in {"send", "drop"} => mark[c] \in EPC
  /\ \A w \in Workers : wpc[w] # "recv" => wepc[w] \in EPC

TypeInv == TypeOK /\ Carrying

\* The initial state is well typed.
LEMMA TypeInit == Init => TypeInv
  <1> SUFFICES ASSUME Init PROVE TypeInv
    OBVIOUS
  <1> USE DEF Init
  <1>1. /\ drafts \in SUBSET EPC
        /\ late \in SUBSET EPC
        /\ created \in 0..MaxDrafts
        /\ cache \in SUBSET EPC
    BY BoundsAssumption
  <1>6. up \in BOOLEAN /\ scanActive \in BOOLEAN
    BY FlagsAssumption, Zenon
  <1>2. /\ recentSeen \in [EPC -> {"none", "fresh", "stale"}]
        /\ history \in [EPC -> {"unread", "read", "licensed"}]
    OBVIOUS
  <1>3. /\ queue \in Seq(EPC)
        /\ Len(queue) <= QueueSize
        /\ queued \in SUBSET EPC
        /\ inflight \in SUBSET EPC
    BY QueueSizeAssumption
  <1>4. /\ pc \in [Clients -> ClientPlaces]
        /\ arg \in [Clients -> SUBSET EPC]
        /\ todo \in [Clients -> SUBSET EPC]
        /\ mark \in [Clients -> EPC \cup {NoEPC}]
    BY DEF ClientPlaces
  <1>5. /\ wpc \in [Workers -> WorkerPlaces]
        /\ wepc \in [Workers -> EPC \cup {NoEPC}]
        /\ attempt \in [Workers -> 0..SubmitRetry]
    BY SubmitRetryAssumption DEF WorkerPlaces
  <1>7. Carrying
    BY DEF Carrying
  <1> QED
    BY <1>1, <1>2, <1>3, <1>4, <1>5, <1>6, <1>7 DEF TypeOK, TypeInv

\* Collecting expired readings keeps the window well typed.
LEMMA GCType ==
  ASSUME NEW seen \in [EPC -> {"none", "fresh", "stale"}]
  PROVE  GC(seen) \in [EPC -> {"none", "fresh", "stale"}]
  BY DEF GC

\* Every step of a caller, a worker or the environment keeps the types.
LEMMA TypeNext == TypeInv /\ [Next]_vars => TypeInv'
  <1> SUFFICES ASSUME TypeInv, [Next]_vars PROVE TypeInv'
    OBVIOUS
  <1> USE NoEPCAssumption, QueueSizeAssumption, SubmitRetryAssumption,
          FlagsAssumption, BoundsAssumption, GCType DEF TypeInv, TypeOK, Carrying
  <1>1. CASE UNCHANGED vars
    BY <1>1 DEF vars
  <1>2. ASSUME NEW c \in Clients, Call(c) PROVE TypeInv'
    <2>1. ASSUME NEW e \in EPC, HandleEPC(c, e) PROVE TypeInv'
      <3>1. recentSeen' \in [EPC -> {"none", "fresh", "stale"}]
        BY <2>1 DEF HandleEPC
      <3>2. history' \in [EPC -> {"unread", "read", "licensed"}]
        <4>1. CASE ScanOn
          BY <2>1, <4>1 DEF HandleEPC
        <4>2. CASE ~ScanOn
          BY <2>1, <4>2 DEF HandleEPC
        <4> QED
          BY <4>1, <4>2
      <3>3. CASE scanActive
        <4>1. /\ Goto(c, "lookup", {e})
              /\ UNCHANGED <<erpVars, up, cache, scanActive, queueVars, workerVars>>
          BY <2>1, <3>3 DEF HandleEPC
        <4>2. {e} \in SUBSET EPC
          OBVIOUS
        <4> QED
          BY <3>1, <3>2, <4>1, <4>2 DEF Goto, ClientPlaces
      <3>4. CASE ~scanActive
        <4>1. UNCHANGED <<erpVars, up, cache, scanActive, queueVars, workerVars, clientVars>>
          BY <2>1, <3>4 DEF HandleEPC
        <4> QED
          BY <3>1, <3>2, <4>1
      <3> QED
        BY <3>3, <3>4
    <2>2. ASSUME NEW active \in BOOLEAN, SetScanActive(c, active) PROVE TypeInv'
      <3>1. history' \in [EPC -> {"unread", "read", "licensed"}]
        BY <2>2 DEF SetScanActive
      <3>2. /\ pc' \in [Clients -> ClientPlaces] /\ arg' \in [Clients -> SUBSET EPC]
            /\ UNCHANGED <<todo, mark>>
        BY <2>2 DEF SetScanActive, Goto, ClientPlaces
      <3>3. Carrying'
        BY <2>2 DEF SetScanActive, Goto
      <3>4. scanActive' \in BOOLEAN /\ UNCHANGED <<erpVars, up, cache, recentSeen, queueVars, workerVars>>
        BY <2>2 DEF SetScanActive
      <3> QED
        BY <3>1, <3>2, <3>3, <3>4
    <2>3. CASE Fetch(c)
      BY <2>3 DEF Fetch, Goto, ClientPlaces
    <2>4. ASSUME NEW S \in SUBSET EPC, AddDraftEPCs(c, S) PROVE TypeInv'
      BY <2>4 DEF AddDraftEPCs, Goto, ClientPlaces
    <2> QED
      BY <1>2, <2>1, <2>2, <2>3, <2>4 DEF Call
  <1>3. ASSUME NEW c \in Clients, CallStep(c) PROVE TypeInv'
    <2> USE DEF Continue, Goto, ReplayCandidates, ClientPlaces
    <2>1. CASE Lookup(c)
      BY <2>1 DEF Lookup
    <2>2. CASE CollectAll(c)
      BY <2>2 DEF CollectAll
    <2>3. CASE Replace(c)
      BY <2>3 DEF Replace
    <2>4. CASE Collect(c)
      BY <2>4 DEF Collect
    <2>5. CASE Gate(c)
      <3>1. Continue(c, todo[c]) \/ Continue(c, {})
        BY <2>5 DEF Gate
      <3> QED
        BY <2>5, <3>1 DEF Gate
    <2>6. ASSUME NEW e \in EPC, EnqueueRefuse(c, e) PROVE TypeInv'
      BY <2>6 DEF EnqueueRefuse
    <2>7. ASSUME NEW e \in EPC, EnqueueMark(c, e) PROVE TypeInv'
      BY <2>7 DEF EnqueueMark
    <2>8. CASE EnqueueSend(c)
      BY <2>8 DEF EnqueueSend
    <2>9. CASE EnqueueFull(c)
      BY <2>9 DEF EnqueueFull
    <2>10. CASE EnqueueDrop(c)
      BY <2>10 DEF EnqueueDrop
    <2> QED
      BY <1>3, <2>1, <2>2, <2>3, <2>4, <2>5, <2>6, <2>7, <2>8, <2>9, <2>10 DEF CallStep
  <1>4. ASSUME NEW w \in Workers, WorkerStep(w) PROVE TypeInv'
    <2> USE DEF WorkerGoto, WorkerDone, WorkerPlaces
    <2>1. CASE WorkerRecv(w)
      BY <2>1 DEF WorkerRecv
    <2>2. CASE WorkerUnmark(w)
      BY <2>2 DEF WorkerUnmark
    <2>3. CASE WorkerCheck(w)
      BY <2>3 DEF WorkerCheck
    <2>4. CASE WorkerSkip(w)
      BY <2>4 DEF WorkerSkip
    <2>5. CASE LockInflight(w)
      BY <2>5 DEF LockInflight
    <2>6. CASE LockBusy(w)
      BY <2>6 DEF LockBusy
    <2>7. CASE SubmitAnswered(w)
      BY <2>7 DEF SubmitAnswered
    <2>8. CASE SubmitAgain(w)
      BY <2>8 DEF SubmitAgain, NoAnswer
    <2>9. CASE SubmitGiveUp(w)
      BY <2>9 DEF SubmitGiveUp, NoAnswer
    <2>10. CASE WorkerRemove(w)
      BY <2>10 DEF WorkerRemove
    <2>11. CASE UnlockInflight(w)
      BY <2>11 DEF UnlockInflight
    <2> QED
      BY <1>4, <2>1, <2>2, <2>3, <2>4, <2>5, <2>6, <2>7, <2>8, <2>9, <2>10, <2>11 DEF WorkerStep
  <1>5. CASE Environment
    <2>1. ASSUME NEW e \in EPC, CreateDraft(e) PROVE TypeInv'
      BY <2>1 DEF CreateDraft
    <2>2. ASSUME NEW e \in EPC, CloseDraft(e) PROVE TypeInv'
      BY <2>2 DEF CloseDraft
    <2>3. ASSUME NEW e \in EPC, LateSubmit(e) PROVE TypeInv'
      BY <2>3 DEF LateSubmit
    <2>4. ASSUME NEW e \in EPC, Age(e) PROVE TypeInv'
      BY <2>4 DEF Age
    <2>5. CASE Startup
      BY <2>5 DEF Startup
    <2>6. CASE Restart
      <3> USE <2>6 DEF Restart
      <3>1. /\ drafts' \in SUBSET EPC
            /\ late' \in SUBSET EPC
            /\ created' \in 0..MaxDrafts
            /\ cache' \in SUBSET EPC
        OBVIOUS
      <3>2. /\ recentSeen' \in [EPC -> {"none", "fresh", "stale"}]
            /\ history' \in [EPC -> {"unread", "read", "licensed"}]
        OBVIOUS
      <3>3. /\ queue' \in Seq(EPC)
            /\ Len(queue') <= QueueSize
            /\ queued' \in SUBSET EPC
            /\ inflight' \in SUBSET EPC
        OBVIOUS
      <3>4. /\ pc' \in [Clients -> ClientPlaces]
            /\ arg' \in [Clients -> SUBSET EPC]
            /\ todo' \in [Clients -> SUBSET EPC]
            /\ mark' \in [Clients -> EPC \cup {NoEPC}]
        BY DEF ClientPlaces
      <3>5. /\ wpc' \in [Workers -> WorkerPlaces]
            /\ wepc' \in [Workers -> EPC \cup {NoEPC}]
            /\ attempt' \in [Workers -> 0..SubmitRetry]
        BY DEF WorkerPlaces
      <3>6. up' \in BOOLEAN /\ scanActive' \in BOOLEAN
        BY Zenon
      <3>7. Carrying'
        OBVIOUS
      <3> QED
        BY <3>1, <3>2, <3>3, <3>4, <3>5, <3>6, <3>7
    <2>7. CASE RecentSeenEPCs
      BY <2>7 DEF RecentSeenEPCs
    <2> QED
      BY <1>5, <2>1, <2>2, <2>3, <2>4, <2>5, <2>6, <2>7 DEF Environment
  <1> QED
    BY <1>1, <1>2, <1>3, <1>4, <1>5 DEF Next

\* The variables of the service, its callers and its workers stay in their
\* types; the channel stays within its capacity and the attempts within
\* SubmitRetry (service.go: New, enqueue, processSubmit).
THEOREM TypeCorrect == Spec => []TypeOK
  BY TypeInit, TypeNext, PTL DEF Spec, TypeInv

-----------------------------------------------------------------------------
(* The marks of Service.queued.                                            *)

\* A step that moves no mark and changes neither the set nor the channel keeps
\* the bookkeeping.
LEMMA QueueFrame ==
  ASSUME QueueBookkeeping,
         queued' = queued, queue' = queue,
         \A c \in Clients : Marking(c)' <=> Marking(c),
         \A c \in Clients : Marking(c) => mark'[c] = mark[c],
         \A w \in Workers : wpc'[w] = "unmark" <=> wpc[w] = "unmark",
         \A w \in Workers : wpc[w] = "unmark" => wepc'[w] = wepc[w]
  PROVE  QueueBookkeeping'
  <1> USE DEF QueueBookkeeping
  <1>1. MarksAreQueued'
    BY DEF MarksAreQueued
  <1>2. MarksAreUnique'
    BY DEF MarksAreUnique
  <1>3. MarksAreHeld'
    BY DEF MarksAreHeld
  <1> QED
    BY <1>1, <1>2, <1>3

\* Every step keeps the bookkeeping of the marks.
LEMMA QueueNext == TypeInv /\ QueueBookkeeping /\ [Next]_vars => QueueBookkeeping'
  <1> SUFFICES ASSUME TypeInv, QueueBookkeeping, [Next]_vars PROVE QueueBookkeeping'
    OBVIOUS
  <1> USE DEF TypeInv, TypeOK
  <1>1. CASE UNCHANGED vars
    BY <1>1, QueueFrame DEF vars, Marking
  <1>2. ASSUME NEW c \in Clients, Call(c) PROVE QueueBookkeeping'
    <2>1. ASSUME NEW e \in EPC, HandleEPC(c, e) PROVE QueueBookkeeping'
      BY <2>1, QueueFrame DEF HandleEPC, Goto, Marking
    <2>2. ASSUME NEW active \in BOOLEAN, SetScanActive(c, active) PROVE QueueBookkeeping'
      BY <2>2, QueueFrame DEF SetScanActive, Goto, Marking
    <2>3. CASE Fetch(c)
      BY <2>3, QueueFrame DEF Fetch, Goto, Marking
    <2>4. ASSUME NEW S \in SUBSET EPC, AddDraftEPCs(c, S) PROVE QueueBookkeeping'
      BY <2>4, QueueFrame DEF AddDraftEPCs, Goto, Marking
    <2> QED
      BY <1>2, <2>1, <2>2, <2>3, <2>4 DEF Call
  <1>3. ASSUME NEW c \in Clients, CallStep(c) PROVE QueueBookkeeping'
    <2>1. CASE Lookup(c)
      BY <2>1, QueueFrame DEF Lookup, Continue, Marking
    <2>2. CASE CollectAll(c)
      BY <2>2, QueueFrame DEF CollectAll, Continue, Marking
    <2>3. CASE Replace(c)
      BY <2>3, QueueFrame DEF Replace, Goto, Marking
    <2>4. CASE Collect(c)
      BY <2>4, QueueFrame DEF Collect, Marking
    <2>5. CASE Gate(c)
      BY <2>5, QueueFrame DEF Gate, Continue, Marking
    <2>6. ASSUME NEW e \in EPC, EnqueueRefuse(c, e) PROVE QueueBookkeeping'
      BY <2>6, QueueFrame DEF EnqueueRefuse, Continue, Marking
    <2>7. ASSUME NEW e \in EPC, EnqueueMark(c, e) PROVE QueueBookkeeping'
      <3>1. /\ queued' = queued \cup {e} /\ e \notin queued
            /\ Marking(c)' /\ ~Marking(c) /\ mark'[c] = e
            /\ \A d \in Clients \ {c} : (Marking(d)' <=> Marking(d)) /\ mark'[d] = mark[d]
            /\ UNCHANGED <<queue, wpc, wepc>>
        BY <2>7 DEF EnqueueMark, Marking
      <3> HIDE DEF TypeInv, TypeOK
      <3>2. MarksAreQueued'
        BY <3>1 DEF QueueBookkeeping, MarksAreQueued
      <3>3. MarksAreUnique'
        BY <3>1 DEF QueueBookkeeping, MarksAreQueued, MarksAreUnique
      <3>4. MarksAreHeld'
        BY <3>1 DEF QueueBookkeeping, MarksAreHeld
      <3> QED
        BY <3>2, <3>3, <3>4 DEF QueueBookkeeping
    <2>8. CASE EnqueueSend(c)
      <3>1. /\ Marking(c) /\ ~Marking(c)'
            /\ \A d \in Clients \ {c} : (Marking(d)' <=> Marking(d)) /\ mark'[d] = mark[d]
            /\ UNCHANGED <<queued, wpc, wepc>>
        BY <2>8 DEF EnqueueSend, Continue, Marking
      <3>2. /\ Len(queue) \in Nat
            /\ Len(queue') = Len(queue) + 1
            /\ \A i \in 1..Len(queue) : queue'[i] = queue[i]
            /\ queue'[Len(queue) + 1] = mark[c]
        BY <2>8, AppendProperties, LenProperties DEF EnqueueSend, Carrying
      <3> HIDE DEF TypeInv, TypeOK
      <3>6. \A i \in 1..Len(queue') :
              \/ i \in 1..Len(queue) /\ queue'[i] = queue[i]
              \/ i = Len(queue) + 1 /\ queue'[i] = mark[c]
        BY <3>2
      <3>3. MarksAreQueued'
        BY <3>1, <3>2, <3>6 DEF QueueBookkeeping, MarksAreQueued
      <3>4. MarksAreUnique'
        <4>1. \A b, d \in Clients :
                Marking(b)' /\ Marking(d)' /\ mark'[b] = mark'[d] => b = d
          BY <3>1 DEF QueueBookkeeping, MarksAreUnique
        <4>2. \A i, j \in 1..Len(queue') : queue'[i] = queue'[j] => i = j
          BY <3>1, <3>6 DEF QueueBookkeeping, MarksAreUnique
        <4>3. \A v, u \in Workers :
                wpc'[v] = "unmark" /\ wpc'[u] = "unmark" /\ wepc'[v] = wepc'[u] => v = u
          BY <3>1, <3>6 DEF QueueBookkeeping, MarksAreUnique
        <4>4. \A b \in Clients, i \in 1..Len(queue') : Marking(b)' => mark'[b] # queue'[i]
          BY <3>1, <3>6 DEF QueueBookkeeping, MarksAreUnique
        <4>5. \A b \in Clients, u \in Workers :
                Marking(b)' /\ wpc'[u] = "unmark" => mark'[b] # wepc'[u]
          BY <3>1, <3>6 DEF QueueBookkeeping, MarksAreUnique
        <4>6. \A i \in 1..Len(queue'), u \in Workers :
                wpc'[u] = "unmark" => queue'[i] # wepc'[u]
          BY <3>1, <3>6 DEF QueueBookkeeping, MarksAreUnique
        <4> QED
          BY <4>1, <4>2, <4>3, <4>4, <4>5, <4>6 DEF MarksAreUnique
      <3>5. MarksAreHeld'
        BY <3>1, <3>2, <3>6 DEF QueueBookkeeping, MarksAreHeld
      <3> QED
        BY <3>3, <3>4, <3>5 DEF QueueBookkeeping
    <2>9. CASE EnqueueFull(c)
      BY <2>9, QueueFrame DEF EnqueueFull, Marking
    <2>10. CASE EnqueueDrop(c)
      <3>1. /\ pc[c] = "drop" /\ Marking(c) /\ ~Marking(c)'
            /\ \A d \in Clients \ {c} : (Marking(d)' <=> Marking(d)) /\ mark'[d] = mark[d]
            /\ queued' = queued \ {mark[c]}
            /\ UNCHANGED <<queue, wpc, wepc>>
        BY <2>10 DEF EnqueueDrop, Continue, Marking
      <3> HIDE DEF TypeInv, TypeOK
      <3>2. MarksAreQueued'
        BY <3>1 DEF QueueBookkeeping, MarksAreQueued, MarksAreUnique
      <3>3. MarksAreUnique'
        BY <3>1 DEF QueueBookkeeping, MarksAreUnique
      <3>4. MarksAreHeld'
        BY <3>1 DEF QueueBookkeeping, MarksAreHeld
      <3> QED
        BY <3>2, <3>3, <3>4 DEF QueueBookkeeping
    <2> QED
      BY <1>3, <2>1, <2>2, <2>3, <2>4, <2>5, <2>6, <2>7, <2>8, <2>9, <2>10 DEF CallStep
  <1>4. ASSUME NEW w \in Workers, WorkerStep(w) PROVE QueueBookkeeping'
    <2> USE DEF WorkerGoto, WorkerDone
    <2>1. CASE WorkerRecv(w)
      <3>1. /\ wpc[w] # "unmark" /\ wpc'[w] = "unmark" /\ wepc'[w] = queue[1]
            /\ \A v \in Workers \ {w} : wpc'[v] = wpc[v] /\ wepc'[v] = wepc[v]
            /\ queued' = queued
            /\ \A c \in Clients : (Marking(c)' <=> Marking(c)) /\ mark'[c] = mark[c]
        BY <2>1 DEF WorkerRecv, Marking
      <3>2. /\ Len(queue) \in Nat \ {0}
            /\ Len(queue') = Len(queue) - 1
            /\ \A i \in 1..Len(queue') : queue'[i] = queue[i + 1]
        BY <2>1, HeadTailProperties, EmptySeq DEF WorkerRecv
      <3> HIDE DEF TypeInv, TypeOK
      <3>6. /\ 1 \in 1..Len(queue)
            /\ \A i \in 1..Len(queue') :
                 i + 1 \in 1..Len(queue) /\ i + 1 # 1 /\ queue'[i] = queue[i + 1]
            /\ \A i, j \in 1..Len(queue') : i + 1 = j + 1 => i = j
        BY <3>2
      <3>7. \A j \in 1..Len(queue) : j = 1 \/ \E i \in 1..Len(queue') : queue'[i] = queue[j]
        <4> SUFFICES ASSUME NEW j \in 1..Len(queue), j # 1
                     PROVE  \E i \in 1..Len(queue') : queue'[i] = queue[j]
          OBVIOUS
        <4>1. j - 1 \in 1..Len(queue') /\ (j - 1) + 1 = j
          BY <3>2
        <4>2. queue'[j - 1] = queue[j]
          BY <4>1, <3>6
        <4> QED
          BY <4>1, <4>2
      <3>3. MarksAreQueued'
        BY <3>1, <3>2, <3>6 DEF QueueBookkeeping, MarksAreQueued
      <3>4. MarksAreUnique'
        <4>1. \A b, d \in Clients :
                Marking(b)' /\ Marking(d)' /\ mark'[b] = mark'[d] => b = d
          BY <3>1 DEF QueueBookkeeping, MarksAreUnique
        <4>2. \A i, j \in 1..Len(queue') : queue'[i] = queue'[j] => i = j
          BY <3>1, <3>6 DEF QueueBookkeeping, MarksAreUnique
        <4>3. \A v, u \in Workers :
                wpc'[v] = "unmark" /\ wpc'[u] = "unmark" /\ wepc'[v] = wepc'[u] => v = u
          BY <3>1, <3>6 DEF QueueBookkeeping, MarksAreUnique
        <4>4. \A b \in Clients, i \in 1..Len(queue') : Marking(b)' => mark'[b] # queue'[i]
          BY <3>1, <3>6 DEF QueueBookkeeping, MarksAreUnique
        <4>5. \A b \in Clients, u \in Workers :
                Marking(b)' /\ wpc'[u] = "unmark" => mark'[b] # wepc'[u]
          BY <3>1, <3>6 DEF QueueBookkeeping, MarksAreUnique
        <4>6. \A i \in 1..Len(queue'), u \in Workers :
                wpc'[u] = "unmark" => queue'[i] # wepc'[u]
          BY <3>1, <3>6 DEF QueueBookkeeping, MarksAreUnique
        <4> QED
          BY <4>1, <4>2, <4>3, <4>4, <4>5, <4>6 DEF MarksAreUnique
      <3>5. MarksAreHeld'
        BY <3>1, <3>6, <3>7 DEF QueueBookkeeping, MarksAreHeld
      <3> QED
        BY <3>3, <3>4, <3>5 DEF QueueBookkeeping
    <2>2. CASE WorkerUnmark(w)
      BY <2>2 DEF WorkerUnmark, QueueBookkeeping, MarksAreQueued, MarksAreUnique, MarksAreHeld, Marking
    <2>3. CASE WorkerCheck(w)
      BY <2>3, QueueFrame DEF WorkerCheck, Marking
    <2>4. CASE WorkerSkip(w)
      BY <2>4, QueueFrame DEF WorkerSkip, Marking
    <2>5. CASE LockInflight(w)
      BY <2>5, QueueFrame DEF LockInflight, Marking
    <2>6. CASE LockBusy(w)
      BY <2>6, QueueFrame DEF LockBusy, Marking
    <2>7. CASE SubmitAnswered(w)
      BY <2>7, QueueFrame DEF SubmitAnswered, Marking
    <2>8. CASE SubmitAgain(w)
      BY <2>8, QueueFrame DEF SubmitAgain, NoAnswer, Marking
    <2>9. CASE SubmitGiveUp(w)
      BY <2>9, QueueFrame DEF SubmitGiveUp, NoAnswer, Marking
    <2>10. CASE WorkerRemove(w)
      BY <2>10, QueueFrame DEF WorkerRemove, Marking
    <2>11. CASE UnlockInflight(w)
      BY <2>11, QueueFrame DEF UnlockInflight, Marking
    <2> QED
      BY <1>4, <2>1, <2>2, <2>3, <2>4, <2>5, <2>6, <2>7, <2>8, <2>9, <2>10, <2>11
         DEF WorkerStep
  <1>5. CASE Environment
    <2>1. CASE Restart
      BY <2>1 DEF Restart, QueueBookkeeping, MarksAreQueued, MarksAreUnique, MarksAreHeld, Marking
    <2>2. CASE \E e \in EPC : CreateDraft(e) \/ CloseDraft(e) \/ LateSubmit(e) \/ Age(e)
      BY <2>2, QueueFrame DEF CreateDraft, CloseDraft, LateSubmit, Age, Marking
    <2>3. CASE Startup \/ RecentSeenEPCs
      BY <2>3, QueueFrame DEF Startup, RecentSeenEPCs, Marking
    <2> QED
      BY <1>5, <2>1, <2>2, <2>3 DEF Environment
  <1> QED
    BY <1>1, <1>2, <1>3, <1>4, <1>5 DEF Next

\* Initially there are no marks.
LEMMA QueueInit == Init => QueueBookkeeping
  BY DEF Init, QueueBookkeeping, MarksAreQueued, MarksAreUnique, MarksAreHeld, Marking

\* Every mark of Service.queued is held exactly once, so no EPC is twice in the
\* channel and none is refused for ever (service.go: enqueue, worker).
THEOREM QueueCorrect == Spec => []QueueBookkeeping
  BY TypeInit, TypeNext, QueueInit, QueueNext, PTL DEF Spec

-----------------------------------------------------------------------------
(* The owners of the EPCs in flight.                                       *)

\* A step in which no worker starts or ends to own an EPC keeps the owners.
LEMMA OwnerFrame ==
  ASSUME NoParallelSubmit, inflight' = inflight,
         \A w \in Workers : Owning(w)' <=> Owning(w),
         \A w \in Workers : Owning(w) => wepc'[w] = wepc[w]
  PROVE  NoParallelSubmit'
  BY DEF NoParallelSubmit, InflightIsOwned

\* Every step keeps the owners.
LEMMA OwnerNext == TypeInv /\ NoParallelSubmit /\ [Next]_vars => NoParallelSubmit'
  <1> SUFFICES ASSUME TypeInv, NoParallelSubmit, [Next]_vars PROVE NoParallelSubmit'
    OBVIOUS
  <1>1. CASE UNCHANGED <<inflight, wpc, wepc>>
    BY <1>1, OwnerFrame DEF Owning
  <1>2. ASSUME NEW w \in Workers, WorkerStep(w) PROVE NoParallelSubmit'
    <2> USE DEF WorkerGoto, WorkerDone, TypeInv, TypeOK
    <2>1. CASE WorkerRecv(w)
      BY <2>1, OwnerFrame DEF WorkerRecv, Owning
    <2>2. CASE WorkerUnmark(w)
      BY <2>2, OwnerFrame DEF WorkerUnmark, Owning
    <2>3. CASE WorkerCheck(w)
      BY <2>3, OwnerFrame DEF WorkerCheck, Owning
    <2>4. CASE WorkerSkip(w)
      BY <2>4, OwnerFrame DEF WorkerSkip, Owning
    <2>5. CASE LockInflight(w)
      <3>1. /\ inflight' = inflight \cup {wepc[w]} /\ wepc[w] \notin inflight
            /\ Owning(w)' /\ ~Owning(w) /\ wepc' = wepc
            /\ \A v \in Workers \ {w} : Owning(v)' <=> Owning(v)
        BY <2>5 DEF LockInflight, Owning
      <3> QED
        BY <3>1 DEF NoParallelSubmit, InflightIsOwned
    <2>6. CASE LockBusy(w)
      BY <2>6, OwnerFrame DEF LockBusy, Owning
    <2>7. CASE SubmitAnswered(w)
      BY <2>7, OwnerFrame DEF SubmitAnswered, Owning
    <2>8. CASE SubmitAgain(w)
      BY <2>8, OwnerFrame DEF SubmitAgain, NoAnswer, Owning
    <2>9. CASE SubmitGiveUp(w)
      BY <2>9, OwnerFrame DEF SubmitGiveUp, NoAnswer, Owning
    <2>10. CASE WorkerRemove(w)
      BY <2>10, OwnerFrame DEF WorkerRemove, Owning
    <2>11. CASE UnlockInflight(w)
      <3>1. /\ inflight' = inflight \ {wepc[w]}
            /\ Owning(w) /\ ~Owning(w)'
            /\ \A v \in Workers \ {w} : (Owning(v)' <=> Owning(v)) /\ wepc'[v] = wepc[v]
        BY <2>11 DEF UnlockInflight, Owning
      <3> HIDE DEF TypeInv, TypeOK
      <3>2. \A u, v \in Workers : Owning(u)' /\ Owning(v)' /\ wepc'[u] = wepc'[v] => u = v
        BY <3>1 DEF NoParallelSubmit
      <3>3. \A v \in Workers \ {w} : Owning(v) => wepc[v] # wepc[w]
        BY <3>1 DEF NoParallelSubmit
      <3>4. inflight' = {wepc'[v] : v \in {u \in Workers : Owning(u)'}}
        BY <3>1, <3>3 DEF NoParallelSubmit, InflightIsOwned
      <3> QED
        BY <3>2, <3>4 DEF NoParallelSubmit, InflightIsOwned
    <2> QED
      BY <1>2, <2>1, <2>2, <2>3, <2>4, <2>5, <2>6, <2>7, <2>8, <2>9, <2>10, <2>11
         DEF WorkerStep
  <1>3. CASE Restart
    BY <1>3 DEF Restart, NoParallelSubmit, InflightIsOwned, Owning
  <1>4. CASE UNCHANGED vars
    BY <1>1, <1>4 DEF vars
  <1>5. ASSUME NEW c \in Clients, Call(c) \/ CallStep(c) PROVE UNCHANGED <<inflight, wpc, wepc>>
    BY <1>5 DEF Call, CallStep, HandleEPC, SetScanActive, Fetch, AddDraftEPCs, Lookup,
                CollectAll, Replace, Collect, Gate, EnqueueRefuse, EnqueueMark,
                EnqueueSend, EnqueueFull, EnqueueDrop
  <1>6. CASE Environment /\ ~Restart
    BY <1>1, <1>6 DEF Environment, CreateDraft, CloseDraft, LateSubmit, Age, Startup,
                      RecentSeenEPCs
  <1> QED
    BY <1>1, <1>2, <1>3, <1>4, <1>5, <1>6 DEF Next, Environment

\* Initially nothing is in flight.
LEMMA OwnerInit == Init => NoParallelSubmit
  BY DEF Init, NoParallelSubmit, InflightIsOwned, Owning

\* At most one worker submits an EPC at any time, and what is in flight has an
\* owner that will take it out again (service.go: lockInflight, unlockInflight).
THEOREM OwnerCorrect == Spec => []NoParallelSubmit
  BY TypeInit, TypeNext, OwnerInit, OwnerNext, PTL DEF Spec

-----------------------------------------------------------------------------
(* Licences.                                                               *)

\* Where a licence comes from: an EPC in the window has been read; while the
\* scan is on everything read is licensed; and every list of EPCs on its way to
\* the channel is licensed, or at least read if the flag was not yet consulted.
LicenceInv ==
  /\ \A e \in EPC : recentSeen[e] # "none" => history[e] # "unread"
  /\ \A e \in EPC : ScanOn /\ history[e] # "unread" => history[e] = "licensed"
  /\ \A c \in Clients : pc[c] = "lookup" =>
       \A e \in arg[c] : history[e] = "licensed"
  /\ \A c \in Clients : pc[c] = "gate" =>
       \A e \in todo[c] : history[e] # "unread"
  /\ \A c \in Clients : pc[c] \in {"enqueue", "send", "drop"} =>
       \A e \in todo[c] : history[e] = "licensed"
  /\ SubmitsAreLicensed

\* A step that only moves EPCs between workers, or is not about EPCs at all.
LEMMA LicenceFrame ==
  ASSUME LicenceInv, UNCHANGED <<clientVars, scanActive, history>>,
         \A e \in EPC : recentSeen'[e] # "none" => recentSeen[e] # "none",
         queued' \cup inflight' \subseteq
           queued \cup inflight \cup {wepc[w] : w \in {v \in Workers : wpc[v] # "recv"}},
         \A w \in Workers : wpc'[w] # "recv" =>
           \/ wpc[w] # "recv" /\ wepc'[w] = wepc[w]
           \/ wepc'[w] \in queued
  PROVE  LicenceInv'
  BY DEF LicenceInv, SubmitsAreLicensed, ScanOn

\* Collecting garbage puts nothing into the window.
LEMMA GCNone ==
  ASSUME NEW seen, NEW e \in EPC, GC(seen)[e] # "none"
  PROVE  seen[e] # "none"
  BY DEF GC

\* Every step keeps the licences.
LEMMA LicenceNext ==
  TypeInv /\ QueueBookkeeping /\ LicenceInv /\ [Next]_vars => LicenceInv'
  <1> SUFFICES ASSUME TypeInv, QueueBookkeeping, LicenceInv, [Next]_vars PROVE LicenceInv'
    OBVIOUS
  <1> USE DEF TypeInv, TypeOK
  <1>1. CASE UNCHANGED vars
    BY <1>1, LicenceFrame DEF vars
  <1>2. ASSUME NEW c \in Clients, Call(c) PROVE LicenceInv'
    <2>1. ASSUME NEW e \in EPC, HandleEPC(c, e) PROVE LicenceInv'
      <3>1. /\ \A f \in EPC \ {e} : history'[f] = history[f]
            /\ history'[e] # "unread"
            /\ ScanOn \/ history[e] = "licensed" => history'[e] = "licensed"
        <4>1. CASE ScanOn
          BY <2>1, <4>1 DEF HandleEPC
        <4>2. CASE ~ScanOn
          BY <2>1, <4>2 DEF HandleEPC
        <4> QED
          BY <4>1, <4>2
      <3>2. \A f \in EPC \ {e} : recentSeen'[f] # "none" => recentSeen[f] # "none"
        BY <2>1 DEF HandleEPC, GC
      <3>3. UNCHANGED <<queued, inflight, wpc, wepc, scanActive, todo>>
        BY <2>1 DEF HandleEPC, Goto
      <3>4. \/ scanActive /\ pc' = [pc EXCEPT ![c] = "lookup"] /\ arg' = [arg EXCEPT ![c] = {e}]
            \/ UNCHANGED <<pc, arg>>
        BY <2>1 DEF HandleEPC, Goto
      <3>5. ScanOn' <=> ScanOn
        BY <2>1, <3>3, <3>4 DEF ScanOn, HandleEPC
      <3>6. scanActive => ScanOn
        BY DEF ScanOn
      <3>7. SubmitsAreLicensed'
        <4>1. \A f \in EPC : history[f] = "licensed" => history'[f] = "licensed"
          BY <3>1
        <4> QED
          BY <3>3, <4>1 DEF LicenceInv, SubmitsAreLicensed, Carrying
      <3>8. /\ \A f \in EPC : recentSeen'[f] # "none" => history'[f] # "unread"
            /\ \A f \in EPC : ScanOn' /\ history'[f] # "unread" => history'[f] = "licensed"
        BY <3>1, <3>2, <3>5 DEF LicenceInv
      <3>9. CASE UNCHANGED <<pc, arg>>
        BY <3>1, <3>3, <3>7, <3>8, <3>9 DEF LicenceInv
      <3>10. CASE scanActive /\ pc' = [pc EXCEPT ![c] = "lookup"] /\ arg' = [arg EXCEPT ![c] = {e}]
        BY <3>1, <3>3, <3>6, <3>7, <3>8, <3>10 DEF LicenceInv
      <3> QED
        BY <3>4, <3>9, <3>10
    <2>2. ASSUME NEW active \in BOOLEAN, SetScanActive(c, active) PROVE LicenceInv'
      <3>1. /\ \A f \in EPC : history[f] = "licensed" => history'[f] = "licensed"
            /\ \A f \in EPC : history[f] = "unread" <=> history'[f] = "unread"
            /\ UNCHANGED <<recentSeen, queued, inflight, wpc, wepc, todo>>
        BY <2>2 DEF SetScanActive, Goto
      <3>2. \A d \in Clients : pc'[d] # "collectAll" => pc'[d] = pc[d] /\ arg'[d] = arg[d]
        BY <2>2 DEF SetScanActive, Goto
      <3>3. \A f \in EPC : ScanOn' /\ history'[f] # "unread" => history'[f] = "licensed"
        <4>1. CASE active
          BY <2>2, <4>1 DEF SetScanActive
        <4>2. CASE ~active
          <5>1. UNCHANGED pc /\ ~scanActive' /\ \A f \in EPC : history'[f] = history[f]
            BY <2>2, <4>2 DEF SetScanActive
          <5> QED
            BY <5>1 DEF ScanOn, LicenceInv
        <4> QED
          BY <4>1, <4>2
      <3>4. SubmitsAreLicensed'
        BY <3>1 DEF LicenceInv, SubmitsAreLicensed, Carrying
      <3>5. \A d \in Clients : arg[d] \subseteq EPC /\ todo[d] \subseteq EPC
        OBVIOUS
      <3> HIDE DEF TypeInv, TypeOK
      <3>6. \A d \in Clients : pc'[d] = "lookup" => \A f \in arg'[d] : history'[f] = "licensed"
        BY <3>1, <3>2, <3>5 DEF LicenceInv
      <3>7. \A d \in Clients : pc'[d] = "gate" => \A f \in todo'[d] : history'[f] # "unread"
        BY <3>1, <3>2, <3>5 DEF LicenceInv
      <3>8. \A d \in Clients : pc'[d] \in {"enqueue", "send", "drop"} =>
              \A f \in todo'[d] : history'[f] = "licensed"
        BY <3>1, <3>2, <3>5 DEF LicenceInv
      <3>9. \A f \in EPC : recentSeen'[f] # "none" => history'[f] # "unread"
        BY <3>1 DEF LicenceInv
      <3> QED
        BY <3>3, <3>4, <3>6, <3>7, <3>8, <3>9 DEF LicenceInv
    <2>3. CASE Fetch(c)
      BY <2>3 DEF Fetch, Goto, LicenceInv, SubmitsAreLicensed, ScanOn
    <2>4. ASSUME NEW S \in SUBSET EPC, AddDraftEPCs(c, S) PROVE LicenceInv'
      BY <2>4 DEF AddDraftEPCs, Goto, LicenceInv, SubmitsAreLicensed, ScanOn
    <2> QED
      BY <1>2, <2>1, <2>2, <2>3, <2>4 DEF Call
  <1>3. ASSUME NEW c \in Clients, CallStep(c) PROVE LicenceInv'
    <2> USE DEF LicenceInv, SubmitsAreLicensed, ScanOn
    <2>1. CASE Lookup(c)
      BY <2>1 DEF Lookup, Continue
    <2>2. CASE CollectAll(c)
      BY <2>2, GCNone DEF CollectAll, Continue, ReplayCandidates
    <2>3. CASE Replace(c)
      BY <2>3 DEF Replace, Goto
    <2>4. CASE Collect(c)
      BY <2>4, GCNone DEF Collect, ReplayCandidates
    <2>5. CASE Gate(c)
      BY <2>5 DEF Gate, Continue
    <2>6. ASSUME NEW e \in EPC, EnqueueRefuse(c, e) PROVE LicenceInv'
      BY <2>6 DEF EnqueueRefuse, Continue
    <2>7. ASSUME NEW e \in EPC, EnqueueMark(c, e) PROVE LicenceInv'
      BY <2>7 DEF EnqueueMark
    <2>8. CASE EnqueueSend(c)
      BY <2>8 DEF EnqueueSend, Continue
    <2>9. CASE EnqueueFull(c)
      BY <2>9 DEF EnqueueFull
    <2>10. CASE EnqueueDrop(c)
      BY <2>10 DEF EnqueueDrop, Continue
    <2> QED
      BY <1>3, <2>1, <2>2, <2>3, <2>4, <2>5, <2>6, <2>7, <2>8, <2>9, <2>10 DEF CallStep
  <1>4. ASSUME NEW w \in Workers, WorkerStep(w) PROVE LicenceInv'
    <2> USE LicenceFrame DEF WorkerGoto, WorkerDone
    <2>1. CASE WorkerRecv(w)
      <3>1. Head(queue) \in queued
        <4>1. Len(queue) \in Nat \ {0} /\ Head(queue) = queue[1]
          BY <2>1, EmptySeq DEF WorkerRecv
        <4>2. 1 \in 1..Len(queue)
          BY <4>1
        <4> QED
          BY <4>1, <4>2 DEF QueueBookkeeping, MarksAreQueued
      <3> QED
        BY <2>1, <3>1 DEF WorkerRecv
    <2>2. CASE WorkerUnmark(w)
      BY <2>2 DEF WorkerUnmark
    <2>3. CASE WorkerCheck(w)
      BY <2>3 DEF WorkerCheck
    <2>4. CASE WorkerSkip(w)
      BY <2>4 DEF WorkerSkip
    <2>5. CASE LockInflight(w)
      BY <2>5 DEF LockInflight
    <2>6. CASE LockBusy(w)
      BY <2>6 DEF LockBusy
    <2>7. CASE SubmitAnswered(w)
      BY <2>7 DEF SubmitAnswered
    <2>8. CASE SubmitAgain(w)
      BY <2>8 DEF SubmitAgain, NoAnswer
    <2>9. CASE SubmitGiveUp(w)
      BY <2>9 DEF SubmitGiveUp, NoAnswer
    <2>10. CASE WorkerRemove(w)
      BY <2>10 DEF WorkerRemove
    <2>11. CASE UnlockInflight(w)
      BY <2>11 DEF UnlockInflight
    <2> QED
      BY <1>4, <2>1, <2>2, <2>3, <2>4, <2>5, <2>6, <2>7, <2>8, <2>9, <2>10, <2>11
         DEF WorkerStep
  <1>5. CASE Environment
    <2>1. CASE Restart
      BY <2>1 DEF Restart, LicenceInv, SubmitsAreLicensed
    <2>2. CASE \E e \in EPC : CreateDraft(e) \/ CloseDraft(e) \/ LateSubmit(e)
      BY <2>2, LicenceFrame DEF CreateDraft, CloseDraft, LateSubmit
    <2>3. ASSUME NEW e \in EPC, Age(e) PROVE LicenceInv'
      BY <2>3, LicenceFrame DEF Age
    <2>4. CASE Startup
      BY <2>4, LicenceFrame DEF Startup
    <2>5. CASE RecentSeenEPCs
      BY <2>5, LicenceFrame, GCNone DEF RecentSeenEPCs
    <2> QED
      BY <1>5, <2>1, <2>2, <2>3, <2>4, <2>5 DEF Environment
  <1> QED
    BY <1>1, <1>2, <1>3, <1>4, <1>5 DEF Next

\* Initially nothing is queued, owned or seen.
LEMMA LicenceInit == Init => LicenceInv
  BY DEF Init, LicenceInv, SubmitsAreLicensed

\* Only tags that were read, with the scan on then or later, are queued or
\* submitted (service.go: HandleEPC, SetScanActive, RefreshCache, AddDraftEPCs).
THEOREM LicenceCorrect == Spec => []SubmitsAreLicensed
  BY TypeInit, TypeNext, QueueInit, QueueNext, LicenceInit, LicenceNext, PTL
     DEF Spec, LicenceInv

-----------------------------------------------------------------------------
(* EPCService implements SubmitLedger, for every value of the constants.   *)

\* A step that changes no licence, no request and nothing in the ERP is a
\* stuttering step of the ledger.
LEMMA LedgerStutter ==
  ASSUME UNCHANGED <<drafts, late, history>>,
         \A w \in Workers : wpc'[w] = "submit" <=> wpc[w] = "submit",
         \A w \in Workers : wpc[w] = "submit" => wepc'[w] = wepc[w]
  PROVE  UNCHANGED Ledger!vars
  <1>1. LicensedEPCs' = LicensedEPCs
    BY DEF LicensedEPCs
  <1>2. Requests' = Requests
    BY DEF Requests
  <1> QED
    BY <1>1, <1>2 DEF Ledger!vars

\* Initial states are initial states of the ledger.
LEMMA LedgerInit == Init => Ledger!Init
  BY DEF Init, Ledger!Init, LicensedEPCs, Requests

\* A worker's step is a step of the ledger.
LEMMA LedgerWorker ==
  ASSUME TypeInv, NoParallelSubmit, LicenceInv, NEW w \in Workers, WorkerStep(w)
  PROVE  Ledger!Next \/ UNCHANGED Ledger!vars
  <1> USE DEF TypeInv, TypeOK, WorkerGoto, WorkerDone
  <1>1. CASE WorkerRecv(w)
    BY <1>1, LedgerStutter DEF WorkerRecv
  <1>2. CASE WorkerUnmark(w)
    BY <1>2, LedgerStutter DEF WorkerUnmark
  <1>3. CASE WorkerCheck(w)
    BY <1>3, LedgerStutter DEF WorkerCheck
  <1>4. CASE WorkerSkip(w)
    BY <1>4, LedgerStutter DEF WorkerSkip
  <1>5. CASE LockInflight(w)
    <2>1. wepc[w] \in EPC /\ wepc[w] \in LicensedEPCs
      BY <1>5 DEF LockInflight, Carrying, LicenceInv, SubmitsAreLicensed, LicensedEPCs
    <2>2. \A r \in Requests : r[1] # w /\ r[2] # wepc[w]
      BY <1>5 DEF LockInflight, Requests, NoParallelSubmit, InflightIsOwned, Owning
    <2>3. Requests' = Requests \cup {<<w, wepc[w]>>}
      BY <1>5 DEF LockInflight, Requests
    <2>4. UNCHANGED <<drafts, LicensedEPCs, late>>
      BY <1>5 DEF LockInflight, LicensedEPCs
    <2>5. Ledger!Begin(w, wepc[w])
      BY <2>1, <2>2, <2>3, <2>4 DEF Ledger!Begin
    <2> QED
      BY <2>1, <2>5 DEF Ledger!Next
  <1>6. CASE LockBusy(w)
    BY <1>6, LedgerStutter DEF LockBusy
  <1>7. CASE SubmitAnswered(w)
    <2>1. wepc[w] \in EPC /\ <<w, wepc[w]>> \in Requests
      BY <1>7 DEF SubmitAnswered, Carrying, Requests
    <2>2. Requests' = Requests \ {<<w, wepc[w]>>}
      BY <1>7 DEF SubmitAnswered, Requests
    <2>3. UNCHANGED <<LicensedEPCs, late>> /\ drafts' = drafts \ {wepc[w]}
      BY <1>7 DEF SubmitAnswered, LicensedEPCs
    <2>4. Ledger!Answer(w, wepc[w])
      BY <2>1, <2>2, <2>3 DEF Ledger!Answer
    <2> QED
      BY <2>1, <2>4 DEF Ledger!Next
  <1>8. CASE SubmitAgain(w)
    <2>1. wepc[w] \in EPC /\ <<w, wepc[w]>> \in Requests
      BY <1>8 DEF SubmitAgain, NoAnswer, Carrying, Requests
    <2>2. UNCHANGED <<Requests, LicensedEPCs>>
      BY <1>8 DEF SubmitAgain, NoAnswer, Requests, LicensedEPCs
    <2>3. Ledger!Unknown(wepc[w])
      BY <1>8 DEF SubmitAgain, NoAnswer, Ledger!Unknown
    <2>4. Ledger!Repeat(w, wepc[w])
      BY <2>1, <2>2, <2>3 DEF Ledger!Repeat
    <2> QED
      BY <2>1, <2>4 DEF Ledger!Next
  <1>9. CASE SubmitGiveUp(w)
    <2>1. wepc[w] \in EPC /\ <<w, wepc[w]>> \in Requests
      BY <1>9 DEF SubmitGiveUp, NoAnswer, Carrying, Requests
    <2>2. Requests' = Requests \ {<<w, wepc[w]>>}
      BY <1>9 DEF SubmitGiveUp, NoAnswer, Requests
    <2>3. Ledger!Unknown(wepc[w]) /\ UNCHANGED LicensedEPCs
      BY <1>9 DEF SubmitGiveUp, NoAnswer, LicensedEPCs, Ledger!Unknown
    <2>4. Ledger!Abandon(w, wepc[w])
      BY <2>1, <2>2, <2>3 DEF Ledger!Abandon
    <2> QED
      BY <2>1, <2>4 DEF Ledger!Next
  <1>10. CASE WorkerRemove(w)
    BY <1>10, LedgerStutter DEF WorkerRemove
  <1>11. CASE UnlockInflight(w)
    BY <1>11, LedgerStutter DEF UnlockInflight
  <1> QED
    BY <1>1, <1>2, <1>3, <1>4, <1>5, <1>6, <1>7, <1>8, <1>9, <1>10, <1>11 DEF WorkerStep

\* A step in which EPCs only gain licences is a step of the ledger.
LEMMA LedgerLicense ==
  ASSUME TypeInv, TypeInv', UNCHANGED <<drafts, late, wpc, wepc>>,
         \A e \in EPC : history[e] = "licensed" => history'[e] = "licensed"
  PROVE  Ledger!Next
  <1>1. Requests' = Requests
    BY DEF Requests
  <1>2. LicensedEPCs' = LicensedEPCs \cup LicensedEPCs'
    BY DEF LicensedEPCs
  <1>3. LicensedEPCs' \in SUBSET EPC
    BY DEF LicensedEPCs
  <1>4. Ledger!License(LicensedEPCs')
    BY <1>1, <1>2 DEF Ledger!License
  <1> QED
    BY <1>3, <1>4 DEF Ledger!Next

\* A caller's step is a step of the ledger.
LEMMA LedgerCaller ==
  ASSUME TypeInv, TypeInv', NEW c \in Clients, Call(c) \/ CallStep(c)
  PROVE  Ledger!Next
  <1>1. UNCHANGED <<drafts, late, wpc, wepc>>
    BY DEF Call, CallStep, HandleEPC, SetScanActive, Fetch, AddDraftEPCs, Lookup,
           CollectAll, Replace, Collect, Gate, EnqueueRefuse, EnqueueMark, EnqueueSend,
           EnqueueFull, EnqueueDrop
  <1>2. \A e \in EPC : history[e] = "licensed" => history'[e] = "licensed"
    <2>1. ASSUME NEW e \in EPC, HandleEPC(c, e)
          PROVE  \A f \in EPC : history[f] = "licensed" => history'[f] = "licensed"
      <3>1. CASE ScanOn
        BY <2>1, <3>1 DEF HandleEPC, TypeInv, TypeOK
      <3>2. CASE ~ScanOn
        BY <2>1, <3>2 DEF HandleEPC, TypeInv, TypeOK
      <3> QED
        BY <3>1, <3>2
    <2>2. ASSUME NEW active \in BOOLEAN, SetScanActive(c, active)
          PROVE  \A f \in EPC : history[f] = "licensed" => history'[f] = "licensed"
      BY <2>2 DEF SetScanActive
    <2>3. CASE Fetch(c) \/ \E S \in SUBSET EPC : AddDraftEPCs(c, S)
      BY <2>3 DEF Fetch, AddDraftEPCs
    <2>4. CASE CallStep(c)
      BY <2>4 DEF CallStep, Lookup, CollectAll, Replace, Collect, Gate, EnqueueRefuse,
                  EnqueueMark, EnqueueSend, EnqueueFull, EnqueueDrop
    <2> QED
      BY <2>1, <2>2, <2>3, <2>4 DEF Call
  <1> QED
    BY <1>1, <1>2, LedgerLicense

\* Every step is a step of the ledger or leaves it alone.
LEMMA LedgerNext ==
  TypeInv /\ TypeInv' /\ NoParallelSubmit /\ LicenceInv /\ [Next]_vars
    => [Ledger!Next]_(Ledger!vars)
  <1> SUFFICES ASSUME TypeInv, TypeInv', NoParallelSubmit, LicenceInv, [Next]_vars
               PROVE  Ledger!Next \/ UNCHANGED Ledger!vars
    OBVIOUS
  <1>1. CASE UNCHANGED vars
    BY <1>1, LedgerStutter DEF vars
  <1>2. ASSUME NEW c \in Clients, Call(c) \/ CallStep(c)
        PROVE  Ledger!Next \/ UNCHANGED Ledger!vars
    BY <1>2, LedgerCaller
  <1>3. ASSUME NEW w \in Workers, WorkerStep(w)
        PROVE  Ledger!Next \/ UNCHANGED Ledger!vars
    BY <1>3, LedgerWorker
  <1>4. CASE Environment
    <2>1. ASSUME NEW e \in EPC, CreateDraft(e) PROVE Ledger!Next
      <3>1. Ledger!Open(e)
        BY <2>1 DEF CreateDraft, Ledger!Open, LicensedEPCs, Requests
      <3> QED
        BY <3>1 DEF Ledger!Next
    <2>2. ASSUME NEW e \in EPC, CloseDraft(e) PROVE Ledger!Next
      <3>1. Ledger!CloseElsewhere(e)
        BY <2>2 DEF CloseDraft, Ledger!CloseElsewhere, LicensedEPCs, Requests
      <3> QED
        BY <3>1 DEF Ledger!Next
    <2>3. ASSUME NEW e \in EPC, LateSubmit(e) PROVE Ledger!Next
      <3>1. Ledger!ExecuteLate(e)
        BY <2>3 DEF LateSubmit, Ledger!ExecuteLate, LicensedEPCs, Requests
      <3> QED
        BY <3>1 DEF Ledger!Next
    <2>4. ASSUME NEW e \in EPC, Age(e) PROVE UNCHANGED Ledger!vars
      BY <2>4, LedgerStutter DEF Age
    <2>5. CASE Startup \/ RecentSeenEPCs
      BY <2>5, LedgerStutter DEF Startup, RecentSeenEPCs
    <2>6. CASE Restart
      <3>1. LicensedEPCs' = {} /\ Requests' = {}
        BY <2>6 DEF Restart, LicensedEPCs, Requests
      <3>2. PICK sent \in SUBSET {wepc[w] : w \in {v \in Workers : wpc[v] = "submit"}} :
              late' = late \cup sent
        BY <2>6 DEF Restart
      <3>3. sent \subseteq {r[2] : r \in Requests}
        <4> SUFFICES ASSUME NEW e \in sent PROVE \E r \in Requests : e = r[2]
          OBVIOUS
        <4>1. PICK w \in Workers : wpc[w] = "submit" /\ wepc[w] = e
          BY <3>2
        <4>2. <<w, e>> \in Requests
          BY <4>1 DEF Requests
        <4> QED
          BY <4>2
      <3>4. Ledger!Restart
        BY <2>6, <3>1, <3>2, <3>3 DEF Ledger!Restart, Restart
      <3> QED
        BY <3>4 DEF Ledger!Next
    <2> QED
      BY <1>4, <2>1, <2>2, <2>3, <2>4, <2>5, <2>6 DEF Environment
  <1> QED
    BY <1>1, <1>2, <1>3, <1>4 DEF Next

\* The service implements the ledger: a draft is closed by the bot only through
\* a request for a licensed EPC, one worker at a time, across retries, timeouts
\* and restarts (service.go: processSubmit, lockInflight).
THEOREM LedgerCorrect == Spec => ImplementsLedger
  <1>1. Init => TypeInv /\ QueueBookkeeping /\ NoParallelSubmit /\ LicenceInv
    BY TypeInit, QueueInit, OwnerInit, LicenceInit
  <1>2. /\ TypeInv /\ QueueBookkeeping /\ NoParallelSubmit /\ LicenceInv
        /\ [Next]_vars
        => /\ (TypeInv /\ QueueBookkeeping /\ NoParallelSubmit /\ LicenceInv)'
           /\ [Ledger!Next]_(Ledger!vars)
    BY TypeNext, QueueNext, OwnerNext, LicenceNext, LedgerNext
  <1> QED
    BY <1>1, <1>2, LedgerInit, PTL DEF Spec, ImplementsLedger, Ledger!Spec

-----------------------------------------------------------------------------
(* No tag is overlooked.                                                   *)

\* Before the startup refresh has finished nothing has been read: without this
\* Startup could make a tag wanted that nobody attends to.
SeenOnlyWhileUp == ~up => \A e \in EPC : recentSeen[e] # "fresh"

\* Collecting expired readings neither adds nor takes away a fresh one.
LEMMA GCFresh ==
  ASSUME NEW seen \in [EPC -> {"none", "fresh", "stale"}], NEW e \in EPC
  PROVE  GC(seen)[e] = "fresh" <=> seen[e] = "fresh"
  BY DEF GC

\* Initially nothing has been read.
LEMMA SeenInit == Init => SeenOnlyWhileUp
  BY DEF Init, SeenOnlyWhileUp

\* Only HandleEPC makes a reading fresh, and it runs after the startup.
LEMMA SeenNext == TypeInv /\ SeenOnlyWhileUp /\ [Next]_vars => SeenOnlyWhileUp'
  <1> SUFFICES ASSUME TypeInv, SeenOnlyWhileUp, [Next]_vars PROVE SeenOnlyWhileUp'
    OBVIOUS
  <1>1. recentSeen \in [EPC -> {"none", "fresh", "stale"}]
    BY DEF TypeInv, TypeOK
  <1>2. CASE UNCHANGED up /\ recentSeen' \in {recentSeen, GC(recentSeen)}
    BY <1>1, <1>2, GCFresh DEF SeenOnlyWhileUp
  <1>3. CASE UNCHANGED vars
    BY <1>2, <1>3 DEF vars
  <1>4. ASSUME NEW c \in Clients, Call(c) PROVE SeenOnlyWhileUp'
    <2>1. CASE \E e \in EPC : HandleEPC(c, e)
      BY <2>1 DEF HandleEPC, SeenOnlyWhileUp
    <2>2. CASE \E active \in BOOLEAN : SetScanActive(c, active)
      BY <1>2, <2>2 DEF SetScanActive
    <2>3. CASE Fetch(c) \/ \E S \in SUBSET EPC : AddDraftEPCs(c, S)
      BY <1>2, <2>3 DEF Fetch, AddDraftEPCs
    <2> QED
      BY <1>4, <2>1, <2>2, <2>3 DEF Call
  <1>5. ASSUME NEW c \in Clients, CallStep(c) PROVE SeenOnlyWhileUp'
    BY <1>2, <1>5 DEF CallStep, Lookup, CollectAll, Replace, Collect, Gate, EnqueueRefuse,
                      EnqueueMark, EnqueueSend, EnqueueFull, EnqueueDrop
  <1>6. ASSUME NEW w \in Workers, WorkerStep(w) PROVE SeenOnlyWhileUp'
    BY <1>2, <1>6 DEF WorkerStep, WorkerRecv, WorkerUnmark, WorkerCheck, WorkerSkip, LockInflight,
                      LockBusy, SubmitAnswered, SubmitAgain, SubmitGiveUp, NoAnswer, WorkerRemove,
                      UnlockInflight
  <1>7. CASE Environment
    <2>1. CASE \E e \in EPC : CreateDraft(e) \/ CloseDraft(e) \/ LateSubmit(e)
      BY <1>2, <2>1 DEF CreateDraft, CloseDraft, LateSubmit
    <2>2. CASE \E e \in EPC : Age(e)
      BY <1>1, <2>2 DEF Age, SeenOnlyWhileUp
    <2>3. CASE Startup
      BY <2>3 DEF Startup, SeenOnlyWhileUp
    <2>4. CASE Restart
      BY <2>4 DEF Restart, SeenOnlyWhileUp
    <2>5. CASE RecentSeenEPCs
      BY <1>2, <2>5 DEF RecentSeenEPCs
    <2> QED
      BY <1>7, <2>1, <2>2, <2>3, <2>4, <2>5 DEF Environment
  <1> QED
    BY <1>3, <1>4, <1>5, <1>6, <1>7 DEF Next

\* A caller's step keeps an EPC attended when it keeps the other callers, the marks
\* of others and the workers, and does not itself let go of the EPC.
LEMMA CallerKeepsAttended ==
  ASSUME NEW c \in Clients, NEW e \in EPC,
         \A d \in Clients \ {c} : pc'[d] = pc[d] /\ arg'[d] = arg[d] /\ todo'[d] = todo[d],
         UNCHANGED <<wpc, wepc>>,
         e \in queued => e \in queued',
         Pending(c, e) => Attended(e)',
         Attended(e)
  PROVE  Attended(e)'
  <1>1. CASE e \in queued
    BY <1>1 DEF Attended
  <1>2. ASSUME NEW w \in Workers, WorkedOn(w, e) PROVE Attended(e)'
    BY <1>2 DEF WorkedOn, Attended
  <1>3. ASSUME NEW d \in Clients, Pending(d, e) PROVE Attended(e)'
    <2>1. CASE d = c
      BY <1>3, <2>1
    <2>2. CASE d # c
      BY <1>3, <2>2 DEF Pending, Attended
    <2> QED
      BY <2>1, <2>2
  <1> QED
    BY <1>1, <1>2, <1>3 DEF Attended

\* A call that begins: what becomes wanted by it is attended to, and what was
\* attended to stays so, because the caller was idle.
LEMMA CallAttends ==
  ASSUME TypeInv, NEW c \in Clients, Call(c), NEW e \in EPC, Wanted(e)',
         Wanted(e) => Attended(e)
  PROVE  Attended(e)'
  <1> USE DEF TypeInv, TypeOK
  <1>0. pc[c] = "idle" /\ UNCHANGED <<wpc, wepc, queued>>
    BY DEF Call, HandleEPC, SetScanActive, Fetch, AddDraftEPCs
  <1>1. ~Pending(c, e)
    BY <1>0 DEF Pending
  <1>2. \A d \in Clients \ {c} : pc'[d] = pc[d] /\ arg'[d] = arg[d] /\ todo'[d] = todo[d]
    BY DEF Call, HandleEPC, SetScanActive, Fetch, AddDraftEPCs, Goto
  <1>3. Attended(e) => Attended(e)'
    BY <1>0, <1>1, <1>2, CallerKeepsAttended
  <1>4. ASSUME ~Wanted(e) PROVE Attended(e)'
    <2>1. ASSUME NEW f \in EPC, HandleEPC(c, f) PROVE Attended(e)'
      <3>1. up /\ scanActive /\ e \in cache
        BY <2>1 DEF HandleEPC, Wanted
      <3>2. recentSeen[e] # "fresh"
        BY <1>4, <3>1 DEF Wanted
      <3>3. f = e
        BY <2>1, <3>2, GCFresh, GCType DEF HandleEPC, Wanted
      <3>4. pc'[c] = "lookup" /\ arg'[c] = {e}
        BY <2>1, <3>1, <3>3 DEF HandleEPC, Goto
      <3> QED
        BY <3>4 DEF Attended, Pending
    <2>2. ASSUME NEW active \in BOOLEAN, SetScanActive(c, active) PROVE Attended(e)'
      <3>1. active /\ ~scanActive
        BY <1>4, <2>2 DEF SetScanActive, Wanted
      <3>2. pc'[c] = "collectAll"
        BY <2>2, <3>1 DEF SetScanActive, Goto
      <3> QED
        BY <3>2 DEF Attended, Pending
    <2>3. CASE Fetch(c)
      BY <1>4, <2>3 DEF Fetch, Wanted
    <2>4. ASSUME NEW S \in SUBSET EPC, AddDraftEPCs(c, S) PROVE Attended(e)'
      <3>1. e \in S
        BY <1>4, <2>4 DEF AddDraftEPCs, Wanted
      <3>2. pc'[c] = "collect" /\ arg'[c] = S
        BY <2>4 DEF AddDraftEPCs, Goto
      <3> QED
        BY <3>1, <3>2 DEF Attended, Pending
    <2> QED
      BY <2>1, <2>2, <2>3, <2>4 DEF Call
  <1> QED
    BY <1>3, <1>4

\* A call that goes on lets go of an EPC only where the code abandons it.
LEMMA CallStepAttends ==
  ASSUME TypeInv, NEW c \in Clients, CallStep(c), NEW e \in EPC, Wanted(e)',
         ~Abandoned(e), Wanted(e) => Attended(e)
  PROVE  Attended(e)'
  <1> USE DEF TypeInv, TypeOK
  <1>1. /\ \A d \in Clients \ {c} : pc'[d] = pc[d] /\ arg'[d] = arg[d] /\ todo'[d] = todo[d]
        /\ UNCHANGED <<wpc, wepc, up, scanActive>>
    BY DEF CallStep, Lookup, CollectAll, Replace, Collect, Gate, EnqueueRefuse,
           EnqueueMark, EnqueueSend, EnqueueFull, EnqueueDrop, Continue, Goto
  <1>2. e \in queued => e \in queued'
    BY DEF CallStep, Lookup, CollectAll, Replace, Collect, Gate, EnqueueRefuse,
           EnqueueMark, EnqueueSend, EnqueueFull, EnqueueDrop, Abandoned
  <1>3. recentSeen[e] = "fresh"
    <2>1. recentSeen' \in {recentSeen, GC(recentSeen)}
      BY DEF CallStep, Lookup, CollectAll, Replace, Collect, Gate, EnqueueRefuse,
             EnqueueMark, EnqueueSend, EnqueueFull, EnqueueDrop
    <2>2. recentSeen'[e] = "fresh"
      BY DEF Wanted
    <2> QED
      BY <2>1, <2>2, GCFresh
  <1>4. CASE Replace(c)
    <2>1. pc'[c] = "collect" /\ arg'[c] = cache'
      BY <1>4 DEF Replace, Goto
    <2> QED
      BY <2>1 DEF Attended, Pending, Wanted
  <1>5. ASSUME UNCHANGED cache, Pending(c, e) => Attended(e)' PROVE Attended(e)'
    <2>1. Wanted(e)
      BY <1>1, <1>3, <1>5 DEF Wanted
    <2> QED
      BY <1>1, <1>2, <1>5, <2>1, CallerKeepsAttended
  <1>6. ASSUME NEW rest, e \in rest, Continue(c, rest) PROVE Attended(e)'
    <2>1. pc'[c] = "enqueue" /\ e \in todo'[c]
      BY <1>6 DEF Continue
    <2> QED
      BY <2>1 DEF Attended, Pending
  <1>7. CASE Lookup(c)
    <2>1. Pending(c, e) => e \in arg[c] \cap cache
      BY <1>7 DEF Lookup, Pending, Wanted
    <2> QED
      BY <1>5, <1>6, <1>7, <2>1 DEF Lookup
  <1>8. CASE CollectAll(c)
    <2>1. e \in ReplayCandidates({})
      BY <1>3, <1>8, GCFresh DEF CollectAll, ReplayCandidates, Wanted
    <2> QED
      BY <1>6, <1>8, <2>1 DEF CollectAll
  <1>9. CASE Collect(c)
    <2>1. Pending(c, e) => e \in ReplayCandidates(arg[c])
      BY <1>3, <1>9, GCFresh DEF Collect, ReplayCandidates, Wanted, Pending
    <2>2. pc'[c] = "gate" /\ todo'[c] = ReplayCandidates(arg[c])
      BY <1>9 DEF Collect
    <2>3. Pending(c, e) => Attended(e)'
      BY <2>1, <2>2 DEF Attended, Pending
    <2> QED
      BY <1>5, <1>9, <2>3 DEF Collect
  <1>10. CASE Gate(c)
    <2>1. Pending(c, e) => e \in todo[c]
      BY <1>10 DEF Gate, Pending
    <2>2. scanActive
      BY <1>1 DEF Wanted
    <2> QED
      BY <1>5, <1>6, <1>10, <2>1, <2>2 DEF Gate
  <1>11. ASSUME NEW f \in EPC, EnqueueRefuse(c, f) PROVE Attended(e)'
    <2>1. CASE f = e
      <3>1. e \in queued'
        BY <1>11, <2>1 DEF EnqueueRefuse, Abandoned
      <3> QED
        BY <3>1 DEF Attended
    <2>2. CASE f # e
      <3>1. Pending(c, e) => e \in todo[c] \ {f}
        BY <1>11, <2>2 DEF EnqueueRefuse, Pending
      <3> QED
        BY <1>5, <1>6, <1>11, <3>1 DEF EnqueueRefuse
    <2> QED
      BY <2>1, <2>2
  <1>12. ASSUME NEW f \in EPC, EnqueueMark(c, f) PROVE Attended(e)'
    <2>1. CASE f = e
      BY <1>12, <2>1 DEF EnqueueMark, Attended
    <2>2. CASE f # e
      <3>1. Pending(c, e) => pc'[c] = "send" /\ e \in todo'[c]
        BY <1>12, <2>2 DEF EnqueueMark, Pending
      <3>2. Pending(c, e) => Attended(e)'
        BY <3>1 DEF Attended, Pending
      <3> QED
        BY <1>5, <1>12, <3>2 DEF EnqueueMark
    <2> QED
      BY <2>1, <2>2
  <1>13. CASE EnqueueSend(c) \/ EnqueueDrop(c)
    <2>1. Pending(c, e) => e \in todo[c]
      BY <1>13 DEF EnqueueSend, EnqueueDrop, Pending
    <2> QED
      BY <1>5, <1>6, <1>13, <2>1 DEF EnqueueSend, EnqueueDrop
  <1>14. CASE EnqueueFull(c)
    <2>1. Pending(c, e) => pc'[c] = "drop" /\ e \in todo'[c]
      BY <1>14 DEF EnqueueFull, Pending
    <2>2. Pending(c, e) => Attended(e)'
      BY <2>1 DEF Attended, Pending
    <2> QED
      BY <1>5, <1>14, <2>2 DEF EnqueueFull
  <1> QED
    BY <1>4, <1>7, <1>8, <1>9, <1>10, <1>11, <1>12, <1>13, <1>14 DEF CallStep

\* A worker lets go of an EPC only where the code abandons it, or after it has
\* taken it out of the cache.
LEMMA WorkerAttends ==
  ASSUME TypeInv, NEW w \in Workers, WorkerStep(w), NEW e \in EPC, Wanted(e)',
         ~Abandoned(e), Wanted(e) => Attended(e)
  PROVE  Attended(e)'
  <1> USE DEF TypeInv, TypeOK, WorkerGoto, WorkerDone
  <1>1. /\ UNCHANGED <<up, scanActive, recentSeen, pc, arg, todo>>
        /\ \A v \in Workers \ {w} : wpc'[v] = wpc[v] /\ wepc'[v] = wepc[v]
    BY DEF WorkerStep, WorkerRecv, WorkerUnmark, WorkerCheck, WorkerSkip, LockInflight,
           LockBusy, SubmitAnswered, SubmitAgain, SubmitGiveUp, NoAnswer, WorkerRemove,
           UnlockInflight
  <1>2. e \in cache
    BY DEF WorkerStep, WorkerRecv, WorkerUnmark, WorkerCheck, WorkerSkip, LockInflight,
           LockBusy, SubmitAnswered, SubmitAgain, SubmitGiveUp, NoAnswer, WorkerRemove,
           UnlockInflight, Wanted
  <1>3. Attended(e)
    BY <1>1, <1>2 DEF Wanted
  <1>4. CASE \E c \in Clients : Pending(c, e)
    BY <1>1, <1>4 DEF Pending, Attended
  <1>5. ASSUME NEW v \in Workers \ {w}, WorkedOn(v, e) PROVE Attended(e)'
    BY <1>1, <1>5 DEF WorkedOn, Attended
  <1>6. ASSUME e \in queued PROVE Attended(e)'
    <2>1. CASE WorkerUnmark(w) /\ wepc[w] = e
      <3>1. wpc'[w] = "check" /\ wepc'[w] = e
        BY <2>1 DEF WorkerUnmark
      <3> QED
        BY <3>1 DEF WorkedOn, Attended
    <2>2. CASE ~(WorkerUnmark(w) /\ wepc[w] = e)
      <3>1. e \in queued'
        BY <1>6, <2>2 DEF WorkerStep, WorkerRecv, WorkerUnmark, WorkerCheck, WorkerSkip,
           LockInflight, LockBusy, SubmitAnswered, SubmitAgain, SubmitGiveUp, NoAnswer,
           WorkerRemove, UnlockInflight
      <3> QED
        BY <3>1 DEF Attended
    <2> QED
      BY <2>1, <2>2
  <1>7. ASSUME WorkedOn(w, e) PROVE Attended(e)'
    <2>1. ~WorkerRecv(w) /\ ~WorkerUnmark(w) /\ ~UnlockInflight(w)
      BY <1>7 DEF WorkedOn, WorkerRecv, WorkerUnmark, UnlockInflight
    <2>2. ~WorkerSkip(w) /\ ~WorkerRemove(w)
      BY <1>2, <1>7 DEF WorkedOn, WorkerSkip, WorkerRemove, Wanted
    <2>3. ~LockBusy(w) /\ ~SubmitGiveUp(w)
      BY <1>7 DEF WorkedOn, Abandoned
    <2>4. WorkerCheck(w) \/ LockInflight(w) \/ SubmitAnswered(w) \/ SubmitAgain(w)
      BY <2>1, <2>2, <2>3 DEF WorkerStep
    <2>5. wepc'[w] = e /\ wpc'[w] \in {"check", "lock", "submit", "remove"}
      BY <1>7, <2>4 DEF WorkedOn, WorkerCheck, LockInflight, SubmitAnswered, SubmitAgain, NoAnswer
    <2> QED
      BY <2>5 DEF WorkedOn, Attended
  <1> QED
    BY <1>3, <1>4, <1>5, <1>6, <1>7 DEF Attended

\* The ERP, the clock and the process neither make an EPC wanted nor let go of one.
LEMMA EnvironmentAttends ==
  ASSUME TypeInv, SeenOnlyWhileUp, Environment, NEW e \in EPC, Wanted(e)',
         Wanted(e) => Attended(e)
  PROVE  Attended(e)'
  <1> USE DEF TypeInv, TypeOK
  <1>1. ~Restart
    BY DEF Restart, Wanted
  <1>2. ~Startup
    BY DEF Startup, Wanted, SeenOnlyWhileUp
  <1>3. UNCHANGED <<up, scanActive, cache, queued, pc, arg, todo, wpc, wepc>>
    BY <1>1, <1>2 DEF Environment, CreateDraft, CloseDraft, LateSubmit, Age, RecentSeenEPCs
  <1>4. recentSeen[e] = "fresh"
    <2>1. CASE \E f \in EPC : Age(f)
      BY <2>1 DEF Age, Wanted
    <2>2. CASE RecentSeenEPCs
      BY <2>2, GCFresh DEF RecentSeenEPCs, Wanted
    <2>3. CASE \E f \in EPC : CreateDraft(f) \/ CloseDraft(f) \/ LateSubmit(f)
      BY <2>3 DEF CreateDraft, CloseDraft, LateSubmit, Wanted
    <2> QED
      BY <1>1, <1>2, <2>1, <2>2, <2>3 DEF Environment
  <1>5. Attended(e)
    BY <1>3, <1>4 DEF Wanted
  <1> QED
    BY <1>3, <1>5 DEF Attended, Pending, WorkedOn

\* However readings, webhooks, refreshes, scan switches and workers interleave, a tag
\* that is seen, drafted and scanned for has somebody who is going to handle it, unless
\* the code abandoned it (service.go: HandleEPC, AddDraftEPCs, SetScanActive, enqueue,
\* processSubmit).
THEOREM NeverOverlookedCorrect == Spec => NeverOverlooked
  <1>1. TypeInv /\ SeenOnlyWhileUp /\ [Next]_vars
        => [\A e \in EPC : Unattended(e)' => Unattended(e) \/ Abandoned(e)]_vars
    <2> SUFFICES ASSUME TypeInv, SeenOnlyWhileUp, Next, NEW e \in EPC, Wanted(e)',
                        ~Abandoned(e), Wanted(e) => Attended(e)
                 PROVE  Attended(e)'
      BY DEF Unattended
    <2> QED
      BY CallAttends, CallStepAttends, WorkerAttends, EnvironmentAttends DEF Next
  <1> QED
    BY <1>1, TypeInit, TypeNext, SeenInit, SeenNext, PTL DEF Spec, NeverOverlooked
=============================================================================
