-------------------------- MODULE DiscoveryProofs --------------------------
(***************************************************************************)
(* Proofs about Discovery and HostPlan, for any hosts and ports, any number *)
(* of workers and anything the probes may find: no worker sends on the      *)
(* closed channel, a search without error is complete, readers come before  *)
(* other ports, and the connect plan has every candidate once.              *)
(***************************************************************************)
EXTENDS HostPlan, SequenceTheorems, FiniteSetTheorems, WellFoundedInduction, TLAPS

USE DEF feedVars, workVars

-----------------------------------------------------------------------------
(* Targets and candidates.                                                 *)

\* The host of a target is an entry of the list of hosts ...
LEMMA DivBound ==
  ASSUME NEW H \in Nat, NEW P \in Nat \ {0}, NEW k \in Nat, k < H * P
  PROVE  k \div P \in Nat /\ k \div P < H
<1> DEFINE q == k \div P
<1>1. q \in Nat /\ P * q <= k
  BY Z3
<1>2. ASSUME q >= H PROVE FALSE
  <2>1. P * q >= P * H
    BY <1>1, <1>2, Z3
  <2> QED
    BY <1>1, <2>1, Z3
<1> QED
  BY <1>1, <1>2

\* ... and its port one of the list of ports.
LEMMA ModBound ==
  ASSUME NEW P \in Nat \ {0}, NEW k \in Nat
  PROVE  (k % P) + 1 \in 1..P
  BY Z3

Target == Int \X Int

\* The feeder hands out pairs of a host and a port.
LEMMA TargetsType == Targets \in Seq(Target) /\ Elems(Targets) \subseteq Target
<1> DEFINE H == Len(Hosts)
           P == Len(Ports)
<1>1. H \in Nat /\ P \in Nat /\ H * P \in Nat
  BY TargetsAssumption
<1>2. ASSUME NEW n \in 1..(H * P)
      PROVE  <<Hosts[((n - 1) \div P) + 1], Ports[((n - 1) % P) + 1]>> \in Target
  <2>1. P \in Nat \ {0} /\ n - 1 \in Nat /\ n - 1 < H * P
    BY <1>1, <1>2
  <2>2. ((n - 1) \div P) + 1 \in 1..H
    BY <1>1, <2>1, DivBound
  <2>3. ((n - 1) % P) + 1 \in 1..P
    BY <2>1, ModBound
  <2>4. Hosts[((n - 1) \div P) + 1] \in Int
    BY <2>2, TargetsAssumption
  <2>5. Ports[((n - 1) % P) + 1] \in Int
    BY <2>3, TargetsAssumption
  <2> QED
    BY <2>4, <2>5 DEF Target
<1>3. Targets \in [1..(H * P) -> Target]
  BY <1>2 DEF Targets
<1>4. Targets \in Seq(Target)
  BY <1>1, <1>3
<1> QED
  BY <1>4 DEF Elems

\* A candidate as probeTarget makes it.  A reader that answered has a score above
\* that of any port that did not, whatever its banner says.
Scored ==
  {c \in [target : Target, verified : BOOLEAN, score : Int] :
     IF c.verified THEN c.score >= 170 ELSE c.score <= 163}

LEMMA PortScores == ASSUME NEW p PROVE portScore(p) \in 10..55
  BY DEF portScore

LEMMA CandidateType ==
  ASSUME NEW t \in Target, NEW f \in BOOLEAN \X (0..6)
  PROVE  Candidate(t, f) \in Scored /\ Candidate(t, f).target = t
<1>1. portScore(t[2]) \in 10..55
  BY PortScores
<1>2. f[1] \in BOOLEAN /\ f[2] \in 0..6
  OBVIOUS
<1>3. keywordScore(f[2]) \in 0..108
  BY <1>2 DEF keywordScore
<1>4. CASE f[1]
  BY <1>1, <1>2, <1>4 DEF Candidate, Scored
<1>5. CASE ~f[1]
  BY <1>1, <1>2, <1>3, <1>5 DEF Candidate, Scored
<1> QED
  BY <1>4, <1>5

LEMMA NothingFound == NoJob \in Target /\ NoFind \in Scored
<1>1. NoJob \in Target
  BY DEF NoJob, Target
<1>2. FALSE \in BOOLEAN /\ 0 \in 0..6
  OBVIOUS
<1>3. <<FALSE, 0>> \in BOOLEAN \X (0..6)
  BY <1>2, Zenon
<1> QED
  BY <1>1, <1>3, CandidateType DEF NoFind

-----------------------------------------------------------------------------
(* Types.                                                                  *)

TypeInv ==
  /\ fed \in 0..Len(Targets) /\ jobsClosed \in BOOLEAN
  /\ place \in [Workers -> {"wait", "probe", "send", "gone"}]
  /\ job \in [Workers -> Target] /\ find \in [Workers -> Scored]
  /\ results \in Seq(Scored) /\ candidates \in Seq(Scored)
  /\ Len(results) <= Cardinality(Workers)
  /\ resultsClosed \in BOOLEAN /\ cancelled \in BOOLEAN
  /\ answer \in {"none", "ok", "err"}
  /\ found \subseteq Elems(Targets) /\ probed \subseteq Elems(Targets)
  /\ \A w \in Workers : place[w] = "probe" => job[w] \in Elems(Targets)

LEMMA TypeInit == Init => TypeInv
<1>1. Len(Targets) \in Nat
  BY TargetsType
<1>2. Cardinality(Workers) \in Nat
  BY WorkersAssumption, FS_CardinalityType
<1>3. ASSUME Init PROVE place \in [Workers -> {"wait", "probe", "send", "gone"}]
  BY <1>3 DEF Init
<1>4. ASSUME Init PROVE job \in [Workers -> Target] /\ find \in [Workers -> Scored]
  BY <1>4, NothingFound DEF Init
<1>5. ASSUME Init PROVE \A w \in Workers : place[w] # "probe"
  BY <1>5 DEF Init
<1>6. ASSUME Init
      PROVE  /\ results \in Seq(Scored) /\ candidates \in Seq(Scored)
             /\ Len(results) <= Cardinality(Workers)
  BY <1>2, <1>6 DEF Init
<1>7. ASSUME Init PROVE fed \in 0..Len(Targets)
  BY <1>1, <1>7 DEF Init
<1> QED
  BY <1>3, <1>4, <1>5, <1>6, <1>7, Zenon DEF Init, TypeInv

\* What the end of a worker's loop leaves behind.
LEMMA EndJobType ==
  ASSUME TypeInv, NEW w \in Workers, NEW p \in {"wait", "gone"}, EndJob(w, p)
  PROVE  /\ place' \in [Workers -> {"wait", "probe", "send", "gone"}]
         /\ job' \in [Workers -> Target] /\ find' \in [Workers -> Scored]
         /\ \A v \in Workers : place'[v] = "probe" => job'[v] \in Elems(Targets)
<1>1. /\ place' \in [Workers -> {"wait", "probe", "send", "gone"}]
      /\ job' \in [Workers -> Target] /\ find' \in [Workers -> Scored]
  BY NothingFound DEF TypeInv, EndJob
<1>2. ASSUME NEW v \in Workers, place'[v] = "probe" PROVE job'[v] \in Elems(Targets)
  <2>1. v # w /\ job'[v] = job[v] /\ place[v] = "probe"
    BY <1>2 DEF TypeInv, EndJob
  <2> QED
    BY <2>1 DEF TypeInv
<1> QED
  BY <1>1, <1>2

LEMMA TypeStep == TypeInv /\ [Next]_vars => TypeInv'
<1> SUFFICES ASSUME TypeInv, [Next]_vars PROVE TypeInv'
  OBVIOUS
<1>0. Len(Targets) \in Nat /\ Elems(Targets) \subseteq Target
  BY TargetsType
<1>1. ASSUME NEW w \in Workers, Feed(w) PROVE TypeInv'
  <2>1. Targets[fed + 1] \in Elems(Targets) /\ fed' \in 0..Len(Targets)
    BY <1>0, <1>1 DEF Feed, TypeInv, Elems
  <2>2. job' \in [Workers -> Target]
    BY <1>0, <1>1, <2>1 DEF Feed, TypeInv
  <2>3. place' \in [Workers -> {"wait", "probe", "send", "gone"}]
    BY <1>1 DEF Feed, TypeInv
  <2>4. ASSUME NEW v \in Workers, place'[v] = "probe" PROVE job'[v] \in Elems(Targets)
    <3>1. CASE v = w
      BY <1>1, <2>1, <3>1 DEF Feed, TypeInv
    <3>2. CASE v # w
      BY <1>1, <2>4, <3>2 DEF Feed, TypeInv
    <3> QED
      BY <3>1, <3>2
  <2> QED
    BY <1>1, <2>1, <2>2, <2>3, <2>4 DEF Feed, TypeInv
<1>2. ASSUME NEW w \in Workers, ProbeFails(w) PROVE TypeInv'
  <2>1. probed' \subseteq Elems(Targets)
    BY <1>2 DEF ProbeFails, TypeInv
  <2> QED
    BY <1>2, <2>1, EndJobType DEF ProbeFails, TypeInv
<1>3. ASSUME NEW w \in Workers,
             ProbeCancelled(w) \/ SendCancelled(w) \/ WorkerReturns(w)
      PROVE  TypeInv'
  BY <1>3, EndJobType DEF ProbeCancelled, SendCancelled, WorkerReturns, TypeInv
<1>4. ASSUME NEW w \in Workers, NEW f \in Finds, ProbeFinds(w, f) PROVE TypeInv'
  <2>1. Candidate(job[w], f) \in Scored
    BY FindsAssumption, CandidateType DEF TypeInv
  <2>2. found' \subseteq Elems(Targets) /\ probed' \subseteq Elems(Targets)
    BY <1>4 DEF ProbeFinds, TypeInv
  <2>3. find' \in [Workers -> Scored]
    BY <1>4, <2>1 DEF ProbeFinds, TypeInv
  <2>4. /\ place' \in [Workers -> {"wait", "probe", "send", "gone"}]
        /\ \A v \in Workers : place'[v] = "probe" => job'[v] \in Elems(Targets)
    BY <1>4 DEF ProbeFinds, TypeInv
  <2> QED
    BY <1>4, <2>2, <2>3, <2>4 DEF ProbeFinds, TypeInv
<1>5. ASSUME NEW w \in Workers, Send(w) PROVE TypeInv'
  <2>1. Cardinality(Workers) \in Nat
    BY WorkersAssumption, FS_CardinalityType
  <2>2. results' \in Seq(Scored) /\ Len(results') <= Cardinality(Workers)
    BY <1>5, <2>1 DEF Send, TypeInv
  <2> QED
    BY <1>5, <2>2, EndJobType DEF Send, TypeInv
<1>6. CASE Collect
  <2>1. Cardinality(Workers) \in Nat
    BY WorkersAssumption, FS_CardinalityType
  <2>2. /\ results' \in Seq(Scored) /\ Len(results') <= Cardinality(Workers)
        /\ Head(results) \in Scored
    BY <1>6, <2>1 DEF Collect, TypeInv
  <2>3. candidates' \in Seq(Scored)
    BY <1>6, <2>2 DEF Collect, CollectNew, TypeInv
  <2> QED
    BY <1>6, <2>2, <2>3 DEF Collect, TypeInv
<1>7. CASE Return
  <2>1. candidates' \in Seq(Scored)
    <3>1. PICK cs \in [1..Len(candidates) -> Elems(candidates)] : candidates' = cs
      BY <1>7 DEF Return
    <3>2. Elems(candidates) \subseteq Scored /\ Len(candidates) \in Nat
      BY DEF TypeInv, Elems
    <3> QED
      BY <3>1, <3>2
  <2>2. answer' \in {"none", "ok", "err"}
    BY <1>7 DEF Return, ScanResult
  <2> QED
    BY <1>7, <2>1, <2>2 DEF Return, TypeInv
<1>8. CASE CloseJobs \/ CloseResults \/ Cancel
  BY <1>8 DEF CloseJobs, CloseResults, Cancel, TypeInv
<1>9. CASE Done \/ UNCHANGED vars
  BY <1>9 DEF Done, vars, TypeInv
<1> QED
  BY <1>1, <1>2, <1>3, <1>4, <1>5, <1>6, <1>7, <1>8, <1>9 DEF Next, Step, WorkerStep

-----------------------------------------------------------------------------
(* The order of the ends: jobs, workers, results, Scan.                    *)

ClosedInv ==
  /\ jobsClosed => cancelled \/ fed = Len(Targets)
  /\ \A w \in Workers : place[w] = "gone" => jobsClosed \/ cancelled
  /\ resultsClosed => \A w \in Workers : place[w] = "gone"
  /\ answer # "none" => resultsClosed /\ results = <<>>

LEMMA ClosedStep == TypeInv /\ ClosedInv /\ [Next]_vars => ClosedInv'
<1> SUFFICES ASSUME TypeInv, ClosedInv, [Next]_vars PROVE ClosedInv'
  OBVIOUS
<1>1. ASSUME NEW w \in Workers, Feed(w) PROVE ClosedInv'
  BY <1>1 DEF Feed, TypeInv, ClosedInv
<1>2. ASSUME NEW w \in Workers, ProbeFails(w) \/ ProbeCancelled(w) PROVE ClosedInv'
  BY <1>2 DEF ProbeFails, ProbeCancelled, EndJob, TypeInv, ClosedInv
<1>3. ASSUME NEW w \in Workers, NEW f \in Finds, ProbeFinds(w, f) PROVE ClosedInv'
  BY <1>3 DEF ProbeFinds, TypeInv, ClosedInv
<1>4. ASSUME NEW w \in Workers, Send(w) PROVE ClosedInv'
  BY <1>4 DEF Send, EndJob, TypeInv, ClosedInv
<1>5. ASSUME NEW w \in Workers, SendCancelled(w) \/ WorkerReturns(w) PROVE ClosedInv'
  BY <1>5 DEF SendCancelled, WorkerReturns, EndJob, TypeInv, ClosedInv
<1>6. CASE CloseJobs \/ Cancel
  BY <1>6 DEF CloseJobs, FeederReturns, Cancel, TypeInv, ClosedInv
<1>7. CASE CloseResults
  BY <1>7 DEF CloseResults, AllGone, TypeInv, ClosedInv
<1>8. CASE Collect \/ Return
  BY <1>8 DEF Collect, Return, TypeInv, ClosedInv
<1>9. CASE Done \/ UNCHANGED vars
  BY <1>9 DEF Done, vars, ClosedInv
<1> QED
  BY <1>1, <1>2, <1>3, <1>4, <1>5, <1>6, <1>7, <1>8, <1>9 DEF Next, Step, WorkerStep

\* A worker that is gone stays gone.
LEMMA GoneForGood ==
  ASSUME TypeInv, ClosedInv, [Next]_vars, resultsClosed
  PROVE  UNCHANGED <<place, found, probed>>
<1>1. \A w \in Workers : place[w] = "gone"
  BY DEF ClosedInv
<1>2. ~ \E w \in Workers : WorkerStep(w)
  BY <1>1 DEF WorkerStep, Feed, ProbeFails, ProbeCancelled, ProbeFinds, Send,
              SendCancelled, WorkerReturns
<1> QED
  BY <1>2 DEF Next, Step, CloseJobs, CloseResults, Collect, Return, Cancel, Done, vars

-----------------------------------------------------------------------------
(* No target is forgotten.                                                 *)

\* Without the context's end, a target that was handed out has been probed or is
\* in the hands of a worker.
AllProbed ==
  cancelled \/ \A n \in 1..fed : \/ Targets[n] \in probed
                                 \/ \E w \in Workers : place[w] = "probe" /\ job[w] = Targets[n]

LEMMA ProbedStep == TypeInv /\ AllProbed /\ [Next]_vars => AllProbed'
<1> SUFFICES ASSUME TypeInv, AllProbed, [Next]_vars, ~cancelled'
             PROVE  AllProbed'
  BY DEF AllProbed
<1> DEFINE Known(n) == \/ Targets[n] \in probed
                       \/ \E w \in Workers : place[w] = "probe" /\ job[w] = Targets[n]
<1>0. ~cancelled
  BY DEF Next, Step, WorkerStep, Feed, ProbeFails, ProbeCancelled, ProbeFinds, Send,
         SendCancelled, WorkerReturns, CloseJobs, CloseResults, Collect, Return, Cancel,
         Done, vars
<1>k. \A n \in 1..fed : Known(n)
  BY <1>0 DEF AllProbed
<1>1. ASSUME NEW w \in Workers, Feed(w) PROVE AllProbed'
  <2>1. place'[w] = "probe" /\ job'[w] = Targets[fed + 1] /\ fed' = fed + 1
    BY <1>1 DEF Feed, TypeInv
  <2>2. \A v \in Workers : place[v] = "probe" => place'[v] = "probe" /\ job'[v] = job[v]
    BY <1>1 DEF Feed, TypeInv
  <2>3. ASSUME NEW n \in 1..fed PROVE Known(n)'
    <3>1. Known(n)
      BY <1>k
    <3>2. probed' = probed
      BY <1>1 DEF Feed
    <3> QED
      BY <2>2, <3>1, <3>2
  <2>4. ASSUME NEW n \in 1..(fed + 1) PROVE Known(n)'
    <3>1. CASE n = fed + 1
      BY <2>1, <3>1
    <3>2. CASE n # fed + 1
      <4>1. n \in 1..fed
        BY <3>2, TargetsType DEF TypeInv
      <4> QED
        BY <2>3, <4>1
    <3> QED
      BY <3>1, <3>2
  <2> QED
    BY <2>1, <2>4 DEF AllProbed
<1>2. ASSUME NEW w \in Workers, ProbeFails(w) \/ \E f \in Finds : ProbeFinds(w, f)
      PROVE  AllProbed'
  <2>1. probed' = probed \cup {job[w]} /\ fed' = fed
    BY <1>2, Zenon DEF ProbeFails, ProbeFinds
  <2>2. \A v \in Workers \ {w} : place'[v] = place[v] /\ job'[v] = job[v]
    <3>1. CASE ProbeFails(w)
      BY <3>1 DEF ProbeFails, EndJob, TypeInv
    <3>2. ASSUME NEW f \in Finds, ProbeFinds(w, f)
          PROVE  \A v \in Workers \ {w} : place'[v] = place[v] /\ job'[v] = job[v]
      BY <3>2 DEF ProbeFinds, TypeInv
    <3> QED
      BY <1>2, <3>1, <3>2
  <2>3. ASSUME NEW n \in 1..fed PROVE Known(n)'
    <3>1. CASE Targets[n] \in probed
      BY <2>1, <3>1
    <3>2. ASSUME NEW v \in Workers, place[v] = "probe", job[v] = Targets[n] PROVE Known(n)'
      BY <2>1, <2>2, <3>2
    <3> QED
      BY <1>k, <3>1, <3>2
  <2> QED
    BY <2>1, <2>3 DEF AllProbed
<1>3. ASSUME NEW w \in Workers, Send(w) \/ WorkerReturns(w) PROVE AllProbed'
  <2>1. probed' = probed /\ fed' = fed
    BY <1>3 DEF Send, WorkerReturns
  <2>2. \A v \in Workers : place[v] = "probe" => place'[v] = "probe" /\ job'[v] = job[v]
    BY <1>3 DEF Send, WorkerReturns, EndJob, TypeInv
  <2> QED
    BY <1>k, <2>1, <2>2 DEF AllProbed
<1>4. ASSUME NEW w \in Workers, ProbeCancelled(w) \/ SendCancelled(w) PROVE AllProbed'
  BY <1>0, <1>4 DEF ProbeCancelled, SendCancelled
<1>5. CASE CloseJobs \/ CloseResults \/ Collect \/ Return \/ Cancel \/ Done \/ UNCHANGED vars
  <2>1. UNCHANGED <<fed, place, job, probed>>
    BY <1>5 DEF CloseJobs, CloseResults, Collect, Return, Cancel, Done, vars
  <2> QED
    BY <1>k, <2>1 DEF AllProbed
<1> QED
  BY <1>1, <1>2, <1>3, <1>4, <1>5 DEF Next, Step, WorkerStep

-----------------------------------------------------------------------------
(* No find is lost or made up, and none is listed twice.                   *)

TargetsOf(s) == {s[i].target : i \in 1..Len(s)}

Unique(s) == \A i, j \in 1..Len(s) : s[i].target = s[j].target => i = j

InOrder(s) == \A i, j \in 1..Len(s) : i < j => Before(s[i], s[j])

LEMMA AppendTargets ==
  ASSUME NEW s \in Seq(Scored), NEW c \in Scored
  PROVE  TargetsOf(Append(s, c)) = TargetsOf(s) \cup {c.target}
<1> DEFINE t == Append(s, c)
<1>1. Len(t) = Len(s) + 1 /\ t[Len(s) + 1] = c /\ \A i \in 1..Len(s) : t[i] = s[i]
  OBVIOUS
<1>2. 1..Len(t) = 1..Len(s) \cup {Len(s) + 1}
  BY <1>1
<1> QED
  BY <1>1, <1>2 DEF TargetsOf

LEMMA TailTargets ==
  ASSUME NEW s \in Seq(Scored), s # <<>>
  PROVE  TargetsOf(s) = TargetsOf(Tail(s)) \cup {Head(s).target}
<1> DEFINE t == Tail(s)
<1>1. Len(s) \in Nat \ {0} /\ Len(t) = Len(s) - 1 /\ Head(s) = s[1]
  OBVIOUS
<1>2. \A i \in 1..Len(t) : t[i] = s[i + 1] /\ i + 1 \in 1..Len(s)
  OBVIOUS
<1>3. \A i \in 1..Len(s) : i = 1 \/ (i - 1 \in 1..Len(t) /\ s[i] = t[i - 1])
  BY <1>1, <1>2
<1>4. TargetsOf(t) \cup {Head(s).target} \subseteq TargetsOf(s)
  BY <1>1, <1>2 DEF TargetsOf
<1>5. TargetsOf(s) \subseteq TargetsOf(t) \cup {Head(s).target}
  BY <1>1, <1>3 DEF TargetsOf
<1> QED
  BY <1>4, <1>5

\* Collecting adds the target of the candidate, and never a second time.
LEMMA CollectTargets ==
  ASSUME NEW s \in Seq(Scored), NEW c \in Scored, Unique(s)
  PROVE  /\ TargetsOf(CollectNew(s, c)) = TargetsOf(s) \cup {c.target}
         /\ Unique(CollectNew(s, c))
<1>1. CASE c.target \in TargetsOf(s)
  <2>1. CollectNew(s, c) = s
    BY <1>1 DEF CollectNew, TargetsOf, Elems
  <2> QED
    BY <1>1, <2>1
<1>2. CASE c.target \notin TargetsOf(s)
  <2>1. CollectNew(s, c) = Append(s, c)
    BY <1>2 DEF CollectNew, TargetsOf, Elems
  <2> DEFINE t == Append(s, c)
  <2>2. t \in Seq(Scored) /\ Len(t) = Len(s) + 1 /\ t[Len(s) + 1] = c
        /\ \A i \in 1..Len(s) : t[i] = s[i]
    OBVIOUS
  <2>3. ASSUME NEW i \in 1..Len(t), NEW j \in 1..Len(t), t[i].target = t[j].target
        PROVE  i = j
    <3>1. CASE i \in 1..Len(s) /\ j \in 1..Len(s)
      BY <2>2, <2>3, <3>1 DEF Unique
    <3>2. CASE i \in 1..Len(s) /\ j = Len(s) + 1
      BY <1>2, <2>2, <2>3, <3>2 DEF TargetsOf
    <3>3. CASE j \in 1..Len(s) /\ i = Len(s) + 1
      BY <1>2, <2>2, <2>3, <3>3 DEF TargetsOf
    <3> QED
      BY <2>2, <3>1, <3>2, <3>3
  <2>4. Unique(t)
    BY <2>3 DEF Unique
  <2> QED
    BY <2>1, <2>4, AppendTargets
<1> QED
  BY <1>1, <1>2

LEMMA BeforeIrreflexive == ASSUME NEW c \in Scored PROVE ~Before(c, c)
<1>1. c.score \in Int /\ c.target[1] \in Int /\ c.target[2] \in Int
  BY DEF Scored, Target
<1> QED
  BY <1>1 DEF Before

\* Sorting keeps the targets, and keeps each of them single.
LEMMA SortTargets ==
  ASSUME NEW s \in Seq(Scored), NEW t \in [1..Len(s) -> Elems(s)], Sorted(s, t), Unique(s)
  PROVE  t \in Seq(Scored) /\ TargetsOf(t) = TargetsOf(s) /\ Unique(t) /\ InOrder(t)
<1>1. Elems(s) \subseteq Scored /\ Len(s) \in Nat
  BY DEF Elems
<1>2. t \in Seq(Scored) /\ Len(t) = Len(s)
  BY <1>1
<1>3. InOrder(t) /\ Elems(t) = Elems(s)
  BY DEF Sorted, InOrder
<1>4. \A u : TargetsOf(u) = {c.target : c \in Elems(u)}
  BY DEF TargetsOf, Elems
<1>5. TargetsOf(t) = TargetsOf(s)
  BY <1>3, <1>4
<1>6. ASSUME NEW i \in 1..Len(t), NEW j \in 1..Len(t), t[i].target = t[j].target, i < j
      PROVE  FALSE
  <2>1. t[i] \in Elems(s) /\ t[j] \in Elems(s)
    BY <1>2
  <2>2. t[i] = t[j]
    BY <1>6, <2>1 DEF Elems, Unique
  <2>3. Before(t[i], t[j])
    BY <1>3, <1>6 DEF InOrder
  <2> QED
    BY <1>1, <2>1, <2>2, <2>3, BeforeIrreflexive
<1>7. ASSUME NEW i \in 1..Len(t), NEW j \in 1..Len(t), t[i].target = t[j].target
      PROVE  i = j
  <2>1. ~(i < j) /\ ~(j < i)
    BY <1>6, <1>7
  <2> QED
    BY <1>2, <2>1
<1> QED
  BY <1>2, <1>3, <1>5, <1>7 DEF Unique

Sending == {find[w].target : w \in {v \in Workers : place[v] = "send"}}

\* What was found is with a worker, in the channel or in the list, unless the
\* context has ended; and nothing else is.
FoundInv ==
  /\ Sending \cup TargetsOf(results) \cup TargetsOf(candidates) \subseteq found
  /\ cancelled \/ found \subseteq Sending \cup TargetsOf(results) \cup TargetsOf(candidates)
  /\ Unique(candidates)

LEMMA FoundStep == TypeInv /\ FoundInv /\ [Next]_vars => FoundInv'
<1> SUFFICES ASSUME TypeInv, FoundInv, [Next]_vars PROVE FoundInv'
  OBVIOUS
<1>1. ASSUME NEW w \in Workers, NEW f \in Finds, ProbeFinds(w, f) PROVE FoundInv'
  <2>1. Candidate(job[w], f).target = job[w]
    BY FindsAssumption, CandidateType DEF TypeInv
  <2>2. Sending' = Sending \cup {job[w]}
    <3>1. place'[w] = "send" /\ find'[w].target = job[w] /\ place[w] = "probe"
      BY <1>1, <2>1 DEF ProbeFinds, TypeInv
    <3>2. \A v \in Workers \ {w} : place'[v] = place[v] /\ find'[v] = find[v]
      BY <1>1 DEF ProbeFinds, TypeInv
    <3> QED
      BY <3>1, <3>2 DEF Sending
  <2>3. found' = found \cup {job[w]} /\ UNCHANGED <<results, candidates, cancelled>>
    BY <1>1 DEF ProbeFinds
  <2> QED
    BY <2>2, <2>3, Zenon DEF FoundInv
<1>2. ASSUME NEW w \in Workers, Send(w) PROVE FoundInv'
  <2>1. Sending = Sending' \cup {find[w].target}
    <3>1. place'[w] = "wait" /\ place[w] = "send"
      BY <1>2 DEF Send, EndJob, TypeInv
    <3>2. \A v \in Workers \ {w} : place'[v] = place[v] /\ find'[v] = find[v]
      BY <1>2 DEF Send, EndJob, TypeInv
    <3> QED
      BY <3>1, <3>2 DEF Sending
  <2>2. TargetsOf(results)' = TargetsOf(results) \cup {find[w].target}
    BY <1>2, AppendTargets DEF Send, TypeInv
  <2>3. UNCHANGED <<found, candidates, cancelled>>
    BY <1>2 DEF Send
  <2> QED
    BY <2>1, <2>2, <2>3 DEF FoundInv
<1>3. ASSUME NEW w \in Workers, SendCancelled(w) PROVE FoundInv'
  <2>1. Sending' \subseteq Sending
    <3>1. place'[w] = "gone"
      BY <1>3 DEF SendCancelled, EndJob, TypeInv
    <3>2. \A v \in Workers \ {w} : place'[v] = place[v] /\ find'[v] = find[v]
      BY <1>3 DEF SendCancelled, EndJob, TypeInv
    <3> QED
      BY <3>1, <3>2 DEF Sending
  <2>2. UNCHANGED <<found, results, candidates, cancelled>> /\ cancelled
    BY <1>3 DEF SendCancelled
  <2> QED
    BY <2>1, <2>2 DEF FoundInv
<1>4. ASSUME NEW w \in Workers,
             Feed(w) \/ ProbeFails(w) \/ ProbeCancelled(w) \/ WorkerReturns(w)
      PROVE  FoundInv'
  <2>1. Sending' = Sending
    <3>1. place[w] # "send" /\ place'[w] # "send"
      BY <1>4 DEF Feed, ProbeFails, ProbeCancelled, WorkerReturns, EndJob, TypeInv
    <3>2. \A v \in Workers \ {w} : place'[v] = place[v] /\ find'[v] = find[v]
      BY <1>4 DEF Feed, ProbeFails, ProbeCancelled, WorkerReturns, EndJob, TypeInv
    <3> QED
      BY <3>1, <3>2 DEF Sending
  <2>2. UNCHANGED <<found, results, candidates, cancelled>>
    BY <1>4 DEF Feed, ProbeFails, ProbeCancelled, WorkerReturns
  <2> QED
    BY <2>1, <2>2 DEF FoundInv
<1>5. CASE Collect
  <2>1. Head(results) \in Scored
    BY <1>5 DEF Collect, TypeInv
  <2>2. TargetsOf(candidates)' = TargetsOf(candidates) \cup {Head(results).target}
        /\ Unique(candidates)'
    BY <1>5, <2>1, CollectTargets DEF Collect, TypeInv, FoundInv
  <2>3. TargetsOf(results) = TargetsOf(results)' \cup {Head(results).target}
    BY <1>5, TailTargets DEF Collect, TypeInv
  <2>4. Sending' = Sending /\ UNCHANGED <<found, cancelled>>
    BY <1>5 DEF Collect, Sending
  <2> QED
    BY <2>2, <2>3, <2>4 DEF FoundInv
<1>6. CASE Return
  <2>1. PICK t \in [1..Len(candidates) -> Elems(candidates)] :
          Sorted(candidates, t) /\ candidates' = t
    BY <1>6 DEF Return
  <2>2. TargetsOf(candidates)' = TargetsOf(candidates) /\ Unique(candidates)'
    BY <2>1, SortTargets DEF TypeInv, FoundInv
  <2>3. Sending' = Sending /\ UNCHANGED <<found, results, cancelled>>
    BY <1>6 DEF Return, Sending
  <2> QED
    BY <2>2, <2>3 DEF FoundInv
<1>7. CASE CloseJobs \/ CloseResults \/ Cancel \/ Done \/ UNCHANGED vars
  <2>1. UNCHANGED <<place, find, found, results, candidates>>
    BY <1>7 DEF CloseJobs, CloseResults, Cancel, Done, vars
  <2>2. cancelled' = cancelled \/ cancelled'
    BY <1>7 DEF CloseJobs, CloseResults, Cancel, Done, vars
  <2>3. Sending' = Sending
    BY <2>1 DEF Sending
  <2> QED
    BY <2>1, <2>2, <2>3 DEF FoundInv
<1> QED
  BY <1>1, <1>2, <1>3, <1>4, <1>5, <1>6, <1>7 DEF Next, Step, WorkerStep

-----------------------------------------------------------------------------
(* The answer.                                                             *)

AnswerInv ==
  /\ answer # "none" => InOrder(candidates)
  /\ answer = "ok" => TargetsOf(candidates) = found /\ probed = Elems(Targets)

LEMMA AnswerStep ==
  TypeInv /\ ClosedInv /\ AllProbed /\ FoundInv /\ AnswerInv /\ [Next]_vars => AnswerInv'
<1> SUFFICES ASSUME TypeInv, ClosedInv, AllProbed, FoundInv, AnswerInv, [Next]_vars
             PROVE  AnswerInv'
  OBVIOUS
<1>1. CASE answer # "none"
  <2>1. resultsClosed /\ results = <<>>
    BY <1>1 DEF ClosedInv
  <2>2. UNCHANGED <<place, found, probed>>
    BY <2>1, GoneForGood
  <2>3. \A w \in Workers : place[w] = "gone"
    BY <2>1 DEF ClosedInv
  <2>4. UNCHANGED <<answer, candidates>>
    BY <1>1, <2>1, <2>3 DEF Next, Step, WorkerStep, Feed, ProbeFails, ProbeCancelled,
         ProbeFinds, Send, SendCancelled, WorkerReturns, CloseJobs, CloseResults, Collect,
         Return, Cancel, Done, vars
  <2> QED
    BY <2>2, <2>4 DEF AnswerInv
<1>2. CASE Return
  <2>1. PICK t \in [1..Len(candidates) -> Elems(candidates)] :
          Sorted(candidates, t) /\ candidates' = t
    BY <1>2 DEF Return
  <2>2. TargetsOf(candidates)' = TargetsOf(candidates) /\ InOrder(candidates)'
    BY <2>1, SortTargets DEF TypeInv, FoundInv
  <2>3. ASSUME ~cancelled PROVE TargetsOf(candidates) = found
    <3>1. \A w \in Workers : place[w] = "gone"
      BY <1>2 DEF Return, ClosedInv
    <3>2. Sending = {}
      BY <3>1 DEF Sending
    <3>3. TargetsOf(results) = {}
      BY <1>2 DEF Return, TargetsOf
    <3> QED
      BY <2>3, <3>2, <3>3 DEF FoundInv
  <2>4. ASSUME ~cancelled PROVE probed = Elems(Targets)
    <3>1. \A w \in Workers : place[w] = "gone"
      BY <1>2 DEF Return, ClosedInv
    <3>2. jobsClosed /\ fed = Len(Targets)
      BY <2>4, <3>1, WorkersAssumption DEF ClosedInv
    <3>3. \A n \in 1..Len(Targets) : Targets[n] \in probed
      BY <2>4, <3>1, <3>2 DEF AllProbed
    <3> QED
      BY <3>3 DEF TypeInv, Elems
  <2>5. answer' = (IF cancelled THEN "err" ELSE "ok") /\ UNCHANGED <<found, probed>>
    BY <1>2 DEF Return, ScanResult
  <2>6. (answer = "ok")' => ~cancelled
    BY <2>5 DEF TypeInv
  <2> QED
    BY <2>2, <2>3, <2>4, <2>5, <2>6 DEF AnswerInv
<1>3. CASE answer = "none" /\ ~Return
  <2>1. answer' = "none"
    BY <1>3 DEF Next, Step, WorkerStep, Feed, ProbeFails, ProbeCancelled,
         ProbeFinds, Send, SendCancelled, WorkerReturns, CloseJobs, CloseResults, Collect,
         Cancel, Done, vars
  <2> QED
    BY <2>1 DEF AnswerInv
<1> QED
  BY <1>1, <1>2, <1>3

\* The inductive invariant.
SearchInv == TypeInv /\ ClosedInv /\ AllProbed /\ FoundInv /\ AnswerInv

LEMMA SearchInit == Init => SearchInv
<1> SUFFICES ASSUME Init PROVE SearchInv
  OBVIOUS
<1>1. ClosedInv /\ AnswerInv
  BY DEF Init, ClosedInv, AnswerInv
<1>2. AllProbed
  BY DEF Init, AllProbed
<1>3. Sending = {} /\ TargetsOf(results) = {} /\ TargetsOf(candidates) = {} /\ found = {}
  BY DEF Init, Sending, TargetsOf
<1>4. Unique(candidates)
  BY DEF Init, Unique
<1> QED
  BY <1>1, <1>2, <1>3, <1>4, TypeInit DEF SearchInv, FoundInv

THEOREM SearchCorrect == Spec => []SearchInv
<1>1. SearchInv /\ [Next]_vars => SearchInv'
  BY TypeStep, ClosedStep, ProbedStep, FoundStep, AnswerStep DEF SearchInv
<1> QED
  BY <1>1, SearchInit, PTL DEF Spec

\* The variables keep their types.
THEOREM TypeCorrect == Spec => []TypeOK
<1>1. SearchInv => TypeOK
  BY DEF SearchInv, TypeInv, TypeOK
<1> QED
  BY <1>1, SearchCorrect, PTL

\* No worker sends on the closed channel of results, however the end of the context,
\* the feeder and the workers interleave.
THEOREM SendsBeforeClose == Spec => []NoSendAfterClose
<1>1. SearchInv => NoSendAfterClose
  BY DEF SearchInv, ClosedInv, NoSendAfterClose
<1> QED
  BY <1>1, SearchCorrect, PTL

LEMMA UniqueCount ==
  ASSUME NEW s \in Seq(Scored), Unique(s)
  PROVE  Cardinality(TargetsOf(s)) = Len(s)
<1> DEFINE f == [i \in 1..Len(s) |-> s[i].target]
<1>1. Len(s) \in Nat
  OBVIOUS
<1>2. f \in Bijection(1..Len(s), TargetsOf(s))
  BY DEF Unique, TargetsOf, Bijection, Injection, Surjection, IsInjective
<1>3. ExistsBijection(1..Len(s), TargetsOf(s))
  BY <1>2 DEF ExistsBijection
<1> QED
  BY <1>1, <1>3, FS_CountingElements

\* A search that returns no error has probed every target and lists exactly the targets
\* at which something was found, each once.
THEOREM OkMeansComplete == Spec => []NoErrorMeansComplete
<1>1. SearchInv => NoErrorMeansComplete
  <2> SUFFICES ASSUME SearchInv, answer = "ok" PROVE NoErrorMeansComplete
    BY DEF NoErrorMeansComplete
  <2>1. TargetsOf(candidates) = found /\ probed = Elems(Targets)
    BY DEF SearchInv, AnswerInv
  <2>2. Cardinality(TargetsOf(candidates)) = Len(candidates)
    BY UniqueCount DEF SearchInv, TypeInv, FoundInv
  <2> QED
    BY <2>1, <2>2 DEF NoErrorMeansComplete, TargetsOf
<1> QED
  BY <1>1, SearchCorrect, PTL

\* A reader that answered is listed before every port that did not, so the choice of an
\* endpoint is the first candidate, whatever the ports and the banners are.
THEOREM ReadersComeFirst == Spec => []ReadersFirst
<1>1. SearchInv => ReadersFirst
  <2> SUFFICES ASSUME SearchInv, answer # "none", candidates # <<>>
               PROVE  PreferredCandidateIndex(candidates) = 1
    BY DEF ReadersFirst
  <2> DEFINE verified == {i \in 1..Len(candidates) : candidates[i].verified}
  <2>1. candidates \in Seq(Scored) /\ Len(candidates) \in Nat \ {0} /\ InOrder(candidates)
    BY DEF SearchInv, TypeInv, AnswerInv
  <2>2. ASSUME NEW i \in verified PROVE 1 \in verified
    <3>1. candidates[1] \in Scored /\ candidates[i] \in Scored
      BY <2>1
    <3>2. CASE i = 1
      BY <3>2
    <3>3. CASE i # 1
      <4>1. Before(candidates[1], candidates[i])
        BY <2>1, <3>3 DEF InOrder
      <4>2. candidates[1].score >= candidates[i].score
        BY <3>1, <4>1 DEF Before, Scored
      <4>3. candidates[i].score >= 170
        BY <3>1 DEF Scored
      <4> QED
        BY <2>1, <3>1, <4>2, <4>3 DEF Scored
    <3> QED
      BY <3>2, <3>3
  <2>3. CASE verified = {}
    BY <2>3 DEF PreferredCandidateIndex
  <2>4. CASE verified # {}
    <3>1. 1 \in verified /\ verified \subseteq Nat \ {0}
      BY <2>1, <2>2, <2>4
    <3>2. \A i \in verified : (\A j \in verified : i <= j) <=> i = 1
      BY <3>1
    <3>3. (CHOOSE i \in verified : \A j \in verified : i <= j) = 1
      BY <3>1, <3>2
    <3> QED
      BY <2>4, <3>3 DEF PreferredCandidateIndex
  <2> QED
    BY <2>3, <2>4
<1> QED
  BY <1>1, SearchCorrect, PTL

-----------------------------------------------------------------------------
(* The lists that Scan and BuildConnectPlan build, each in a loop over a    *)
(* list that appends what is new.  Both loops are recursive functions: that *)
(* they exist, and what they compute, is shown by induction.                *)

\* Induction on the naturals, for a set instead of a predicate.
LEMMA Induction ==
  ASSUME NEW S, 0 \in S, \A n \in Nat : n \in S => n + 1 \in S
  PROVE  Nat \subseteq S
<1> DEFINE R == {ss \in Nat \X Nat : ss[1] < ss[2]}
           T == Nat \ S
<1>1. IsWellFoundedOn(R, Nat)
  BY NatLessThanWellFounded DEF OpToRel
<1>2. ASSUME T # {} PROVE FALSE
  <2>1. PICK x \in T : \A y \in T : ~(<<y, x>> \in R)
    <3> HIDE DEF R
    <3>1. T \subseteq Nat
      OBVIOUS
    <3> HIDE DEF T
    <3> QED
      BY <1>1, <1>2, <3>1, WFMin
  <2>2. x \in Nat /\ x # 0 /\ x \notin S
    OBVIOUS
  <2>3. x - 1 \in Nat /\ (x - 1) + 1 = x /\ x - 1 < x
    BY <2>2
  <2>4. x - 1 \notin S
    BY <2>2, <2>3
  <2>5. x - 1 \in T /\ <<x - 1, x>> \in R
    BY <2>2, <2>3, <2>4
  <2> QED
    BY <2>1, <2>5
<1> QED
  BY <1>2

\* g is the list after each of the first n rounds of NewOf.
Adds(Wanted, out, s, n, g) ==
  g = [i \in 0..n |-> IF i = 0 THEN out ELSE AppendNew(Wanted, g[i - 1], s[i])]

\* The function NewOf defines by recursion exists.
LEMMA NewOfUnfolds ==
  ASSUME NEW Wanted, NEW out, NEW s, Len(s) \in Nat
  PROVE  \E g : Adds(Wanted, out, s, Len(s), g) /\ NewOf(Wanted, out, s) = g[Len(s)]
<1> DEFINE S == {n \in Nat : \E g : Adds(Wanted, out, s, n, g)}
<1>1. 0 \in S
  <2> DEFINE g == [i \in 0..0 |-> out]
  <2>1. Adds(Wanted, out, s, 0, g)
    BY DEF Adds
  <2> HIDE DEF g
  <2> QED
    BY <2>1
<1>2. ASSUME NEW n \in Nat, n \in S PROVE n + 1 \in S
  <2>1. PICK g : Adds(Wanted, out, s, n, g)
    BY <1>2
  <2> DEFINE h == [i \in 0..(n + 1) |-> IF i <= n THEN g[i] ELSE AppendNew(Wanted, g[n], s[n + 1])]
  <2>2. \A i \in 0..n : g[i] = IF i = 0 THEN out ELSE AppendNew(Wanted, g[i - 1], s[i])
    BY <2>1 DEF Adds
  <2>3. ASSUME NEW i \in 0..(n + 1)
        PROVE  h[i] = IF i = 0 THEN out ELSE AppendNew(Wanted, h[i - 1], s[i])
    <3>1. CASE i = 0
      BY <2>2, <3>1
    <3>2. CASE i \in 1..n
      <4>1. h[i] = g[i] /\ h[i - 1] = g[i - 1]
        BY <3>2
      <4> QED
        BY <2>2, <3>2, <4>1
    <3>3. CASE i = n + 1
      <4>1. h[i] = AppendNew(Wanted, g[n], s[n + 1]) /\ h[i - 1] = g[n]
        BY <3>3
      <4> QED
        BY <3>3, <4>1
    <3> QED
      BY <3>1, <3>2, <3>3
  <2>4. h = [i \in 0..(n + 1) |-> h[i]]
    OBVIOUS
  <2> HIDE DEF h
  <2>5. Adds(Wanted, out, s, n + 1, h)
    BY <2>3, <2>4 DEF Adds
  <2> QED
    BY <2>5
<1>3. Len(s) \in S
  <2> HIDE DEF S
  <2> QED
    BY <1>1, <1>2, Induction
<1> DEFINE f == CHOOSE g : Adds(Wanted, out, s, Len(s), g)
<1>4. Adds(Wanted, out, s, Len(s), f)
  BY <1>3
<1>5. NewOf(Wanted, out, s) = f[Len(s)]
  BY DEF NewOf, Adds
<1> QED
  BY <1>4, <1>5

\* Nothing is in s twice.
Distinct(s) == \A i, j \in 1..Len(s) : s[i] = s[j] => i = j

\* r is out with those members of the set xs appended that are wanted and new.
Extension(S, Wanted, out, xs, r) ==
  /\ r \in Seq(S)
  /\ Elems(r) = Elems(out) \cup (xs \cap Wanted)
  /\ Distinct(out) => Distinct(r)
  /\ Len(r) >= Len(out) /\ \A i \in 1..Len(out) : r[i] = out[i]

\* What one round of the loop makes of the list.
LEMMA AppendNewProperties ==
  ASSUME NEW S, NEW Wanted, NEW out \in Seq(S), NEW x \in S
  PROVE  /\ Extension(S, Wanted, out, {x}, AppendNew(Wanted, out, x))
         /\ out = <<>> /\ x \in Wanted
              => Len(AppendNew(Wanted, out, x)) >= 1 /\ AppendNew(Wanted, out, x)[1] = x
<1> DEFINE r == AppendNew(Wanted, out, x)
<1>1. Len(out) \in Nat
  OBVIOUS
<1>2. CASE x \in Wanted \ Elems(out)
  <2>1. r = Append(out, x)
    BY <1>2 DEF AppendNew
  <2> HIDE DEF r
  <2>2. /\ r \in Seq(S) /\ Len(r) = Len(out) + 1
        /\ \A i \in 1..Len(out) : r[i] = out[i]
        /\ r[Len(out) + 1] = x
    BY <2>1, AppendProperties
  <2>3. 1..Len(r) = 1..Len(out) \cup {Len(out) + 1}
    BY <1>1, <2>2
  <2>4. Elems(r) = Elems(out) \cup {x}
    BY <2>2, <2>3 DEF Elems
  <2>5. ASSUME Distinct(out), NEW i \in 1..Len(r), NEW j \in 1..Len(r), r[i] = r[j]
        PROVE  i = j
    <3>1. CASE i \in 1..Len(out) /\ j \in 1..Len(out)
      BY <2>2, <2>5, <3>1 DEF Distinct
    <3>2. CASE i \in 1..Len(out) /\ j = Len(out) + 1
      BY <1>2, <2>2, <2>5, <3>2 DEF Elems
    <3>3. CASE j \in 1..Len(out) /\ i = Len(out) + 1
      BY <1>2, <2>2, <2>5, <3>3 DEF Elems
    <3> QED
      BY <2>3, <3>1, <3>2, <3>3
  <2>6. Distinct(out) => Distinct(r)
    BY <2>5 DEF Distinct
  <2>7. out = <<>> => Len(out) = 0
    OBVIOUS
  <2> QED
    BY <1>1, <1>2, <2>2, <2>4, <2>6, <2>7 DEF Extension, r
<1>3. CASE x \notin Wanted \ Elems(out)
  <2>1. r = out
    BY <1>3 DEF AppendNew
  <2> HIDE DEF r
  <2>2. {x} \cap Wanted \subseteq Elems(out)
    BY <1>3
  <2>3. out = <<>> => Elems(out) = {}
    BY DEF Elems
  <2> QED
    BY <1>1, <1>3, <2>1, <2>2, <2>3 DEF Extension, r
<1> QED
  BY <1>2, <1>3

\* The loop keeps the list it begins with, adds what is wanted in s and not there yet,
\* and never adds anything twice.
LEMMA NewOfProperties ==
  ASSUME NEW S, NEW Wanted, NEW out \in Seq(S), NEW s \in Seq(S)
  PROVE  /\ Extension(S, Wanted, out, Elems(s), NewOf(Wanted, out, s))
         /\ out = <<>> /\ s # <<>> /\ s[1] \in Wanted
              => Len(NewOf(Wanted, out, s)) >= 1 /\ NewOf(Wanted, out, s)[1] = s[1]
<1>1. Len(s) \in Nat /\ Len(out) \in Nat
  OBVIOUS
<1>2. PICK g : Adds(Wanted, out, s, Len(s), g) /\ NewOf(Wanted, out, s) = g[Len(s)]
  BY <1>1, NewOfUnfolds
<1>3. \A i \in 0..Len(s) : g[i] = IF i = 0 THEN out ELSE AppendNew(Wanted, g[i - 1], s[i])
  BY <1>2 DEF Adds
<1> DEFINE P(i) == {s[j] : j \in 1..i}
           First(i) == out = <<>> /\ i >= 1 /\ s[1] \in Wanted => Len(g[i]) >= 1 /\ g[i][1] = s[1]
           T == {i \in Nat : i <= Len(s) => Extension(S, Wanted, out, P(i), g[i]) /\ First(i)}
<1>4. 0 \in T
  <2>1. g[0] = out /\ P(0) = {}
    BY <1>1, <1>3
  <2> HIDE DEF P
  <2>2. Extension(S, Wanted, out, P(0), g[0])
    BY <1>1, <2>1 DEF Extension
  <2> QED
    BY <2>2
<1>5. ASSUME NEW n \in Nat, n \in T PROVE n + 1 \in T
  <2> SUFFICES ASSUME n + 1 <= Len(s)
               PROVE  Extension(S, Wanted, out, P(n + 1), g[n + 1]) /\ First(n + 1)
    OBVIOUS
  <2> DEFINE x == s[n + 1]
             a == g[n]
             b == g[n + 1]
  <2>1. Extension(S, Wanted, out, P(n), a) /\ First(n) /\ n + 1 \in 1..Len(s) /\ x \in S
    BY <1>1, <1>5
  <2>2. b = AppendNew(Wanted, a, x)
    <3>1. n + 1 \in 0..Len(s) /\ n + 1 # 0 /\ (n + 1) - 1 = n
      BY <1>1
    <3> QED
      BY <1>3, <3>1
  <2>3. a \in Seq(S) /\ Len(a) \in Nat
    BY <2>1 DEF Extension
  <2>4. P(n + 1) = P(n) \cup {x}
    <3>1. 1..(n + 1) = 1..n \cup {n + 1}
      OBVIOUS
    <3> QED
      BY <3>1
  <2> HIDE DEF P, a, b, x
  <2>5. /\ Extension(S, Wanted, a, {x}, b)
        /\ a = <<>> /\ x \in Wanted => Len(b) >= 1 /\ b[1] = x
    BY <2>1, <2>2, <2>3, AppendNewProperties
  <2>6. Extension(S, Wanted, out, P(n + 1), b)
    <3>1. b \in Seq(S) /\ Len(b) \in Nat
      BY <2>5 DEF Extension
    <3>2. Elems(b) = Elems(out) \cup (P(n + 1) \cap Wanted)
      BY <2>1, <2>4, <2>5 DEF Extension
    <3>3. Len(b) >= Len(out) /\ \A j \in 1..Len(out) : b[j] = out[j]
      BY <1>1, <2>1, <2>3, <2>5, <3>1 DEF Extension
    <3> QED
      BY <2>1, <2>5, <3>1, <3>2, <3>3 DEF Extension
  <2>7. ASSUME out = <<>>, s[1] \in Wanted PROVE Len(b) >= 1 /\ b[1] = s[1]
    <3>1. CASE n = 0
      <4>1. a = <<>> /\ x = s[1]
        BY <1>1, <1>3, <2>7, <3>1 DEF a, x
      <4> QED
        BY <2>5, <2>7, <4>1
    <3>2. CASE n # 0
      <4>1. Len(a) >= 1 /\ a[1] = s[1]
        BY <2>1, <2>7, <3>2 DEF a
      <4>2. b \in Seq(S) /\ Len(b) >= Len(a) /\ \A i \in 1..Len(a) : b[i] = a[i]
        BY <2>5 DEF Extension
      <4>3. Len(b) \in Nat /\ 1 \in 1..Len(a)
        BY <2>3, <4>1, <4>2
      <4> QED
        BY <2>3, <4>1, <4>2, <4>3
    <3> QED
      BY <3>1, <3>2
  <2> QED
    BY <2>6, <2>7 DEF b
<1>6. Len(s) \in T
  <2> HIDE DEF T
  <2> QED
    BY <1>1, <1>4, <1>5, Induction
<1>7. P(Len(s)) = Elems(s)
  BY DEF Elems
<1>8. s # <<>> => Len(s) >= 1
  BY <1>1
<1> HIDE DEF P
<1> QED
  BY <1>1, <1>2, <1>6, <1>7, <1>8

\* A loop that begins with an empty list.
LEMMA NewOfNothing ==
  ASSUME NEW S, NEW Wanted, NEW e, e = <<>>, NEW s \in Seq(S), s # <<>>, s[1] \in Wanted,
         NEW r, r = NewOf(Wanted, e, s)
  PROVE  /\ r \in Seq(S) /\ Elems(r) = Elems(s) \cap Wanted
         /\ Len(r) >= 1 /\ r[1] = s[1]
<1>1. e \in Seq(S) /\ Elems(e) = {}
  BY DEF Elems
<1>2. s \in Seq(S)
  OBVIOUS
<1>3. /\ Extension(S, Wanted, e, Elems(s), NewOf(Wanted, e, s))
      /\ e = <<>> /\ s # <<>> /\ s[1] \in Wanted
           => Len(NewOf(Wanted, e, s)) >= 1 /\ NewOf(Wanted, e, s)[1] = s[1]
  BY ONLY <1>1, <1>2, NewOfProperties
<1>4. Extension(S, Wanted, e, Elems(s), r) /\ Len(r) >= 1 /\ r[1] = s[1]
  BY <1>3
<1> QED
  BY <1>1, <1>4 DEF Extension

\* g is the list after each of the first n loops of NewOfAll.
AddsAll(Wanted, lists, n, g) ==
  g = [i \in 0..n |-> IF i = 0 THEN <<>> ELSE NewOf(Wanted, g[i - 1], lists[i])]

\* The function NewOfAll defines by recursion exists.
LEMMA NewOfAllUnfolds ==
  ASSUME NEW Wanted, NEW lists, Len(lists) \in Nat
  PROVE  \E g : AddsAll(Wanted, lists, Len(lists), g) /\ NewOfAll(Wanted, lists) = g[Len(lists)]
<1> DEFINE S == {n \in Nat : \E g : AddsAll(Wanted, lists, n, g)}
<1>1. 0 \in S
  <2> DEFINE g == [i \in 0..0 |-> <<>>]
  <2>1. AddsAll(Wanted, lists, 0, g)
    BY DEF AddsAll
  <2> HIDE DEF g
  <2> QED
    BY <2>1
<1>2. ASSUME NEW n \in Nat, n \in S PROVE n + 1 \in S
  <2>1. PICK g : AddsAll(Wanted, lists, n, g)
    BY <1>2
  <2> DEFINE h == [i \in 0..(n + 1) |-> IF i <= n THEN g[i] ELSE NewOf(Wanted, g[n], lists[n + 1])]
  <2>2. \A i \in 0..n : g[i] = IF i = 0 THEN <<>> ELSE NewOf(Wanted, g[i - 1], lists[i])
    BY <2>1 DEF AddsAll
  <2>3. ASSUME NEW i \in 0..(n + 1)
        PROVE  h[i] = IF i = 0 THEN <<>> ELSE NewOf(Wanted, h[i - 1], lists[i])
    <3>1. CASE i = 0
      BY <2>2, <3>1
    <3>2. CASE i \in 1..n
      <4>1. h[i] = g[i] /\ h[i - 1] = g[i - 1]
        BY <3>2
      <4> QED
        BY <2>2, <3>2, <4>1
    <3>3. CASE i = n + 1
      <4>1. h[i] = NewOf(Wanted, g[n], lists[n + 1]) /\ h[i - 1] = g[n]
        BY <3>3
      <4> QED
        BY <3>3, <4>1
    <3> QED
      BY <3>1, <3>2, <3>3
  <2>4. h = [i \in 0..(n + 1) |-> h[i]]
    OBVIOUS
  <2> HIDE DEF h
  <2>5. AddsAll(Wanted, lists, n + 1, h)
    BY <2>3, <2>4 DEF AddsAll
  <2> QED
    BY <2>5
<1>3. Len(lists) \in S
  <2> HIDE DEF S
  <2> QED
    BY <1>1, <1>2, Induction
<1> DEFINE f == CHOOSE g : AddsAll(Wanted, lists, Len(lists), g)
<1>4. AddsAll(Wanted, lists, Len(lists), f)
  BY <1>3
<1>5. NewOfAll(Wanted, lists) = f[Len(lists)]
  BY DEF NewOfAll, AddsAll
<1> QED
  BY <1>4, <1>5

\* All that is wanted in any list is there, once, and the first element of the first list,
\* if it is wanted, comes first.
LEMMA NewOfAllProperties ==
  ASSUME NEW S, NEW Wanted, NEW lists \in Seq(Seq(S))
  PROVE  LET r == NewOfAll(Wanted, lists)
         IN  /\ r \in Seq(S) /\ Distinct(r)
             /\ Elems(r) = Wanted \cap UNION {Elems(lists[i]) : i \in 1..Len(lists)}
             /\ lists # <<>> /\ lists[1] # <<>> /\ lists[1][1] \in Wanted
                  => Len(r) >= 1 /\ r[1] = lists[1][1]
<1>1. Len(lists) \in Nat
  OBVIOUS
<1>2. PICK g : AddsAll(Wanted, lists, Len(lists), g) /\ NewOfAll(Wanted, lists) = g[Len(lists)]
  BY <1>1, NewOfAllUnfolds
<1>3. \A i \in 0..Len(lists) : g[i] = IF i = 0 THEN <<>> ELSE NewOf(Wanted, g[i - 1], lists[i])
  BY <1>2 DEF AddsAll
<1> DEFINE P(n) == UNION {Elems(lists[i]) : i \in 1..n}
           Whole(n) == g[n] \in Seq(S) /\ Distinct(g[n]) /\ Elems(g[n]) = Wanted \cap P(n)
           First(n) == n >= 1 /\ lists[1] # <<>> /\ lists[1][1] \in Wanted
                         => Len(g[n]) >= 1 /\ g[n][1] = lists[1][1]
           T == {n \in Nat : n <= Len(lists) => Whole(n) /\ First(n)}
<1>4. 0 \in T
  <2>1. g[0] = <<>> /\ P(0) = {}
    BY <1>1, <1>3
  <2> HIDE DEF P
  <2>2. Elems(<<>>) = {} /\ Distinct(<<>>) /\ <<>> \in Seq(S)
    BY DEF Elems, Distinct
  <2>3. Whole(0)
    BY <2>1, <2>2
  <2> HIDE DEF Whole
  <2> QED
    BY <2>3
<1>5. ASSUME NEW n \in Nat, n \in T PROVE n + 1 \in T
  <2> SUFFICES ASSUME n + 1 <= Len(lists) PROVE Whole(n + 1) /\ First(n + 1)
    OBVIOUS
  <2> DEFINE s == lists[n + 1]
             a == g[n]
             b == g[n + 1]
  <2>1. Whole(n) /\ First(n) /\ n + 1 \in 1..Len(lists) /\ s \in Seq(S) /\ a \in Seq(S)
    BY <1>1, <1>5
  <2>2. b = NewOf(Wanted, a, s)
    <3>1. n + 1 \in 0..Len(lists) /\ n + 1 # 0 /\ (n + 1) - 1 = n
      BY <1>1
    <3> QED
      BY <1>3, <3>1
  <2>3. P(n + 1) = P(n) \cup Elems(s)
    <3>1. 1..(n + 1) = 1..n \cup {n + 1}
      OBVIOUS
    <3> QED
      BY <3>1
  <2>4. Distinct(a) /\ Elems(a) = Wanted \cap P(n)
    BY <2>1
  <2> HIDE DEF P, a, b, s
  <2>5. /\ Extension(S, Wanted, a, Elems(s), b)
        /\ a = <<>> /\ s # <<>> /\ s[1] \in Wanted => Len(b) >= 1 /\ b[1] = s[1]
    <3>1. a \in Seq(S) /\ s \in Seq(S)
      BY <2>1
    <3>2. /\ Extension(S, Wanted, a, Elems(s), NewOf(Wanted, a, s))
          /\ a = <<>> /\ s # <<>> /\ s[1] \in Wanted
               => Len(NewOf(Wanted, a, s)) >= 1 /\ NewOf(Wanted, a, s)[1] = s[1]
      BY ONLY <3>1, NewOfProperties
    <3> QED
      BY <2>2, <3>2
  <2>6. b \in Seq(S) /\ Distinct(b) /\ Elems(b) = Wanted \cap P(n + 1)
    BY <2>3, <2>4, <2>5 DEF Extension
  <2>7. ASSUME lists[1] # <<>>, lists[1][1] \in Wanted
        PROVE  Len(b) >= 1 /\ b[1] = lists[1][1]
    <3>1. CASE n = 0
      <4>1. a = <<>> /\ s = lists[1]
        BY <1>1, <1>3, <3>1 DEF a, s
      <4> QED
        BY <2>5, <2>7, <4>1
    <3>2. CASE n # 0
      <4>1. Len(a) >= 1 /\ a[1] = lists[1][1] /\ Len(a) \in Nat
        BY <2>1, <2>7, <3>2 DEF a
      <4>2. Len(b) >= Len(a) /\ \A i \in 1..Len(a) : b[i] = a[i]
        BY <2>5 DEF Extension
      <4>3. Len(b) \in Nat /\ 1 \in 1..Len(a)
        BY <2>6, <4>1
      <4> QED
        BY <4>1, <4>2, <4>3
    <3> QED
      BY <3>1, <3>2
  <2> QED
    BY <2>6, <2>7 DEF b
<1>6. Len(lists) \in T
  <2> HIDE DEF T
  <2> QED
    BY <1>1, <1>4, <1>5, Induction
<1>7. lists # <<>> => Len(lists) >= 1
  BY <1>1
<1>8. Whole(Len(lists)) /\ First(Len(lists))
  BY <1>1, <1>6
<1> HIDE DEF P
<1> QED
  BY <1>2, <1>7, <1>8 DEF P

-----------------------------------------------------------------------------
(* The connect plan.                                                       *)

\* What the TUI dials.
Port == Nat \ {0}
Endpoint == Int \X Port

\* A candidate's own endpoint is the first of its endpoints.
LEMMA EndpointsProperties ==
  ASSUME NEW c, c.target \in Endpoint
  PROVE  /\ EndpointsOf(c) \in Seq(Endpoint)
         /\ EndpointsOf(c) # <<>> /\ EndpointsOf(c)[1] = c.target
<1> DEFINE host == c.target[1]
           port == c.target[2]
           all == (<<port>> \o Ports) \o PortFallback
           ports == NewOf(Port, <<>>, all)
<1>1. host \in Int /\ port \in Port /\ c.target = <<host, port>>
  BY DEF Endpoint
<1> HIDE DEF host, port
<1>2. all \in Seq(Port) /\ all # <<>> /\ all[1] = port
  <2>1. PortFallback \in Seq(Port) /\ <<port>> \in Seq(Port) /\ Len(<<port>>) = 1
    BY <1>1 DEF PortFallback, Port
  <2>2. Ports \in Seq(Port)
    BY PortsAssumption DEF Port
  <2> DEFINE h == <<port>> \o Ports
  <2>3. h \in Seq(Port) /\ Len(h) = 1 + Len(Ports) /\ h[1] = port /\ Len(Ports) \in Nat
    BY <2>1, <2>2
  <2> HIDE DEF h
  <2>4. h \o PortFallback \in Seq(Port) /\ Len(h \o PortFallback) = Len(h) + Len(PortFallback)
        /\ (h \o PortFallback)[1] = h[1]
    BY <2>1, <2>3
  <2>5. Len(h \o PortFallback) # 0
    BY <2>1, <2>3, <2>4
  <2> QED
    BY <2>3, <2>4, <2>5 DEF h
<1> HIDE DEF all
<1>3. /\ ports \in Seq(Port)
      /\ Len(ports) >= 1 /\ ports[1] = port
  <2> DEFINE e == <<>>
  <2>1. e = <<>> /\ ports = NewOf(Port, e, all)
    OBVIOUS
  <2> HIDE DEF e, ports
  <2> QED
    BY <1>1, <1>2, <2>1, NewOfNothing
<1>4. EndpointsOf(c) = [i \in 1..Len(ports) |-> <<host, ports[i]>>]
  BY DEF EndpointsOf, MergePortOrder, OwnPortFirst, Port, all, host, port
<1> HIDE DEF ports
<1>5. Len(ports) \in Nat /\ 1 \in 1..Len(ports) /\ \A i \in 1..Len(ports) : ports[i] \in Port
  BY <1>3
<1> DEFINE es == [i \in 1..Len(ports) |-> <<host, ports[i]>>]
<1>6. es \in [1..Len(ports) -> Endpoint] /\ es[1] = <<host, ports[1]>>
  BY <1>1, <1>5 DEF Endpoint
<1> HIDE DEF es
<1>7. es \in Seq(Endpoint) /\ Len(es) = Len(ports) /\ es # <<>>
  BY <1>3, <1>5, <1>6
<1> QED
  BY <1>1, <1>3, <1>4, <1>6, <1>7 DEF es

\* Every candidate has its turn, the preferred one the first.
LEMMA OrderProperties ==
  ASSUME NEW total \in Nat, NEW preferred \in 1..total,
         NEW order, order = CandidateConnectOrder(total, preferred)
  PROVE  /\ order \in Seq(1..total) /\ Elems(order) = 1..total
         /\ Len(order) >= 1 /\ order[1] = preferred
<1> DEFINE S == 1..total
           count == [i \in 1..total |-> i]
           all == <<preferred>> \o count
<1>1. count \in Seq(S) /\ Len(count) = total /\ \A i \in S : count[i] = i
  OBVIOUS
<1>2. <<preferred>> \in Seq(S) /\ Len(<<preferred>>) = 1
  OBVIOUS
<1> HIDE DEF count
<1>3. /\ all \in Seq(S) /\ Len(all) = 1 + total /\ all[1] = preferred
      /\ \A i \in S : all[i + 1] = i
  <2>1. all \in Seq(S) /\ Len(all) = 1 + total /\ all[1] = preferred
    BY <1>1, <1>2
  <2>2. ASSUME NEW i \in S PROVE all[i + 1] = i
    <3>1. i + 1 \in 1..(1 + total) /\ ~(i + 1 <= 1) /\ (i + 1) - 1 = i
      OBVIOUS
    <3> QED
      BY <1>1, <1>2, <3>1
  <2> QED
    BY <2>1, <2>2
<1> HIDE DEF all
<1>4. Elems(all) = S /\ all # <<>>
  <2>1. ASSUME NEW i \in 1..Len(all) PROVE all[i] \in S
    <3> HIDE DEF S
    <3> QED
      BY <1>3
  <2>2. ASSUME NEW i \in S PROVE i \in Elems(all)
    <3>1. i + 1 \in 1..Len(all) /\ all[i + 1] = i
      BY <1>3
    <3> QED
      BY <3>1 DEF Elems
  <2>3. Len(all) # 0
    BY <1>3
  <2>4. all # <<>>
    BY <2>3
  <2> HIDE DEF S
  <2> QED
    BY <2>1, <2>2, <2>4 DEF Elems
<1>5. order = NewOf(S, <<>>, all)
  BY DEF CandidateConnectOrder, all, count
<1> DEFINE e == <<>>
<1>6. e = <<>> /\ order = NewOf(S, e, all)
  BY <1>5
<1>7. all[1] \in S /\ S \cap S = S
  BY <1>3
<1> HIDE DEF e, S
<1>8. order \in Seq(S) /\ Elems(order) = S /\ Len(order) >= 1 /\ order[1] = all[1]
  <2>1. all \in Seq(S) /\ all # <<>> /\ Elems(all) = S
    BY <1>3, <1>4
  <2>2. order \in Seq(S) /\ Elems(order) = Elems(all) \cap S
        /\ Len(order) >= 1 /\ order[1] = all[1]
    BY ONLY <1>6, <1>7, <2>1, NewOfNothing
  <2> QED
    BY <1>7, <2>1, <2>2
<1> QED
  BY <1>3, <1>8 DEF S

\* A list without repetitions has as many elements as places.
LEMMA DistinctCount ==
  ASSUME NEW S, NEW s \in Seq(S), Distinct(s)
  PROVE  Cardinality(Elems(s)) = Len(s)
<1> DEFINE f == [i \in 1..Len(s) |-> s[i]]
<1>1. Len(s) \in Nat
  OBVIOUS
<1>2. f \in Bijection(1..Len(s), Elems(s))
  BY DEF Distinct, Elems, Bijection, Injection, Surjection, IsInjective
<1>3. ExistsBijection(1..Len(s), Elems(s))
  BY <1>2 DEF ExistsBijection
<1> QED
  BY <1>1, <1>3, FS_CountingElements

\* The plan for any candidates at positive ports.
LEMMA PlanProperties ==
  ASSUME NEW cs, Len(cs) \in Nat, \A i \in 1..Len(cs) : cs[i].target \in Endpoint,
         NEW preferred \in 1..Len(cs),
         NEW plan, plan = BuildConnectPlan(cs, preferred)
  PROVE  /\ plan[1] = cs[preferred].target
         /\ \A i \in 1..Len(cs) : cs[i].target \in Elems(plan)
         /\ Cardinality(Elems(plan)) = Len(plan)
<1> DEFINE order == CandidateConnectOrder(Len(cs), preferred)
           lists == [n \in 1..Len(order) |-> EndpointsOf(cs[order[n]])]
<1>1. /\ order \in Seq(1..Len(cs)) /\ Elems(order) = 1..Len(cs)
      /\ Len(order) >= 1 /\ order[1] = preferred
  BY OrderProperties
<1>2. plan = NewOfAll(Endpoint, lists)
  BY DEF BuildConnectPlan, Endpoint, Port
<1> HIDE DEF order
<1>3. ASSUME NEW n \in 1..Len(order)
      PROVE  /\ lists[n] \in Seq(Endpoint) /\ lists[n] # <<>>
             /\ lists[n][1] = cs[order[n]].target /\ order[n] \in 1..Len(cs)
  <2>1. order[n] \in 1..Len(cs)
    BY <1>1
  <2>2. cs[order[n]].target \in Endpoint
    BY <2>1
  <2> QED
    BY <2>1, <2>2, EndpointsProperties
<1>4. /\ lists \in Seq(Seq(Endpoint)) /\ Len(lists) = Len(order) /\ lists # <<>>
      /\ Len(order) \in Nat /\ 1 \in 1..Len(order)
  <2>1. Len(order) \in Nat /\ 1 \in 1..Len(order)
    BY <1>1
  <2>2. lists \in [1..Len(order) -> Seq(Endpoint)]
    BY <1>3
  <2> HIDE DEF lists
  <2>3. lists \in Seq(Seq(Endpoint)) /\ Len(lists) = Len(order)
    BY <2>1, <2>2
  <2>4. Len(lists) # 0
    BY <2>1, <2>3
  <2> QED
    BY <2>1, <2>3, <2>4
<1> HIDE DEF lists
<1>5. lists[1] # <<>> /\ lists[1][1] = cs[preferred].target /\ lists[1][1] \in Endpoint
  BY <1>1, <1>3, <1>4
<1>6. /\ plan \in Seq(Endpoint) /\ Distinct(plan)
      /\ Elems(plan) = Endpoint \cap UNION {Elems(lists[n]) : n \in 1..Len(lists)}
      /\ plan[1] = lists[1][1]
  BY <1>2, <1>4, <1>5, NewOfAllProperties
<1>7. ASSUME NEW i \in 1..Len(cs) PROVE cs[i].target \in Elems(plan)
  <2>1. PICK n \in 1..Len(order) : order[n] = i
    BY <1>1 DEF Elems
  <2>2. lists[n][1] = cs[i].target /\ lists[n] \in Seq(Endpoint) /\ lists[n] # <<>>
    BY <1>3, <2>1
  <2>3. 1 \in 1..Len(lists[n])
    BY <2>2
  <2>4. cs[i].target \in Elems(lists[n])
    BY <2>2, <2>3 DEF Elems
  <2> QED
    BY <1>4, <1>6, <2>4
<1> QED
  BY <1>5, <1>6, <1>7, DistinctCount

\* Every target has a port that can be dialled.
LEMMA TargetsAreEndpoints == Elems(Targets) \subseteq Endpoint
<1> DEFINE H == Len(Hosts)
           P == Len(Ports)
<1>1. H \in Nat /\ P \in Nat /\ H * P \in Nat
  BY TargetsAssumption
<1>2. ASSUME NEW n \in 1..(H * P)
      PROVE  <<Hosts[((n - 1) \div P) + 1], Ports[((n - 1) % P) + 1]>> \in Endpoint
  <2>1. P \in Nat \ {0} /\ n - 1 \in Nat /\ n - 1 < H * P
    BY <1>1, <1>2
  <2>2. ((n - 1) \div P) + 1 \in 1..H
    BY <1>1, <2>1, DivBound
  <2>3. ((n - 1) % P) + 1 \in 1..P
    BY <2>1, ModBound
  <2>4. Hosts[((n - 1) \div P) + 1] \in Int
    BY <2>2, TargetsAssumption
  <2>5. Ports[((n - 1) % P) + 1] \in Port
    BY <2>3, PortsAssumption DEF Port
  <2> QED
    BY <2>4, <2>5 DEF Endpoint
<1>3. Targets \in [1..(H * P) -> Endpoint]
  BY <1>2 DEF Targets
<1>4. Targets \in Seq(Endpoint)
  BY <1>1, <1>3
<1> QED
  BY <1>4 DEF Elems

\* The connect plan that the TUI makes of a finished search dials the preferred candidate
\* at the port where it was found first, has every candidate in it, and dials no endpoint
\* twice, whatever was found and in whatever order the candidates came.
THEOREM PlanIsCompleteCorrect == Spec => []PlanIsComplete
<1>1. SearchInv /\ ReadersFirst => PlanIsComplete
  <2> SUFFICES ASSUME SearchInv, ReadersFirst, answer # "none", candidates # <<>>
               PROVE  LET plan == BuildConnectPlan(candidates, PreferredCandidateIndex(candidates))
                      IN  /\ plan[1] = candidates[PreferredCandidateIndex(candidates)].target
                          /\ \A i \in 1..Len(candidates) : candidates[i].target \in Elems(plan)
                          /\ Cardinality(Elems(plan)) = Len(plan)
    BY DEF PlanIsComplete
  <2>1. Len(candidates) \in Nat /\ PreferredCandidateIndex(candidates) \in 1..Len(candidates)
    BY DEF SearchInv, TypeInv, ReadersFirst
  <2>2. ASSUME NEW i \in 1..Len(candidates) PROVE candidates[i].target \in Endpoint
    <3>1. candidates[i].target \in Elems(Targets)
      BY DEF SearchInv, TypeInv, FoundInv, TargetsOf
    <3> QED
      BY <3>1, TargetsAreEndpoints
  <2> QED
    BY <2>1, <2>2, PlanProperties
<1> QED
  BY <1>1, SearchCorrect, ReadersComeFirst, PTL

\* Every host that an interface, the ARP table or a seed names is scanned, once, and this
\* machine never is.
THEOREM HostsAreComplete ==
  /\ Elems(Hosts) = (UNION {Elems(HostLists[n]) : n \in 1..Len(HostLists)}) \ LocalIPs
  /\ Distinct(Hosts)
<1>1. /\ Distinct(Hosts)
      /\ Elems(Hosts) = (Int \ LocalIPs) \cap UNION {Elems(HostLists[n]) : n \in 1..Len(HostLists)}
  <2> DEFINE wanted == Int \ LocalIPs
  <2>1. Hosts = NewOfAll(wanted, HostLists)
    BY HostsAreCollected DEF CollectHosts
  <2> HIDE DEF wanted
  <2>2. /\ Distinct(NewOfAll(wanted, HostLists))
        /\ Elems(NewOfAll(wanted, HostLists))
             = wanted \cap UNION {Elems(HostLists[n]) : n \in 1..Len(HostLists)}
    BY ONLY ListsAssumption, NewOfAllProperties
  <2> QED
    BY <2>1, <2>2 DEF wanted
<1>2. ASSUME NEW n \in 1..Len(HostLists) PROVE Elems(HostLists[n]) \subseteq Int
  BY ListsAssumption DEF Elems
<1> QED
  BY <1>1, <1>2
=============================================================================
