----------------------------- MODULE Discovery -----------------------------
(***************************************************************************)
(* The search for readers, internal/discovery/scanner.go.  Scan feeds all  *)
(* pairs of a host and a port to a pool of workers over a channel without  *)
(* buffer; a worker probes its target and sends what it found to a channel *)
(* of bounded size; one goroutine closes that channel when all workers are *)
(* gone; Scan itself collects, sorts and returns.  The caller's context    *)
(* ends the search at any time (after 20 s in the TUI).                    *)
(*                                                                         *)
(* What a probe finds is chosen when it is made: nothing, an open port     *)
(* with some words of a reader in its banner, or a reader that answered.   *)
(* found and probed are history: the targets at which something was found, *)
(* and those whose probe ended before the context did.                     *)
(***************************************************************************)
EXTENDS Integers, Sequences, FiniteSets

CONSTANTS
  Hosts,          \* the hosts to scan, a sequence (see HostPlan)
  Ports,          \* opts.Ports, a sequence
  Workers,        \* opts.Concurrency workers
  Finds           \* what a probe may find: pairs of verified and words in the banner

ASSUME TargetsAssumption == Hosts \in Seq(Int) /\ Ports \in Seq(Int)
ASSUME WorkersAssumption == IsFiniteSet(Workers) /\ Workers # {}
ASSUME FindsAssumption == Finds \subseteq BOOLEAN \X (0..6)

-----------------------------------------------------------------------------
(* Targets and candidates.                                                 *)

Elems(s) == {s[i] : i \in 1..Len(s)}

\* The feeder's loop: for each host, each port.
Targets == [n \in 1..(Len(Hosts) * Len(Ports)) |->
              <<Hosts[((n - 1) \div Len(Ports)) + 1], Ports[((n - 1) % Len(Ports)) + 1]>>]

portScore(port) ==
  CASE port \in {2022, 27011, 4001, 5000, 6000, 7000, 10001} -> 55
    [] port = 23                                             -> 30
    [] port \in {80, 443, 8080}                              -> 20
    [] OTHER                                                 -> 10

\* Mistake: a word weighs a little more.
keywordScoreHigh(words) == 20 * words

\* Each of six words counts once.
keywordScore(words) == 18 * words

\* probeTarget's candidate.  A banner is read only when no reader answered.
Candidate(target, find) ==
  [target |-> target, verified |-> find[1],
   score |-> portScore(target[2]) + IF find[1] THEN 160 ELSE keywordScore(find[2])]

\* The order of the answer: by score, then by host and port.
Before(c, d) ==
  \/ c.score > d.score
  \/ c.score = d.score /\ c.target[1] < d.target[1]
  \/ c.score = d.score /\ c.target[1] = d.target[1] /\ c.target[2] < d.target[2]

-----------------------------------------------------------------------------

VARIABLES
  fed,            \* the feeder: targets handed out so far
  jobsClosed,     \* the feeder has returned
  place,          \* worker -> "wait", "probe", "send", "gone"
  job,            \* worker -> its target
  find,           \* worker -> the candidate it sends
  results,        \* the channel of candidates
  resultsClosed,
  candidates,     \* what Scan has collected
  cancelled,      \* the context is done
  answer,         \* "none", "ok" or "err": Scan has returned
  found, probed

feedVars == <<fed, jobsClosed>>
workVars == <<place, job, find>>
vars == <<feedVars, workVars, results, resultsClosed, candidates, cancelled, answer, found, probed>>

NoJob == <<0, 0>>
NoFind == Candidate(NoJob, <<FALSE, 0>>)

Init ==
  /\ fed = 0 /\ jobsClosed = FALSE
  /\ place = [w \in Workers |-> "wait"]
  /\ job = [w \in Workers |-> NoJob] /\ find = [w \in Workers |-> NoFind]
  /\ results = <<>> /\ resultsClosed = FALSE
  /\ candidates = <<>> /\ cancelled = FALSE /\ answer = "none"
  /\ found = {} /\ probed = {}

\* The context ends: its time is over or the caller cancels it.
Cancel ==
  /\ ~cancelled
  /\ cancelled' = TRUE
  /\ UNCHANGED <<feedVars, workVars, results, resultsClosed, candidates, answer, found, probed>>

-----------------------------------------------------------------------------
(* The feeder.                                                             *)

\* A worker that waits gets the next target.
Feed(w) ==
  /\ ~jobsClosed /\ fed < Len(Targets)
  /\ place[w] = "wait"
  /\ fed' = fed + 1
  /\ place' = [place EXCEPT ![w] = "probe"]
  /\ job' = [job EXCEPT ![w] = Targets[fed + 1]]
  /\ UNCHANGED <<jobsClosed, find, results, resultsClosed, candidates, cancelled, answer, found, probed>>

\* Mistake: the feeder does not look at the context.
FeederReturnsAtEnd == fed = Len(Targets)
FeederReturns == fed = Len(Targets) \/ cancelled

CloseJobs ==
  /\ ~jobsClosed
  /\ FeederReturns
  /\ jobsClosed' = TRUE
  /\ UNCHANGED <<fed, workVars, results, resultsClosed, candidates, cancelled, answer, found, probed>>

-----------------------------------------------------------------------------
(* A worker.                                                               *)

\* The body of the worker's loop ends: it waits for a target or returns.
EndJob(w, p) ==
  /\ place' = [place EXCEPT ![w] = p]
  /\ job' = [job EXCEPT ![w] = NoJob]
  /\ find' = [find EXCEPT ![w] = NoFind]

\* Nothing is found.
ProbeFails(w) ==
  /\ place[w] = "probe" /\ ~cancelled
  /\ EndJob(w, "wait")
  /\ probed' = probed \cup {job[w]}
  /\ UNCHANGED <<feedVars, results, resultsClosed, candidates, cancelled, answer, found>>

\* The context is done: a dial fails at once.
ProbeCancelled(w) ==
  /\ place[w] = "probe" /\ cancelled
  /\ EndJob(w, "wait")
  /\ UNCHANGED <<feedVars, results, resultsClosed, candidates, cancelled, answer, found, probed>>

\* Something is found; a probe that has its connection does not look at the context.
ProbeFinds(w, f) ==
  /\ place[w] = "probe"
  /\ place' = [place EXCEPT ![w] = "send"]
  /\ find' = [find EXCEPT ![w] = Candidate(job[w], f)]
  /\ found' = found \cup {job[w]} /\ probed' = probed \cup {job[w]}
  /\ UNCHANGED <<feedVars, job, results, resultsClosed, candidates, cancelled, answer>>

Send(w) ==
  /\ place[w] = "send"
  /\ Len(results) < Cardinality(Workers)
  /\ results' = Append(results, find[w])
  /\ EndJob(w, "wait")
  /\ UNCHANGED <<feedVars, resultsClosed, candidates, cancelled, answer, found, probed>>

\* The select of a send also ends with the context: the candidate is dropped.
SendCancelled(w) ==
  /\ place[w] = "send" /\ cancelled
  /\ EndJob(w, "gone")
  /\ UNCHANGED <<feedVars, results, resultsClosed, candidates, cancelled, answer, found, probed>>

WorkerReturns(w) ==
  /\ place[w] = "wait" /\ jobsClosed
  /\ EndJob(w, "gone")
  /\ UNCHANGED <<feedVars, results, resultsClosed, candidates, cancelled, answer, found, probed>>

-----------------------------------------------------------------------------
(* The closer and Scan.                                                    *)

\* Mistake: the channel is closed when nobody has a target in hand any more.
AllGoneEarly == jobsClosed /\ \A w \in Workers : place[w] # "probe"
AllGone == \A w \in Workers : place[w] = "gone"

CloseResults ==
  /\ ~resultsClosed
  /\ AllGone
  /\ resultsClosed' = TRUE
  /\ UNCHANGED <<feedVars, workVars, results, candidates, cancelled, answer, found, probed>>

\* A target that was probed twice, because Ports names a port twice, is kept once.
CollectNew(cs, c) ==
  IF \E d \in Elems(cs) : d.target = c.target THEN cs ELSE Append(cs, c)

Collect ==
  /\ answer = "none" /\ results # <<>>
  /\ candidates' = CollectNew(candidates, Head(results))
  /\ results' = Tail(results)
  /\ UNCHANGED <<feedVars, workVars, resultsClosed, cancelled, answer, found, probed>>

\* Mistake: the state of the context is not returned.
ScanResultOk == "ok"
ScanResult == IF cancelled THEN "err" ELSE "ok"

\* cs is sorted into ds.
Sorted(cs, ds) ==
  /\ Elems(ds) = Elems(cs)
  /\ \A i, j \in 1..Len(ds) : i < j => Before(ds[i], ds[j])

\* The loop over results ends; the candidates are sorted; the context's error is returned.
Return ==
  /\ answer = "none" /\ results = <<>> /\ resultsClosed
  /\ \E cs \in [1..Len(candidates) -> Elems(candidates)] :
       Sorted(candidates, cs) /\ candidates' = cs
  /\ answer' = ScanResult
  /\ UNCHANGED <<feedVars, workVars, results, resultsClosed, cancelled, found, probed>>

\* The search is over, and all its goroutines are gone.
Done == answer # "none" /\ jobsClosed /\ UNCHANGED vars

WorkerStep(w) ==
  \/ Feed(w) \/ ProbeFails(w) \/ ProbeCancelled(w)
  \/ \E f \in Finds : ProbeFinds(w, f)
  \/ Send(w) \/ SendCancelled(w) \/ WorkerReturns(w)

Step == (\E w \in Workers : WorkerStep(w)) \/ CloseJobs \/ CloseResults \/ Collect \/ Return

Next == Step \/ Cancel \/ Done

Spec == Init /\ [][Next]_vars

\* Some goroutine that can run runs: every wait of Scan ends by itself.
FairSpec == Spec /\ WF_vars(Step)

-----------------------------------------------------------------------------
(* The choice of an endpoint, internal/tui/update/helpers.go.              *)

\* PreferredCandidateIndex, and the same loop in sdk/client_scan.go and in
\* internal/gobot/reader/manager.go: the first verified candidate, or else the first.
PreferredCandidateIndex(cs) ==
  LET verified == {i \in 1..Len(cs) : cs[i].verified}
  IN  IF verified = {} THEN 1 ELSE CHOOSE i \in verified : \A j \in verified : i <= j

-----------------------------------------------------------------------------
(* Properties.                                                             *)

TypeOK ==
  /\ fed \in 0..Len(Targets) /\ jobsClosed \in BOOLEAN
  /\ place \in [Workers -> {"wait", "probe", "send", "gone"}]
  /\ DOMAIN job = Workers /\ DOMAIN find = Workers
  /\ Len(results) <= Cardinality(Workers) /\ resultsClosed \in BOOLEAN
  /\ cancelled \in BOOLEAN /\ answer \in {"none", "ok", "err"}
  /\ found \subseteq Elems(Targets) /\ probed \subseteq Elems(Targets)

\* A search that reports no error has probed every target, and has listed all those at
\* which it found something and nothing else, each of them once.
NoErrorMeansComplete ==
  answer = "ok" =>
    /\ probed = Elems(Targets)
    /\ {candidates[i].target : i \in 1..Len(candidates)} = found
    /\ Cardinality(found) = Len(candidates)

\* No worker sends on a closed channel, which would end the program.
NoSendAfterClose == resultsClosed => \A w \in Workers : place[w] # "send"

\* A reader that answered comes before every port that did not, whatever the ports are
\* and whatever their banners say, so that the choice of an endpoint is the first
\* candidate.  The list is short of candidates only when the search was cut off.
ReadersFirst ==
  answer # "none" /\ candidates # <<>> => PreferredCandidateIndex(candidates) = 1

\* A search ends, with or without the context, and leaves no goroutine behind.
ScanEnds == <>(answer # "none" /\ jobsClosed)
=============================================================================
