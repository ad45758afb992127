------------------------------ MODULE HostPlan ------------------------------
(***************************************************************************)
(* Which hosts are scanned, and what is done with the answer.  Scan makes   *)
(* the list of hosts from the networks, the ARP table and the seeds before  *)
(* its workers start; the TUI turns the candidates into a connect plan.     *)
(***************************************************************************)
EXTENDS Discovery

CONSTANTS
  HostLists,      \* the hosts of the interfaces, the ARP table and the seeds, a sequence of sequences
  LocalIPs        \* the machine's own addresses

ASSUME ListsAssumption == HostLists \in Seq(Seq(Int))

\* The ports of DefaultOptions, with which the TUI searches, are all positive.
ASSUME PortsAssumption == Ports \in Seq(Nat \ {0})

\* What is wanted and not there yet is appended.
AppendNew(Wanted, out, x) ==
  IF x \in Wanted \ Elems(out) THEN Append(out, x) ELSE out

\* A loop over s that appends what is new.
NewOf(Wanted, out, s) ==
  LET after[i \in 0..Len(s)] ==
        IF i = 0 THEN out ELSE AppendNew(Wanted, after[i - 1], s[i])
  IN  after[Len(s)]

\* Such loops over several lists, one after the other.
NewOfAll(Wanted, lists) ==
  LET after[n \in 0..Len(lists)] ==
        IF n = 0 THEN <<>> ELSE NewOf(Wanted, after[n - 1], lists[n])
  IN  after[Len(lists)]

\* A host is scanned once, whatever lists name it, and this machine is not.
CollectHosts == NewOfAll(Int \ LocalIPs, HostLists)

ASSUME HostsAreCollected == Hosts = CollectHosts

-----------------------------------------------------------------------------
(* The connect plan, internal/tui/update/helpers.go.                       *)

PortFallback == <<2022, 5000, 27011, 6000, 4001, 10001>>

MergePortOrder(primary, fallback) == NewOf(Nat \ {0}, <<>>, primary \o fallback)

\* The preferred candidate, then the others in their order.
CandidateConnectOrder(total, preferred) ==
  NewOf(1..total, <<>>, <<preferred>> \o [i \in 1..total |-> i])

\* Mistake: the candidate's own port comes where Ports has it.
OwnPortFirstNot(port) == Ports
OwnPortFirst(port) == <<port>> \o Ports

\* The endpoints of one candidate, in the order in which its ports are tried.
EndpointsOf(c) ==
  LET ports == MergePortOrder(OwnPortFirst(c.target[2]), PortFallback)
  IN  [i \in 1..Len(ports) |-> <<c.target[1], ports[i]>>]

BuildConnectPlan(cs, preferred) ==
  LET order == CandidateConnectOrder(Len(cs), preferred)
  IN  NewOfAll(Int \X (Nat \ {0}), [n \in 1..Len(order) |-> EndpointsOf(cs[order[n]])])

-----------------------------------------------------------------------------

\* The connect plan made from the answer tries the chosen reader at its own port first,
\* has every candidate in it, and no endpoint twice.
PlanIsComplete ==
  answer # "none" /\ candidates # <<>> =>
    LET plan == BuildConnectPlan(candidates, PreferredCandidateIndex(candidates))
    IN  /\ plan[1] = candidates[PreferredCandidateIndex(candidates)].target
        /\ \A i \in 1..Len(candidates) : candidates[i].target \in Elems(plan)
        /\ Cardinality(Elems(plan)) = Len(plan)
=============================================================================
