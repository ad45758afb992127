---------------------------- MODULE SubmitLedger ----------------------------
(***************************************************************************)
(* What the ERP may rely on, said without channels, workers or caches: the *)
(* bot closes a draft only by a submit request for a tag it is licensed to *)
(* submit, has at most one request per tag on the wire, and a restart      *)
(* takes every licence back.  EPCService implements this specification.    *)
(***************************************************************************)
CONSTANTS EPC, Workers

VARIABLES
  drafts,    \* EPCs with an open draft in the ERP
  licensed,  \* EPCs the bot may submit
  requests,  \* submit requests on the wire: pairs of a worker and an EPC
  late       \* EPCs whose request was given up on but may still be executed

vars == <<drafts, licensed, requests, late>>

Init ==
  /\ drafts = {}
  /\ licensed = {}
  /\ requests = {}
  /\ late = {}

\* People and other programs create and close drafts.
Open(e) ==
  /\ drafts' = drafts \cup {e}
  /\ UNCHANGED <<licensed, requests, late>>

CloseElsewhere(e) ==
  /\ drafts' = drafts \ {e}
  /\ UNCHANGED <<licensed, requests, late>>

\* Tags are read while the scan is on, or the scan is switched on after.
License(S) ==
  /\ licensed' = licensed \cup S
  /\ UNCHANGED <<drafts, requests, late>>

\* A worker may ask for e only if nobody else is asking for e.
Begin(w, e) ==
  /\ e \in licensed
  /\ \A r \in requests : r[1] # w /\ r[2] # e
  /\ requests' = requests \cup {<<w, e>>}
  /\ UNCHANGED <<drafts, licensed, late>>

\* What a request may have done when its caller hears nothing of it.
Unknown(e) ==
  \/ UNCHANGED <<drafts, late>>
  \/ drafts' = drafts \ {e} /\ UNCHANGED late
  \/ late' = late \cup {e} /\ UNCHANGED drafts

Answer(w, e) ==
  /\ <<w, e>> \in requests
  /\ requests' = requests \ {<<w, e>>}
  /\ drafts' = drafts \ {e}
  /\ UNCHANGED <<licensed, late>>

Repeat(w, e) ==
  /\ <<w, e>> \in requests
  /\ Unknown(e)
  /\ UNCHANGED <<licensed, requests>>

Abandon(w, e) ==
  /\ <<w, e>> \in requests
  /\ requests' = requests \ {<<w, e>>}
  /\ Unknown(e)
  /\ UNCHANGED licensed

ExecuteLate(e) ==
  /\ e \in late
  /\ late' = late \ {e}
  /\ drafts' = drafts \ {e}
  /\ UNCHANGED <<licensed, requests>>

Restart ==
  /\ licensed' = {}
  /\ requests' = {}
  /\ late \subseteq late'
  /\ late' \subseteq late \cup {r[2] : r \in requests}
  /\ UNCHANGED drafts

Next ==
  \/ \E e \in EPC : Open(e) \/ CloseElsewhere(e) \/ ExecuteLate(e)
  \/ \E w \in Workers, e \in EPC :
       Begin(w, e) \/ Answer(w, e) \/ Repeat(w, e) \/ Abandon(w, e)
  \/ \E S \in SUBSET EPC : License(S)
  \/ Restart

Spec == Init /\ [][Next]_vars
=============================================================================
