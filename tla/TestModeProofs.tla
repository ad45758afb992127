--------------------------- MODULE TestModeProofs ---------------------------
(***************************************************************************)
(* TestMode keeps its types, accounts for every live message, and announces *)
(* an EPC of a test once, for any EPCs, chats and number of tests.          *)
(***************************************************************************)
EXTENDS TestMode, TLAPS

\* A test that runs or is being stopped has a number that was given out; the
\* poller takes the references of a test only after it has ended it.
TestIsNumbered ==
  /\ active \/ bpc = "take" => session \in Sessions
  /\ bpc = "take" => ~active

\* A busy poller serves a chat.
ServesAChat == bpc # "idle" => who \in Chats

\* Only a poller that is deleting has messages to delete.
NothingLeftToDelete == bpc # "delete" => todo = {}

\* A goroutine was started only for a test whose number was given out and, when
\* the test is the running one, for an EPC that has been recorded: the next read
\* that starts a goroutine starts a new one.
StartedIsRead ==
  \A m \in Messages :
    sender[m] # "none" =>
      /\ m[1] <= session
      /\ active /\ m[1] = session => m[2] \in read

Inv ==
  /\ TypeOK /\ TestIsNumbered /\ ServesAChat /\ NothingLeftToDelete
  /\ StartedIsRead /\ MessagesAccounted

USE TestModeAssumption DEF Sessions, Messages, managerVars, pollerVars

\* The initial states satisfy the inductive invariant.
LEMMA InitInv == Init => Inv
<1> SUFFICES ASSUME Init PROVE Inv
    OBVIOUS
<1>1. TypeOK
  <2>1. session \in 0..MaxSessions
    BY DEF Init
  <2>2. chatOf \in [Sessions -> Chats \cup {NoChat}] /\ refs \in [Sessions -> SUBSET EPC]
    BY DEF Init
  <2>3. sender \in [Messages -> {"none", "check", "send", "recheck", "append", "retract", "done"}]
    BY DEF Init
  <2> QED BY <2>1, <2>2, <2>3 DEF Init, TypeOK
<1>2. TestIsNumbered /\ ServesAChat /\ NothingLeftToDelete /\ StartedIsRead /\ MessagesAccounted
  BY DEF Init, TestIsNumbered, ServesAChat, NothingLeftToDelete, StartedIsRead, MessagesAccounted
<1> QED BY <1>1, <1>2 DEF Inv

\* The steps of the poller keep the inductive invariant.
LEMMA PollerInv == Inv /\ Poller => Inv'
<1> SUFFICES ASSUME Inv, Poller PROVE Inv'
    OBVIOUS
<1> USE DEF Inv
<1>1. ASSUME NEW c \in Chats, RequestFile(c) PROVE Inv'
  BY <1>1 DEF RequestFile, TypeOK, TestIsNumbered, ServesAChat, NothingLeftToDelete, StartedIsRead,
          MessagesAccounted, InHand
<1>2. ASSUME NEW c \in Chats, FileArrives(c) PROVE Inv'
  BY <1>2 DEF FileArrives, TypeOK, TestIsNumbered, ServesAChat, NothingLeftToDelete, StartedIsRead,
          MessagesAccounted, InHand
<1>3. ASSUME NEW c \in Chats, StopTest(c) PROVE Inv'
  <2>1. session \in Sessions
    BY <1>3 DEF StopTest, TestIsNumbered
  <2> QED
    BY <1>3, <2>1 DEF StopTest, TypeOK, TestIsNumbered, ServesAChat, NothingLeftToDelete, StartedIsRead,
          MessagesAccounted, InHand
<1>4. ASSUME NEW S \in SUBSET EPC, LoadFile(S) PROVE Inv'
  <2>1. who \in Chats /\ session + 1 \in Sessions
    BY <1>4 DEF LoadFile, TypeOK, ServesAChat
  <2>2. chatOf' \in [Sessions -> Chats \cup {NoChat}]
    BY <1>4, <2>1 DEF LoadFile, TypeOK
  <2>3. session' \in 0..MaxSessions
    BY <1>4, <2>1 DEF LoadFile, TypeOK
  <2>4. TypeOK'
    BY <1>4, <2>1, <2>2, <2>3 DEF LoadFile, TypeOK
  <2>5. TestIsNumbered' /\ ServesAChat' /\ NothingLeftToDelete'
    BY <1>4, <2>1 DEF LoadFile, TestIsNumbered, ServesAChat, NothingLeftToDelete
  <2>6. StartedIsRead'
    BY <1>4 DEF LoadFile, TypeOK, StartedIsRead
  <2>7. MessagesAccounted'
    BY <1>4 DEF LoadFile, MessagesAccounted, InHand
  <2> QED BY <2>4, <2>5, <2>6, <2>7
<1>5. CASE UploadFails
  BY <1>5 DEF UploadFails, TypeOK, TestIsNumbered, ServesAChat, NothingLeftToDelete, StartedIsRead,
          MessagesAccounted, InHand
<1>6. CASE ClearTestReadRefs
  BY <1>6 DEF ClearTestReadRefs, TypeOK, TestIsNumbered, ServesAChat, NothingLeftToDelete, StartedIsRead,
          MessagesAccounted, InHand
<1>7. CASE Prompt
  BY <1>7 DEF Prompt, TypeOK, TestIsNumbered, ServesAChat, NothingLeftToDelete, StartedIsRead,
          MessagesAccounted, InHand
<1>8. CASE TakeTestReadRefs
  <2>1. session \in Sessions
    BY <1>8 DEF TakeTestReadRefs, TestIsNumbered
  <2>2. TypeOK' /\ TestIsNumbered' /\ ServesAChat' /\ NothingLeftToDelete' /\ StartedIsRead'
    BY <1>8, <2>1 DEF TakeTestReadRefs, TypeOK, TestIsNumbered, ServesAChat, NothingLeftToDelete, StartedIsRead
  <2>3. ASSUME NEW m \in Messages, m[2] \in refs[m[1]]
        PROVE  m \in todo' \/ m[2] \in refs'[m[1]]
    BY <1>8, <2>1, <2>3 DEF TakeTestReadRefs, TypeOK
  <2>4. \A m \in Messages : InHand(m) => InHand(m)'
    BY <1>8 DEF TakeTestReadRefs, InHand, NothingLeftToDelete
  <2>5. MessagesAccounted'
    BY <1>8, <2>3, <2>4 DEF TakeTestReadRefs, TypeOK, MessagesAccounted, InHand
  <2> QED BY <2>2, <2>5
<1>9. CASE DeletesDone
  BY <1>9 DEF DeletesDone, TypeOK, TestIsNumbered, ServesAChat, NothingLeftToDelete, StartedIsRead,
          MessagesAccounted, InHand
<1>10. ASSUME NEW m \in Messages, DeleteRead(m) PROVE Inv'
  BY <1>10 DEF DeleteRead, DeleteMessage, TypeOK, TestIsNumbered, ServesAChat, NothingLeftToDelete, StartedIsRead,
               MessagesAccounted, InHand
<1> QED
  BY <1>1, <1>2, <1>3, <1>4, <1>5, <1>6, <1>7, <1>8, <1>9, <1>10 DEF Poller

\* The first read of an EPC starts a goroutine that never ran before.
LEMMA ReadStartsAfresh ==
  ASSUME Inv, NEW e \in EPC, RecordRead(e)
  PROVE  /\ <<session, e>> \in Messages
         /\ sender[<<session, e>>] = "none"
  BY DEF Inv, RecordRead, TestIsNumbered, StartedIsRead

\* The reader keeps the inductive invariant.
LEMMA ReaderInv == ASSUME Inv, NEW e \in EPC, RecordRead(e) PROVE Inv'
<1> USE DEF Inv
<1>1. <<session, e>> \in Messages /\ sender[<<session, e>>] = "none"
  BY ReadStartsAfresh
<1>2. TypeOK'
  BY <1>1 DEF RecordRead, TypeOK
<1>3. TestIsNumbered' /\ ServesAChat' /\ NothingLeftToDelete'
  BY DEF RecordRead, TestIsNumbered, ServesAChat, NothingLeftToDelete
<1>4. StartedIsRead'
  BY <1>1 DEF RecordRead, TypeOK, StartedIsRead
<1>5. MessagesAccounted'
  BY <1>1 DEF RecordRead, TypeOK, MessagesAccounted, InHand
<1> QED BY <1>2, <1>3, <1>4, <1>5

\* The goroutines that announce reads keep the inductive invariant.
LEMMA SenderInv == ASSUME Inv, NEW m \in Messages, SendTestMatch(m) PROVE Inv'
<1> USE DEF Inv, SenderGoto
<1>1. TestIsNumbered' /\ ServesAChat' /\ NothingLeftToDelete'
  BY DEF SendTestMatch, CheckBefore, SendMatch, SendMatchFails, CheckAfter, Retract,
         AppendTestReadRef, TestIsNumbered, ServesAChat, NothingLeftToDelete
<1>2. StartedIsRead'
  BY DEF SendTestMatch, CheckBefore, SendMatch, SendMatchFails, CheckAfter, Retract,
         AppendTestReadRef, TypeOK, StartedIsRead
<1>3. CASE CheckBefore(m)
  BY <1>1, <1>2, <1>3 DEF CheckBefore, TypeOK, MessagesAccounted, InHand
<1>4. CASE SendMatch(m)
  BY <1>1, <1>2, <1>4 DEF SendMatch, TypeOK, MessagesAccounted, InHand
<1>5. CASE SendMatchFails(m)
  BY <1>1, <1>2, <1>5 DEF SendMatchFails, TypeOK, MessagesAccounted, InHand
<1>6. CASE CheckAfter(m)
  BY <1>1, <1>2, <1>6 DEF CheckAfter, TypeOK, MessagesAccounted, InHand
<1>7. CASE Retract(m)
  BY <1>1, <1>2, <1>7 DEF Retract, DeleteMessage, TypeOK, MessagesAccounted, InHand
<1>8. CASE AppendTestReadRef(m)
  BY <1>1, <1>2, <1>8 DEF AppendTestReadRef, TypeOK, MessagesAccounted, InHand
<1> QED
  BY <1>3, <1>4, <1>5, <1>6, <1>7, <1>8 DEF SendTestMatch

\* Every step keeps the inductive invariant.
LEMMA NextInv == Inv /\ [Next]_vars => Inv'
<1> SUFFICES ASSUME Inv, [Next]_vars PROVE Inv'
    OBVIOUS
<1>1. CASE UNCHANGED vars
  BY <1>1 DEF vars, Inv, TypeOK, TestIsNumbered, ServesAChat, NothingLeftToDelete,
              StartedIsRead, MessagesAccounted, InHand
<1> QED
  BY <1>1, PollerInv, ReaderInv, SenderInv DEF Next

\* The inductive invariant holds in every reachable state.
LEMMA AlwaysInv == Spec => []Inv
  BY InitInv, NextInv, PTL DEF Spec

\* The state of the test mode stays in its ranges, and a result never counts
\* more reads than expected EPCs.
THEOREM TypeCorrect == Spec => []TypeOK
<1>1. Inv => TypeOK
  BY DEF Inv
<1> QED BY <1>1, AlwaysInv, PTL

\* No live message is forgotten by the races between the stop, the senders and
\* the reader: only a failed call or a new file loses one.
THEOREM AccountsCorrect == Spec => []MessagesAccounted
<1>1. Inv => MessagesAccounted
  BY DEF Inv
<1> QED BY <1>1, AlwaysInv, PTL

\* An EPC of a test is announced at most once (README 4.11, rule 6).
THEOREM AnnouncedOnce == Spec => OneMessagePerRead
<1> DEFINE Once == \A m \in Messages : sender'[m] = "check" => sender[m] \in {"none", "check"}
<1>1. Inv /\ [Next]_vars => [Once]_vars
  <2> SUFFICES ASSUME Inv, Next PROVE Once
      OBVIOUS
  <2>1. CASE Poller
    BY <2>1 DEF Poller, RequestFile, FileArrives, StopTest, LoadFile, UploadFails,
                ClearTestReadRefs, Prompt, TakeTestReadRefs, DeletesDone, DeleteRead
  <2>2. ASSUME NEW e \in EPC, RecordRead(e) PROVE Once
    BY <2>2, ReadStartsAfresh DEF RecordRead, Inv, TypeOK
  <2>3. ASSUME NEW m \in Messages, SendTestMatch(m) PROVE Once
    BY <2>3 DEF SendTestMatch, CheckBefore, SendMatch, SendMatchFails, CheckAfter, Retract,
                AppendTestReadRef, SenderGoto, Inv, TypeOK
  <2> QED BY <2>1, <2>2, <2>3 DEF Next
<1> QED BY <1>1, AlwaysInv, PTL DEF Spec, OneMessagePerRead

-----------------------------------------------------------------------------
(* Messages are removed only once their test is over.                      *)

\* A message that is about to be removed belongs to a test that is over and
\* that, numbers only growing, never comes back.
RemovedIsOver ==
  \A m \in Messages :
    sender[m] = "retract" \/ m \in todo => m[1] <= session /\ ~IsSessionActive(m[1])

\* Every step keeps RemovedIsOver.
LEMMA NextOver == Inv /\ RemovedIsOver /\ [Next]_vars => RemovedIsOver'
<1> SUFFICES ASSUME Inv, RemovedIsOver, [Next]_vars PROVE RemovedIsOver'
    OBVIOUS
<1> USE DEF RemovedIsOver, IsSessionActive
<1>1. CASE UNCHANGED vars
  BY <1>1 DEF vars
<1>2. ASSUME NEW c \in Chats, RequestFile(c) \/ FileArrives(c) \/ StopTest(c)
      PROVE  RemovedIsOver'
  BY <1>2 DEF RequestFile, FileArrives, StopTest
<1>3. ASSUME NEW S \in SUBSET EPC, LoadFile(S) PROVE RemovedIsOver'
  BY <1>3 DEF LoadFile, Inv, TypeOK
<1>4. CASE TakeTestReadRefs
  <2>1. session \in Sessions /\ ~active
    BY <1>4 DEF TakeTestReadRefs, Inv, TestIsNumbered
  <2> QED
    BY <1>4, <2>1 DEF TakeTestReadRefs, Inv, TypeOK
<1>5. CASE UploadFails \/ ClearTestReadRefs \/ Prompt \/ DeletesDone
  BY <1>5 DEF UploadFails, ClearTestReadRefs, Prompt, DeletesDone
<1>6. ASSUME NEW m \in Messages, DeleteRead(m) PROVE RemovedIsOver'
  BY <1>6 DEF DeleteRead
<1>7. ASSUME NEW e \in EPC, RecordRead(e) PROVE RemovedIsOver'
  BY <1>7, ReadStartsAfresh DEF RecordRead, Inv, TypeOK
<1>8. ASSUME NEW m \in Messages, SendTestMatch(m) PROVE RemovedIsOver'
  <2>1. CASE CheckAfter(m)
    BY <2>1 DEF CheckAfter, SenderGoto, Inv, TypeOK, StartedIsRead
  <2>2. CASE CheckBefore(m)
    BY <2>2 DEF CheckBefore, SenderGoto, Inv, TypeOK
  <2>3. CASE SendMatch(m) \/ SendMatchFails(m) \/ Retract(m) \/ AppendTestReadRef(m)
    BY <2>3 DEF SendMatch, SendMatchFails, Retract, AppendTestReadRef, SenderGoto, Inv, TypeOK
  <2> QED BY <1>8, <2>1, <2>2, <2>3 DEF SendTestMatch
<1> QED
  BY <1>1, <1>2, <1>3, <1>4, <1>5, <1>6, <1>7, <1>8 DEF Next, Poller

\* A live message disappears only once its test is over.
THEOREM CleaningCorrect == Spec => OnlyFinishedTestsAreCleaned
<1> DEFINE Over == \A m \in shown \ shown' : ~IsSessionActive(m[1])
<1>1. Init => RemovedIsOver
  BY DEF Init, RemovedIsOver
<1>2. Inv /\ RemovedIsOver /\ [Next]_vars => [Over]_vars
  <2> SUFFICES ASSUME Inv, RemovedIsOver, Next PROVE Over
      OBVIOUS
  <2>1. ASSUME NEW m \in Messages, DeleteRead(m) PROVE Over
    BY <2>1 DEF DeleteRead, DeleteMessage, RemovedIsOver
  <2>2. ASSUME NEW m \in Messages, Retract(m) PROVE Over
    BY <2>2 DEF Retract, DeleteMessage, SenderGoto, RemovedIsOver
  <2>3. CASE shown \subseteq shown'
    BY <2>3
  <2>4. \/ \E m \in Messages : DeleteRead(m) \/ Retract(m)
        \/ shown \subseteq shown'
    BY DEF Next, Poller, SendTestMatch, RequestFile, FileArrives, StopTest, LoadFile,
           UploadFails, ClearTestReadRefs, Prompt, TakeTestReadRefs, DeletesDone, RecordRead,
           CheckBefore, SendMatch, SendMatchFails, CheckAfter, AppendTestReadRef
  <2> QED BY <2>1, <2>2, <2>3, <2>4
<1> QED BY <1>1, <1>2, NextOver, AlwaysInv, PTL DEF Spec, OnlyFinishedTestsAreCleaned
=============================================================================
