------------------------- MODULE InspectionsProofs -------------------------
(***************************************************************************)
(* What the unique index on external_id and the lock on the row of the     *)
(* line give, for any number of requests, lines and external ids.          *)
(***************************************************************************)
EXTENDS Inspections, FiniteSetTheorems, TLAPS

Stages == {"idle", "insert", "update", "record", "commit", "done", "failed"}

Types ==
  /\ status \in [Line -> Status]
  /\ pc \in [Request -> Stages]
  /\ insp \in [Request -> Inspection \cup {NoInsp}]
  /\ created \in [Request -> BOOLEAN]
  /\ answer \in [Request -> Request \cup {None}]
  /\ stamp \in [Request -> Nat]
  /\ nextId \in Nat

\* What each stage has done.
Progress ==
  \A r \in Request :
    /\ pc[r] \notin {"idle", "failed"} => insp[r] \in Inspection
    /\ pc[r] \in {"update", "record"} => created[r]
    /\ pc[r] \in {"idle", "insert", "failed"} => ~created[r]

\* One row at most, inserted or committed, has an external id.
KeyOnce == \A x, y \in Request : created[x] /\ created[y] /\ Keyed(x, insp[y].ext) => x = y

\* A request answers with its own row or with the one that was there.
Answers ==
  \A r \in Request : pc[r] \in {"update", "record", "commit", "done"} =>
    \/ created[r] /\ answer[r] = r
    \/ /\ ~created[r] /\ answer[r] \in Recorded
       /\ Keyed(answer[r], insp[r].ext)

Locks(r) == pc[r] \in {"record", "commit"} /\ created[r]

LineLock == \A x, y \in Request : Locks(x) /\ Locks(y) /\ insp[x].line = insp[y].line => x = y

\* The event of the request that holds a line is later than those of the
\* inspections recorded of it.
EventOrder ==
  /\ \A r \in Request : stamp[r] < nextId
  /\ \A x, y \in Request :
       /\ pc[x] = "commit" /\ created[x]
       /\ pc[y] = "done" /\ created[y] /\ insp[x].line = insp[y].line
       => stamp[y] < stamp[x]

IInv ==
  /\ Types /\ Progress /\ KeyOnce /\ Answers /\ LineLock /\ EventOrder
  /\ StatusFollowsEvents

-----------------------------------------------------------------------------

\* At the start nothing has been asked for.
LEMMA InitInspections == Init => IInv
<1> SUFFICES ASSUME Init PROVE IInv
  OBVIOUS
<1>1. Types
  BY ConstantsAssumption DEF Init, Types, Stages
<1>2. Progress /\ KeyOnce /\ Answers /\ LineLock /\ EventOrder
  BY DEF Init, Progress, KeyOnce, Answers, LineLock, Locks, EventOrder
<1>3. Recorded = {}
  BY DEF Init, Recorded
<1>4. StatusFollowsEvents
  BY <1>3 DEF StatusFollowsEvents
<1> QED  BY <1>1, <1>2, <1>4 DEF IInv

\* A request asks for an inspection.
LEMMA BeginKeeps ==
  ASSUME IInv, NEW r \in Request, Begin(r)
  PROVE  IInv'
<1> USE DEF IInv
<1>1. PICK i \in Inspection :
        /\ pc[r] = "idle" /\ pc' = [pc EXCEPT ![r] = "insert"]
        /\ insp' = [insp EXCEPT ![r] = i]
        /\ UNCHANGED <<status, created, answer, stamp, nextId>>
  BY DEF Begin, Goto, Inspection
<1>2. Types'
  BY <1>1 DEF Types, Stages
<1>3. \A x \in Request : /\ pc'[x] = IF x = r THEN "insert" ELSE pc[x]
                         /\ insp'[x] = IF x = r THEN i ELSE insp[x]
  BY <1>1 DEF Types
<1>4. ~created[r]
  BY <1>1 DEF Progress
<1>5. Recorded' = Recorded /\ r \notin Recorded
  BY <1>1, <1>3 DEF Recorded
<1>6. Progress' /\ KeyOnce' /\ LineLock' /\ EventOrder'
  BY <1>1, <1>3, <1>4 DEF Progress, KeyOnce, Keyed, LineLock, Locks, EventOrder
<1>7. Answers'
  <2>1. \A x \in Recorded : x # r /\ x \in Request
    BY <1>5 DEF Recorded
  <2> QED  BY <1>1, <1>3, <1>5, <2>1 DEF Answers, Keyed
<1>8. StatusFollowsEvents'
  <2>1. \A x \in Recorded : insp'[x] = insp[x]
    BY <1>3, <1>5 DEF Recorded
  <2> QED  BY <1>1, <1>5, <2>1 DEF StatusFollowsEvents
<1> QED  BY <1>2, <1>6, <1>7, <1>8

\* A request that is not over fails: it had recorded nothing.
LEMMA FailKeeps ==
  ASSUME IInv, NEW r \in Request, pc[r] \notin {"done", "failed"}, Fail(r)
  PROVE  IInv'
<1> USE DEF IInv
<1>1. /\ pc' = [pc EXCEPT ![r] = "failed"] /\ insp' = [insp EXCEPT ![r] = NoInsp]
      /\ created' = [created EXCEPT ![r] = FALSE] /\ answer' = [answer EXCEPT ![r] = None]
      /\ stamp' = [stamp EXCEPT ![r] = 0] /\ UNCHANGED <<status, nextId>>
  BY DEF Fail, Goto
<1>2. Types'
  BY <1>1 DEF Types, Stages
<1>3. \A x \in Request : /\ pc'[x] = IF x = r THEN "failed" ELSE pc[x]
                         /\ created'[x] = IF x = r THEN FALSE ELSE created[x]
                         /\ stamp'[x] = IF x = r THEN 0 ELSE stamp[x]
                         /\ x # r => insp'[x] = insp[x] /\ answer'[x] = answer[x]
  BY <1>1 DEF Types
<1>4. Recorded' = Recorded /\ r \notin Recorded
  BY <1>3 DEF Recorded
<1>5. Progress' /\ KeyOnce' /\ LineLock'
  <2>1. \A x \in Request : created'[x] => x # r /\ created[x] /\ insp'[x] = insp[x]
                                         /\ pc'[x] = pc[x]
    BY <1>3
  <2>2. Progress'
    BY <1>3 DEF Progress
  <2>3. KeyOnce'
    BY <2>1 DEF KeyOnce, Keyed
  <2>4. LineLock'
    BY <2>1 DEF LineLock, Locks
  <2> QED  BY <2>2, <2>3, <2>4
<1>6. EventOrder'
  BY <1>1, <1>3 DEF EventOrder, Types
<1>7. Answers'
  <2>1. \A x \in Recorded : x # r /\ x \in Request
    BY <1>4 DEF Recorded
  <2>2. SUFFICES ASSUME NEW x \in Request, x # r, pc[x] \in {"update", "record", "commit", "done"}
                 PROVE  \/ created[x] /\ answer[x] = x
                        \/ /\ ~created[x] /\ answer[x] \in Recorded
                           /\ Keyed(answer[x], insp[x].ext)'
    BY <1>3, <1>4, <2>1 DEF Answers
  <2>3. CASE created[x]
    BY <2>2, <2>3 DEF Answers
  <2>4. CASE ~created[x]
    <3>1. answer[x] \in Recorded /\ Keyed(answer[x], insp[x].ext)
      BY <2>2, <2>4 DEF Answers
    <3> QED  BY <1>3, <2>1, <2>2, <2>4, <3>1 DEF Keyed
  <2> QED  BY <2>3, <2>4
<1>8. StatusFollowsEvents'
  <2>1. \A x \in Recorded : insp'[x] = insp[x] /\ stamp'[x] = stamp[x]
    BY <1>3, <1>4 DEF Recorded
  <2> QED  BY <1>1, <1>4, <2>1 DEF StatusFollowsEvents
<1> QED  BY <1>2, <1>5, <1>6, <1>7, <1>8

\* The row is inserted when no row, committed or not, has its external id; or
\* the request answers with the one that has.
LEMMA InsertKeeps ==
  ASSUME IInv, NEW r \in Request, Insert(r)
  PROVE  IInv'
<1> USE DEF IInv
<1> DEFINE known == {x \in Recorded : Keyed(x, insp[r].ext)}
<1>1. /\ pc[r] = "insert" /\ ~created[r] /\ UNCHANGED <<status, insp, stamp, nextId>>
      /\ \A x \in Request \ {r} : Open(x) /\ created[x] => ~Keyed(x, insp[r].ext)
  BY DEF Insert, Progress
<1>2. CASE known = {}
  <2>1. /\ created' = [created EXCEPT ![r] = TRUE] /\ answer' = [answer EXCEPT ![r] = r]
        /\ pc' = [pc EXCEPT ![r] = "update"]
    BY <1>2 DEF Insert, Goto
  <2>2. Types'
    BY <1>1, <2>1 DEF Types, Stages
  <2>3. \A x \in Request : /\ pc'[x] = IF x = r THEN "update" ELSE pc[x]
                           /\ created'[x] = IF x = r THEN TRUE ELSE created[x]
                           /\ answer'[x] = IF x = r THEN r ELSE answer[x]
    BY <2>1 DEF Types
  <2>4. Recorded' = Recorded
    BY <1>1, <2>3 DEF Recorded
  <2>5. Progress' /\ LineLock' /\ EventOrder'
    BY <1>1, <2>3 DEF Progress, LineLock, Locks, EventOrder
  <2>6. \A x \in Request : created[x] => ~Keyed(x, insp[r].ext)
    BY <1>1, <1>2 DEF Recorded, Open, Progress
  <2>7. \A x \in Request : created[x] => ~Keyed(r, insp[x].ext)
    BY <2>6 DEF Keyed
  <2>8. KeyOnce'
    BY <1>1, <2>3, <2>6, <2>7 DEF KeyOnce, Keyed
  <2>9. Answers'
    BY <1>1, <2>3, <2>4 DEF Answers, Keyed
  <2>10. StatusFollowsEvents'
    BY <1>1, <2>4 DEF StatusFollowsEvents
  <2> QED  BY <2>2, <2>5, <2>8, <2>9, <2>10
<1>3. CASE known # {}
  <2>1. PICK y \in known : answer' = [answer EXCEPT ![r] = y]
    BY <1>3 DEF Insert
  <2>2. pc' = [pc EXCEPT ![r] = "commit"] /\ created' = created
    BY <1>3 DEF Insert, Goto
  <2>3. y \in Request /\ y \in Recorded /\ Keyed(y, insp[r].ext)
    BY DEF Recorded
  <2>4. Types'
    BY <1>1, <2>1, <2>2, <2>3 DEF Types, Stages
  <2>5. \A x \in Request : /\ pc'[x] = IF x = r THEN "commit" ELSE pc[x]
                           /\ answer'[x] = IF x = r THEN y ELSE answer[x]
    BY <2>1, <2>2 DEF Types
  <2>6. Recorded' = Recorded
    BY <1>1, <2>2, <2>5 DEF Recorded
  <2>7. Progress' /\ KeyOnce' /\ LineLock' /\ EventOrder'
    BY <1>1, <2>2, <2>5 DEF Progress, KeyOnce, Keyed, LineLock, Locks, EventOrder
  <2>8. Answers'
    BY <1>1, <2>2, <2>3, <2>5, <2>6 DEF Answers, Keyed
  <2>9. StatusFollowsEvents'
    BY <1>1, <2>6 DEF StatusFollowsEvents
  <2> QED  BY <2>4, <2>7, <2>8, <2>9
<1> QED  BY <1>2, <1>3

\* The row of the line is free when it is taken, ...
LEMMA UpdateKeeps ==
  ASSUME IInv, NEW r \in Request, Update(r)
  PROVE  IInv'
<1> USE DEF IInv
<1>1. /\ pc[r] = "update" /\ pc' = [pc EXCEPT ![r] = "record"]
      /\ \A x \in Request \ {r} :
           pc[x] \in {"record", "commit"} /\ created[x] => insp[x].line # insp[r].line
      /\ UNCHANGED <<status, insp, created, answer, stamp, nextId>>
  BY DEF Update, Goto
<1>2. Types'
  BY <1>1 DEF Types, Stages
<1>3. \A x \in Request : pc'[x] = IF x = r THEN "record" ELSE pc[x]
  BY <1>1 DEF Types
<1>4. Recorded' = Recorded
  BY <1>1, <1>3 DEF Recorded
<1>5. LineLock'
  BY <1>1, <1>3 DEF LineLock, Locks
<1>6. Progress' /\ KeyOnce' /\ EventOrder'
  BY <1>1, <1>3 DEF Progress, KeyOnce, Keyed, EventOrder
<1>7. Answers' /\ StatusFollowsEvents'
  BY <1>1, <1>3, <1>4 DEF Answers, Keyed, StatusFollowsEvents
<1> QED  BY <1>2, <1>5, <1>6, <1>7

\* ... the event is the latest of all, ...
LEMMA RecordKeeps ==
  ASSUME IInv, NEW r \in Request, Record(r)
  PROVE  IInv'
<1> USE DEF IInv
<1>1. /\ pc[r] = "record" /\ pc' = [pc EXCEPT ![r] = "commit"]
      /\ stamp' = [stamp EXCEPT ![r] = nextId] /\ nextId' = nextId + 1
      /\ UNCHANGED <<status, insp, created, answer>>
  BY DEF Record, Goto
<1>2. Types'
  BY <1>1 DEF Types, Stages
<1>3. \A x \in Request : /\ pc'[x] = IF x = r THEN "commit" ELSE pc[x]
                         /\ stamp'[x] = IF x = r THEN nextId ELSE stamp[x]
  BY <1>1 DEF Types
<1>4. Recorded' = Recorded /\ r \notin Recorded
  BY <1>1, <1>3 DEF Recorded
<1>5. Progress' /\ KeyOnce' /\ LineLock'
  BY <1>1, <1>3 DEF Progress, KeyOnce, Keyed, LineLock, Locks
<1>6. EventOrder'
  <2>1. \A x \in Request : stamp[x] \in Nat /\ stamp[x] < nextId /\ nextId \in Nat
    BY DEF EventOrder, Types
  <2> QED  BY <1>1, <1>3, <2>1 DEF EventOrder
<1>7. Answers'
  BY <1>1, <1>3, <1>4 DEF Answers, Keyed
<1>8. StatusFollowsEvents'
  <2>1. \A x \in Recorded : stamp'[x] = stamp[x]
    BY <1>3, <1>4 DEF Recorded
  <2> QED  BY <1>1, <1>4, <2>1 DEF StatusFollowsEvents
<1> QED  BY <1>2, <1>5, <1>6, <1>7, <1>8

\* ... and still the latest of the line when it is committed.
LEMMA CommitKeeps ==
  ASSUME IInv, NEW r \in Request, Commit(r)
  PROVE  IInv'
<1> USE DEF IInv
<1>1. /\ pc[r] = "commit" /\ pc' = [pc EXCEPT ![r] = "done"]
      /\ status' = [status EXCEPT ![insp[r].line] = IF created[r] THEN insp[r].status ELSE @]
      /\ UNCHANGED <<insp, created, answer, stamp, nextId>>
  BY DEF Commit, Goto
<1>2. insp[r] \in Inspection
  BY <1>1 DEF Progress
<1>3. insp[r].line \in Line /\ insp[r].status \in Status
  BY <1>2 DEF Inspection
<1>4. Types'
  BY <1>1, <1>3 DEF Types, Stages
<1>5. \A x \in Request : pc'[x] = IF x = r THEN "done" ELSE pc[x]
  BY <1>1 DEF Types
<1>6. Recorded' = IF created[r] THEN Recorded \cup {r} ELSE Recorded
  BY <1>1, <1>5 DEF Recorded
<1>7. Progress' /\ KeyOnce' /\ LineLock'
  BY <1>1, <1>5 DEF Progress, KeyOnce, Keyed, LineLock, Locks
<1>8. EventOrder'
  <2>1. ASSUME NEW x \in Request, pc[x] = "commit", created[x], created[r], x # r
        PROVE  insp[x].line # insp[r].line
    BY <1>1, <2>1 DEF LineLock, Locks
  <2> QED  BY <1>1, <1>5, <2>1 DEF EventOrder
<1>9. Answers'
  BY <1>1, <1>5, <1>6 DEF Answers, Keyed
<1>10. StatusFollowsEvents'
  <2>1. CASE ~created[r]
    <3>1. status' = status
      BY <1>1, <1>3, <2>1 DEF Types
    <3> QED  BY <1>1, <1>6, <2>1, <3>1 DEF StatusFollowsEvents
  <2>2. CASE created[r]
    <3> SUFFICES ASSUME NEW x \in Recorded',
                        \A y \in Recorded' : insp[y].line = insp[x].line => stamp[y] <= stamp[x]
                 PROVE  status'[insp[x].line] = insp[x].status
      BY <1>1 DEF StatusFollowsEvents
    <3>1. CASE x = r
      BY <1>1, <1>3, <2>2, <3>1 DEF Types
    <3>2. CASE x # r
      <4>1. x \in Recorded /\ x \in Request /\ insp[x] \in Inspection
        BY <1>6, <2>2, <3>2 DEF Recorded, Progress
      <4>2. insp[x].line # insp[r].line
        <5>1. SUFFICES ASSUME insp[x].line = insp[r].line PROVE FALSE
          OBVIOUS
        <5>2. stamp[x] < stamp[r]
          BY <1>1, <2>2, <4>1, <5>1 DEF EventOrder, Recorded
        <5>3. stamp[r] <= stamp[x]
          BY <1>6, <2>2, <5>1
        <5> QED  BY <4>1, <5>2, <5>3 DEF Types
      <4>3. insp[x].line \in Line
        BY <4>1 DEF Inspection
      <4>4. status'[insp[x].line] = status[insp[x].line]
        BY <1>1, <4>2, <4>3 DEF Types
      <4>5. \A y \in Recorded : insp[y].line = insp[x].line => stamp[y] <= stamp[x]
        BY <1>6
      <4> QED  BY <4>1, <4>4, <4>5 DEF StatusFollowsEvents
    <3> QED  BY <3>1, <3>2
  <2> QED  BY <2>1, <2>2
<1> QED  BY <1>4, <1>7, <1>8, <1>9, <1>10

\* Every step keeps the invariant.
LEMMA NextInspections == IInv /\ [Next]_vars => IInv'
<1> SUFFICES ASSUME IInv, [Next]_vars PROVE IInv'
  OBVIOUS
<1>1. CASE UNCHANGED vars
  BY <1>1 DEF vars, IInv, Types, Progress, KeyOnce, Keyed, Answers, Recorded, LineLock, Locks,
              EventOrder, StatusFollowsEvents
<1>2. ASSUME NEW r \in Request, Step(r) \/ Cancel(r) PROVE IInv'
  <2>1. ASSUME NotFound(r) \/ Cancel(r) PROVE IInv'
    <3>1. Fail(r) /\ pc[r] \notin {"done", "failed"}
      BY <2>1 DEF NotFound, Cancel, Open
    <3> QED  BY <3>1, FailKeeps
  <2> QED  BY <1>2, <2>1, BeginKeeps, InsertKeeps, UpdateKeeps, RecordKeeps, CommitKeeps DEF Step
<1> QED  BY <1>1, <1>2 DEF Next, Finished

\* What the transactions have done at each of their stages.
THEOREM InspectionsInvariant == Spec => []IInv
BY InitInspections, NextInspections, PTL DEF Spec

\* An external inspection is recorded once, however often it is delivered.
THEOREM RecordedOnce == Spec => []ExternalOnce
<1>1. IInv => ExternalOnce
  BY DEF IInv, KeyOnce, ExternalOnce, Recorded
<1> QED  BY <1>1, InspectionsInvariant, PTL

\* Nothing that has been acknowledged is lost.
THEOREM AcknowledgedIsRecorded == Spec => []DeliveryRecorded
<1>1. IInv => DeliveryRecorded
  BY DEF IInv, Answers, DeliveryRecorded, Recorded, Keyed
<1> QED  BY <1>1, InspectionsInvariant, PTL

\* A consumer that replays the events by id shows what the line shows.
THEOREM EventsExplainStatus == Spec => []StatusFollowsEvents
<1>1. IInv => StatusFollowsEvents
  BY DEF IInv
<1> QED  BY <1>1, InspectionsInvariant, PTL

\* Inspections recorded in the order they were made: report and line agree.
THEOREM ReportAgrees == Spec => []ReportMatchesLine
<1>1. IInv => ReportMatchesLine
  <2> SUFFICES ASSUME IInv, NEW l \in Line,
                      \A x, y \in Recorded : insp[x].line = l /\ insp[y].line = l
                        /\ stamp[x] < stamp[y] => insp[x].at < insp[y].at
               PROVE  ReportedStatus(l) = {status[l]}
    BY DEF ReportMatchesLine
  <2>1. Cardinality(Request) \in Nat
    BY ConstantsAssumption, FS_CardinalityType
  <2>2. \A x \in Recorded : insp[x].at \in Int /\ stamp[x] \in Nat
    BY <2>1 DEF IInv, Types, Recorded, Progress, Inspection, Time
  <2>3. ASSUME NEW r \in Latest(l) PROVE insp[r].status = status[l]
    <3>1. r \in Recorded /\ insp[r].line = l
          /\ \A x \in Recorded : insp[x].line = l => insp[x].at <= insp[r].at
      BY DEF Latest
    <3>2. \A x \in Recorded : insp[x].line = l => stamp[x] <= stamp[r]
      BY <2>2, <3>1
    <3> QED  BY <3>1, <3>2 DEF IInv, StatusFollowsEvents
  <2> QED  BY <2>3 DEF ReportedStatus
<1> QED  BY <1>1, InspectionsInvariant, PTL

\* A repeated delivery changes no line.
THEOREM RepeatHarmless == Spec => RepeatChangesNothing
<1> DEFINE A == \A r \in Sender : pc[r] = "commit" /\ pc'[r] = "done" =>
                  ((\E x \in Recorded : Keyed(x, insp[r].ext)) => status' = status)
<1>1. IInv /\ [Next]_vars => [A]_vars
  <2> SUFFICES ASSUME IInv, Next, NEW r \in Request, pc[r] = "commit", pc'[r] = "done",
                      NEW x \in Recorded, Keyed(x, insp[r].ext)
               PROVE  status' = status
    BY DEF Request
  <2>1. Commit(r)
    BY DEF Next, Finished, vars, Step, Cancel, Begin, NotFound, Insert, Update, Record, Commit,
           Fail, Goto, IInv, Types
  <2>2. ~created[r] /\ insp[r] \in Inspection
    BY DEF IInv, KeyOnce, Recorded, Progress
  <2>3. insp[r].line \in Line
    BY <2>2 DEF Inspection
  <2> QED  BY <2>1, <2>2, <2>3 DEF Commit, IInv, Types
<1> QED  BY <1>1, InspectionsInvariant, PTL DEF Spec, RepeatChangesNothing
=============================================================================
