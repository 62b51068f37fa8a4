---------------------------- MODULE Inspections ----------------------------
(***************************************************************************)
(* The condition of the lines: LogInspection, IngestInspection and         *)
(* ConditionReport (api/internal/store/inspections.go) as concurrent       *)
(* READ COMMITTED transactions.                                            *)
(*                                                                         *)
(* A third party delivers inspections to IngestInspection and repeats a    *)
(* delivery it got no answer to; the partial unique index on external_id   *)
(* is what makes the repetition harmless. An inspection is named by the    *)
(* request that inserted it. When it was made, inspected_at, is what the   *)
(* client says: any time, in whatever order the requests arrive.           *)
(***************************************************************************)
EXTENDS Integers, FiniteSets

CONSTANTS
  Line,       \* lines
  ExtId,      \* external ids
  Logger,     \* requests that call LogInspection
  Sender,     \* requests that call IngestInspection
  SeedStatus, \* current_condition_status of every line at the start
  MaxConns,   \* size of the connection pool
  None        \* SQL NULL

Request == Logger \cup Sender

Status == {"Good", "Monitor", "Action"}

\* Bound: as many times as requests, so that inspected_at may be in any order.
Time == 1..Cardinality(Request)

ASSUME ConstantsAssumption ==
  /\ Logger \cap Sender = {} /\ IsFiniteSet(Request)
  /\ SeedStatus \in Status /\ MaxConns \in Nat
  /\ None \notin ExtId \cup Request

VARIABLES
  status,   \* current_condition_status of each line, committed
  pc,       \* how far each request has come
  insp,     \* the inspection each request asks to record
  created,  \* the request has inserted its row
  answer,   \* the inspection it answers with
  stamp,    \* id of its outbox event, or 0
  nextId    \* the next such id

vars == <<status, pc, insp, created, answer, stamp, nextId>>

NoInsp == [line |-> None, ext |-> None, status |-> None, at |-> None]

Inspection == [line : Line, ext : ExtId \cup {None}, status : Status, at : Time]

Init ==
  /\ status = [l \in Line |-> SeedStatus]
  /\ pc = [r \in Request |-> "idle"]
  /\ insp = [r \in Request |-> NoInsp]
  /\ created = [r \in Request |-> FALSE]
  /\ answer = [r \in Request |-> None]
  /\ stamp = [r \in Request |-> 0]
  /\ nextId = 1

-----------------------------------------------------------------------------
Open(r) == pc[r] \notin {"idle", "done", "failed"}

Connection == Cardinality({r \in Request : Open(r)}) < MaxConns

\* The committed inspections.
Recorded == {r \in Request : pc[r] = "done" /\ created[r]}

Goto(r, stage) == pc' = [pc EXCEPT ![r] = stage]

\* defer tx.Rollback.
Fail(r) ==
  /\ Goto(r, "failed")
  /\ insp' = [insp EXCEPT ![r] = NoInsp]
  /\ created' = [created EXCEPT ![r] = FALSE]
  /\ answer' = [answer EXCEPT ![r] = None]
  /\ stamp' = [stamp EXCEPT ![r] = 0]
  /\ UNCHANGED <<status, nextId>>

\* The SELECT of the line by its id or serial number. inspected_at is what
\* the client says, be it past or to come, or now() where it says nothing.
Begin(r) ==
  /\ pc[r] = "idle" /\ Connection
  /\ \E l \in Line, e \in ExtId \cup {None}, st \in Status, t \in Time :
       /\ r \in Logger => e = None
       /\ insp' = [insp EXCEPT ![r] = [line |-> l, ext |-> e, status |-> st, at |-> t]]
  /\ Goto(r, "insert")
  /\ UNCHANGED <<status, created, answer, stamp, nextId>>

\* No line with this id or serial number: 404.
NotFound(r) == pc[r] = "idle" /\ Connection /\ Fail(r)

Keyed(r, e) == e # None /\ insp[r].ext = e

\* Mutant: a SELECT by external_id in place of the unique index.
InsertBlind(r) ==
  LET known == {x \in Recorded : Keyed(x, insp[r].ext)}
  IN  /\ pc[r] = "insert"
      /\ IF known = {}
         THEN /\ created' = [created EXCEPT ![r] = TRUE]
              /\ answer' = [answer EXCEPT ![r] = r]
              /\ Goto(r, "update")
         ELSE /\ \E x \in known : answer' = [answer EXCEPT ![r] = x]
              /\ Goto(r, "commit") /\ UNCHANGED created
      /\ UNCHANGED <<status, insp, stamp, nextId>>

\* Mutant: a duplicate is answered as if it had been recorded.
InsertUnread(r) ==
  LET known == {x \in Recorded : Keyed(x, insp[r].ext)}
  IN  /\ pc[r] = "insert"
      /\ \A x \in Request \ {r} : Open(x) /\ created[x] => ~Keyed(x, insp[r].ext)
      /\ answer' = [answer EXCEPT ![r] = r]
      /\ IF known = {}
         THEN created' = [created EXCEPT ![r] = TRUE] /\ Goto(r, "update")
         ELSE Goto(r, "commit") /\ UNCHANGED created
      /\ UNCHANGED <<status, insp, stamp, nextId>>

\* INSERT ... ON CONFLICT DO NOTHING: waits for whoever is inserting the same
\* external_id. If that committed, nothing is inserted and the answer is the
\* row it left.
Insert(r) ==
  LET known == {x \in Recorded : Keyed(x, insp[r].ext)}
  IN  /\ pc[r] = "insert"
      /\ \A x \in Request \ {r} : Open(x) /\ created[x] => ~Keyed(x, insp[r].ext)
      /\ IF known = {}
         THEN /\ created' = [created EXCEPT ![r] = TRUE]
              /\ answer' = [answer EXCEPT ![r] = r]
              /\ Goto(r, "update")
         ELSE /\ \E x \in known : answer' = [answer EXCEPT ![r] = x]
              /\ Goto(r, "commit") /\ UNCHANGED created
      /\ UNCHANGED <<status, insp, stamp, nextId>>

\* Mutant: the row is not locked while the event is written.
UpdateUnlocked(r) ==
  /\ pc[r] = "update" /\ Goto(r, "record")
  /\ UNCHANGED <<status, insp, created, answer, stamp, nextId>>

\* UPDATE mooring_line SET current_condition_status: waits for the row.
Update(r) ==
  /\ pc[r] = "update"
  /\ \A x \in Request \ {r} :
       pc[x] \in {"record", "commit"} /\ created[x] => insp[x].line # insp[r].line
  /\ Goto(r, "record")
  /\ UNCHANGED <<status, insp, created, answer, stamp, nextId>>

\* writeOutbox "inspection.logged".
Record(r) ==
  /\ pc[r] = "record" /\ Goto(r, "commit")
  /\ stamp' = [stamp EXCEPT ![r] = nextId]
  /\ nextId' = nextId + 1
  /\ UNCHANGED <<status, insp, created, answer>>

\* Mutant: a duplicate delivery sets the status again.
CommitAlways(r) ==
  /\ pc[r] = "commit" /\ Goto(r, "done")
  /\ status' = [status EXCEPT ![insp[r].line] = insp[r].status]
  /\ UNCHANGED <<insp, created, answer, stamp, nextId>>

\* Mutant: the transaction of a duplicate is never ended.
CommitCreatedOnly(r) ==
  /\ pc[r] = "commit" /\ created[r] /\ Goto(r, "done")
  /\ status' = [status EXCEPT ![insp[r].line] = insp[r].status]
  /\ UNCHANGED <<insp, created, answer, stamp, nextId>>

Commit(r) ==
  /\ pc[r] = "commit" /\ Goto(r, "done")
  /\ status' = [status EXCEPT ![insp[r].line] = IF created[r] THEN insp[r].status ELSE @]
  /\ UNCHANGED <<insp, created, answer, stamp, nextId>>

Cancel(r) == Open(r) /\ Fail(r)

Step(r) == Begin(r) \/ NotFound(r) \/ Insert(r) \/ Update(r) \/ Record(r) \/ Commit(r)

Finished == (\A r \in Request : pc[r] \in {"done", "failed"}) /\ UNCHANGED vars

Next == (\E r \in Request : Step(r) \/ Cancel(r)) \/ Finished

Spec == Init /\ [][Next]_vars

\* A handler that has begun is run, and a statement nothing blocks returns.
FairSpec == Spec /\ \A r \in Request : WF_vars(Open(r) /\ Step(r))

-----------------------------------------------------------------------------
(* What ConditionReport shows for a line: the status of its latest         *)
(* inspection, or else the status of the line.                             *)

\* Mutant: ORDER BY inspected_at, without DESC.
LatestAscending(l) ==
  {r \in Recorded : /\ insp[r].line = l
                    /\ \A x \in Recorded : insp[x].line = l => insp[x].at >= insp[r].at}

Latest(l) == {r \in Recorded : /\ insp[r].line = l
                               /\ \A x \in Recorded :
                                    insp[x].line = l => insp[x].at <= insp[r].at}

ReportedStatus(l) ==
  IF Latest(l) = {} THEN {status[l]} ELSE {insp[r].status : r \in Latest(l)}

-----------------------------------------------------------------------------
(* Properties.                                                             *)

\* An external inspection is recorded once, however often and however
\* concurrently it is delivered.
ExternalOnce ==
  \A x, y \in Recorded : Keyed(x, insp[y].ext) => x = y

\* Every delivery that is answered is answered with a recorded inspection
\* that has its external id: nothing acknowledged is lost.
DeliveryRecorded ==
  \A r \in Request : pc[r] = "done" =>
    /\ answer[r] \in Recorded
    /\ insp[answer[r]].ext = insp[r].ext

\* The line shows the status of the inspection with the latest event, so a
\* consumer of the outbox that replays events by id shows the same.
StatusFollowsEvents ==
  \A r \in Recorded :
    (\A x \in Recorded : insp[x].line = insp[r].line => stamp[x] <= stamp[r]) =>
      status[insp[r].line] = insp[r].status

\* A repeated delivery changes no line: not even when a later inspection has
\* changed the status since the first one.
RepeatChangesNothing ==
  [][\A r \in Sender : pc[r] = "commit" /\ pc'[r] = "done" =>
       ((\E x \in Recorded : Keyed(x, insp[r].ext)) => status' = status)]_vars

\* Every request that has begun is answered: waiting for an external id and
\* for a line never closes a circle.
EveryRequestEnds == \A r \in Request : Open(r) ~> ~Open(r)

\* Where the inspections of a line were recorded in the order they were made,
\* the line shows the status the condition report shows ("most-recent
\* inspection matches the line's current status").
ReportMatchesLine ==
  \A l \in Line :
    (\A x, y \in Recorded : insp[x].line = l /\ insp[y].line = l /\ stamp[x] < stamp[y] =>
        insp[x].at < insp[y].at) =>
      ReportedStatus(l) = {status[l]}
=============================================================================
