------------------------------ MODULE Turning ------------------------------
(***************************************************************************)
(* The sides of a mooring line and what their ages are computed from:      *)
(* TurnLine (api/internal/store/turn.go) as concurrent READ COMMITTED      *)
(* transactions, and the ages GetLine and ListLines report                 *)
(* (api/internal/domain/derive.go).                                        *)
(*                                                                         *)
(* TurnLine reads the row without locking it, decides from what it read    *)
(* which side leaves service and since when it served, and then updates    *)
(* the row as it is by that time: the accumulated age is incremented in    *)
(* SQL, the side is set to the one chosen before. Dates are days.          *)
(***************************************************************************)
EXTENDS Integers, FiniteSets

CONSTANTS
  Line,          \* lines
  Turner,        \* requests that call TurnLine
  SeedRows,      \* rows as CreateLine leaves them
  MaxDay,        \* bound: the last day
  Late,          \* bound: the most midnights a request stays open over
  TurnInterval,  \* domain.TurnIntervalDays
  MaxConns,      \* size of the connection pool
  None           \* SQL NULL

Side == {"A", "B"}

Other(s) == IF s = "A" THEN "B" ELSE "A"

Day == 0..MaxDay

\* The columns of mooring_line that TurnLine reads or writes.
Row == [side : Side \cup {"n/a"}, acc : [Side -> Nat],
        since : [Side -> Day \cup {None}], install : Day \cup {None},
        turnable : BOOLEAN]

ASSUME ConstantsAssumption ==
  /\ MaxDay \in Nat /\ Late \in Nat /\ TurnInterval \in Nat /\ MaxConns \in Nat
  /\ None \notin Int
  /\ SeedRows \subseteq Row
  /\ \A row \in SeedRows : \A s \in Side : row.acc[s] = 0 /\ row.since[s] = None

VARIABLES
  day,      \* the date, UTC
  line,     \* the committed row of each line
  pc,       \* how far each request has come
  target,   \* the line a request turns
  seen,     \* the row it read
  on,       \* "today" of the request
  locked,   \* the request has updated, and so locked, the row
  stamp,    \* id of its outbox event, or 0
  nextId    \* the next such id

vars == <<day, line, pc, target, seen, on, locked, stamp, nextId>>

Init ==
  /\ day = 0
  /\ line \in [Line -> SeedRows]
  /\ pc = [r \in Turner |-> "idle"]
  /\ target = [r \in Turner |-> None]
  /\ seen = [r \in Turner |-> None]
  /\ on = [r \in Turner |-> None]
  /\ locked = [r \in Turner |-> FALSE]
  /\ stamp = [r \in Turner |-> 0]
  /\ nextId = 1

-----------------------------------------------------------------------------
(* Derived values.                                                         *)

\* Whole days from a to b, never negative.
DaysBetween(a, b) == IF b < a THEN 0 ELSE b - a

AgeDays(date, now) == IF date = None THEN 0 ELSE DaysBetween(date, now)

\* The age of a side as the API reports it.
LiveSideAge(row, s, now) ==
  row.acc[s] + IF row.side = s THEN AgeDays(row.since[s], now) ELSE 0

TurnDue(row, now) ==
  LET active == IF row.side = "B" THEN "B" ELSE "A"
  IN  row.turnable /\ LiveSideAge(row, active, now) >= TurnInterval

\* Mutant: without the clamp.
ElapsedUnclamped(row, today) ==
  LET ref == IF row.since[row.side] # None THEN row.since[row.side] ELSE row.install
  IN  IF ref = None THEN 0 ELSE today - ref

\* Mutant: as LiveSideAge counts, from the change date only.
ElapsedSinceChange(row, today) == AgeDays(row.since[row.side], today)

\* elapsed in TurnLine: days the side in service has served, from its
\* change date or else from the installation of the line.
Elapsed(row, today) ==
  LET ref == IF row.since[row.side] # None THEN row.since[row.side] ELSE row.install
  IN  AgeDays(ref, today)

-----------------------------------------------------------------------------
(* TurnLine.                                                               *)

Open(r) == pc[r] \notin {"idle", "done", "failed"}

Connection == Cardinality({r \in Turner : Open(r)}) < MaxConns

Goto(r, stage) == pc' = [pc EXCEPT ![r] = stage]

\* defer tx.Rollback.
Fail(r) ==
  /\ Goto(r, "failed")
  /\ target' = [target EXCEPT ![r] = None]
  /\ seen' = [seen EXCEPT ![r] = None]
  /\ on' = [on EXCEPT ![r] = None]
  /\ locked' = [locked EXCEPT ![r] = FALSE]
  /\ stamp' = [stamp EXCEPT ![r] = 0]
  /\ UNCHANGED <<day, line, nextId>>

\* Nobody else has an uncommitted version of the row of l.
RowFree(r, l) == \A x \in Turner \ {r} : locked[x] => target[x] # l

\* SELECT: the row as committed, or ErrNotTurnable.
Read(r) ==
  /\ pc[r] = "idle" /\ Connection
  /\ \E l \in Line :
       IF line[l].turnable /\ line[l].side \in Side
       THEN /\ Goto(r, "date")
            /\ target' = [target EXCEPT ![r] = l]
            /\ seen' = [seen EXCEPT ![r] = line[l]]
            /\ UNCHANGED <<day, line, on, locked, stamp, nextId>>
       ELSE Fail(r)

\* today := time.Now
Date(r) ==
  /\ pc[r] = "date" /\ Goto(r, "update")
  /\ on' = [on EXCEPT ![r] = day]
  /\ UNCHANGED <<day, line, target, seen, locked, stamp, nextId>>

\* Mutant: the row is not locked.
UpdateUnlocked(r) ==
  /\ pc[r] = "update"
  /\ Goto(r, "record")
  /\ UNCHANGED <<day, line, target, seen, on, locked, stamp, nextId>>

\* UPDATE mooring_line: waits for the row, whose new version is Turned.
Update(r) ==
  /\ pc[r] = "update" /\ RowFree(r, target[r])
  /\ Goto(r, "record")
  /\ locked' = [locked EXCEPT ![r] = TRUE]
  /\ UNCHANGED <<day, line, target, seen, on, stamp, nextId>>

\* Mutant: the days served go to the side that enters service.
TurnedSwapped(r) ==
  LET old == seen[r].side
      new == Other(old)
  IN  [line[target[r]] EXCEPT !.side = new,
                              !.acc[new] = @ + Elapsed(seen[r], on[r]),
                              !.since[new] = on[r]]

\* What the UPDATE makes of the row: the days the side read as serving has
\* served are added to whatever its age is by now.
Turned(r) ==
  LET old == seen[r].side
      new == Other(old)
  IN  [line[target[r]] EXCEPT !.side = new,
                              !.acc[old] = @ + Elapsed(seen[r], on[r]),
                              !.since[new] = on[r]]

\* INSERT INTO turn_event and writeOutbox: the turn is dated on[r], and
\* Other(seen[r].side) is its side_after.
Record(r) ==
  /\ pc[r] = "record" /\ Goto(r, "commit")
  /\ stamp' = [stamp EXCEPT ![r] = nextId]
  /\ nextId' = nextId + 1
  /\ UNCHANGED <<day, line, target, seen, on, locked>>

Commit(r) ==
  /\ pc[r] = "commit" /\ Goto(r, "done")
  /\ line' = [line EXCEPT ![target[r]] = Turned(r)]
  /\ locked' = [locked EXCEPT ![r] = FALSE]
  /\ UNCHANGED <<day, target, seen, on, stamp, nextId>>

Cancel(r) == Open(r) /\ Fail(r)

-----------------------------------------------------------------------------
(* What happens around it.                                                 *)

\* Midnight.
Tick ==
  /\ day < MaxDay
  /\ \A r \in Turner : Open(r) /\ on[r] # None => day < on[r] + Late
  /\ day' = day + 1
  /\ UNCHANGED <<line, pc, target, seen, on, locked, stamp, nextId>>

Step(r) == Read(r) \/ Date(r) \/ Update(r) \/ Record(r) \/ Commit(r)

Next ==
  \/ \E r \in Turner : Step(r) \/ Cancel(r)
  \/ Tick

Spec == Init /\ [][Next]_vars

-----------------------------------------------------------------------------
(* Properties.                                                             *)

TypeOK ==
  /\ day \in Day
  /\ line \in [Line -> Row]
  /\ pc \in [Turner -> {"idle", "date", "update", "record", "commit", "done", "failed"}]
  /\ target \in [Turner -> Line \cup {None}]
  /\ seen \in [Turner -> Row \cup {None}]
  /\ on \in [Turner -> Day \cup {None}]
  /\ locked \in [Turner -> BOOLEAN]
  /\ stamp \in [Turner -> Nat]
  /\ nextId \in Nat

\* The turn_event with the latest outbox id explains the row: the side in
\* service is its side_after and entered service on its event_date, even
\* when several turns of the line ran at once.
HistoryExplainsLine ==
  \A r \in Turner : pc[r] = "done" =>
    LET row == line[target[r]]
        after == Other(seen[r].side)
        turns == {x \in Turner : pc[x] = "done" /\ target[x] = target[r]}
    IN  (\A x \in turns : stamp[x] <= stamp[r]) =>
          row.side = after /\ row.since[after] = on[r]

\* However turns race, no day in service is lost: once a line has been
\* turned, the ages reported for its two sides cover every day since it was
\* installed. (They may count a day twice.)
AgeCovered ==
  \A l \in Line :
    LET row == line[l]
    IN  row.install # None /\ row.side \in Side /\ row.since[row.side] # None =>
          LiveSideAge(row, "A", day) + LiveSideAge(row, "B", day) >= day - row.install

\* A turn of a line nobody has turned since it read the row ages the line
\* as SideAge says: so does every turn, as long as turns do not overlap.
\* (For lines in service since they were registered.)
Worn == [l \in Line |-> [s \in Side |->
          line[l].acc[s] + IF line[l].side = s THEN Elapsed(line[l], day) ELSE 0]]
Aging == INSTANCE SideAge WITH side <- [l \in Line |-> line[l].side], worn <- Worn

InService == \A l \in Line : line[l].install = 0 /\ line[l].side \in Side

FreshTurnAges ==
  [][InService /\ (\A r \in Turner :
       pc[r] = "commit" /\ pc'[r] = "done" => seen[r] = line[target[r]])
     => Aging!Next \/ UNCHANGED <<day, line>>]_vars

\* The side out of service does not age ("age accrues only on the side in
\* use").
OutOfServiceFrozen ==
  [][\A l \in Line, s \in Side :
       line[l].side # s => line'[l].acc[s] = line[l].acc[s]]_vars

\* No side serves longer than the interval unnoticed: a line is reported due
\* at the latest TurnInterval days after the date of the last turn event on
\* record, even when turns overlapped, or the line was turned before the day it
\* was installed. (Of a line never turned this is not so.)
DueInTime ==
  \A r \in Turner : pc[r] = "done" =>
    LET turns == {x \in Turner : pc[x] = "done" /\ target[x] = target[r]}
    IN  (\A x \in turns : stamp[x] <= stamp[r]) /\ day >= on[r] + TurnInterval =>
          TurnDue(line[target[r]], day)
=============================================================================
