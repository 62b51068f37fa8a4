----------------------------- MODULE Placement -----------------------------
(***************************************************************************)
(* Where the mooring lines of a vessel are, and what may move them: the    *)
(* store operations CreateLine and MoveLine (api/internal/store/lines.go)  *)
(* and SaveLayout with adjustDrums (api/internal/store/vessel.go), running *)
(* as concurrent Postgres transactions at the default isolation level,     *)
(* READ COMMITTED.                                                         *)
(*                                                                         *)
(* One HTTP request is one element of Mover, Registrar or Saver, and runs  *)
(* once; a retry is another request.  line, pos and count are what is      *)
(* committed.  mine, born, gone and held are what the open transaction of  *)
(* a request has written and locked; nobody else sees it until Commit.     *)
(* The mechanisms of the database the code relies on are modelled here:    *)
(* row locks, the partial unique index mooring_line_drum_key (whose check  *)
(* waits for an in-flight holder of the key), UNIQUE (winch_id, idx) of    *)
(* drum, foreign keys (whoever refers to a row takes a KEY SHARE lock on   *)
(* it; a DELETE waits for those locks and then cascades, or runs ON DELETE *)
(* SET NULL), and deadlock detection.                                      *)
(*                                                                         *)
(* SaveLayout does not ask whether the winches and storage locations it is *)
(* given are on the vessel it saves: the UPDATE of one of another vessel   *)
(* touches nothing, but the drums of such a winch are adjusted all the     *)
(* same. Such a save crosses; both kinds are here.                         *)
(***************************************************************************)
EXTENDS Integers, FiniteSets

CONSTANTS
  Vessel,       \* vessels in this database: one onboard, several on shore
  Line,         \* serial numbers (unique in mooring_line)
  Winch,        \* ids of winch_location rows, present and future
  Storage,      \* ids of storage_location rows, present and future
  Home,         \* vessel_id of each winch and storage location
  Maker,        \* the request that inserts a winch or storage, or Boot
  SeedDrums,    \* drum_count of the winches present at the start
  SeedRows,     \* the rows a line may have at the start
  MaxDrums,     \* CHECK (drum_count BETWEEN 1 AND 6)
  Mover,        \* requests that call MoveLine
  Registrar,    \* requests that call CreateLine or AddComponent
  Saver,        \* requests that call SaveLayout
  MaxConns,     \* size of the connection pool
  Chosen,       \* bound: the lifecycle statuses lines are registered with
  Boot,         \* what made the rows that exist at the start
  None          \* SQL NULL

Request == Mover \cup Registrar \cup Saver

\* A drum row is named by its winch, its idx and the request that inserted
\* it (a request inserts a given idx of a given winch at most once).
Drum == [winch : Winch, idx : 1..MaxDrums, by : Saver \cup {Boot}]

Position == Drum \cup Storage

Lifecycle == {"ordered", "active", "spare", "retired"}

Row == [vessel : Vessel \cup {None}, life : Lifecycle \cup {"none"},
        at : Position \cup {None}]

\* No row with this serial number; in mine, a row the request did not write.
NoRow == [vessel |-> None, life |-> "none", at |-> None]

\* The row without its position.
Unplaced(row) == [vessel |-> row.vessel, life |-> row.life, at |-> None]

HomeOf(p) == IF p \in Storage THEN Home[p] ELSE Home[p.winch]

\* What the CASE in MoveLine's UPDATE assigns to lifecycle_status.
LifeAt(p) == IF p \in Storage THEN "spare" ELSE "active"

ASSUME ConstantsAssumption ==
  /\ Home \in [Winch \cup Storage -> Vessel]
  /\ Maker \in [Winch \cup Storage -> Saver \cup {Boot}]
  /\ MaxDrums \in Nat /\ MaxConns \in Nat /\ Chosen \subseteq Lifecycle
  /\ SeedDrums \in [Winch -> 0..MaxDrums]
  /\ \A w \in Winch : SeedDrums[w] > 0 <=> Maker[w] = Boot
  /\ SeedRows \subseteq Row
  /\ \A row \in SeedRows : row.at # None =>
       row.life = LifeAt(row.at) /\ row.vessel = HomeOf(row.at)
  /\ Drum \cap Storage = {} /\ None \notin Position /\ None \notin Vessel
  /\ Winch \cap Position = {} /\ None \notin Winch
  /\ Mover \cap Registrar = {} /\ Mover \cap Saver = {}
  /\ Registrar \cap Saver = {}
  /\ Boot \notin Request

-----------------------------------------------------------------------------
VARIABLES
  line,     \* mooring_line, by serial: the committed row
  pos,      \* the committed drum and storage_location rows
  count,    \* winch_location.drum_count, committed; 0 where there is no row
  pc,       \* how far each request has come
  req,      \* what each request asks for
  mine,     \* mooring_line rows written (and locked) by an open transaction
  born,     \* positions inserted by an open transaction
  gone,     \* positions deleted by an open transaction
  held,     \* winch and storage rows an open transaction has locked
  kept,     \* keepWinch: the winches SaveLayout has gone through
  lack,     \* the drums SaveLayout has still to insert on the winch it is at
  drop,     \* what SaveLayout has still to remove at this stage
  unit,     \* what SaveLayout has found empty and is about to remove
  crossed,  \* history: winches a save of another vessel named and committed
            \* while this request was open
  stamp,    \* id of the outbox event a request wrote (uuid v7), or 0
  nextId    \* the next such id

tables == <<line, pos, count>>
layout == <<born, gone, held, kept, lack, drop, unit, crossed>>
events == <<stamp, nextId>>
vars == <<tables, pc, req, mine, layout, events>>

\* No argument: before a request is read and after it was rolled back.
NoReq == [kind |-> "none"]

MoveReq == [kind : {"move"}, line : Line, to : Position]
RegisterReq == [kind : {"register"}, line : Line, vessel : Vessel,
                life : Lifecycle]
SaveReq == [kind : {"save"}, vessel : Vessel, want : [Winch -> 0..MaxDrums],
            stores : SUBSET Storage]

Stage == {"idle", "lock", "index", "ref", "insert", "winches", "stores",
          "emit", "commit", "done", "failed"}

Init ==
  /\ pos = {d \in [winch : Winch, idx : 1..MaxDrums, by : {Boot}] :
              d.idx <= SeedDrums[d.winch]}
           \cup {s \in Storage : Maker[s] = Boot}
  /\ line \in [Line -> SeedRows]
  /\ \A l \in Line : line[l].at \in pos \cup {None}
  /\ \A k, l \in Line : line[k].at \in Drum /\ line[k].at = line[l].at => k = l
  /\ count = SeedDrums
  /\ pc = [r \in Request |-> "idle"]
  /\ req = [r \in Request |-> NoReq]
  /\ mine = [r \in Request |-> [l \in Line |-> NoRow]]
  /\ born = [r \in Request |-> {}]
  /\ gone = [r \in Request |-> {}]
  /\ held = [r \in Request |-> {}]
  /\ kept = [r \in Request |-> {}]
  /\ lack = [r \in Request |-> {}]
  /\ drop = [r \in Request |-> {}]
  /\ unit = [r \in Request |-> None]
  /\ crossed = [r \in Request |-> {}]
  /\ stamp = [r \in Request |-> 0]
  /\ nextId = 1

-----------------------------------------------------------------------------
(* What a transaction sees, what it holds, and whom it waits for.          *)

Open(r) == pc[r] \notin {"idle", "done", "failed"}

\* A connection of the pool is free.
Connection == Cardinality({r \in Request : Open(r)}) < MaxConns

\* READ COMMITTED: the last committed row, or the transaction's own.
View(r, l) == IF mine[r][l] # NoRow THEN mine[r][l] ELSE line[l]

VisiblePos(r) == (pos \cup born[r]) \ gone[r]

\* Requests that have an uncommitted version of the row of l.
RowLockers(r, l) == {x \in Request \ {r} : mine[x][l] # NoRow}

\* Mover x has its entry for the new drum in mooring_line_drum_key.
Indexed(x) == pc[x] \in {"ref", "emit", "commit"}

\* Whom the uniqueness check on drum d waits for: an uncommitted entry for
\* d, or an uncommitted change of the row that holds d.
KeyHolders(r, d) ==
  {x \in Request \ {r} :
     \/ x \in Mover /\ Indexed(x) /\ req[x].to = d
     \/ \E l \in Line : mine[x][l] # NoRow /\ line[l].at = d}

\* Movers that hold the KEY SHARE lock on position p. An UPDATE that leaves
\* the column as it was does not check the reference again.
RefHolders(p) ==
  {x \in Mover : /\ pc[x] \in {"emit", "commit"}
                 /\ req[x].to = p
                 /\ line[req[x].line].at # p}

\* Saves that have deleted position p and are not committed.
Removers(p) == {x \in Saver : p \in gone[x]}

DrumsOf(w) == {d \in pos \cap Drum : d.winch = w}

\* The drums of winch w as the transaction of r sees them.
Seen(r, w) == {d \in VisiblePos(r) \cap Drum : d.winch = w}

\* The rows that go with u: the drums of a winch cascade. What another save
\* has removed since it was listed is not there to delete.
Covered(r, u) == IF u \in Winch THEN Seen(r, u) ELSE {u} \cap VisiblePos(r)

\* Lines that ON DELETE SET NULL has still to clear: a fresh snapshot, so a
\* line committed there after the occupancy check is among them.
ToNull(r) == {l \in Line : line[l].at \in gone[r] /\ mine[r][l] = NoRow}

\* The last DELETE, if any, has returned and nothing is left to insert or to
\* remove.
Settled(r) == lack[r] = {} /\ drop[r] = {} /\ unit[r] = None /\ ToNull(r) = {}

\* Winches of the request SaveLayout has not gone through yet.
Unsaved(r) == {w \in Winch : req[r].want[w] > 0} \ kept[r]

\* SaveLayout inserts winch w, or its UPDATE finds it: id=$1 AND vessel_id=$10.
Writes(r, w) == Maker[w] = r \/ (Home[w] = req[r].vessel /\ count[w] > 0)

\* Storage locations of the request that are there, or are to be inserted, and
\* that SaveLayout has not written yet. The UPDATE of one that was removed, or
\* is another vessel's, touches nothing, and is no step here.
Unstored(r) ==
  {s \in req[r].stores : Maker[s] = r \/ (Home[s] = req[r].vessel /\ s \in pos)}
    \ (held[r] \cup born[r])

HeldBy(r, u) == {x \in Saver \ {r} : u \in held[x]}

\* Whom the UPDATE of winch w waits for: nobody, where it finds no row.
UpdateWaits(r, w) == IF Home[w] = req[r].vessel THEN HeldBy(r, w) ELSE {}

\* adjustDrums inserts the missing drums in the order of their idx.
NextDrum(r) == {d \in lack[r] : \A c \in lack[r] : d.idx <= c.idx}

\* Saves that have deleted winch w and are not committed.
Unmakers(w) == {x \in Saver : w \in held[x] /\ req[x].want[w] = 0}

\* Whom the INSERT of drum d waits for: an uncommitted entry for its winch and
\* idx, or an uncommitted end of one; and who is deleting the winch.
InsertWaits(r, d) ==
  Unmakers(d.winch) \cup
  {x \in Saver \ {r} : \E c \in (born[x] \cup gone[x]) \cap Drum :
                         c.winch = d.winch /\ c.idx = d.idx}

\* Whom the DELETE of u waits for: a writer of the row, a drum inserted for
\* the winch, and a move onto, or another DELETE of, a row that goes with u.
RemoveWaits(r, u) ==
  HeldBy(r, u)
    \cup {x \in Saver \ {r} : \E d \in born[x] \cap Drum : d.winch = u}
    \cup UNION {RefHolders(p) \cup (Removers(p) \ {r}) : p \in Covered(r, u)}

\* Whose transactions the next statement of r waits for: the guards of the
\* actions below, gathered for deadlock detection. The scans of
\* SaveLayout are in an order the caller does not control: they are blocked
\* when none of what is left can go on.
Blockers(r) ==
  CASE pc[r] \in {"lock", "insert"} -> RowLockers(r, req[r].line)
    [] pc[r] = "index" -> KeyHolders(r, req[r].to)
    [] pc[r] = "ref" -> Removers(req[r].to)
    [] r \in Saver /\ ToNull(r) # {} ->
         IF \E l \in ToNull(r) : RowLockers(r, l) = {} THEN {}
         ELSE UNION {RowLockers(r, l) : l \in ToNull(r)}
    [] r \in Saver /\ unit[r] # None -> RemoveWaits(r, unit[r])
    [] r \in Saver /\ lack[r] # {} -> UNION {InsertWaits(r, d) : d \in NextDrum(r)}
    [] pc[r] = "winches" /\ drop[r] = {} ->
         IF \E w \in Unsaved(r) : UpdateWaits(r, w) = {} THEN {}
         ELSE UNION {UpdateWaits(r, w) : w \in Unsaved(r)}
    [] pc[r] = "stores" /\ drop[r] = {} ->
         IF \E s \in Unstored(r) : HeldBy(r, s) = {} THEN {}
         ELSE UNION {HeldBy(r, s) : s \in Unstored(r)}
    [] OTHER -> {}

\* A cycle of waiting transactions goes through r: whatever set holds those r
\* waits for, and whom they wait for in turn, has r in it.
Deadlocked(r) ==
  LET waitsFor == [x \in Request |-> Blockers(x)]
  IN  /\ waitsFor[r] # {}
      /\ \A set \in SUBSET Request :
           (\A x \in set \cup {r} : waitsFor[x] \subseteq set) => r \in set

-----------------------------------------------------------------------------
(* Steps common to every transaction.                                      *)

\* Mutant: no deferred rollback, so what the request had locked stays locked.
FailLeaky(r) ==
  /\ pc' = [pc EXCEPT ![r] = "failed"]
  /\ req' = [req EXCEPT ![r] = NoReq]
  /\ UNCHANGED <<tables, mine, layout, events>>

\* defer tx.Rollback: nothing the request wrote remains.
Fail(r) ==
  /\ pc' = [pc EXCEPT ![r] = "failed"]
  /\ req' = [req EXCEPT ![r] = NoReq]
  /\ mine' = [mine EXCEPT ![r] = [l \in Line |-> NoRow]]
  /\ born' = [born EXCEPT ![r] = {}]
  /\ gone' = [gone EXCEPT ![r] = {}]
  /\ held' = [held EXCEPT ![r] = {}]
  /\ kept' = [kept EXCEPT ![r] = {}]
  /\ lack' = [lack EXCEPT ![r] = {}]
  /\ drop' = [drop EXCEPT ![r] = {}]
  /\ unit' = [unit EXCEPT ![r] = None]
  /\ crossed' = [crossed EXCEPT ![r] = {}]
  /\ stamp' = [stamp EXCEPT ![r] = 0]
  /\ UNCHANGED <<tables, nextId>>

Goto(r, stage) == pc' = [pc EXCEPT ![r] = stage]

\* Mutant: event ids that do not increase (uuid v4).
EmitUnordered(r) ==
  /\ pc[r] = "emit" /\ (r \in Saver => Settled(r))
  /\ Goto(r, "commit")
  /\ \E id \in 1..Cardinality(Request) :
       /\ \A x \in Request : stamp[x] # id
       /\ stamp' = [stamp EXCEPT ![r] = id]
  /\ UNCHANGED <<tables, req, mine, layout, nextId>>

\* writeOutbox: the event and its id, in the same transaction.
Emit(r) ==
  /\ pc[r] = "emit" /\ (r \in Saver => Settled(r))
  /\ Goto(r, "commit")
  /\ stamp' = [stamp EXCEPT ![r] = nextId]
  /\ nextId' = nextId + 1
  /\ UNCHANGED <<tables, req, mine, layout>>

\* Save r names winch w, which is another vessel's.
Crosses(r, w) == req[r].want[w] > 0 /\ Home[w] # req[r].vessel

Commit(r) ==
  /\ pc[r] = "commit"
  /\ Goto(r, "done")
  /\ line' = [l \in Line |-> View(r, l)]
  /\ pos' = VisiblePos(r)
  /\ count' = [w \in Winch |-> IF w \in held[r] THEN req[r].want[w] ELSE count[w]]
  /\ mine' = [mine EXCEPT ![r] = [l \in Line |-> NoRow]]
  /\ born' = [born EXCEPT ![r] = {}]
  /\ gone' = [gone EXCEPT ![r] = {}]
  /\ held' = [held EXCEPT ![r] = {}]
  /\ kept' = [kept EXCEPT ![r] = {}]
  /\ crossed' = [x \in Request |->
       IF x = r THEN {}
       ELSE IF r \in Saver /\ x \in Saver /\ Open(x)
            THEN crossed[x] \cup {w \in Winch : Crosses(r, w)}
            ELSE crossed[x]]
  /\ UNCHANGED <<req, lack, drop, unit, events>>

\* The request's context ends (the client went away, the server stopped) or
\* a statement fails for a reason outside this model.
Cancel(r) == Open(r) /\ Fail(r)

\* Postgres aborts a transaction of a cycle (40P01).
Deadlock(r) == Open(r) /\ Deadlocked(r) /\ Fail(r)

-----------------------------------------------------------------------------
(* MoveLine.                                                               *)

\* Mutant: the vessel of the target is not compared with the line's.
MoveBeginAnyVessel(r) ==
  /\ pc[r] = "idle" /\ Connection
  /\ \E l \in Line, p \in Position :
       IF line[l] # NoRow /\ p \in pos
       THEN /\ Goto(r, "lock")
            /\ req' = [req EXCEPT ![r] = [kind |-> "move", line |-> l, to |-> p]]
            /\ UNCHANGED <<tables, mine, layout, events>>
       ELSE Fail(r)

\* Both SELECTs: the line exists, and the target is on the same vessel.
MoveBegin(r) ==
  /\ pc[r] = "idle" /\ Connection
  /\ \E l \in Line, p \in Position :
       IF line[l] # NoRow /\ p \in pos /\ HomeOf(p) = line[l].vessel
       THEN /\ Goto(r, "lock")
            /\ req' = [req EXCEPT ![r] = [kind |-> "move", line |-> l, to |-> p]]
            /\ UNCHANGED <<tables, mine, layout, events>>
       ELSE Fail(r)

\* Mutant: the UPDATE sets the position only.
MoveLockKeepsLife(r) ==
  LET l == req[r].line
      p == req[r].to
  IN  /\ pc[r] = "lock" /\ RowLockers(r, l) = {}
      /\ mine' = [mine EXCEPT ![r][l] =
                    [vessel |-> line[l].vessel, life |-> line[l].life, at |-> p]]
      /\ Goto(r, IF line[l].at = p THEN "emit" ELSE IF p \in Drum THEN "index" ELSE "ref")
      /\ UNCHANGED <<tables, req, layout, events>>

\* UPDATE mooring_line: the row lock and the new version. A row that stays
\* where it is needs neither an index entry nor a reference check.
MoveLock(r) ==
  LET l == req[r].line
      p == req[r].to
  IN  /\ pc[r] = "lock" /\ RowLockers(r, l) = {}
      /\ mine' = [mine EXCEPT ![r][l] =
                    [vessel |-> line[l].vessel, life |-> LifeAt(p), at |-> p]]
      /\ \/ line[l].at = p /\ Goto(r, "emit")
         \/ line[l].at # p /\ p \in Storage /\ Goto(r, "ref")
         \/ line[l].at # p /\ p \in Drum /\ Goto(r, "index")
      /\ UNCHANGED <<tables, req, layout, events>>

\* Mutant: a SELECT EXISTS in place of the unique index, blind to moves that
\* are not committed.
MoveIndexBlind(r) ==
  /\ pc[r] = "index"
  /\ IF \E l \in Line \ {req[r].line} : line[l].at = req[r].to
     THEN Fail(r)
     ELSE /\ Goto(r, "ref")
          /\ UNCHANGED <<tables, req, mine, layout, events>>

\* mooring_line_drum_key: ErrDrumOccupied, or the new entry.
MoveIndex(r) ==
  /\ pc[r] = "index" /\ KeyHolders(r, req[r].to) = {}
  /\ IF \E l \in Line \ {req[r].line} : line[l].at = req[r].to
     THEN Fail(r)
     ELSE /\ Goto(r, "ref")
          /\ UNCHANGED <<tables, req, mine, layout, events>>

\* Mutant: no foreign key; the target was there when it was read.
MoveRefTrusting(r) ==
  /\ pc[r] = "ref" /\ Goto(r, "emit")
  /\ UNCHANGED <<tables, req, mine, layout, events>>

\* The foreign key: the drum or storage row is there and is locked.
MoveRef(r) ==
  /\ pc[r] = "ref" /\ Removers(req[r].to) = {}
  /\ IF req[r].to \notin pos
     THEN Fail(r)
     ELSE /\ Goto(r, "emit")
          /\ UNCHANGED <<tables, req, mine, layout, events>>

-----------------------------------------------------------------------------
(* CreateLine and AddComponent.                                            *)

RegisterBegin(r) ==
  /\ pc[r] = "idle" /\ Connection
  /\ \E l \in Line, v \in Vessel, life \in Chosen :
       req' = [req EXCEPT ![r] =
                 [kind |-> "register", line |-> l, vessel |-> v, life |-> life]]
  /\ Goto(r, "insert")
  /\ UNCHANGED <<tables, mine, layout, events>>

\* INSERT: a line without a place. mooring_line_serial_key waits for an
\* in-flight row with the same serial number.
RegisterInsert(r) ==
  LET l == req[r].line
  IN  /\ pc[r] = "insert" /\ RowLockers(r, l) = {}
      /\ IF line[l] # NoRow
         THEN Fail(r)
         ELSE /\ mine' = [mine EXCEPT ![r][l] =
                   [vessel |-> req[r].vessel, life |-> req[r].life, at |-> None]]
              /\ Goto(r, "emit")
              /\ UNCHANGED <<tables, req, layout, events>>

-----------------------------------------------------------------------------
(* SaveLayout.                                                             *)

\* Ids a client can name: it read them in a layout, then or long ago.
Known(r, i) ==
  \/ Maker[i] \in {Boot, r}
  \/ Maker[i] \in Saver /\ pc[Maker[i]] = "done"

\* The whole deck as the editor wants it: the drum count of every winch that
\* stays or is added (0: left out), and the storage locations. Nobody compares
\* the ids with the vessel; what has no id yet is inserted on that vessel.
SaveBegin(r) ==
  /\ pc[r] = "idle" /\ Connection
  /\ \E v \in Vessel, want \in [Winch -> 0..MaxDrums], stores \in SUBSET Storage :
       /\ \A i \in {w \in Winch : want[w] > 0} \cup stores :
            Known(r, i) /\ (Maker[i] = r => Home[i] = v)
       /\ req' = [req EXCEPT ![r] = [kind |-> "save", vessel |-> v,
                                     want |-> want, stores |-> stores]]
  /\ Goto(r, "winches")
  /\ UNCHANGED <<tables, mine, layout, events>>

\* Mutant: drums are numbered from 0.
SaveWinchFromZero(r, w) ==
  LET missing == {i \in 0..(req[r].want[w] - 1) : \A d \in Seen(r, w) : d.idx # i}
  IN  /\ pc[r] = "winches" /\ Settled(r) /\ w \in Unsaved(r) /\ UpdateWaits(r, w) = {}
      /\ kept' = [kept EXCEPT ![r] = @ \cup {w}]
      /\ held' = [held EXCEPT ![r] = IF Writes(r, w) THEN @ \cup {w} ELSE @]
      /\ lack' = [lack EXCEPT ![r] = [winch : {w}, idx : missing, by : {r}]]
      /\ UNCHANGED <<tables, pc, req, mine, born, gone, drop, unit, crossed, events>>

\* Mutant: the last drum that should stay is surplus too.
SaveWinchSurplus(r, w) ==
  LET target  == req[r].want[w]
      missing == {i \in 1..target : \A d \in Seen(r, w) : d.idx # i}
  IN  /\ pc[r] = "winches" /\ Settled(r) /\ w \in Unsaved(r) /\ UpdateWaits(r, w) = {}
      /\ kept' = [kept EXCEPT ![r] = @ \cup {w}]
      /\ held' = [held EXCEPT ![r] = IF Writes(r, w) THEN @ \cup {w} ELSE @]
      /\ lack' = [lack EXCEPT ![r] = [winch : {w}, idx : missing, by : {r}]]
      /\ drop' = [drop EXCEPT ![r] = {d \in Seen(r, w) : d.idx >= target}]
      /\ UNCHANGED <<tables, pc, req, mine, born, gone, unit, crossed, events>>

\* Mutant: the drums are read before the winch row is locked.
SaveWinchUnlocked(r, w) ==
  LET target  == req[r].want[w]
      missing == {i \in 1..target : \A d \in Seen(r, w) : d.idx # i}
  IN  /\ pc[r] = "winches" /\ Settled(r) /\ w \in Unsaved(r)
      /\ kept' = [kept EXCEPT ![r] = @ \cup {w}]
      /\ held' = [held EXCEPT ![r] = IF Writes(r, w) THEN @ \cup {w} ELSE @]
      /\ lack' = [lack EXCEPT ![r] = [winch : {w}, idx : missing, by : {r}]]
      /\ drop' = [drop EXCEPT ![r] = {d \in Seen(r, w) : d.idx > target}]
      /\ UNCHANGED <<tables, pc, req, mine, born, gone, unit, crossed, events>>

\* INSERT or UPDATE of a winch and the SELECT of adjustDrums: the drums the
\* winch has, what is missing and what is surplus. The row is locked where the
\* statement writes it; a winch of another vessel, or one that was removed, is
\* not written and its drums are looked at all the same.
SaveWinch(r, w) ==
  LET target  == req[r].want[w]
      missing == {i \in 1..target : \A d \in Seen(r, w) : d.idx # i}
  IN  /\ pc[r] = "winches" /\ Settled(r) /\ w \in Unsaved(r) /\ UpdateWaits(r, w) = {}
      /\ kept' = [kept EXCEPT ![r] = @ \cup {w}]
      /\ held' = [held EXCEPT ![r] = IF Writes(r, w) THEN @ \cup {w} ELSE @]
      /\ lack' = [lack EXCEPT ![r] = [winch : {w}, idx : missing, by : {r}]]
      /\ drop' = [drop EXCEPT ![r] = {d \in Seen(r, w) : d.idx > target}]
      /\ UNCHANGED <<tables, pc, req, mine, born, gone, unit, crossed, events>>

\* INSERT INTO drum: it fails where a save has committed a drum with that idx
\* since the SELECT, or has removed the winch.
InsertDrum(r, d) ==
  /\ Open(r) /\ d \in NextDrum(r) /\ InsertWaits(r, d) = {}
  /\ IF \/ \E c \in DrumsOf(d.winch) : c.idx = d.idx
        \/ Maker[d.winch] # r /\ count[d.winch] = 0
     THEN Fail(r)
     ELSE /\ born' = [born EXCEPT ![r] = @ \cup {d}]
          /\ lack' = [lack EXCEPT ![r] = @ \ {d}]
          /\ UNCHANGED <<tables, pc, req, mine, gone, held, kept, drop, unit, crossed,
                         events>>

\* The winches of the vessel that the request leaves out.
ListWinches(r) ==
  /\ pc[r] = "winches" /\ Settled(r) /\ Unsaved(r) = {}
  /\ drop' = [drop EXCEPT ![r] =
       {w \in Winch : /\ count[w] > 0 /\ Home[w] = req[r].vessel
                      /\ req[r].want[w] = 0}]
  /\ Goto(r, "stores")
  /\ UNCHANGED <<tables, req, mine, born, gone, held, kept, lack, unit, crossed, events>>

\* INSERT or UPDATE of a storage location.
SaveStore(r, s) ==
  /\ pc[r] = "stores" /\ Settled(r)
  /\ s \in Unstored(r) /\ HeldBy(r, s) = {}
  /\ born' = [born EXCEPT ![r] = IF Maker[s] = r THEN @ \cup {s} ELSE @]
  /\ held' = [held EXCEPT ![r] = IF Maker[s] = r THEN @ ELSE @ \cup {s}]
  /\ UNCHANGED <<tables, pc, req, mine, gone, kept, lack, drop, unit, crossed, events>>

\* The storage locations of the vessel that the request leaves out.
ListStores(r) ==
  /\ pc[r] = "stores" /\ Settled(r) /\ Unstored(r) = {}
  /\ drop' = [drop EXCEPT ![r] =
       {s \in Storage \cap pos : Home[s] = req[r].vessel} \ req[r].stores]
  /\ Goto(r, "emit")
  /\ UNCHANGED <<tables, req, mine, born, gone, held, kept, lack, unit, crossed, events>>

\* Mutant: adjustDrums does not ask whether a surplus drum is occupied.
CheckEmptyNotDrums(r, u) ==
  /\ Open(r) /\ u \in drop[r] /\ lack[r] = {} /\ unit[r] = None /\ ToNull(r) = {}
  /\ IF u \notin Drum /\ \E l \in Line : View(r, l).at \in Covered(r, u)
     THEN Fail(r)
     ELSE /\ drop' = [drop EXCEPT ![r] = @ \ {u}]
          /\ unit' = [unit EXCEPT ![r] = u]
          /\ UNCHANGED <<tables, pc, req, mine, born, gone, held, kept, lack, crossed,
                         events>>

\* SELECT EXISTS: ErrOccupied if a line is on what is to be removed.
CheckEmpty(r, u) ==
  /\ Open(r) /\ u \in drop[r] /\ lack[r] = {} /\ unit[r] = None /\ ToNull(r) = {}
  /\ IF \E l \in Line : View(r, l).at \in Covered(r, u)
     THEN Fail(r)
     ELSE /\ drop' = [drop EXCEPT ![r] = @ \ {u}]
          /\ unit' = [unit EXCEPT ![r] = u]
          /\ UNCHANGED <<tables, pc, req, mine, born, gone, held, kept, lack, crossed,
                         events>>

\* DELETE of what was found empty, and of what cascades with it.
Remove(r) ==
  LET u == unit[r]
      locked == IF (u \in Winch /\ count[u] > 0) \/ u \in Storage \cap pos
                THEN {u} ELSE {}
  IN  /\ Open(r) /\ u # None /\ ToNull(r) = {} /\ RemoveWaits(r, u) = {}
      /\ gone' = [gone EXCEPT ![r] = @ \cup Covered(r, u)]
      /\ held' = [held EXCEPT ![r] = @ \cup locked]
      /\ unit' = [unit EXCEPT ![r] = None]
      /\ UNCHANGED <<tables, pc, req, mine, born, kept, lack, drop, crossed, events>>

\* Mutant: a line that loses its place becomes a spare.
SetNullSpare(r, l) ==
  /\ Open(r) /\ l \in ToNull(r) /\ RowLockers(r, l) = {}
  /\ mine' = [mine EXCEPT ![r][l] =
                [vessel |-> line[l].vessel, life |-> "spare", at |-> None]]
  /\ UNCHANGED <<tables, pc, req, layout, events>>

\* Mutant: the row is cleared without waiting for who is writing it.
SetNullNoWait(r, l) ==
  /\ Open(r) /\ l \in ToNull(r)
  /\ mine' = [mine EXCEPT ![r][l] = Unplaced(line[l])]
  /\ UNCHANGED <<tables, pc, req, layout, events>>

\* ON DELETE SET NULL reaches a line; lifecycle_status stays as it was.
SetNull(r, l) ==
  /\ Open(r) /\ l \in ToNull(r) /\ RowLockers(r, l) = {}
  /\ mine' = [mine EXCEPT ![r][l] = Unplaced(line[l])]
  /\ UNCHANGED <<tables, pc, req, layout, events>>

-----------------------------------------------------------------------------
MoveStep(r) == MoveBegin(r) \/ MoveLock(r) \/ MoveIndex(r) \/ MoveRef(r)

RegisterStep(r) == RegisterBegin(r) \/ RegisterInsert(r)

SaveStep(r) ==
  \/ SaveBegin(r) \/ ListWinches(r) \/ ListStores(r) \/ Remove(r)
  \/ \E w \in Winch : SaveWinch(r, w)
  \/ \E d \in lack[r] : InsertDrum(r, d)
  \/ \E s \in Storage : SaveStore(r, s)
  \/ \E u \in drop[r] : CheckEmpty(r, u)
  \/ \E l \in Line : SetNull(r, l)

\* A step of the program or the database, on behalf of r.
Step(r) ==
  \/ r \in Mover /\ MoveStep(r)
  \/ r \in Registrar /\ RegisterStep(r)
  \/ r \in Saver /\ SaveStep(r)
  \/ Emit(r) \/ Commit(r) \/ Deadlock(r)

\* Every request has been answered.
Finished == (\A r \in Request : pc[r] \in {"done", "failed"}) /\ UNCHANGED vars

Next == (\E r \in Request : Step(r) \/ Cancel(r)) \/ Finished

Spec == Init /\ [][Next]_vars

\* The server runs every handler that has begun, and the database every
\* statement that nothing blocks; no request has to come, or to be cancelled.
FairSpec == Spec /\ \A r \in Request : WF_vars(Open(r) /\ Step(r))

-----------------------------------------------------------------------------
(* Properties.                                                             *)

TypeOK ==
  /\ line \in [Line -> Row]
  /\ pos \subseteq Position
  /\ count \in [Winch -> 0..MaxDrums]
  /\ pc \in [Request -> Stage]
  /\ req \in [Request -> {NoReq} \cup MoveReq \cup RegisterReq \cup SaveReq]
  /\ mine \in [Request -> [Line -> Row]]
  /\ born \in [Request -> SUBSET Position]
  /\ gone \in [Request -> SUBSET Position]
  /\ held \in [Request -> SUBSET (Winch \cup Storage)]
  /\ kept \in [Request -> SUBSET Winch]
  /\ lack \in [Request -> SUBSET Drum]
  /\ drop \in [Request -> SUBSET (Winch \cup Position)]
  /\ unit \in [Request -> Winch \cup Position \cup {None}]
  /\ crossed \in [Request -> SUBSET Winch]
  /\ stamp \in [Request -> Nat]
  /\ nextId \in Nat

\* No two lines are on the same drum, however two moves onto it interleave.
OneLinePerDrum ==
  \A k, l \in Line : line[k].at \in Drum /\ line[k].at = line[l].at => k = l

\* A line is never at a drum or storage location that does not exist, even
\* when the position is removed while a move onto it is in flight.
PlacesExist == \A l \in Line : line[l].at # None => line[l].at \in pos

\* A line is only ever at a position of its own vessel.
OwnVessel == \A l \in Line : line[l].at # None => HomeOf(line[l].at) = line[l].vessel

\* The lifecycle status of a placed line says where it is: active on a drum,
\* spare in storage.
PlacedLifecycle ==
  \A l \in Line : line[l].at # None => line[l].life = LifeAt(line[l].at)

\* No save of another vessel that named winch w has been committed.
Uncrossed(w) == \A r \in Saver : pc[r] = "done" => ~Crosses(r, w)

\* However many editors save at once, and for whichever vessel: no two drums of
\* a winch have one idx and no drum outlives its winch; and a winch no save of
\* another vessel has touched has one drum for each idx up to its drum_count.
DrumsMatchCount ==
  \A w \in Winch :
    /\ \A c, d \in DrumsOf(w) : c.idx = d.idx => c = d
    /\ count[w] = 0 => DrumsOf(w) = {}
    /\ Uncrossed(w) => {d.idx : d \in DrumsOf(w)} = 1..count[w]

\* The events in the outbox are those of the committed transactions. For any
\* line, the one with the latest id says where the line is, unless that
\* position was removed, which no event says of the line (ON DELETE SET NULL
\* writes none); and a registration comes before every move. So a consumer that
\* replays them by id ends where the database is, but for lines that lost their
\* place with the position.
OutboxTracksPlacement ==
  \A r \in Mover : pc[r] = "done" =>
    LET l == req[r].line
        moves == {x \in Mover : pc[x] = "done" /\ req[x].line = l}
    IN  /\ (\A x \in moves : stamp[x] <= stamp[r]) =>
             \/ line[l].at = req[r].to
             \/ line[l].at = None /\ req[r].to \notin pos
        /\ \A x \in Registrar :
             pc[x] = "done" /\ req[x].line = l => stamp[x] < stamp[r]

\* A layout save that commits leaves every winch of its vessel that it named
\* with exactly the drum_count and the drums it asked for, whatever other saves
\* did to the winch before or at the same time, unless the save of another
\* vessel that named it was committed in between.
SaveApplied ==
  [][\A r \in Saver : pc[r] = "commit" /\ pc'[r] = "done" =>
       \A w \in Winch :
         req[r].want[w] > 0 /\ Home[w] = req[r].vessel /\ w \notin crossed[r] =>
           /\ count'[w] = req[r].want[w]
           /\ {d.idx : d \in DrumsOf(w)'} = 1..req[r].want[w]]_vars

\* Nothing takes a placed line off its position without putting it at
\* another ("refusing to remove a position that still holds a line").
OccupiedStays ==
  [][\A l \in Line : line[l].at # None => line'[l].at # None]_vars

\* The check does protect what was there before: a line no request has moved
\* keeps its place through every layout save.
UnmovedStays ==
  [][\A l \in Line :
       line[l].at # None /\ (\A r \in Mover : pc[r] = "done" => req[r].line # l)
         => line'[l].at # None]_vars

\* Every request that has begun is answered, none stays open forever (which is
\* Open(r) ~> ~Open(r)): nothing waits forever for a row lock, an index entry or
\* a reference.
EveryRequestEnds == \A r \in Request : []<>~Open(r)

\* Each transaction takes effect at one instant.
Atomic == INSTANCE AtomicPlacement
AtomicSpec == Atomic!Spec

-----------------------------------------------------------------------------
(* The inductive invariant behind the placement properties.                *)

MoverStage == {"idle", "lock", "index", "ref", "emit", "commit", "done", "failed"}
RegistrarStage == {"idle", "insert", "emit", "commit", "done", "failed"}
SaverStage == {"idle", "winches", "stores", "emit", "commit", "done", "failed"}

\* Each kind of request goes through its own stages, and only SaveLayout
\* inserts or deletes positions.
Kinds ==
  /\ \A r \in Mover : /\ pc[r] \in MoverStage
                      /\ pc[r] \notin {"idle", "failed"} => req[r] \in MoveReq
  /\ \A r \in Registrar : /\ pc[r] \in RegistrarStage
                          /\ pc[r] \notin {"idle", "failed"} => req[r] \in RegisterReq
  /\ \A r \in Saver : /\ pc[r] \in SaverStage
                      /\ pc[r] \notin {"idle", "failed"} => req[r] \in SaveReq
  /\ \A r \in Mover \cup Registrar : born[r] = {} /\ gone[r] = {} /\ held[r] = {}

\* A transaction that is not open has written nothing.
NothingLeft ==
  \A r \in Request :
    /\ pc[r] \in {"idle", "lock", "insert", "done", "failed"} =>
         \A l \in Line : mine[r][l] = NoRow
    /\ pc[r] \in {"idle", "done", "failed"} => born[r] = {} /\ gone[r] = {}

\* At most one transaction holds a row.
RowLocks ==
  \A x, y \in Request, l \in Line :
    mine[x][l] # NoRow /\ mine[y][l] # NoRow => x = y

\* A move writes the one row it was asked to, for a target on its vessel.
MoverRows ==
  \A r \in Mover : Open(r) =>
    /\ line[req[r].line] # NoRow
    /\ HomeOf(req[r].to) = line[req[r].line].vessel
    /\ pc[r] # "lock" =>
         /\ mine[r][req[r].line] = [vessel |-> line[req[r].line].vessel,
                                    life |-> LifeAt(req[r].to), at |-> req[r].to]
         /\ \A l \in Line : l # req[r].line => mine[r][l] = NoRow

RegistrarRows ==
  \A r \in Registrar : pc[r] \in {"emit", "commit"} =>
    /\ line[req[r].line] = NoRow
    /\ mine[r][req[r].line] = [vessel |-> req[r].vessel, life |-> req[r].life,
                               at |-> None]
    /\ \A l \in Line : l # req[r].line => mine[r][l] = NoRow

\* A save writes only lines on what it deletes, and only their position.
SaverRows ==
  \A r \in Saver, l \in Line : mine[r][l] # NoRow =>
    /\ line[l].at \in gone[r]
    /\ mine[r][l] = Unplaced(line[l])

\* Past the unique index, a move is the only one there, and no line but its
\* own is on the drum.
KeyHeld ==
  \A r \in Mover : Indexed(r) /\ req[r].to \in Drum =>
    /\ \A l \in Line : line[l].at = req[r].to => l = req[r].line
    /\ \A x \in Mover : Indexed(x) /\ req[x].to = req[r].to => x = r

\* Past the reference check the target exists, and nobody is deleting it
\* unless the line was there before, in which case that DELETE has the line
\* still to clear.
RefHeld ==
  \A r \in Mover : pc[r] \in {"emit", "commit"} =>
    /\ req[r].to \in pos
    /\ line[req[r].line].at # req[r].to => \A x \in Saver : req[r].to \notin gone[x]

\* A save about to commit has nothing left to remove, and has cleared every
\* line on what it removed.
SettledAtCommit == \A r \in Saver : pc[r] = "commit" => Settled(r)

Placements == OneLinePerDrum /\ PlacesExist /\ OwnVessel /\ PlacedLifecycle

-----------------------------------------------------------------------------
(* ... and behind the layout properties.                                   *)

\* What a save has still to remove: units found empty or to be looked at.
Pending(r) == drop[r] \cup ({unit[r]} \ {None})

\* A save that is not open has locked nothing and has nothing left to do.
NothingPending(r) ==
  ~Open(r) => /\ held[r] = {} /\ kept[r] = {} /\ lack[r] = {}
              /\ drop[r] = {} /\ unit[r] = None /\ crossed[r] = {}

\* A save names only winches that are there, were there, or are its own; and
\* what it inserts is on its vessel.
Named(r) ==
  Open(r) =>
    /\ \A i \in {w \in Winch : req[r].want[w] > 0} \cup req[r].stores :
         Known(r, i) /\ (Maker[i] = r => Home[i] = req[r].vessel)
    /\ \A w \in kept[r] : req[r].want[w] > 0

\* A save inserts, deletes and lists drums only of winches it has gone through
\* or deleted.
DrumsClaimed(r) ==
  /\ \A d \in (born[r] \cup gone[r] \cup Pending(r)) \cap Drum :
       d.winch \in kept[r] \cup held[r]
  /\ \A d \in lack[r] : d.winch \in kept[r]

\* What a save removes, or has removed, is surplus: drums past the count it was
\* asked for, and winches it was not asked for. What it inserts is within it.
SurplusOnly(r) ==
  /\ \A u \in Pending(r) \cup gone[r] :
       /\ u \in Drum => u.idx > req[r].want[u.winch]
       /\ u \in Winch => req[r].want[u] = 0
  /\ \A d \in (born[r] \cup lack[r]) \cap Drum : d.idx <= req[r].want[d.winch]

\* On a winch a save has locked, and no other has crossed, it sees or is about
\* to insert one drum for every idx it was asked for, and sees others only
\* while they are waiting to be removed.
Adjusted(r) ==
  \A w \in (held[r] \cap Winch) \ crossed[r] :
    /\ 1..req[r].want[w] \subseteq
         {d.idx : d \in Seen(r, w) \cup {c \in lack[r] : c.winch = w}}
    /\ \A d \in Seen(r, w) : d.idx > req[r].want[w] => d \in Pending(r)

\* A winch of the vessel that the save went through is locked, unless it was
\* removed, and then the drums to insert on it are what the save fails at.
Locked(r) ==
  \A w \in kept[r] :
    Home[w] = req[r].vessel =>
      \/ w \in held[r]
      \/ Maker[w] # r /\ count[w] = 0 /\ \E d \in lack[r] : d.winch = w

\* The rows a save has locked are there, or are its own, and on its vessel.
LockedExist(r) ==
  \A w \in held[r] \cap Winch :
    Home[w] = req[r].vessel /\ (Maker[w] = r \/ count[w] > 0)

\* A save that has deleted a winch sees no drum of it.
Emptied(r) ==
  \A w \in held[r] \cap Winch : req[r].want[w] = 0 => Seen(r, w) = {}

\* Past the winches, a save has gone through every winch it was asked for.
AllSaved(r) == pc[r] \in {"stores", "emit", "commit"} => Unsaved(r) = {}

\* A save inserts and removes nothing of another vessel but drums.
SaveHome(r) ==
  /\ \A p \in born[r] \cup gone[r] : p \in Storage => Home[p] = req[r].vessel
  /\ \A u \in Pending(r) : u \in Winch \cup Storage => Home[u] = req[r].vessel

\* What another save crossed is crossed by one that was committed.
CrossedBy(r) == \A w \in crossed[r] : ~Uncrossed(w)

\* The winch of a drum a save has inserted is there, nobody is deleting it, and
\* nobody else has a drum with that idx, committed or not.
BornAlone(r) ==
  \A d \in born[r] \cap Drum :
    /\ Maker[d.winch] = r \/ count[d.winch] > 0
    /\ Unmakers(d.winch) = {}
    /\ \A c \in DrumsOf(d.winch) : c.idx # d.idx
    /\ \A x \in Saver \ {r} : \A c \in born[x] \cap Drum :
         c.winch = d.winch => c.idx # d.idx

\* Two saves never lock one winch or storage location, nor delete one row.
HeldApart ==
  \A x, y \in Saver : x # y => held[x] \cap held[y] = {} /\ gone[x] \cap gone[y] = {}

\* A winch not inserted yet is not there.
Unmade == \A w \in Winch : count[w] > 0 => Maker[w] = Boot \/ pc[Maker[w]] = "done"

Layouts ==
  /\ \A r \in Saver : /\ NothingPending(r) /\ Named(r) /\ DrumsClaimed(r)
                      /\ SurplusOnly(r) /\ Adjusted(r) /\ Locked(r) /\ LockedExist(r)
                      /\ Emptied(r) /\ AllSaved(r) /\ SaveHome(r) /\ CrossedBy(r)
                      /\ BornAlone(r)
  /\ HeldApart /\ Unmade /\ DrumsMatchCount

-----------------------------------------------------------------------------
(* ... behind the promise to a line nobody moved ...                       *)

\* A line no request has moved is not where a save has removed something, or
\* is about to: the occupancy check saw it.
Unmoved ==
  \A l \in Line :
    line[l].at # None /\ (\A m \in Mover : pc[m] = "done" => req[m].line # l) =>
      \A r \in Saver :
        /\ line[l].at \notin gone[r]
        /\ line[l].at # unit[r]
        /\ line[l].at \in Drum => line[l].at.winch # unit[r]

-----------------------------------------------------------------------------
(* ... and behind the order of the outbox.                                 *)

\* The request that inserted a position.
MakerOf(p) == IF p \in Storage THEN Maker[p] ELSE p.by

\* A position is inserted once: what is committed, or is the target of a
\* move, comes from a transaction that has ended.
MadeOnce ==
  /\ \A r \in Saver : \A p \in born[r] \cup lack[r] : MakerOf(p) = r
  /\ \A p \in pos : MakerOf(p) = Boot \/ pc[MakerOf(p)] = "done"
  /\ \A r \in Mover : pc[r] \notin {"idle", "failed"} =>
       MakerOf(req[r].to) = Boot \/ pc[MakerOf(req[r].to)] = "done"

\* A move takes its event id while it holds the row, so after every move and
\* registration of that line that was committed before.
EventOrder ==
  /\ \A r \in Request : stamp[r] < nextId
  /\ \A r \in Mover, x \in Mover \cup Registrar :
       pc[r] = "commit" /\ pc[x] = "done" /\ req[x].line = req[r].line
         => stamp[x] < stamp[r]

\* A line that was moved is registered.
MovedExists == \A r \in Mover : pc[r] = "done" => line[req[r].line] # NoRow

Outbox == MadeOnce /\ EventOrder /\ MovedExists /\ OutboxTracksPlacement

IInv ==
  /\ TypeOK /\ Kinds /\ NothingLeft /\ RowLocks
  /\ MoverRows /\ RegistrarRows /\ SaverRows
  /\ KeyHeld /\ RefHeld /\ SettledAtCommit /\ Placements
  /\ Layouts /\ Unmoved /\ Outbox
=============================================================================
