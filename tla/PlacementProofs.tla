-------------------------- MODULE PlacementProofs --------------------------
(***************************************************************************)
(* Proofs about Placement, for every value of its constants.               *)
(***************************************************************************)
EXTENDS Placement, TLAPS

(***************************************************************************)
(* Types and stages.                                                       *)
(***************************************************************************)
Typed == TypeOK /\ Kinds

\* At the start every variable has its type.
LEMMA InitTyped == Init => Typed
<1> SUFFICES ASSUME Init PROVE Typed
  OBVIOUS
<1> USE ConstantsAssumption DEF Init, Request
<1>1. pos \subseteq Position
  BY DEF Position, Drum
<1>2. line \in [Line -> Row]
  OBVIOUS
<1>3. TypeOK
  BY <1>1, <1>2 DEF TypeOK, Stage, NoRow, Row
<1>4. Kinds
  BY DEF Kinds, MoverStage, RegistrarStage, SaverStage
<1> QED
  BY <1>3, <1>4 DEF Typed

\* Rolling back leaves every variable in its type.
LEMMA FailTyped ==
  ASSUME Typed, NEW r \in Request, Fail(r)
  PROVE  Typed'
<1> USE ConstantsAssumption DEF Typed, Fail, tables
<1>1. TypeOK'
  BY DEF TypeOK, Stage, NoRow, Row
<1>2. Kinds'
  BY DEF TypeOK, Kinds, MoverStage, RegistrarStage, SaverStage, Request
<1> QED
  BY <1>1, <1>2

\* Writing the outbox event keeps every variable in its type.
LEMMA EmitTyped ==
  ASSUME Typed, NEW r \in Request, Emit(r)
  PROVE  Typed'
<1> USE ConstantsAssumption DEF Typed, Emit, Goto, tables, layout
<1>1. TypeOK'
  BY DEF TypeOK, Stage
<1>2. Kinds'
  BY DEF TypeOK, Kinds, MoverStage, RegistrarStage, SaverStage, Request
<1> QED
  BY <1>1, <1>2

\* What a commit makes of the tables is still rows, positions and counts.
LEMMA CommitTyped ==
  ASSUME Typed, NEW r \in Request, Commit(r)
  PROVE  Typed'
<1> USE ConstantsAssumption DEF Typed, Commit, Goto, events
<1>1. line' \in [Line -> Row]
  BY DEF TypeOK, View
<1>2. pos' \subseteq Position
  BY DEF TypeOK, VisiblePos
<1>3. count' \in [Winch -> 0..MaxDrums]
  BY DEF TypeOK, Kinds, Request, SaveReq
<1>6. crossed' \in [Request -> SUBSET Winch]
  BY DEF TypeOK
<1>4. TypeOK'
  BY <1>1, <1>2, <1>3, <1>6 DEF TypeOK, Stage, NoRow, Row
<1>5. Kinds'
  BY DEF TypeOK, Kinds, MoverStage, RegistrarStage, SaverStage, Request
<1> QED
  BY <1>4, <1>5

\* The statements of MoveLine keep every variable in its type.
LEMMA MoveTyped ==
  ASSUME Typed, NEW r \in Mover, MoveStep(r)
  PROVE  Typed'
<1> USE ConstantsAssumption DEF Typed, Goto, tables, layout, events
<1>1. r \in Request
  BY DEF Request
<1>2. CASE MoveBegin(r)
  <2>1. PICK l \in Line, p \in Position :
          \/ /\ Goto(r, "lock")
             /\ req' = [req EXCEPT ![r] = [kind |-> "move", line |-> l, to |-> p]]
             /\ UNCHANGED <<tables, mine, layout, events>>
          \/ Fail(r)
    BY <1>2 DEF MoveBegin
  <2>2. CASE Fail(r)
    BY <1>1, <2>2, FailTyped
  <2>3. CASE /\ Goto(r, "lock")
             /\ req' = [req EXCEPT ![r] = [kind |-> "move", line |-> l, to |-> p]]
             /\ UNCHANGED <<tables, mine, layout, events>>
    <3>1. [kind |-> "move", line |-> l, to |-> p] \in MoveReq
      BY DEF MoveReq
    <3>2. TypeOK'
      BY <1>1, <2>3, <3>1 DEF TypeOK, Stage
    <3>3. Kinds'
      BY <1>1, <2>3, <3>1
      DEF TypeOK, Kinds, MoverStage, RegistrarStage, SaverStage, Request
    <3> QED
      BY <3>2, <3>3
  <2> QED
    BY <2>1, <2>2, <2>3
<1>3. CASE MoveLock(r)
  <2>1. req[r].line \in Line /\ req[r].to \in Position
    BY <1>3 DEF MoveLock, Kinds, MoveReq
  <2>2. [vessel |-> line[req[r].line].vessel, life |-> LifeAt(req[r].to),
         at |-> req[r].to] \in Row
    BY <2>1 DEF TypeOK, Row, LifeAt, Lifecycle
  <2>3. /\ mine' = [mine EXCEPT ![r][req[r].line] =
                      [vessel |-> line[req[r].line].vessel,
                       life |-> LifeAt(req[r].to), at |-> req[r].to]]
        /\ \E stage \in {"emit", "ref", "index"} : pc' = [pc EXCEPT ![r] = stage]
        /\ pc[r] = "lock"
        /\ UNCHANGED <<line, pos, count, req, born, gone, held, kept, lack, drop, unit,
                       crossed, stamp, nextId>>
    BY <1>3 DEF MoveLock
  <2>4. mine' \in [Request -> [Line -> Row]]
    BY <1>1, <2>1, <2>2, <2>3 DEF TypeOK
  <2>5. TypeOK'
    BY <1>1, <2>3, <2>4 DEF TypeOK, Stage
  <2>6. Kinds'
    BY <1>1, <2>3
    DEF TypeOK, Kinds, MoverStage, RegistrarStage, SaverStage, Request
  <2> QED
    BY <2>5, <2>6
<1>4. CASE MoveIndex(r)
  <2>1. CASE Fail(r)
    BY <1>1, <2>1, FailTyped
  <2>2. CASE ~Fail(r)
    <3>1. /\ pc[r] = "index" /\ pc' = [pc EXCEPT ![r] = "ref"]
          /\ UNCHANGED <<line, pos, count, req, mine, born, gone, held, kept, lack,
                         drop, unit, crossed, stamp, nextId>>
      BY <1>4, <2>2 DEF MoveIndex
    <3>2. TypeOK'
      BY <1>1, <3>1 DEF TypeOK, Stage
    <3>3. Kinds'
      BY <1>1, <3>1
      DEF TypeOK, Kinds, MoverStage, RegistrarStage, SaverStage, Request
    <3> QED
      BY <3>2, <3>3
  <2> QED
    BY <2>1, <2>2
<1>5. CASE MoveRef(r)
  <2>1. CASE Fail(r)
    BY <1>1, <2>1, FailTyped
  <2>2. CASE ~Fail(r)
    <3>1. /\ pc[r] = "ref" /\ pc' = [pc EXCEPT ![r] = "emit"]
          /\ UNCHANGED <<line, pos, count, req, mine, born, gone, held, kept, lack,
                         drop, unit, crossed, stamp, nextId>>
      BY <1>5, <2>2 DEF MoveRef
    <3>2. TypeOK'
      BY <1>1, <3>1 DEF TypeOK, Stage
    <3>3. Kinds'
      BY <1>1, <3>1
      DEF TypeOK, Kinds, MoverStage, RegistrarStage, SaverStage, Request
    <3> QED
      BY <3>2, <3>3
  <2> QED
    BY <2>1, <2>2
<1> QED
  BY <1>2, <1>3, <1>4, <1>5 DEF MoveStep

\* The statements of CreateLine keep every variable in its type.
LEMMA RegisterTyped ==
  ASSUME Typed, NEW r \in Registrar, RegisterStep(r)
  PROVE  Typed'
<1> USE ConstantsAssumption DEF Typed, Goto, tables, layout, events
<1>1. r \in Request
  BY DEF Request
<1>2. CASE RegisterBegin(r)
  <2>1. PICK l \in Line, v \in Vessel, life \in Lifecycle :
          req' = [req EXCEPT ![r] =
                    [kind |-> "register", line |-> l, vessel |-> v, life |-> life]]
    BY <1>2 DEF RegisterBegin
  <2>2. [kind |-> "register", line |-> l, vessel |-> v, life |-> life] \in RegisterReq
    BY DEF RegisterReq
  <2>3. TypeOK'
    BY <1>1, <1>2, <2>1, <2>2 DEF RegisterBegin, TypeOK, Stage
  <2>4. Kinds'
    BY <1>1, <1>2, <2>1, <2>2
    DEF RegisterBegin, TypeOK, Kinds, MoverStage, RegistrarStage, SaverStage, Request
  <2> QED
    BY <2>3, <2>4
<1>3. CASE RegisterInsert(r)
  <2>1. CASE Fail(r)
    BY <1>1, <2>1, FailTyped
  <2>2. CASE ~Fail(r)
    <3>1. req[r] \in RegisterReq
      BY <1>3 DEF RegisterInsert, Kinds
    <3>2. [vessel |-> req[r].vessel, life |-> req[r].life, at |-> None] \in Row
      BY <3>1 DEF RegisterReq, Row
    <3>3. req[r].line \in Line
      BY <3>1 DEF RegisterReq
    <3>4. /\ mine' = [mine EXCEPT ![r][req[r].line] =
                       [vessel |-> req[r].vessel, life |-> req[r].life, at |-> None]]
          /\ pc' = [pc EXCEPT ![r] = "emit"]
          /\ pc[r] = "insert"
          /\ UNCHANGED <<line, pos, count, req, born, gone, held, kept, lack, drop, unit,
                         crossed, stamp, nextId>>
      BY <1>3, <2>2 DEF RegisterInsert
    <3>5. mine' \in [Request -> [Line -> Row]]
      BY <1>1, <3>2, <3>3, <3>4 DEF TypeOK
    <3>6. TypeOK'
      BY <1>1, <3>4, <3>5 DEF TypeOK, Stage
    <3>7. Kinds'
      BY <1>1, <3>4
      DEF TypeOK, Kinds, MoverStage, RegistrarStage, SaverStage, Request
    <3> QED
      BY <3>6, <3>7
  <2> QED
    BY <2>1, <2>2
<1> QED
  BY <1>2, <1>3 DEF RegisterStep

\* The statements of SaveLayout keep every variable in its type: the row of
\* a winch has a drum_count between 1 and 6, a drum an idx in that range.
LEMMA SaveTyped ==
  ASSUME Typed, NEW r \in Saver, SaveStep(r)
  PROVE  Typed'
<1> USE ConstantsAssumption DEF Typed, Goto, tables, layout, events
<1>1. r \in Request
  BY DEF Request
<1>2. CASE SaveBegin(r)
  <2>1. PICK v \in Vessel, want \in [Winch -> 0..MaxDrums], stores \in SUBSET Storage :
          req' = [req EXCEPT ![r] = [kind |-> "save", vessel |-> v,
                                     want |-> want, stores |-> stores]]
    BY <1>2 DEF SaveBegin
  <2>2. [kind |-> "save", vessel |-> v, want |-> want, stores |-> stores] \in SaveReq
    BY DEF SaveReq
  <2>3. TypeOK'
    BY <1>1, <1>2, <2>1, <2>2 DEF SaveBegin, TypeOK, Stage
  <2>4. Kinds'
    BY <1>1, <1>2, <2>1, <2>2
    DEF SaveBegin, TypeOK, Kinds, MoverStage, RegistrarStage, SaverStage, Request
  <2> QED
    BY <2>3, <2>4
<1>3. ASSUME NEW w \in Winch, SaveWinch(r, w)
      PROVE  Typed'
  <2> DEFINE M == {i \in 1..req[r].want[w] : \A d \in Seen(r, w) : d.idx # i}
  <2>1. /\ kept' = [kept EXCEPT ![r] = @ \cup {w}]
        /\ held' = [held EXCEPT ![r] = IF Writes(r, w) THEN @ \cup {w} ELSE @]
        /\ lack' = [lack EXCEPT ![r] = [winch : {w}, idx : M, by : {r}]]
        /\ drop' = [drop EXCEPT ![r] = {d \in Seen(r, w) : d.idx > req[r].want[w]}]
        /\ UNCHANGED <<line, pos, count, pc, req, mine, born, gone, unit, crossed,
                       stamp, nextId>>
    BY <1>3 DEF SaveWinch
  <2>2. req[r].want[w] \in 0..MaxDrums
    BY <1>3 DEF SaveWinch, Kinds, SaveReq
  <2>3. [winch : {w}, idx : M, by : {r}] \subseteq Drum
    BY <2>2 DEF Drum
  <2>4. {d \in Seen(r, w) : d.idx > req[r].want[w]} \subseteq Winch \cup Position
    BY DEF Seen, Position
  <2> HIDE DEF M
  <2>5. TypeOK'
    BY <1>1, <2>1, <2>3, <2>4 DEF TypeOK
  <2>6. Kinds'
    BY <1>1, <2>1 DEF TypeOK, Kinds, Request
  <2> QED
    BY <2>5, <2>6
<1>10. ASSUME NEW d \in lack[r], InsertDrum(r, d)
       PROVE  Typed'
  <2>1. CASE Fail(r)
    BY <1>1, <2>1, FailTyped
  <2>2. CASE ~Fail(r)
    <3>1. /\ born' = [born EXCEPT ![r] = @ \cup {d}]
          /\ lack' = [lack EXCEPT ![r] = @ \ {d}]
          /\ UNCHANGED <<line, pos, count, pc, req, mine, gone, held, kept, drop, unit,
                         crossed, stamp, nextId>>
      BY <1>10, <2>2 DEF InsertDrum
    <3>2. d \in Position
      BY <1>1 DEF TypeOK, Position
    <3>3. TypeOK'
      BY <1>1, <3>1, <3>2 DEF TypeOK
    <3>4. Kinds'
      BY <1>1, <3>1 DEF TypeOK, Kinds, Request
    <3> QED
      BY <3>3, <3>4
  <2> QED
    BY <2>1, <2>2
<1>4. CASE ListWinches(r)
  <2>1. TypeOK'
    BY <1>1, <1>4 DEF ListWinches, TypeOK, Stage
  <2>2. Kinds'
    BY <1>1, <1>4
    DEF ListWinches, TypeOK, Kinds, MoverStage, RegistrarStage, SaverStage, Request
  <2> QED
    BY <2>1, <2>2
<1>5. CASE ListStores(r)
  <2>1. TypeOK'
    BY <1>1, <1>5 DEF ListStores, TypeOK, Stage, Position
  <2>2. Kinds'
    BY <1>1, <1>5
    DEF ListStores, TypeOK, Kinds, MoverStage, RegistrarStage, SaverStage, Request
  <2> QED
    BY <2>1, <2>2
<1>9. ASSUME NEW s \in Storage, SaveStore(r, s)
      PROVE  Typed'
  <2>1. TypeOK'
    BY <1>1, <1>9 DEF SaveStore, TypeOK, Position
  <2>2. Kinds'
    BY <1>1, <1>9 DEF SaveStore, TypeOK, Kinds, Request
  <2> QED
    BY <2>1, <2>2
<1>6. ASSUME NEW u \in drop[r], CheckEmpty(r, u)
      PROVE  Typed'
  <2>1. CASE Fail(r)
    BY <1>1, <2>1, FailTyped
  <2>2. CASE ~Fail(r)
    <3>1. /\ drop' = [drop EXCEPT ![r] = @ \ {u}]
          /\ unit' = [unit EXCEPT ![r] = u]
          /\ UNCHANGED <<line, pos, count, pc, req, mine, born, gone, held, kept, lack,
                         crossed, stamp, nextId>>
      BY <1>6, <2>2 DEF CheckEmpty
    <3>2. TypeOK'
      BY <1>1, <3>1 DEF TypeOK
    <3>3. Kinds'
      BY <3>1 DEF Kinds
    <3> QED
      BY <3>2, <3>3
  <2> QED
    BY <2>1, <2>2
<1>7. CASE Remove(r)
  <2> DEFINE locked == IF (unit[r] \in Winch /\ count[unit[r]] > 0)
                           \/ unit[r] \in Storage \cap pos
                       THEN {unit[r]} ELSE {}
  <2>1. /\ gone' = [gone EXCEPT ![r] = @ \cup Covered(r, unit[r])]
        /\ held' = [held EXCEPT ![r] = @ \cup locked]
        /\ unit' = [unit EXCEPT ![r] = None]
        /\ unit[r] # None
        /\ UNCHANGED <<line, pos, count, pc, req, mine, born, kept, lack, drop, crossed,
                       stamp, nextId>>
    BY <1>7 DEF Remove
  <2>5. locked \subseteq Winch \cup Storage
    OBVIOUS
  <2> HIDE DEF locked
  <2>2. Covered(r, unit[r]) \subseteq Position
    <3>1. unit[r] \in Winch \cup Position
      BY <1>1, <2>1 DEF TypeOK
    <3>2. CASE unit[r] \in Winch
      BY <3>2 DEF Covered, Seen, Position
    <3>3. CASE unit[r] \notin Winch
      BY <3>1, <3>3 DEF Covered
    <3> QED
      BY <3>2, <3>3
  <2>3. TypeOK'
    BY <1>1, <2>1, <2>2, <2>5 DEF TypeOK
  <2>4. Kinds'
    BY <1>1, <2>1 DEF TypeOK, Kinds, Request
  <2> QED
    BY <2>3, <2>4
<1>8. ASSUME NEW l \in Line, SetNull(r, l)
      PROVE  Typed'
  <2>1. Unplaced(line[l]) \in Row
    BY DEF TypeOK, Row, Unplaced
  <2>2. TypeOK'
    BY <1>1, <1>8, <2>1 DEF SetNull, TypeOK
  <2>3. Kinds'
    BY <1>8 DEF SetNull, Kinds
  <2> QED
    BY <2>2, <2>3
<1> QED
  BY <1>2, <1>3, <1>4, <1>5, <1>6, <1>7, <1>8, <1>9, <1>10 DEF SaveStep

\* Every stage and every value stays in its type.
THEOREM TypesInductive == Typed /\ [Next]_vars => Typed'
<1> SUFFICES ASSUME Typed, [Next]_vars PROVE Typed'
  OBVIOUS
<1>1. CASE UNCHANGED vars
  BY <1>1 DEF Typed, TypeOK, Kinds, vars, tables, layout, events
<1>2. ASSUME NEW r \in Request, Step(r) \/ Cancel(r)
      PROVE  Typed'
  BY <1>2, MoveTyped, RegisterTyped, SaveTyped, EmitTyped, CommitTyped, FailTyped
  DEF Step, Cancel, Deadlock
<1> QED
  BY <1>1, <1>2 DEF Next, Finished

(***************************************************************************)
(* The placement invariant.  The steps fall into a few kinds by what they  *)
(* write; each kind has a lemma with one step per part of the invariant.   *)
(***************************************************************************)
Safe ==
  /\ NothingLeft /\ RowLocks /\ MoverRows /\ RegistrarRows /\ SaverRows
  /\ KeyHeld /\ RefHeld /\ SettledAtCommit /\ Placements

\* No step but r's own touches what belongs to r.
Alone(r) ==
  \A x \in Request : x # r =>
    /\ pc'[x] = pc[x] /\ req'[x] = req[x] /\ mine'[x] = mine[x]
    /\ born'[x] = born[x] /\ gone'[x] = gone[x]

\* ... nor what it has left to insert or to remove.
Apart(r) ==
  \A x \in Request : x # r =>
    lack'[x] = lack[x] /\ drop'[x] = drop[x] /\ unit'[x] = unit[x]

\* SaveLayout reads, inserts or decides, and neither deletes nor writes lines.
Quiet(r) ==
  /\ Alone(r) /\ Apart(r) /\ UNCHANGED <<line, pos, mine, gone>>
  /\ pc[r] # "commit" /\ pc'[r] \in {"winches", "stores", "emit"}

\* The database a server starts with satisfies the placement invariant, and
\* no transaction is open.
LEMMA InitSafe == Init => Safe
<1> SUFFICES ASSUME Init PROVE Safe
  OBVIOUS
<1> USE ConstantsAssumption DEF Init
<1>1. NothingLeft /\ RowLocks /\ SaverRows
  BY DEF NothingLeft, RowLocks, SaverRows, Request
<1>2. MoverRows /\ RegistrarRows
  BY DEF MoverRows, RegistrarRows, Open, Request
<1>3. KeyHeld /\ RefHeld /\ SettledAtCommit
  BY DEF KeyHeld, RefHeld, SettledAtCommit, Indexed, Request
<1>4. Placements
  <2>1. OneLinePerDrum
    BY DEF OneLinePerDrum
  <2>2. PlacesExist
    BY DEF PlacesExist
  <2>3. OwnVessel
    BY DEF OwnVessel
  <2>4. PlacedLifecycle
    BY DEF PlacedLifecycle
  <2> QED
    BY <2>1, <2>2, <2>3, <2>4 DEF Placements
<1> QED
  BY <1>1, <1>2, <1>3, <1>4 DEF Safe

\* A statement that writes no line and no position, and leaves its request at
\* a stage with the same claims, preserves the invariant.
LEMMA QuietSafe ==
  ASSUME Typed, Safe, NEW r \in Saver, Quiet(r)
  PROVE  Safe'
<1> USE ConstantsAssumption DEF Typed, Safe, Quiet, Alone
<1>0. /\ r \in Request /\ r \notin Mover /\ r \notin Registrar
      /\ Mover \subseteq Request /\ Registrar \subseteq Request
      /\ Saver \subseteq Request
  BY DEF Request
<1>1. NothingLeft'
  BY <1>0 DEF NothingLeft
<1>2. RowLocks'
  BY DEF RowLocks
<1>3. MoverRows'
  BY SMTT(30), <1>0 DEF MoverRows, Open
<1>4. RegistrarRows'
  BY <1>0 DEF RegistrarRows
<1>5. SaverRows'
  BY DEF SaverRows
<1>6. KeyHeld'
  BY <1>0 DEF KeyHeld, Indexed
<1>7. RefHeld'
  BY <1>0 DEF RefHeld
<1>8. SettledAtCommit'
  BY <1>0 DEF SettledAtCommit, Settled, ToNull, Apart
<1>9. Placements'
  BY DEF Placements, OneLinePerDrum, PlacesExist, OwnVessel, PlacedLifecycle
<1> QED
  BY <1>1, <1>2, <1>3, <1>4, <1>5, <1>6, <1>7, <1>8, <1>9

\* A rollback preserves the invariant: what is left of the transaction is
\* nothing, and it gives up only locks of its own.
LEMMA FailSafe ==
  ASSUME Typed, Safe, NEW r \in Request, Fail(r)
  PROVE  Safe'
<1> USE ConstantsAssumption DEF Typed, Safe
<1>0. /\ Mover \subseteq Request /\ Registrar \subseteq Request
      /\ Saver \subseteq Request
  BY DEF Request
<1>a. /\ Alone(r) /\ UNCHANGED <<line, pos>>
      /\ pc'[r] = "failed" /\ born'[r] = {} /\ gone'[r] = {}
      /\ \A l \in Line : mine'[r][l] = NoRow
  BY DEF Fail, Alone, tables, TypeOK
<1>b. Apart(r)
  BY DEF Fail, Apart
<1>1. NothingLeft'
  BY <1>a DEF NothingLeft, Alone
<1>2. RowLocks'
  BY <1>a DEF RowLocks, Alone
<1>3. MoverRows'
  BY SMTT(30), <1>0, <1>a DEF MoverRows, Open, Alone
<1>4. RegistrarRows'
  BY SMTT(30), <1>0, <1>a DEF RegistrarRows, Alone
<1>5. SaverRows'
  BY <1>0, <1>a DEF SaverRows, Alone
<1>6. KeyHeld'
  BY <1>0, <1>a DEF KeyHeld, Indexed, Alone
<1>7. RefHeld'
  BY <1>0, <1>a DEF RefHeld, Alone
<1>8. SettledAtCommit'
  BY <1>0, <1>a, <1>b DEF SettledAtCommit, Settled, ToNull, Alone, Apart
<1>9. Placements'
  BY <1>a DEF Placements, OneLinePerDrum, PlacesExist, OwnVessel, PlacedLifecycle
<1> QED
  BY <1>1, <1>2, <1>3, <1>4, <1>5, <1>6, <1>7, <1>8, <1>9

\* Writing the outbox event preserves the invariant.
LEMMA EmitSafe ==
  ASSUME Typed, Safe, NEW r \in Request, Emit(r)
  PROVE  Safe'
<1> USE ConstantsAssumption DEF Typed, Safe
<1>0. /\ Mover \subseteq Request /\ Registrar \subseteq Request
      /\ Saver \subseteq Request
  BY DEF Request
<1>a. /\ pc' = [pc EXCEPT ![r] = "commit"] /\ pc[r] = "emit"
      /\ r \in Saver => Settled(r)
      /\ UNCHANGED <<line, pos, req, mine, born, gone, lack, drop, unit>>
  BY DEF Emit, Goto, tables, layout
<1>b. \A x \in Request : pc'[x] = IF x = r THEN "commit" ELSE pc[x]
  BY <1>a DEF TypeOK
<1>1. NothingLeft'
  BY <1>a, <1>b DEF NothingLeft
<1>2. RowLocks'
  BY <1>a DEF RowLocks
<1>3. MoverRows'
  BY SMTT(30), <1>0, <1>a, <1>b DEF MoverRows, Open
<1>4. RegistrarRows'
  BY <1>0, <1>a, <1>b DEF RegistrarRows
<1>5. SaverRows'
  BY <1>a DEF SaverRows
<1>6. KeyHeld'
  BY <1>0, <1>a, <1>b DEF KeyHeld, Indexed
<1>7. RefHeld'
  BY <1>0, <1>a, <1>b DEF RefHeld
<1>8. SettledAtCommit'
  BY <1>0, <1>a, <1>b DEF SettledAtCommit, Settled, ToNull
<1>9. Placements'
  BY <1>a DEF Placements, OneLinePerDrum, PlacesExist, OwnVessel, PlacedLifecycle
<1> QED
  BY <1>1, <1>2, <1>3, <1>4, <1>5, <1>6, <1>7, <1>8, <1>9

\* What a commit does to the tables and to what the transaction held.
LEMMA CommitEffect ==
  ASSUME Typed, NEW r \in Request, Commit(r)
  PROVE  /\ Alone(r) /\ Apart(r) /\ pc[r] = "commit" /\ pc'[r] = "done"
         /\ born'[r] = {} /\ gone'[r] = {}
         /\ \A l \in Line : mine'[r][l] = NoRow
         /\ \A l \in Line : line'[l] = IF mine[r][l] # NoRow THEN mine[r][l] ELSE line[l]
         /\ pos' = (pos \cup born[r]) \ gone[r]
         /\ req' = req
BY DEF Commit, Goto, Alone, Apart, View, VisiblePos, Typed, TypeOK

\* The commit of a move preserves the invariant: the drum it held the key of
\* becomes that line's, and no other move counted on its being free.
LEMMA CommitMoveSafe ==
  ASSUME Typed, Safe, NEW r \in Mover, Commit(r)
  PROVE  Safe'
<1> USE ConstantsAssumption DEF Typed, Safe
<1>0. /\ Mover \subseteq Request /\ Registrar \subseteq Request
      /\ Saver \subseteq Request /\ r \in Request
      /\ r \notin Registrar /\ r \notin Saver
  BY DEF Request
<1> DEFINE l == req[r].line
           p == req[r].to
<1>a. /\ Alone(r) /\ Apart(r) /\ pc[r] = "commit" /\ pc'[r] = "done"
      /\ born'[r] = {} /\ gone'[r] = {}
      /\ \A k \in Line : mine'[r][k] = NoRow
      /\ \A k \in Line : line'[k] = IF mine[r][k] # NoRow THEN mine[r][k] ELSE line[k]
      /\ pos' = (pos \cup born[r]) \ gone[r]
      /\ req' = req
  BY <1>0, CommitEffect
<1>b. l \in Line /\ p \in Position
  BY <1>a DEF Kinds, MoveReq
<1>c. /\ line[l] # NoRow /\ HomeOf(p) = line[l].vessel
      /\ mine[r][l] = [vessel |-> line[l].vessel, life |-> LifeAt(p), at |-> p]
      /\ \A k \in Line : k # l => mine[r][k] = NoRow
  BY <1>a DEF MoverRows, Open
<1>d. LifeAt(p) # "none"
  BY DEF LifeAt
<1>e. /\ line'[l] = [vessel |-> line[l].vessel, life |-> LifeAt(p), at |-> p]
      /\ line'[l] # NoRow
      /\ \A k \in Line : k # l => line'[k] = line[k]
  BY <1>a, <1>b, <1>c, <1>d DEF NoRow
<1>f. pos' = pos
  BY <1>a DEF Kinds
<1>g. \A x \in Request : x # r => mine[x][l] = NoRow
  BY <1>0, <1>b, <1>c, <1>d DEF RowLocks, NoRow
<1>1. NothingLeft'
  BY <1>a DEF NothingLeft, Alone
<1>2. RowLocks'
  BY <1>a DEF RowLocks, Alone
<1>3. MoverRows'
  <2> SUFFICES ASSUME NEW x \in Mover, Open(x)'
               PROVE  (/\ line[req[x].line] # NoRow
                       /\ HomeOf(req[x].to) = line[req[x].line].vessel
                       /\ pc[x] # "lock" =>
                            /\ mine[x][req[x].line] =
                                 [vessel |-> line[req[x].line].vessel,
                                  life |-> LifeAt(req[x].to), at |-> req[x].to]
                            /\ \A k \in Line : k # req[x].line => mine[x][k] = NoRow)'
    BY DEF MoverRows
  <2>0. /\ x # r /\ Open(x) /\ pc'[x] = pc[x] /\ mine'[x] = mine[x]
        /\ req'[x] = req[x]
    BY <1>0, <1>a DEF Open, Alone
  <2>1. req[x].line \in Line
    BY <2>0 DEF Kinds, MoveReq, Open
  <2>2. line'[req[x].line].vessel = line[req[x].line].vessel
    BY <1>e, <2>1
  <2>3. line'[req[x].line] # NoRow
    BY <1>e, <2>0, <2>1 DEF MoverRows
  <2> QED
    BY <2>0, <2>1, <2>2, <2>3 DEF MoverRows
<1>4. RegistrarRows'
  <2> SUFFICES ASSUME NEW x \in Registrar, pc'[x] \in {"emit", "commit"}
               PROVE  (/\ line[req[x].line] = NoRow
                       /\ mine[x][req[x].line] = [vessel |-> req[x].vessel,
                                                  life |-> req[x].life, at |-> None]
                       /\ \A k \in Line : k # req[x].line => mine[x][k] = NoRow)'
    BY DEF RegistrarRows
  <2>0. /\ x # r /\ pc'[x] = pc[x] /\ mine'[x] = mine[x] /\ req'[x] = req[x]
    BY <1>0, <1>a DEF Alone
  <2>1. req[x].line \in Line /\ line[req[x].line] = NoRow
    BY <2>0 DEF RegistrarRows, Kinds, RegisterReq
  <2>2. line'[req[x].line] = NoRow
    BY <1>c, <1>e, <2>1
  <2> QED
    BY <2>0, <2>2 DEF RegistrarRows
<1>5. SaverRows'
  BY <1>0, <1>a, <1>e, <1>g DEF SaverRows, Alone
<1>6. KeyHeld'
  <2>1. ASSUME NEW x \in Mover, x # r, Indexed(x), req[x].to \in Drum
        PROVE  /\ \A k \in Line : line'[k].at = req[x].to => k = req[x].line
               /\ \A y \in Mover : Indexed(y) /\ req[y].to = req[x].to => y = x
    <3>1. p # req[x].to
      BY <1>a, <2>1 DEF KeyHeld, Indexed
    <3> QED
      BY <1>b, <1>e, <2>1, <3>1 DEF KeyHeld
  <2> QED
    BY <1>0, <1>a, <2>1 DEF KeyHeld, Indexed, Alone
<1>7. RefHeld'
  <2> SUFFICES ASSUME NEW x \in Mover, x # r, pc[x] \in {"emit", "commit"}
               PROVE  /\ req[x].to \in pos
                      /\ line'[req[x].line].at # req[x].to =>
                           \A y \in Saver : req[x].to \notin gone[y]
    BY <1>0, <1>a, <1>f DEF RefHeld, Alone
  <2>1. req[x].line \in Line /\ mine[x][req[x].line] # NoRow
    <3>1. req[x].line \in Line /\ LifeAt(req[x].to) # "none"
      BY DEF Kinds, MoveReq, LifeAt
    <3>2. mine[x][req[x].line] = [vessel |-> line[req[x].line].vessel,
                                  life |-> LifeAt(req[x].to), at |-> req[x].to]
      BY DEF MoverRows, Open
    <3> QED
      BY <3>1, <3>2 DEF NoRow
  <2>2. req[x].line # l
    BY <1>0, <1>g, <2>1
  <2> QED
    BY <1>e, <2>1, <2>2 DEF RefHeld
<1>8. SettledAtCommit'
  <2> SUFFICES ASSUME NEW x \in Saver, pc[x] = "commit", NEW k \in Line,
                      line'[k].at \in gone[x], mine[x][k] = NoRow
               PROVE  FALSE
    BY <1>0, <1>a DEF SettledAtCommit, Settled, ToNull, Alone, Apart
  <2>1. k = l
    BY <1>e DEF SettledAtCommit, Settled, ToNull
  <2>2. p \in gone[x] /\ line[l].at # p
    BY <1>e, <2>1 DEF SettledAtCommit, Settled, ToNull
  <2> QED
    BY <1>a, <2>2 DEF RefHeld
<1>9. Placements'
  <2>1. p \in pos
    BY <1>a DEF RefHeld
  <2>2. OneLinePerDrum'
    <3>1. p \in Drum => \A k \in Line : line[k].at = p => k = l
      BY <1>a DEF KeyHeld, Indexed
    <3> QED
      BY <1>b, <1>e, <3>1 DEF Placements, OneLinePerDrum
  <2>3. PlacesExist'
    BY <1>b, <1>e, <1>f, <2>1 DEF Placements, PlacesExist
  <2>4. OwnVessel'
    BY <1>b, <1>c, <1>e DEF Placements, OwnVessel
  <2>5. PlacedLifecycle'
    BY <1>b, <1>e DEF Placements, PlacedLifecycle
  <2> QED
    BY <2>2, <2>3, <2>4, <2>5 DEF Placements
<1> QED
  BY <1>1, <1>2, <1>3, <1>4, <1>5, <1>6, <1>7, <1>8, <1>9

\* The commit of a registration preserves the invariant: the new line has no
\* place, and no other transaction has a row with its serial number.
LEMMA CommitRegisterSafe ==
  ASSUME Typed, Safe, NEW r \in Registrar, Commit(r)
  PROVE  Safe'
<1> USE ConstantsAssumption DEF Typed, Safe
<1>0. /\ Mover \subseteq Request /\ Registrar \subseteq Request
      /\ Saver \subseteq Request /\ r \in Request
      /\ r \notin Mover /\ r \notin Saver
  BY DEF Request
<1> DEFINE l == req[r].line
<1>a. /\ Alone(r) /\ Apart(r) /\ pc[r] = "commit" /\ pc'[r] = "done"
      /\ born'[r] = {} /\ gone'[r] = {}
      /\ \A k \in Line : mine'[r][k] = NoRow
      /\ \A k \in Line : line'[k] = IF mine[r][k] # NoRow THEN mine[r][k] ELSE line[k]
      /\ pos' = (pos \cup born[r]) \ gone[r]
      /\ req' = req
  BY <1>0, CommitEffect
<1>b. l \in Line /\ req[r].life # "none"
  BY <1>a DEF Kinds, RegisterReq, Lifecycle
<1>c. /\ line[l] = NoRow
      /\ mine[r][l] = [vessel |-> req[r].vessel, life |-> req[r].life, at |-> None]
      /\ \A k \in Line : k # l => mine[r][k] = NoRow
  BY <1>a DEF RegistrarRows
<1>e. /\ line'[l] = [vessel |-> req[r].vessel, life |-> req[r].life, at |-> None]
      /\ line'[l] # NoRow
      /\ \A k \in Line : k # l => line'[k] = line[k]
  BY <1>a, <1>b, <1>c DEF NoRow
<1>f. pos' = pos
  BY <1>a DEF Kinds
<1>g. \A x \in Request : x # r => mine[x][l] = NoRow
  BY <1>0, <1>b, <1>c DEF RowLocks, NoRow
<1>h. \A k \in Line : line'[k].at = line[k].at
  BY <1>c, <1>e DEF NoRow
<1>1. NothingLeft'
  BY <1>a DEF NothingLeft, Alone
<1>2. RowLocks'
  BY <1>a DEF RowLocks, Alone
<1>3. MoverRows'
  <2> SUFFICES ASSUME NEW x \in Mover, Open(x)'
               PROVE  (/\ line[req[x].line] # NoRow
                       /\ HomeOf(req[x].to) = line[req[x].line].vessel
                       /\ pc[x] # "lock" =>
                            /\ mine[x][req[x].line] =
                                 [vessel |-> line[req[x].line].vessel,
                                  life |-> LifeAt(req[x].to), at |-> req[x].to]
                            /\ \A k \in Line : k # req[x].line => mine[x][k] = NoRow)'
    BY DEF MoverRows
  <2>1. /\ x # r /\ Open(x) /\ pc'[x] = pc[x] /\ mine'[x] = mine[x]
        /\ req'[x] = req[x]
    BY <1>0, <1>a DEF Open, Alone
  <2>2. req[x].line \in Line /\ line[req[x].line] # NoRow
    BY <2>1 DEF Kinds, MoveReq, Open, MoverRows
  <2>3. line'[req[x].line] = line[req[x].line]
    BY <1>c, <1>e, <2>2
  <2> QED
    BY <2>1, <2>2, <2>3 DEF MoverRows
<1>4. RegistrarRows'
  <2> SUFFICES ASSUME NEW x \in Registrar, pc'[x] \in {"emit", "commit"}
               PROVE  (/\ line[req[x].line] = NoRow
                       /\ mine[x][req[x].line] = [vessel |-> req[x].vessel,
                                                  life |-> req[x].life, at |-> None]
                       /\ \A k \in Line : k # req[x].line => mine[x][k] = NoRow)'
    BY DEF RegistrarRows
  <2>1. /\ x # r /\ pc'[x] = pc[x] /\ mine'[x] = mine[x] /\ req'[x] = req[x]
    BY <1>0, <1>a DEF Alone
  <2>2. /\ req[x].line \in Line /\ line[req[x].line] = NoRow
        /\ mine[x][req[x].line] # NoRow
    <3>1. req[x].line \in Line /\ req[x].life # "none"
      BY <2>1 DEF Kinds, RegisterReq, Lifecycle
    <3>2. /\ line[req[x].line] = NoRow
          /\ mine[x][req[x].line] = [vessel |-> req[x].vessel,
                                     life |-> req[x].life, at |-> None]
      BY <2>1 DEF RegistrarRows
    <3> QED
      BY <3>1, <3>2 DEF NoRow
  <2>3. req[x].line # l
    BY <1>0, <1>g, <2>1, <2>2
  <2>4. line'[req[x].line] = NoRow
    BY <1>e, <2>2, <2>3
  <2> QED
    BY <2>1, <2>4 DEF RegistrarRows
<1>5. SaverRows'
  BY <1>0, <1>a, <1>e, <1>g DEF SaverRows, Alone
<1>6. KeyHeld'
  BY <1>0, <1>a, <1>h DEF KeyHeld, Indexed, Alone
<1>7. RefHeld'
  <2>1. \A x \in Mover : pc[x] \in {"emit", "commit"} => req[x].line \in Line
    BY DEF Kinds, MoveReq
  <2> QED
    BY <1>0, <1>a, <1>f, <1>h, <2>1 DEF RefHeld, Alone
<1>8. SettledAtCommit'
  BY <1>0, <1>a, <1>h DEF SettledAtCommit, Settled, ToNull, Alone, Apart
<1>9. Placements'
  <2>1. OneLinePerDrum'
    BY <1>h DEF Placements, OneLinePerDrum
  <2>2. PlacesExist'
    BY <1>f, <1>h DEF Placements, PlacesExist
  <2>3. OwnVessel'
    BY <1>e DEF Placements, OwnVessel
  <2>4. PlacedLifecycle'
    BY <1>e DEF Placements, PlacedLifecycle
  <2> QED
    BY <2>1, <2>2, <2>3, <2>4 DEF Placements
<1> QED
  BY <1>1, <1>2, <1>3, <1>4, <1>5, <1>6, <1>7, <1>8, <1>9

\* The commit of a layout save preserves the invariant: every line on what it
\* deleted loses its place with it, and no open move targets what it deleted.
LEMMA CommitSaveSafe ==
  ASSUME Typed, Safe, NEW r \in Saver, Commit(r)
  PROVE  Safe'
<1> USE ConstantsAssumption DEF Typed, Safe
<1>0. /\ Mover \subseteq Request /\ Registrar \subseteq Request
      /\ Saver \subseteq Request /\ r \in Request
      /\ r \notin Mover /\ r \notin Registrar
  BY DEF Request
<1>a. /\ Alone(r) /\ Apart(r) /\ pc[r] = "commit" /\ pc'[r] = "done"
      /\ born'[r] = {} /\ gone'[r] = {}
      /\ \A k \in Line : mine'[r][k] = NoRow
      /\ \A k \in Line : line'[k] = IF mine[r][k] # NoRow THEN mine[r][k] ELSE line[k]
      /\ pos' = (pos \cup born[r]) \ gone[r]
      /\ req' = req
  BY <1>0, CommitEffect
<1>b. \A k \in Line : mine[r][k] # NoRow => mine[r][k] = Unplaced(line[k])
  BY DEF SaverRows
<1>c. \A k \in Line : line[k].at \in gone[r] => mine[r][k] # NoRow
  BY <1>a DEF SettledAtCommit, Settled, ToNull
\* A line is written if and only if it was on something deleted.
<1>d. \A k \in Line : line'[k] = IF line[k].at \in gone[r] THEN Unplaced(line[k])
                                                          ELSE line[k]
  BY <1>a, <1>b, <1>c DEF SaverRows
<1>e. \A k \in Line : line[k] # NoRow => line'[k] # NoRow
  BY <1>a
<1>f. \A k \in Line : line[k] = NoRow => line'[k] = NoRow
  BY <1>d DEF Unplaced, NoRow
<1>k. ASSUME NEW k \in Line
      PROVE  /\ line'[k].vessel = line[k].vessel /\ line'[k].life = line[k].life
             /\ line'[k].at = IF line[k].at \in gone[r] THEN None ELSE line[k].at
  <2>1. CASE line[k].at \in gone[r]
    <3>1. line'[k] = [vessel |-> line[k].vessel, life |-> line[k].life, at |-> None]
      BY <1>d, <2>1 DEF Unplaced
    <3> QED
      BY <2>1, <3>1
  <2>2. CASE line[k].at \notin gone[r]
    <3>1. line'[k] = line[k]
      BY <1>d, <2>2
    <3> QED
      BY <2>2, <3>1
  <2> QED
    BY <2>1, <2>2
<1>g. \A k \in Line : line'[k].vessel = line[k].vessel /\ line'[k].life = line[k].life
  BY <1>k
<1>h. \A k \in Line : line'[k].at = line[k].at \/ line'[k].at = None
  BY <1>k
<1>i. \A x \in Request, k \in Line : x # r /\ mine[x][k] # NoRow => line'[k] = line[k]
  BY <1>0, <1>a DEF RowLocks
\* A move holding its row finds the row as it was.
<1>j. ASSUME NEW x \in Mover, pc[x] \in {"index", "ref", "emit", "commit"}
      PROVE  req[x].line \in Line /\ line'[req[x].line] = line[req[x].line]
             /\ mine[x][req[x].line] # NoRow
  <2>1. req[x].line \in Line /\ LifeAt(req[x].to) # "none"
    BY <1>j DEF Kinds, MoveReq, LifeAt
  <2>2. mine[x][req[x].line] = [vessel |-> line[req[x].line].vessel,
                                life |-> LifeAt(req[x].to), at |-> req[x].to]
    BY <1>j DEF MoverRows, Open
  <2>3. mine[x][req[x].line] # NoRow
    BY <2>1, <2>2 DEF NoRow
  <2> QED
    BY <1>0, <1>i, <2>1, <2>3
<1>1. NothingLeft'
  BY <1>a DEF NothingLeft, Alone
<1>2. RowLocks'
  BY <1>a DEF RowLocks, Alone
<1>3. MoverRows'
  <2> SUFFICES ASSUME NEW x \in Mover, Open(x)'
               PROVE  (/\ line[req[x].line] # NoRow
                       /\ HomeOf(req[x].to) = line[req[x].line].vessel
                       /\ pc[x] # "lock" =>
                            /\ mine[x][req[x].line] =
                                 [vessel |-> line[req[x].line].vessel,
                                  life |-> LifeAt(req[x].to), at |-> req[x].to]
                            /\ \A k \in Line : k # req[x].line => mine[x][k] = NoRow)'
    BY DEF MoverRows
  <2>1. /\ x # r /\ Open(x) /\ pc'[x] = pc[x] /\ mine'[x] = mine[x]
        /\ req'[x] = req[x]
    BY <1>0, <1>a DEF Open, Alone
  <2>2. req[x].line \in Line /\ line[req[x].line] # NoRow
    BY <2>1 DEF Kinds, MoveReq, Open, MoverRows
  <2>3. /\ line'[req[x].line].vessel = line[req[x].line].vessel
        /\ line'[req[x].line] # NoRow
    BY <1>e, <1>g, <2>2
  <2> QED
    BY <2>1, <2>2, <2>3 DEF MoverRows
<1>4. RegistrarRows'
  <2>1. \A x \in Registrar : pc[x] \in {"emit", "commit"} =>
          req[x].line \in Line /\ line[req[x].line] = NoRow
    BY DEF RegistrarRows, Kinds, RegisterReq
  <2>2. \A x \in Registrar : pc[x] \in {"emit", "commit"} =>
          line'[req[x].line] = NoRow
    BY <1>f, <2>1
  <2> SUFFICES ASSUME NEW x \in Registrar, pc'[x] \in {"emit", "commit"}
               PROVE  (/\ line[req[x].line] = NoRow
                       /\ mine[x][req[x].line] =
                            [vessel |-> req[x].vessel, life |-> req[x].life, at |-> None]
                       /\ \A k \in Line : k # req[x].line => mine[x][k] = NoRow)'
    BY DEF RegistrarRows
  <2>3. x # r /\ pc'[x] = pc[x] /\ mine'[x] = mine[x] /\ req'[x] = req[x]
    BY <1>0, <1>a DEF Alone
  <2>4. line'[req[x].line] = NoRow
    BY <2>2, <2>3
  <2> QED
    BY <2>3, <2>4 DEF RegistrarRows
<1>5. SaverRows'
  BY <1>0, <1>a, <1>i DEF SaverRows, Alone
<1>6. KeyHeld'
  <2> SUFFICES ASSUME NEW x \in Mover, Indexed(x), req[x].to \in Drum
               PROVE  /\ \A k \in Line : line'[k].at = req[x].to => k = req[x].line
                      /\ \A y \in Mover : Indexed(y) /\ req[y].to = req[x].to => y = x
    BY <1>0, <1>a DEF KeyHeld, Indexed, Alone
  <2>1. req[x].to # None
    BY DEF Position
  <2> QED
    BY <1>h, <2>1 DEF KeyHeld
<1>7. RefHeld'
  <2> SUFFICES ASSUME NEW x \in Mover, pc[x] \in {"emit", "commit"}
               PROVE  /\ req[x].to \in pos'
                      /\ line'[req[x].line].at # req[x].to =>
                           \A y \in Saver : req[x].to \notin gone'[y]
    BY <1>0, <1>a DEF RefHeld, Alone
  <2>1. req[x].to \in pos /\ req[x].to \notin gone[r]
    <3>1. CASE line[req[x].line].at # req[x].to
      BY <3>1 DEF RefHeld
    <3>2. CASE line[req[x].line].at = req[x].to
      <4>1. req[x].line \in Line /\ mine[r][req[x].line] = NoRow
        BY <1>0, <1>j DEF RowLocks
      <4> QED
        BY <1>c, <3>2, <4>1 DEF RefHeld
    <3> QED
      BY <3>1, <3>2
  <2>2. line'[req[x].line] = line[req[x].line]
    BY <1>j
  <2> QED
    BY <1>0, <1>a, <2>1, <2>2 DEF RefHeld, Alone
<1>8. SettledAtCommit'
  <2> SUFFICES ASSUME NEW x \in Saver, pc[x] = "commit", x # r, NEW k \in Line,
                      line'[k].at \in gone[x], mine[x][k] = NoRow
               PROVE  FALSE
    BY <1>0, <1>a DEF SettledAtCommit, Settled, ToNull, Alone, Apart
  <2>1. None \notin gone[x]
    BY <1>0 DEF TypeOK
  <2> QED
    BY <1>h, <2>1 DEF SettledAtCommit, Settled, ToNull
<1>9. Placements'
  <2>1. OneLinePerDrum'
    <3>1. None \notin Drum
      BY DEF Position
    <3> QED
      BY <1>h, <3>1 DEF Placements, OneLinePerDrum
  <2>2. PlacesExist'
    BY <1>a, <1>k DEF Placements, PlacesExist
  <2>3. OwnVessel'
    BY <1>g, <1>h DEF Placements, OwnVessel
  <2>4. PlacedLifecycle'
    BY <1>g, <1>h DEF Placements, PlacedLifecycle
  <2> QED
    BY <2>1, <2>2, <2>3, <2>4 DEF Placements
<1> QED
  BY <1>1, <1>2, <1>3, <1>4, <1>5, <1>6, <1>7, <1>8, <1>9

\* A move starts with a line and a target that were committed, on one vessel.
LEMMA MoveBeginSafe ==
  ASSUME Typed, Safe, NEW r \in Mover, MoveBegin(r)
  PROVE  Safe'
<1> USE ConstantsAssumption DEF Typed, Safe
<1>0. /\ Mover \subseteq Request /\ Registrar \subseteq Request
      /\ Saver \subseteq Request /\ r \in Request
      /\ r \notin Registrar /\ r \notin Saver
  BY DEF Request
<1>1. CASE Fail(r)
  BY <1>0, <1>1, FailSafe
<1>2. ASSUME NEW l \in Line, NEW p \in Position,
             line[l] # NoRow, HomeOf(p) = line[l].vessel,
             pc[r] = "idle", Goto(r, "lock"),
             req' = [req EXCEPT ![r] = [kind |-> "move", line |-> l, to |-> p]],
             UNCHANGED <<tables, mine, layout, events>>
      PROVE  Safe'
  <2>a. /\ Alone(r) /\ Apart(r) /\ pc'[r] = "lock"
        /\ UNCHANGED <<line, pos, mine, born, gone>>
    BY <1>0, <1>2 DEF Goto, Alone, Apart, TypeOK, tables, layout
  <2>b. req'[r] = [kind |-> "move", line |-> l, to |-> p]
    BY <1>0, <1>2 DEF TypeOK
  <2>c. req'[r].line = l /\ req'[r].to = p
    BY <2>b
  <2>1. NothingLeft'
    BY <1>2, <2>a DEF NothingLeft, Alone
  <2>2. RowLocks'
    BY <2>a DEF RowLocks
  <2>3. MoverRows'
    BY SMTT(30), <1>0, <1>2, <2>a, <2>c DEF MoverRows, Open, Alone
  <2>4. RegistrarRows'
    BY <1>0, <2>a DEF RegistrarRows, Alone
  <2>5. SaverRows'
    BY <2>a DEF SaverRows
  <2>6. KeyHeld'
    BY <1>0, <2>a DEF KeyHeld, Indexed, Alone
  <2>7. RefHeld'
    BY <1>0, <2>a DEF RefHeld, Alone
  <2>8. SettledAtCommit'
    BY <1>0, <2>a DEF SettledAtCommit, Settled, ToNull, Alone, Apart
  <2>9. Placements'
    BY <2>a DEF Placements, OneLinePerDrum, PlacesExist, OwnVessel, PlacedLifecycle
  <2> QED
    BY <2>1, <2>2, <2>3, <2>4, <2>5, <2>6, <2>7, <2>8, <2>9
<1>3. ASSUME NEW l \in Line, NEW p \in Position,
             IF line[l] # NoRow /\ p \in pos /\ HomeOf(p) = line[l].vessel
             THEN /\ Goto(r, "lock")
                  /\ req' = [req EXCEPT ![r] =
                                [kind |-> "move", line |-> l, to |-> p]]
                  /\ UNCHANGED <<tables, mine, layout, events>>
             ELSE Fail(r)
      PROVE  Safe'
  <2>1. pc[r] = "idle"
    BY DEF MoveBegin
  <2>2. CASE line[l] # NoRow /\ p \in pos /\ HomeOf(p) = line[l].vessel
    BY <1>2, <1>3, <2>1, <2>2
  <2> QED
    BY <1>1, <1>3, <2>2
<1> QED
  BY <1>3 DEF MoveBegin

\* The row lock makes the mover the only writer of its line. A move to where
\* the line already is needs neither the index nor the reference: the index
\* entry and the position are those of the committed row.
LEMMA MoveLockSafe ==
  ASSUME Typed, Safe, NEW r \in Mover, MoveLock(r)
  PROVE  Safe'
<1> USE ConstantsAssumption DEF Typed, Safe
<1>0. /\ Mover \subseteq Request /\ Registrar \subseteq Request
      /\ Saver \subseteq Request /\ r \in Request
      /\ r \notin Registrar /\ r \notin Saver
  BY DEF Request
<1> DEFINE l == req[r].line
           p == req[r].to
           row == [vessel |-> line[l].vessel, life |-> LifeAt(p), at |-> p]
<1>a. /\ pc[r] = "lock" /\ RowLockers(r, l) = {}
      /\ mine' = [mine EXCEPT ![r][l] = row]
      /\ \/ line[l].at = p /\ Goto(r, "emit")
         \/ line[l].at # p /\ p \in Storage /\ Goto(r, "ref")
         \/ line[l].at # p /\ p \in Drum /\ Goto(r, "index")
      /\ UNCHANGED <<tables, req, layout, events>>
  BY DEF MoveLock
<1>b. l \in Line /\ p \in Position
  BY <1>a DEF Kinds, MoveReq
<1>c. /\ Alone(r) /\ Apart(r) /\ UNCHANGED <<line, pos, req, born, gone>>
  BY <1>a DEF Goto, Alone, Apart, TypeOK, tables, layout
<1>d. /\ mine'[r][l] = row /\ \A k \in Line : k # l => mine'[r][k] = NoRow
  BY <1>0, <1>a, <1>b DEF TypeOK, NothingLeft
<1>e. \/ line[l].at = p /\ pc'[r] = "emit"
      \/ line[l].at # p /\ p \in Storage /\ pc'[r] = "ref"
      \/ line[l].at # p /\ p \in Drum /\ pc'[r] = "index"
  BY <1>0, <1>a DEF Goto, TypeOK
<1>f. \A x \in Request : x # r => mine[x][l] = NoRow
  BY <1>0, <1>a DEF RowLockers
<1>1. NothingLeft'
  BY <1>c, <1>e DEF NothingLeft, Alone
<1>2. RowLocks'
  BY <1>b, <1>c, <1>d, <1>f DEF RowLocks, Alone
<1>3. MoverRows'
  <2>1. /\ line[l] # NoRow /\ HomeOf(p) = line[l].vessel
    BY <1>a DEF MoverRows, Open
  <2> QED
    BY SMTT(30), <1>0, <1>c, <1>d, <2>1 DEF MoverRows, Open, Alone
<1>4. RegistrarRows'
  BY <1>0, <1>c DEF RegistrarRows, Alone
<1>5. SaverRows'
  BY <1>0, <1>c DEF SaverRows, Alone
<1>6. KeyHeld'
  <2>1. CASE pc'[r] = "emit" /\ p \in Drum
    <3>1. \A k \in Line : line[k].at = p => k = l
      BY <1>b, <1>e, <2>1 DEF Placements, OneLinePerDrum
    \* Another mover past the index for p would be moving this very line.
    <3>2. ASSUME NEW x \in Mover, x # r, Indexed(x), req[x].to = p
          PROVE  FALSE
      <4>1. l = req[x].line
        BY <1>b, <1>e, <2>1, <3>2 DEF KeyHeld
      <4>2. mine[x][l] = [vessel |-> line[l].vessel, life |-> LifeAt(p), at |-> p]
        BY <3>2, <4>1 DEF MoverRows, Indexed, Open
      <4>3. LifeAt(p) # "none"
        BY DEF LifeAt
      <4> QED
        BY <1>0, <1>f, <3>2, <4>2, <4>3 DEF NoRow
    <3> QED
      BY <1>0, <1>c, <3>1, <3>2 DEF KeyHeld, Indexed, Alone
  <2>2. CASE p \notin Drum \/ pc'[r] = "index"
    BY <1>0, <1>c, <2>2 DEF KeyHeld, Indexed, Alone
  <2> QED
    BY <1>e, <2>1, <2>2
<1>7. RefHeld'
  <2>1. pc'[r] = "emit" => p \in pos /\ line[l].at = p
    BY <1>b, <1>e DEF Placements, PlacesExist
  <2> QED
    BY <1>0, <1>c, <1>e, <2>1 DEF RefHeld, Alone
<1>8. SettledAtCommit'
  BY <1>0, <1>c DEF SettledAtCommit, Settled, ToNull, Alone, Apart
<1>9. Placements'
  BY <1>c DEF Placements, OneLinePerDrum, PlacesExist, OwnVessel, PlacedLifecycle
<1> QED
  BY <1>1, <1>2, <1>3, <1>4, <1>5, <1>6, <1>7, <1>8, <1>9

\* After the check of the unique index the move alone claims the drum.
LEMMA MoveIndexSafe ==
  ASSUME Typed, Safe, NEW r \in Mover, MoveIndex(r)
  PROVE  Safe'
<1> USE ConstantsAssumption DEF Typed, Safe
<1>0. /\ Mover \subseteq Request /\ Registrar \subseteq Request
      /\ Saver \subseteq Request /\ r \in Request
      /\ r \notin Registrar /\ r \notin Saver
  BY DEF Request
<1> DEFINE p == req[r].to
<1>1. CASE Fail(r)
  BY <1>0, <1>1, FailSafe
<1>2. CASE /\ \A k \in Line \ {req[r].line} : line[k].at # p
           /\ Goto(r, "ref")
           /\ UNCHANGED <<tables, req, mine, layout, events>>
  <2>a. /\ Alone(r) /\ Apart(r) /\ pc[r] = "index" /\ pc'[r] = "ref"
        /\ UNCHANGED <<line, pos, req, mine, born, gone>>
    BY <1>0, <1>2 DEF MoveIndex, Goto, Alone, Apart, TypeOK, tables, layout
  <2>b. \A x \in Mover : x # r => ~(Indexed(x) /\ req[x].to = p)
    BY <1>0 DEF MoveIndex, KeyHolders
  <2>1. NothingLeft'
    BY <2>a DEF NothingLeft, Alone
  <2>2. RowLocks'
    BY <2>a DEF RowLocks
  <2>3. MoverRows'
    BY <1>0, <2>a DEF MoverRows, Open, Alone
  <2>4. RegistrarRows'
    BY <1>0, <2>a DEF RegistrarRows, Alone
  <2>5. SaverRows'
    BY <2>a DEF SaverRows
  <2>6. KeyHeld'
    BY <1>0, <1>2, <2>a, <2>b DEF KeyHeld, Indexed, Alone
  <2>7. RefHeld'
    BY <1>0, <2>a DEF RefHeld, Alone
  <2>8. SettledAtCommit'
    BY <1>0, <2>a DEF SettledAtCommit, Settled, ToNull, Alone, Apart
  <2>9. Placements'
    BY <2>a DEF Placements, OneLinePerDrum, PlacesExist, OwnVessel, PlacedLifecycle
  <2> QED
    BY <2>1, <2>2, <2>3, <2>4, <2>5, <2>6, <2>7, <2>8, <2>9
<1> QED
  BY <1>1, <1>2 DEF MoveIndex

\* After the foreign-key check the target exists and nobody is deleting it.
LEMMA MoveRefSafe ==
  ASSUME Typed, Safe, NEW r \in Mover, MoveRef(r)
  PROVE  Safe'
<1> USE ConstantsAssumption DEF Typed, Safe
<1>0. /\ Mover \subseteq Request /\ Registrar \subseteq Request
      /\ Saver \subseteq Request /\ r \in Request
      /\ r \notin Registrar /\ r \notin Saver
  BY DEF Request
<1>1. CASE Fail(r)
  BY <1>0, <1>1, FailSafe
<1>2. CASE /\ req[r].to \in pos
           /\ Goto(r, "emit")
           /\ UNCHANGED <<tables, req, mine, layout, events>>
  <2>a. /\ Alone(r) /\ Apart(r) /\ pc[r] = "ref" /\ pc'[r] = "emit"
        /\ UNCHANGED <<line, pos, req, mine, born, gone>>
    BY <1>0, <1>2 DEF MoveRef, Goto, Alone, Apart, TypeOK, tables, layout
  <2>b. \A x \in Saver : req[r].to \notin gone[x]
    BY DEF MoveRef, Removers
  <2>1. NothingLeft'
    BY <2>a DEF NothingLeft, Alone
  <2>2. RowLocks'
    BY <2>a DEF RowLocks
  <2>3. MoverRows'
    BY <1>0, <2>a DEF MoverRows, Open, Alone
  <2>4. RegistrarRows'
    BY <1>0, <2>a DEF RegistrarRows, Alone
  <2>5. SaverRows'
    BY <2>a DEF SaverRows
  <2>6. KeyHeld'
    BY <1>0, <2>a DEF KeyHeld, Indexed, Alone
  <2>7. RefHeld'
    BY <1>0, <1>2, <2>a, <2>b DEF RefHeld, Alone
  <2>8. SettledAtCommit'
    BY <1>0, <2>a DEF SettledAtCommit, Settled, ToNull, Alone, Apart
  <2>9. Placements'
    BY <2>a DEF Placements, OneLinePerDrum, PlacesExist, OwnVessel, PlacedLifecycle
  <2> QED
    BY <2>1, <2>2, <2>3, <2>4, <2>5, <2>6, <2>7, <2>8, <2>9
<1> QED
  BY <1>1, <1>2 DEF MoveRef

\* A registration starts with nothing written.
LEMMA RegisterBeginSafe ==
  ASSUME Typed, Safe, NEW r \in Registrar, RegisterBegin(r)
  PROVE  Safe'
<1> USE ConstantsAssumption DEF Typed, Safe
<1>0. /\ Mover \subseteq Request /\ Registrar \subseteq Request
      /\ Saver \subseteq Request /\ r \in Request
      /\ r \notin Mover /\ r \notin Saver
  BY DEF Request
<1>a. /\ Alone(r) /\ Apart(r) /\ pc[r] = "idle" /\ pc'[r] = "insert"
      /\ UNCHANGED <<line, pos, mine, born, gone>>
  BY <1>0 DEF RegisterBegin, Goto, Alone, Apart, TypeOK, tables, layout
<1>1. NothingLeft'
  BY <1>a DEF NothingLeft, Alone
<1>2. RowLocks'
  BY <1>a DEF RowLocks
<1>3. MoverRows'
  BY <1>0, <1>a DEF MoverRows, Open, Alone
<1>4. RegistrarRows'
  BY <1>0, <1>a DEF RegistrarRows, Alone
<1>5. SaverRows'
  BY <1>a DEF SaverRows
<1>6. KeyHeld'
  BY <1>0, <1>a DEF KeyHeld, Indexed, Alone
<1>7. RefHeld'
  BY <1>0, <1>a DEF RefHeld, Alone
<1>8. SettledAtCommit'
  BY <1>0, <1>a DEF SettledAtCommit, Settled, ToNull, Alone, Apart
<1>9. Placements'
  BY <1>a DEF Placements, OneLinePerDrum, PlacesExist, OwnVessel, PlacedLifecycle
<1> QED
  BY <1>1, <1>2, <1>3, <1>4, <1>5, <1>6, <1>7, <1>8, <1>9

\* An INSERT that passes the serial-number index is the only row with that
\* serial number.
LEMMA RegisterInsertSafe ==
  ASSUME Typed, Safe, NEW r \in Registrar, RegisterInsert(r)
  PROVE  Safe'
<1> USE ConstantsAssumption DEF Typed, Safe
<1>0. /\ Mover \subseteq Request /\ Registrar \subseteq Request
      /\ Saver \subseteq Request /\ r \in Request
      /\ r \notin Mover /\ r \notin Saver
  BY DEF Request
<1> DEFINE l == req[r].line
           row == [vessel |-> req[r].vessel, life |-> req[r].life, at |-> None]
<1>1. CASE Fail(r)
  BY <1>0, <1>1, FailSafe
<1>2. CASE /\ line[l] = NoRow
           /\ mine' = [mine EXCEPT ![r][l] = row]
           /\ Goto(r, "emit")
           /\ UNCHANGED <<tables, req, layout, events>>
  <2>a. /\ Alone(r) /\ pc[r] = "insert" /\ pc'[r] = "emit"
        /\ UNCHANGED <<line, pos, req, born, gone>>
    BY <1>0, <1>2 DEF RegisterInsert, Goto, Alone, TypeOK, tables, layout
  <2>b. l \in Line
    BY <2>a DEF Kinds, RegisterReq
  <2>c. mine'[r][l] = row /\ \A k \in Line : k # l => mine'[r][k] = NoRow
    BY <1>0, <1>2, <2>a, <2>b DEF TypeOK, NothingLeft
  <2>d. \A x \in Request : x # r => mine[x][l] = NoRow
    BY <1>0 DEF RegisterInsert, RowLockers
  <2>e. Apart(r)
    BY <1>0, <1>2 DEF Apart, layout
  <2>1. NothingLeft'
    BY <2>a DEF NothingLeft, Alone
  <2>2. RowLocks'
    BY <2>a, <2>b, <2>c, <2>d DEF RowLocks, Alone
  <2>3. MoverRows'
    BY <1>0, <2>a DEF MoverRows, Open, Alone
  <2>4. RegistrarRows'
    <3> SUFFICES ASSUME NEW x \in Registrar, pc'[x] \in {"emit", "commit"}
                 PROVE  /\ line[req[x].line] = NoRow
                        /\ mine'[x][req[x].line] =
                             [vessel |-> req[x].vessel, life |-> req[x].life,
                              at |-> None]
                        /\ \A k \in Line : k # req[x].line => mine'[x][k] = NoRow
      BY <2>a DEF RegistrarRows
    <3>1. CASE x = r
      BY <3>1, <1>2, <2>c
    <3>2. CASE x # r
      <4>1. /\ pc[x] \in {"emit", "commit"} /\ mine'[x] = mine[x]
            /\ x \in Request
        BY <1>0, <3>2, <2>a DEF Alone, Request
      <4> QED
        BY <4>1 DEF RegistrarRows
    <3> QED
      BY <3>1, <3>2
  <2>5. SaverRows'
    BY <1>0, <2>a DEF SaverRows, Alone
  <2>6. KeyHeld'
    BY <1>0, <2>a DEF KeyHeld, Indexed, Alone
  <2>7. RefHeld'
    BY <1>0, <2>a DEF RefHeld, Alone
  <2>8. SettledAtCommit'
    BY <1>0, <2>a, <2>e DEF SettledAtCommit, Settled, ToNull, Alone, Apart
  <2>9. Placements'
    BY <2>a DEF Placements, OneLinePerDrum, PlacesExist, OwnVessel, PlacedLifecycle
  <2> QED
    BY <2>1, <2>2, <2>3, <2>4, <2>5, <2>6, <2>7, <2>8, <2>9
<1> QED
  BY <1>1, <1>2 DEF RegisterInsert

\* A save deletes only what no committed move is about to put a line on.
LEMMA RemoveSafe ==
  ASSUME Typed, Safe, NEW r \in Saver, Remove(r)
  PROVE  Safe'
<1> USE ConstantsAssumption DEF Typed, Safe
<1>0. /\ Mover \subseteq Request /\ Registrar \subseteq Request
      /\ Saver \subseteq Request /\ r \in Request
      /\ r \notin Mover /\ r \notin Registrar
  BY DEF Request
<1> DEFINE u == unit[r]
<1>a. /\ Open(r) /\ u # None
      /\ RemoveWaits(r, u) = {}
      /\ gone' = [gone EXCEPT ![r] = @ \cup Covered(r, u)]
      /\ UNCHANGED <<tables, pc, req, mine, born, lack, drop, events>>
      /\ unit' = [unit EXCEPT ![r] = None]
  BY DEF Remove
<1>e. \A p \in Covered(r, u) : RefHolders(p) = {}
  BY <1>a DEF RemoveWaits
<1>b. /\ UNCHANGED <<line, pos, pc, req, mine, born, lack, drop>>
      /\ \A x \in Request : x # r => gone'[x] = gone[x]
      /\ gone'[r] = gone[r] \cup Covered(r, u)
  BY <1>0, <1>a DEF tables, TypeOK
<1>c. \A x \in Request : x # r => unit'[x] = unit[x]
  BY <1>a DEF TypeOK
<1>d. pc[r] \notin {"idle", "commit", "done", "failed"}
  BY <1>0, <1>a DEF Open, SettledAtCommit, Settled
<1>1. NothingLeft'
  BY <1>b, <1>d DEF NothingLeft
<1>2. RowLocks'
  BY <1>b DEF RowLocks
<1>3. MoverRows'
  BY <1>b DEF MoverRows, Open
<1>4. RegistrarRows'
  BY <1>b DEF RegistrarRows
<1>5. SaverRows'
  BY <1>0, <1>b DEF SaverRows
<1>6. KeyHeld'
  BY <1>b DEF KeyHeld, Indexed
<1>7. RefHeld'
  <2>1. ASSUME NEW x \in Mover, pc[x] \in {"emit", "commit"},
               line[req[x].line].at # req[x].to
        PROVE  req[x].to \notin Covered(r, u)
    BY <1>e, <2>1 DEF RefHolders
  <2> QED
    BY <1>0, <1>b, <2>1 DEF RefHeld
<1>8. SettledAtCommit'
  BY <1>0, <1>b, <1>c, <1>d DEF SettledAtCommit, Settled, ToNull
<1>9. Placements'
  BY <1>b DEF Placements, OneLinePerDrum, PlacesExist, OwnVessel, PlacedLifecycle
<1> QED
  BY <1>1, <1>2, <1>3, <1>4, <1>5, <1>6, <1>7, <1>8, <1>9

\* ON DELETE SET NULL writes only rows nobody else has written.
LEMMA SetNullSafe ==
  ASSUME Typed, Safe, NEW r \in Saver, NEW l \in Line, SetNull(r, l)
  PROVE  Safe'
<1> USE ConstantsAssumption DEF Typed, Safe
<1>0. /\ Mover \subseteq Request /\ Registrar \subseteq Request
      /\ Saver \subseteq Request /\ r \in Request
      /\ r \notin Mover /\ r \notin Registrar
  BY DEF Request
<1>a. /\ Open(r) /\ line[l].at \in gone[r] /\ RowLockers(r, l) = {}
      /\ mine' = [mine EXCEPT ![r][l] = Unplaced(line[l])]
      /\ UNCHANGED <<line, pos, pc, req, born, gone, lack, drop, unit>>
  BY DEF SetNull, ToNull, tables, layout
<1>b. /\ mine'[r][l] = Unplaced(line[l])
      /\ \A k \in Line : k # l => mine'[r][k] = mine[r][k]
      /\ \A x \in Request : x # r => mine'[x] = mine[x]
  BY <1>0, <1>a DEF TypeOK
<1>c. \A x \in Request : x # r => mine[x][l] = NoRow
  BY <1>a DEF RowLockers
<1>d. pc[r] \notin {"idle", "commit", "done", "failed"}
  <2>1. l \in ToNull(r)
    BY DEF SetNull
  <2> QED
    BY <1>a, <2>1 DEF Open, SettledAtCommit, Settled
<1>1. NothingLeft'
  <2>1. pc[r] \in {"winches", "stores", "emit"}
    BY <1>d DEF Kinds, SaverStage
  <2> QED
    BY <1>0, <1>a, <1>b, <2>1 DEF NothingLeft
<1>2. RowLocks'
  BY <1>a, <1>b, <1>c DEF RowLocks
<1>3. MoverRows'
  BY <1>0, <1>a, <1>b DEF MoverRows, Open
<1>4. RegistrarRows'
  BY <1>0, <1>a, <1>b DEF RegistrarRows
<1>5. SaverRows'
  BY <1>0, <1>a, <1>b DEF SaverRows
<1>6. KeyHeld'
  BY <1>a DEF KeyHeld, Indexed
<1>7. RefHeld'
  BY <1>a DEF RefHeld
<1>8. SettledAtCommit'
  BY <1>0, <1>a, <1>b, <1>d DEF SettledAtCommit, Settled, ToNull
<1>9. Placements'
  BY <1>a DEF Placements, OneLinePerDrum, PlacesExist, OwnVessel, PlacedLifecycle
<1> QED
  BY <1>1, <1>2, <1>3, <1>4, <1>5, <1>6, <1>7, <1>8, <1>9

\* Every other step of a save is quiet or gives up.
LEMMA SaveQuiet ==
  ASSUME Typed, Safe, NEW r \in Saver,
         \/ SaveBegin(r) \/ ListWinches(r) \/ ListStores(r)
         \/ \E w \in Winch : SaveWinch(r, w)
         \/ \E d \in lack[r] : InsertDrum(r, d)
         \/ \E s \in Storage : SaveStore(r, s)
         \/ \E u \in drop[r] : CheckEmpty(r, u)
  PROVE  Quiet(r) \/ Fail(r)
<1> USE ConstantsAssumption DEF Typed, Safe
<1>0. r \in Request
  BY DEF Request
<1>1. CASE SaveBegin(r)
  <2>1. /\ pc[r] = "idle" /\ Goto(r, "winches")
        /\ \E q : req' = [req EXCEPT ![r] = q]
        /\ UNCHANGED <<tables, mine, layout, events>>
    BY <1>1 DEF SaveBegin
  <2> QED
    BY <1>0, <2>1 DEF Goto, Quiet, Alone, Apart, TypeOK, tables, layout
<1>2. CASE ListWinches(r)
  BY <1>0, <1>2 DEF ListWinches, Goto, Quiet, Alone, Apart, TypeOK, tables
<1>6. ASSUME NEW s \in Storage, SaveStore(r, s)
      PROVE  Quiet(r)
  <2>1. /\ pc[r] = "stores"
        /\ \E b : born' = [born EXCEPT ![r] = b]
        /\ UNCHANGED <<tables, pc, req, mine, gone, lack, drop, unit, events>>
    BY <1>6 DEF SaveStore
  <2> QED
    BY <1>0, <2>1 DEF Quiet, Alone, Apart, TypeOK, tables
<1>3. CASE ListStores(r)
  BY <1>0, <1>3 DEF ListStores, Goto, Quiet, Alone, Apart, TypeOK, tables
<1>4. ASSUME NEW w \in Winch, SaveWinch(r, w)
      PROVE  Quiet(r)
  <2>1. /\ pc[r] = "winches"
        /\ \E b : lack' = [lack EXCEPT ![r] = b]
        /\ \E d : drop' = [drop EXCEPT ![r] = d]
        /\ UNCHANGED <<tables, pc, req, mine, born, gone, unit, events>>
    BY <1>4 DEF SaveWinch
  <2> QED
    BY <1>0, <2>1 DEF Quiet, Alone, Apart, TypeOK, tables
<1>5. ASSUME NEW u \in drop[r], CheckEmpty(r, u), ~Fail(r)
      PROVE  Quiet(r)
  <2>1. /\ Open(r) /\ drop[r] # {}
        /\ \E d : drop' = [drop EXCEPT ![r] = d]
        /\ \E i : unit' = [unit EXCEPT ![r] = i]
        /\ UNCHANGED <<tables, pc, req, mine, born, gone, held, lack, events>>
    BY <1>5 DEF CheckEmpty
  <2>2. pc[r] \in {"winches", "stores", "emit"}
    BY <2>1 DEF Open, Kinds, SaverStage, SettledAtCommit, Settled
  <2> QED
    BY <1>0, <2>1, <2>2 DEF Quiet, Alone, Apart, TypeOK, tables
<1>7. ASSUME NEW d \in lack[r], InsertDrum(r, d), ~Fail(r)
      PROVE  Quiet(r)
  <2>1. /\ Open(r) /\ lack[r] # {}
        /\ \E b : born' = [born EXCEPT ![r] = b]
        /\ \E k : lack' = [lack EXCEPT ![r] = k]
        /\ UNCHANGED <<tables, pc, req, mine, gone, drop, unit, events>>
    BY <1>7 DEF InsertDrum
  <2>2. pc[r] \in {"winches", "stores", "emit"}
    BY <2>1 DEF Open, Kinds, SaverStage, SettledAtCommit, Settled
  <2> QED
    BY <1>0, <2>1, <2>2 DEF Quiet, Alone, Apart, TypeOK, tables
<1> QED
  BY <1>1, <1>2, <1>3, <1>4, <1>5, <1>6, <1>7

\* Every step of every request keeps the placement invariant.
THEOREM SafeInductive == Typed /\ Safe /\ [Next]_vars => Safe'
<1> SUFFICES ASSUME Typed, Safe, [Next]_vars PROVE Safe'
  OBVIOUS
<1>1. CASE UNCHANGED vars
  BY <1>1 DEF Safe, NothingLeft, RowLocks, MoverRows, RegistrarRows, SaverRows,
     KeyHeld, RefHeld, SettledAtCommit, Settled, ToNull, Placements, OneLinePerDrum,
     PlacesExist, OwnVessel, PlacedLifecycle, Indexed, Open,
     vars, tables, layout, events
<1>2. ASSUME NEW r \in Request, Step(r) \/ Cancel(r)
      PROVE  Safe'
  <2>1. CASE r \in Mover /\ MoveStep(r)
    BY <2>1, MoveBeginSafe, MoveLockSafe, MoveIndexSafe, MoveRefSafe DEF MoveStep
  <2>2. CASE r \in Registrar /\ RegisterStep(r)
    BY <2>2, RegisterBeginSafe, RegisterInsertSafe DEF RegisterStep
  <2>3. CASE r \in Saver /\ SaveStep(r)
    BY <2>3, SaveQuiet, QuietSafe, FailSafe, RemoveSafe, SetNullSafe DEF SaveStep
  <2>4. CASE Commit(r)
    BY <2>4, CommitMoveSafe, CommitRegisterSafe, CommitSaveSafe DEF Request
  <2>5. CASE Emit(r) \/ Deadlock(r) \/ Cancel(r)
    BY <2>5, EmitSafe, FailSafe DEF Deadlock, Cancel
  <2> QED
    BY <1>2, <2>1, <2>2, <2>3, <2>4, <2>5 DEF Step
<1> QED
  BY <1>1, <1>2 DEF Next, Finished

(***************************************************************************)
(* The layout invariant.  It is a conjunction over the saves, so a step is *)
(* looked at for the save that takes it; the others see the same drums.    *)
(***************************************************************************)
LayoutOf(r) ==
  /\ NothingPending(r) /\ Named(r) /\ DrumsClaimed(r) /\ SurplusOnly(r)
  /\ Adjusted(r) /\ Locked(r) /\ LockedExist(r) /\ Emptied(r)
  /\ AllSaved(r) /\ SaveHome(r) /\ CrossedBy(r) /\ BornAlone(r)

\* Nothing that belongs to r changes, except what others note of their commits.
Same(r) ==
  /\ pc'[r] = pc[r] /\ req'[r] = req[r] /\ born'[r] = born[r] /\ gone'[r] = gone[r]
  /\ held'[r] = held[r] /\ kept'[r] = kept[r] /\ lack'[r] = lack[r]
  /\ drop'[r] = drop[r] /\ unit'[r] = unit[r]

Rests(r) == Same(r) /\ crossed'[r] = crossed[r]

\* A step that is no save's: the deck and the saves stay as they are.
Calm == UNCHANGED <<pos, count>> /\ \A x \in Saver : Rests(x)

\* What was committed stays so.
EndedStay ==
  \A x \in Saver : pc[x] = "done" => pc'[x] = "done" /\ req'[x] = req[x]

\* What r inserts and removes leaves the drums others have inserted alone.
Harmless(r) ==
  \A x \in Saver \ {r} : \A d \in born[x] \cap Drum :
    /\ r \notin Unmakers(d.winch)'
    /\ \A c \in born'[r] \cap Drum : c.winch = d.winch => c.idx # d.idx

\* A winch another vessel's save has touched stays touched.
LEMMA EndedFacts ==
  ASSUME EndedStay, NEW w \in Winch
  PROVE  Uncrossed(w)' => Uncrossed(w)
BY DEF EndedStay, Uncrossed, Crosses

\* The claims of a save that are only about what it did itself.
LEMMA OwnFrame ==
  ASSUME NEW r \in Saver, LayoutOf(r), Same(r)
  PROVE  /\ Pending(r)' = Pending(r) /\ Open(r)' = Open(r)
         /\ DrumsClaimed(r)' /\ SurplusOnly(r)' /\ AllSaved(r)' /\ SaveHome(r)'
<1> USE DEF Same, LayoutOf
<1>1. Pending(r)' = Pending(r) /\ Open(r)' = Open(r)
  BY DEF Pending, Open
<1>2. DrumsClaimed(r)'
  BY <1>1 DEF DrumsClaimed
<1>3. SurplusOnly(r)'
  BY <1>1 DEF SurplusOnly
<1>4. AllSaved(r)'
  BY DEF AllSaved, Unsaved
<1>5. SaveHome(r)'
  BY <1>1 DEF SaveHome
<1> QED
  BY <1>1, <1>2, <1>3, <1>4, <1>5

\* What a save named stays named.
LEMMA NamedFrame ==
  ASSUME Typed, NEW r \in Saver, Named(r), Same(r), EndedStay
  PROVE  Named(r)'
<1> SUFFICES ASSUME Open(r)'
             PROVE  /\ \A i \in {w \in Winch : req[r].want[w] > 0} \cup req[r].stores :
                         Known(r, i)' /\ (Maker[i] = r => Home[i] = req[r].vessel)
                    /\ \A w \in kept[r] : req[r].want[w] > 0
  BY DEF Named, Same
<1>1. Open(r)
  BY DEF Open, Same
<1>2. req[r].stores \subseteq Storage
  BY <1>1 DEF Typed, Kinds, SaveReq, Open
<1> QED
  BY <1>1, <1>2 DEF Named, EndedStay, Known

\* A save keeps its claims while it does nothing and the deck does not change.
LEMMA LayoutFrame ==
  ASSUME Typed, NEW r \in Saver, LayoutOf(r), Rests(r), EndedStay,
         UNCHANGED <<pos, count>>, BornAlone(r)'
  PROVE  LayoutOf(r)'
<1> USE DEF Rests
<1>1. /\ Pending(r)' = Pending(r) /\ Open(r)' = Open(r)
      /\ DrumsClaimed(r)' /\ SurplusOnly(r)' /\ AllSaved(r)' /\ SaveHome(r)'
  BY OwnFrame
<1>2. NothingPending(r)'
  BY <1>1 DEF LayoutOf, NothingPending, Same
<1>3. Named(r)'
  BY NamedFrame DEF LayoutOf
<1>4. \A w : Seen(r, w)' = Seen(r, w)
  BY DEF Seen, VisiblePos, Same
<1>5. Adjusted(r)'
  BY <1>1, <1>4 DEF LayoutOf, Adjusted, Same
<1>6. Locked(r)' /\ LockedExist(r)'
  BY DEF LayoutOf, Locked, LockedExist, Same
<1>7. Emptied(r)'
  BY <1>4 DEF LayoutOf, Emptied, Same
<1>8. CrossedBy(r)'
  <2>1. \A w \in Winch : Uncrossed(w)' => Uncrossed(w)
    BY EndedFacts
  <2>2. crossed[r] \subseteq Winch
    BY DEF Typed, TypeOK, Request
  <2> QED
    BY <2>1, <2>2 DEF LayoutOf, CrossedBy
<1> QED
  BY <1>1, <1>2, <1>3, <1>5, <1>6, <1>7, <1>8 DEF LayoutOf

\* What holds of the deck as a whole is kept where the deck does not change.
LEMMA DeckFrame ==
  ASSUME Layouts, EndedStay, UNCHANGED <<pos, count>>
  PROVE  DrumsMatchCount' /\ Unmade'
<1> USE ConstantsAssumption
<1>1. \A w \in Winch : DrumsOf(w)' = DrumsOf(w)
  BY DEF DrumsOf
<1>2. \A w \in Winch : Uncrossed(w)' => Uncrossed(w)
  BY EndedFacts
<1>3. DrumsMatchCount'
  BY <1>1, <1>2 DEF Layouts, DrumsMatchCount
<1>4. Unmade'
  BY DEF Layouts, Unmade, EndedStay
<1> QED
  BY <1>3, <1>4

\* A step that touches no save and no position preserves the invariant.
LEMMA CalmLayouts ==
  ASSUME Typed, Layouts, Calm
  PROVE  Layouts'
<1>0. EndedStay
  BY DEF Calm, Rests, Same, EndedStay
<1>1. ASSUME NEW x \in Saver PROVE LayoutOf(x)'
  <2>1. \A w : Unmakers(w)' = Unmakers(w)
    BY DEF Unmakers, Calm, Rests, Same
  <2>2. BornAlone(x)'
    <3>1. \A w : DrumsOf(w)' = DrumsOf(w)
      BY DEF DrumsOf, Calm
    <3>2. BornAlone(x) /\ count' = count /\ \A y \in Saver : born'[y] = born[y]
      BY DEF Layouts, Calm, Rests, Same
    <3> QED
      BY <2>1, <3>1, <3>2 DEF BornAlone
  <2>3. LayoutOf(x) /\ Rests(x) /\ UNCHANGED <<pos, count>>
    BY DEF Layouts, LayoutOf, Calm
  <2> QED
    BY <1>0, <2>2, <2>3, LayoutFrame
<1>2. HeldApart'
  BY DEF Layouts, HeldApart, Calm, Rests, Same
<1>3. DrumsMatchCount' /\ Unmade'
  BY <1>0, DeckFrame DEF Calm
<1> QED
  BY <1>1, <1>2, <1>3 DEF Layouts, LayoutOf

\* The steps of a move or a registration, its commit included, are calm.
LEMMA CalmSteps ==
  ASSUME Typed, NEW r \in Mover \cup Registrar,
         \/ r \in Mover /\ MoveStep(r)
         \/ r \in Registrar /\ RegisterStep(r)
         \/ Emit(r) \/ Commit(r) \/ Fail(r)
  PROVE  Calm
<1> USE ConstantsAssumption DEF Calm, Rests, Same
<1>0. /\ r \in Request /\ Saver \subseteq Request /\ r \notin Saver
      /\ born[r] = {} /\ gone[r] = {} /\ held[r] = {}
  BY DEF Request, Typed, Kinds
<1>1. CASE Fail(r)
  BY <1>0, <1>1 DEF Fail, tables, Typed, TypeOK
<1>2. CASE Emit(r)
  BY <1>0, <1>2 DEF Emit, Goto, tables, layout, Typed, TypeOK
<1>3. CASE Commit(r)
  <2>1. pos' = pos
    BY <1>0, <1>3 DEF Commit, VisiblePos
  <2>2. count' = count
    <3>1. \A w \in Winch : count'[w] = count[w]
      BY <1>0, <1>3 DEF Commit
    <3>2. count' \in [Winch -> 0..MaxDrums]
      BY <1>0, <1>3, CommitTyped DEF Typed, TypeOK
    <3> QED
      BY <3>1, <3>2 DEF Typed, TypeOK
  <2> QED
    BY <1>0, <1>3, <2>1, <2>2 DEF Commit, Goto, Typed, TypeOK
<1>4. CASE \E stage, q : /\ pc' = [pc EXCEPT ![r] = stage]
                         /\ req' = [req EXCEPT ![r] = q]
                         /\ UNCHANGED <<tables, layout>>
  BY <1>0, <1>4 DEF tables, layout
<1>5. CASE \E stage : /\ pc' = [pc EXCEPT ![r] = stage]
                      /\ UNCHANGED <<tables, req, layout>>
  BY <1>0, <1>5 DEF tables, layout
<1>6. CASE r \in Mover /\ MoveStep(r)
  <2>1. CASE MoveBegin(r)
    BY <1>1, <1>4, <2>1 DEF MoveBegin, Goto
  <2>2. CASE MoveLock(r)
    BY <1>5, <2>2 DEF MoveLock, Goto
  <2>3. CASE MoveIndex(r)
    BY <1>1, <1>5, <2>3 DEF MoveIndex, Goto
  <2>4. CASE MoveRef(r)
    BY <1>1, <1>5, <2>4 DEF MoveRef, Goto
  <2> QED
    BY <1>6, <2>1, <2>2, <2>3, <2>4 DEF MoveStep
<1>7. CASE r \in Registrar /\ RegisterStep(r)
  <2>1. CASE RegisterBegin(r)
    BY <1>4, <2>1 DEF RegisterBegin, Goto
  <2>2. CASE RegisterInsert(r)
    BY <1>1, <1>5, <2>2 DEF RegisterInsert, Goto
  <2> QED
    BY <1>7, <2>1, <2>2 DEF RegisterStep
<1> QED
  BY <1>1, <1>2, <1>3, <1>6, <1>7

\* A step of save r that commits nothing is judged by the claims of r, and by
\* what the other saves inserted.
LEMMA OneSave ==
  ASSUME Typed, Layouts, NEW r \in Saver, UNCHANGED <<pos, count>>, pc[r] # "done",
         \A x \in Saver : x # r => Rests(x),
         \A x \in Saver : x # r => held'[r] \cap held[x] = {} /\ gone'[r] \cap gone[x] = {},
         Harmless(r), LayoutOf(r)'
  PROVE  Layouts'
<1>0. EndedStay
  BY DEF Rests, Same, EndedStay
<1>1. ASSUME NEW x \in Saver, x # r PROVE LayoutOf(x)'
  <2>1. BornAlone(x)'
    <3> SUFFICES ASSUME NEW d \in born[x] \cap Drum
                 PROVE  /\ Maker[d.winch] = x \/ count[d.winch] > 0
                        /\ Unmakers(d.winch)' = {}
                        /\ \A c \in DrumsOf(d.winch)' : c.idx # d.idx
                        /\ \A y \in Saver \ {x} : \A c \in born'[y] \cap Drum :
                             c.winch = d.winch => c.idx # d.idx
      BY <1>1 DEF BornAlone, Rests, Same
    <3>1. BornAlone(x)
      BY DEF Layouts
    <3>2. Unmakers(d.winch)' = {}
      BY <1>1, <3>1 DEF BornAlone, Harmless, Unmakers, Rests, Same
    <3>3. \A y \in Saver \ {x} : \A c \in born'[y] \cap Drum :
            c.winch = d.winch => c.idx # d.idx
      BY <1>1, <3>1 DEF BornAlone, Harmless, Rests, Same
    <3> QED
      BY <3>1, <3>2, <3>3 DEF BornAlone, DrumsOf
  <2> QED
    BY <1>0, <1>1, <2>1, LayoutFrame DEF Layouts, LayoutOf
<1>2. HeldApart'
  BY DEF Layouts, HeldApart, Rests, Same
<1>3. DrumsMatchCount' /\ Unmade'
  BY <1>0, DeckFrame
<1> QED
  BY <1>1, <1>2, <1>3 DEF Layouts, LayoutOf

\* A step that inserts no drum and deletes no winch harms nobody.
LEMMA NoHarm ==
  ASSUME Layouts, NEW r \in Saver, born'[r] \cap Drum \subseteq born[r],
         \A w \in held'[r] \cap Winch : req'[r].want[w] = 0 =>
           w \in held[r] /\ req[r].want[w] = 0
  PROVE  Harmless(r)
<1> SUFFICES ASSUME NEW x \in Saver \ {r}, NEW d \in born[x] \cap Drum
             PROVE  /\ r \notin Unmakers(d.winch)'
                    /\ \A c \in born'[r] \cap Drum :
                         c.winch = d.winch => c.idx # d.idx
  BY DEF Harmless
<1>1. BornAlone(x)
  BY DEF Layouts
<1>2. \A c \in born'[r] \cap Drum : c.winch = d.winch => c.idx # d.idx
  BY <1>1 DEF BornAlone
<1>3. ASSUME r \in Unmakers(d.winch)' PROVE FALSE
  <2>1. d.winch \in Winch
    BY DEF Drum
  <2>2. r \in Unmakers(d.winch)
    BY <1>3, <2>1 DEF Unmakers
  <2> QED
    BY <1>1, <2>2 DEF BornAlone
<1> QED
  BY <1>2, <1>3

\* The drums a save inserted keep their claim while it inserts no other and
\* deletes no winch.
LEMMA BornFrame ==
  ASSUME Layouts, NEW r \in Saver, UNCHANGED <<pos, count>>,
         \A x \in Saver : x # r => Rests(x), born'[r] \cap Drum \subseteq born[r],
         \A w \in held'[r] \cap Winch : req'[r].want[w] = 0 =>
           w \in held[r] /\ req[r].want[w] = 0
  PROVE  BornAlone(r)'
<1> SUFFICES ASSUME NEW d \in born'[r] \cap Drum
             PROVE  /\ Maker[d.winch] = r \/ count[d.winch] > 0
                    /\ Unmakers(d.winch)' = {}
                    /\ \A c \in DrumsOf(d.winch)' : c.idx # d.idx
                    /\ \A y \in Saver \ {r} : \A c \in born'[y] \cap Drum :
                         c.winch = d.winch => c.idx # d.idx
  BY DEF BornAlone
<1>1. BornAlone(r) /\ d \in born[r] \cap Drum /\ d.winch \in Winch
  BY DEF Layouts, Drum
<1>2. ASSUME NEW x \in Unmakers(d.winch)' PROVE x \in Unmakers(d.winch)
  BY <1>1, <1>2 DEF Unmakers, Rests, Same
<1>3. Unmakers(d.winch)' = {}
  BY <1>1, <1>2 DEF BornAlone
<1> QED
  BY <1>1, <1>3 DEF BornAlone, DrumsOf, Rests, Same

\* A save that ended claims nothing.
LEMMA EndedLayout ==
  ASSUME NEW r \in Saver, ~Open(r)', held'[r] = {}, born'[r] = {}, gone'[r] = {},
         kept'[r] = {}, lack'[r] = {}, drop'[r] = {}, unit'[r] = None, crossed'[r] = {}
  PROVE  LayoutOf(r)'
<1>1. Pending(r)' = {}
  BY DEF Pending
<1> QED
  BY <1>1 DEF LayoutOf, NothingPending, Named, DrumsClaimed, SurplusOnly, Adjusted,
     Locked, LockedExist, Emptied, AllSaved, SaveHome, CrossedBy, BornAlone, Open

\* The rollback of a save gives up its claims.
LEMMA FailLayouts ==
  ASSUME Typed, Layouts, NEW r \in Saver, pc[r] # "done", Fail(r)
  PROVE  Layouts'
<1>0. r \in Request /\ Saver \subseteq Request
  BY DEF Request
<1>1. /\ pc'[r] = "failed" /\ held'[r] = {} /\ born'[r] = {} /\ gone'[r] = {}
      /\ kept'[r] = {} /\ lack'[r] = {} /\ drop'[r] = {} /\ unit'[r] = None
      /\ crossed'[r] = {} /\ UNCHANGED <<pos, count>>
      /\ \A x \in Saver : x # r => Rests(x)
  BY <1>0 DEF Fail, tables, Rests, Same, Typed, TypeOK
<1>2. LayoutOf(r)'
  BY <1>1, EndedLayout DEF Open
<1>3. Harmless(r)
  BY <1>1, NoHarm
<1> QED
  BY <1>1, <1>2, <1>3, OneSave

\* A save starts with no claim; what it is to insert is on the vessel it saves.
LEMMA SaveBeginLayouts ==
  ASSUME Typed, Safe, Layouts, NEW r \in Saver, SaveBegin(r)
  PROVE  Layouts'
<1>0. r \in Request /\ Saver \subseteq Request
  BY DEF Request
<1>1. PICK v \in Vessel, want \in [Winch -> 0..MaxDrums], stores \in SUBSET Storage :
        /\ \A i \in {w \in Winch : want[w] > 0} \cup stores :
             Known(r, i) /\ (Maker[i] = r => Home[i] = v)
        /\ req' = [req EXCEPT ![r] = [kind |-> "save", vessel |-> v,
                                      want |-> want, stores |-> stores]]
  BY DEF SaveBegin
<1>2. /\ pc[r] = "idle" /\ pc'[r] = "winches" /\ UNCHANGED <<pos, count>>
      /\ \A x \in Saver : x # r => Rests(x)
      /\ UNCHANGED <<born, gone, held, kept, lack, drop, unit, crossed>>
  BY <1>0, <1>1 DEF SaveBegin, Goto, tables, layout, Rests, Same, Typed, TypeOK
<1>3. req'[r] = [kind |-> "save", vessel |-> v, want |-> want, stores |-> stores]
  BY <1>0, <1>1 DEF Typed, TypeOK
<1>4. /\ held[r] = {} /\ kept[r] = {} /\ lack[r] = {} /\ drop[r] = {}
      /\ unit[r] = None /\ born[r] = {} /\ gone[r] = {} /\ crossed[r] = {}
  BY <1>0, <1>2 DEF Layouts, NothingPending, Safe, NothingLeft, Open
<1>5. Pending(r)' = {}
  BY <1>2, <1>4 DEF Pending
<1>7. Named(r)'
  <2>1. EndedStay
    BY <1>2 DEF Rests, Same, EndedStay
  <2>2. \A i : Known(r, i) => Known(r, i)'
    BY <2>1 DEF EndedStay, Known
  <2> QED
    BY <1>1, <1>2, <1>3, <1>4, <2>2 DEF Named
<1>6. LayoutOf(r)'
  BY <1>2, <1>4, <1>5, <1>7
  DEF LayoutOf, NothingPending, DrumsClaimed, SurplusOnly, Adjusted, Locked, LockedExist,
      Emptied, AllSaved, SaveHome, CrossedBy, BornAlone, Open
<1>8. Harmless(r)
  BY <1>2, <1>4, NoHarm
<1> QED
  BY <1>2, <1>4, <1>6, <1>8, OneSave

\* Saving a winch reads its drums, and lists those that are missing and those
\* that are surplus.
LEMMA SaveWinchLayouts ==
  ASSUME Typed, Layouts, NEW r \in Saver, NEW w \in Winch, SaveWinch(r, w)
  PROVE  Layouts'
<1> USE ConstantsAssumption
<1> DEFINE target == req[r].want[w]
           missing == {i \in 1..target : \A d \in Seen(r, w) : d.idx # i}
           new == [winch : {w}, idx : missing, by : {r}]
<1>0. r \in Request /\ Saver \subseteq Request
  BY DEF Request
<1>1. /\ pc[r] = "winches" /\ Settled(r) /\ w \in Unsaved(r) /\ UpdateWaits(r, w) = {}
      /\ kept'[r] = kept[r] \cup {w}
      /\ held'[r] = IF Writes(r, w) THEN held[r] \cup {w} ELSE held[r]
      /\ lack'[r] = new
      /\ drop'[r] = {d \in Seen(r, w) : d.idx > target}
      /\ UNCHANGED <<pos, count, pc, req, born, gone, unit, crossed>>
      /\ \A x \in Saver : x # r => Rests(x)
  BY <1>0 DEF SaveWinch, tables, Typed, TypeOK, Rests, Same
<1>2. target \in 0..MaxDrums /\ target > 0 /\ w \notin kept[r]
  BY <1>1 DEF Unsaved, Typed, Kinds, SaveReq
<1>3. LayoutOf(r) /\ Open(r)
  BY <1>1 DEF Layouts, LayoutOf, Open
<1>4. Pending(r) = {} /\ Pending(r)' = drop'[r] /\ lack[r] = {}
  BY <1>1 DEF Pending, Settled
<1>5. /\ \A v : Seen(r, v)' = Seen(r, v)
      /\ \A v : \A d \in Seen(r, v) : d \in Drum /\ d.winch = v
  BY <1>1 DEF Seen, VisiblePos
<1>6. \A d \in new : /\ d \in Drum /\ d.winch = w /\ d.idx \in missing /\ d.by = r
  BY <1>2 DEF Drum
<1>7. \A i \in missing : [winch |-> w, idx |-> i, by |-> r] \in new
  OBVIOUS
<1>8. Writes(r, w) => Home[w] = req[r].vessel
  BY <1>2, <1>3 DEF Writes, LayoutOf, Named
<1> HIDE DEF new
<1>11. NothingPending(r)' /\ AllSaved(r)' /\ CrossedBy(r)'
  <2>1. EndedStay
    BY <1>1 DEF Rests, Same, EndedStay
  <2>2. crossed[r] \subseteq Winch
    BY <1>0 DEF Typed, TypeOK
  <2> QED
    BY <1>1, <1>3, <2>1, <2>2, EndedFacts
    DEF NothingPending, AllSaved, Open, LayoutOf, CrossedBy
<1>12. Named(r)'
  <2>1. \A i : Known(r, i)' = Known(r, i)
    BY <1>1 DEF Known
  <2> QED
    BY <1>1, <1>2, <1>3, <2>1 DEF LayoutOf, Named
<1>13. DrumsClaimed(r)'
  BY <1>1, <1>3, <1>4, <1>5, <1>6 DEF LayoutOf, DrumsClaimed
<1>14. SurplusOnly(r)'
  <2>1. \A d \in drop'[r] : d \notin Winch /\ d.idx > req[r].want[d.winch]
    BY <1>1, <1>5 DEF Position
  <2>2. \A d \in new : d.idx <= req[r].want[d.winch]
    BY <1>2, <1>6
  <2> HIDE DEF missing
  <2> QED
    BY <1>1, <1>3, <1>4, <2>1, <2>2 DEF LayoutOf, SurplusOnly
<1>15. Adjusted(r)'
  <2> SUFFICES ASSUME NEW v \in (held'[r] \cap Winch) \ crossed[r]
               PROVE  /\ 1..req[r].want[v] \subseteq
                           {d.idx : d \in Seen(r, v) \cup {c \in new : c.winch = v}}
                      /\ \A d \in Seen(r, v) : d.idx > req[r].want[v] => d \in drop'[r]
    BY <1>1, <1>4, <1>5 DEF Adjusted
  <2>1. CASE v = w
    <3>1. ASSUME NEW i \in 1..target
          PROVE  \E d \in Seen(r, w) \cup {c \in new : c.winch = w} : d.idx = i
      <4>1. CASE i \in missing
        <5>1. [winch |-> w, idx |-> i, by |-> r] \in {c \in new : c.winch = w}
          BY <1>7, <4>1
        <5> QED
          BY <5>1
      <4>2. CASE i \notin missing
        BY <3>1, <4>2
      <4> QED
        BY <4>1, <4>2
    <3> QED
      BY <1>1, <2>1, <3>1
  <2>2. CASE v # w
    <3>1. v \in held[r]
      BY <1>1, <2>2
    <3> QED
      BY <1>3, <1>4, <3>1 DEF LayoutOf, Adjusted
  <2> QED
    BY <2>1, <2>2
<1>16. Locked(r)'
  <2> SUFFICES ASSUME NEW v \in kept'[r], Home[v] = req[r].vessel, v \notin held'[r]
               PROVE  Maker[v] # r /\ count[v] = 0 /\ \E d \in new : d.winch = v
    BY <1>1 DEF Locked
  <2>1. v = w
    BY <1>1, <1>3, <1>4 DEF LayoutOf, Locked
  <2>2. Maker[w] # r /\ count[w] = 0
    <3>1. ~Writes(r, w)
      BY <1>1, <2>1
    <3>2. count[w] \in 0..MaxDrums
      BY DEF Typed, TypeOK
    <3> QED
      BY <2>1, <3>1, <3>2 DEF Writes
  <2>3. Seen(r, w) = {}
    <3>1. DrumsOf(w) = {}
      BY <2>2 DEF Layouts, DrumsMatchCount
    <3>2. \A d \in born[r] \cap Drum : d.winch # w
      BY <1>3, <2>2 DEF LayoutOf, BornAlone
    <3> QED
      BY <3>1, <3>2 DEF Seen, VisiblePos, DrumsOf
  <2>4. 1 \in missing
    BY <1>2, <2>3
  <2> QED
    BY <1>6, <1>7, <2>1, <2>2, <2>4
<1>17. LockedExist(r)'
  BY <1>1, <1>3, <1>8 DEF LayoutOf, LockedExist, Writes
<1>a. \A v \in held'[r] \cap Winch : req'[r].want[v] = 0 =>
        v \in held[r] /\ req[r].want[v] = 0
  BY <1>1, <1>2
<1>18. Emptied(r)'
  BY <1>1, <1>3, <1>5, <1>a DEF LayoutOf, Emptied
<1>19. SaveHome(r)'
  <2>1. \A u \in Pending(r)' : u \notin Winch \cup Storage
    BY <1>1, <1>4, <1>5 DEF Position
  <2> QED
    BY <1>1, <1>3, <2>1 DEF LayoutOf, SaveHome
<1>20. BornAlone(r)' /\ Harmless(r)
  BY <1>1, <1>a, NoHarm, BornFrame
<1>21. ASSUME NEW x \in Saver, x # r
       PROVE  held'[r] \cap held[x] = {} /\ gone'[r] \cap gone[x] = {}
  BY <1>1, <1>8, <1>21 DEF UpdateWaits, HeldBy, Layouts, HeldApart
<1>22. LayoutOf(r)'
  BY <1>11, <1>12, <1>13, <1>14, <1>15, <1>16, <1>17, <1>18, <1>19, <1>20 DEF LayoutOf
<1>23. pc[r] # "done" /\ UNCHANGED <<pos, count>>
  BY <1>1
<1> QED
  BY <1>1, <1>20, <1>21, <1>22, <1>23, OneSave

\* Inserting a drum that is missing: nobody else has one with that idx, and
\* nobody is deleting the winch.
LEMMA InsertDrumLayouts ==
  ASSUME Typed, Layouts, NEW r \in Saver, NEW d \in lack[r], InsertDrum(r, d)
  PROVE  Layouts'
<1> USE ConstantsAssumption
<1>0. r \in Request /\ Saver \subseteq Request
  BY DEF Request
<1>1. CASE Fail(r)
  BY <1>1, FailLayouts DEF InsertDrum, Open
<1>2. CASE ~Fail(r)
  <2>1. /\ Open(r) /\ InsertWaits(r, d) = {}
        /\ \A c \in DrumsOf(d.winch) : c.idx # d.idx
        /\ Maker[d.winch] = r \/ count[d.winch] # 0
        /\ born'[r] = born[r] \cup {d} /\ lack'[r] = lack[r] \ {d}
        /\ UNCHANGED <<pos, count, pc, req, gone, held, kept, drop, unit, crossed>>
        /\ \A x \in Saver : x # r => Rests(x)
    BY <1>0, <1>2 DEF InsertDrum, tables, Typed, TypeOK, Rests, Same
  <2>2. d \in Drum /\ d.winch \in Winch /\ d.idx \in 1..MaxDrums
    BY <1>0 DEF Typed, TypeOK, Drum
  <2>3. LayoutOf(r) /\ Pending(r)' = Pending(r)
    BY <2>1 DEF Layouts, LayoutOf, Pending
  <2>4. /\ d.winch \in kept[r] /\ d.idx <= req[r].want[d.winch]
        /\ req[r].want[d.winch] \in 0..MaxDrums
    BY <2>1, <2>2, <2>3 DEF LayoutOf, DrumsClaimed, SurplusOnly, Typed, Kinds, SaveReq, Open
  <2>5. d \notin gone[r]
    BY <2>2, <2>3, <2>4 DEF LayoutOf, SurplusOnly
  <2>6. \A w \in Winch : Seen(r, w)' = IF w = d.winch THEN Seen(r, w) \cup {d} ELSE Seen(r, w)
    BY <2>1, <2>2, <2>5 DEF Seen, VisiblePos
  <2>11. NothingPending(r)' /\ AllSaved(r)' /\ CrossedBy(r)'
    <3>1. EndedStay
      BY <2>1 DEF Rests, Same, EndedStay
    <3>2. crossed[r] \subseteq Winch
      BY <1>0 DEF Typed, TypeOK
    <3> QED
      BY <2>1, <2>3, <3>1, <3>2, EndedFacts
      DEF NothingPending, AllSaved, Unsaved, Open, LayoutOf, CrossedBy
  <2>12. Named(r)'
    <3>1. \A i : Known(r, i)' = Known(r, i)
      BY <2>1 DEF Known
    <3> QED
      BY <2>1, <2>3, <3>1 DEF LayoutOf, Named, Open
  <2>13. DrumsClaimed(r)'
    BY <2>1, <2>3, <2>4 DEF LayoutOf, DrumsClaimed
  <2>14. SurplusOnly(r)'
    BY <2>1, <2>3, <2>4 DEF LayoutOf, SurplusOnly
  <2>15. Adjusted(r)'
    <3> SUFFICES ASSUME NEW w \in (held[r] \cap Winch) \ crossed[r]
                 PROVE  /\ 1..req[r].want[w] \subseteq
                             {e.idx : e \in Seen(r, w)' \cup {c \in lack'[r] : c.winch = w}}
                        /\ \A e \in Seen(r, w)' : e.idx > req[r].want[w] => e \in Pending(r)
      BY <2>1, <2>3 DEF Adjusted
    <3>1. /\ 1..req[r].want[w] \subseteq
               {e.idx : e \in Seen(r, w) \cup {c \in lack[r] : c.winch = w}}
          /\ \A e \in Seen(r, w) : e.idx > req[r].want[w] => e \in Pending(r)
      BY <2>3 DEF LayoutOf, Adjusted
    <3>2. Seen(r, w) \cup {c \in lack[r] : c.winch = w}
            \subseteq Seen(r, w)' \cup {c \in lack'[r] : c.winch = w}
      BY <2>1, <2>6
    <3>3. \A e \in Seen(r, w)' : e \in Seen(r, w) \/ (e = d /\ w = d.winch)
      BY <2>6
    <3>4. ~(d.idx > req[r].want[d.winch])
      BY <2>2, <2>4
    <3> QED
      BY <3>1, <3>2, <3>3, <3>4
  <2>16. Locked(r)'
    <3> SUFFICES ASSUME NEW w \in kept[r], Home[w] = req[r].vessel, w \notin held[r]
                 PROVE  Maker[w] # r /\ count[w] = 0 /\ \E c \in lack'[r] : c.winch = w
      BY <2>1 DEF Locked
    <3>1. Maker[w] # r /\ count[w] = 0 /\ \E c \in lack[r] : c.winch = w
      BY <2>3 DEF LayoutOf, Locked
    <3>2. w # d.winch
      BY <2>1, <3>1
    <3> QED
      BY <2>1, <3>1, <3>2
  <2>17. LockedExist(r)'
    BY <2>1, <2>3 DEF LayoutOf, LockedExist
  <2>18. Emptied(r)'
    <3>1. req[r].want[d.winch] # 0
      BY <2>2, <2>4
    <3> QED
      BY <2>1, <2>3, <2>6, <3>1 DEF LayoutOf, Emptied
  <2>19. SaveHome(r)'
    <3>1. d \notin Storage
      BY <2>2
    <3> QED
      BY <2>1, <2>3, <3>1 DEF LayoutOf, SaveHome
  <2>20. BornAlone(r)'
    <3>1. \A w : Unmakers(w)' = Unmakers(w)
      BY <2>1 DEF Unmakers, Rests, Same
    <3>2. /\ Unmakers(d.winch) = {}
          /\ \A x \in Saver \ {r} : \A c \in born[x] \cap Drum :
               c.winch = d.winch => c.idx # d.idx
      BY <2>1 DEF InsertWaits
    <3>3. count[d.winch] # 0 => count[d.winch] > 0
      BY <2>2 DEF Typed, TypeOK
    <3>4. ASSUME NEW e \in born'[r] \cap Drum
          PROVE  /\ Maker[e.winch] = r \/ count[e.winch] > 0
                 /\ Unmakers(e.winch) = {}
                 /\ \A c \in DrumsOf(e.winch) : c.idx # e.idx
                 /\ \A x \in Saver \ {r} : \A c \in born[x] \cap Drum :
                      c.winch = e.winch => c.idx # e.idx
      <4>1. CASE e = d
        BY <2>1, <3>2, <3>3, <4>1
      <4>2. CASE e # d
        BY <2>1, <2>3, <4>2 DEF LayoutOf, BornAlone
      <4> QED
        BY <4>1, <4>2
    <3> QED
      BY <2>1, <3>1, <3>4 DEF BornAlone, DrumsOf, Rests, Same
  <2>21. Harmless(r)
    <3> SUFFICES ASSUME NEW x \in Saver \ {r}, NEW e \in born[x] \cap Drum
                 PROVE  /\ r \notin Unmakers(e.winch)'
                        /\ \A c \in born'[r] \cap Drum : c.winch = e.winch => c.idx # e.idx
      BY DEF Harmless
    <3>1. BornAlone(x) /\ e.winch \in Winch
      BY DEF Layouts, Drum
    <3>2. r \notin Unmakers(e.winch)'
      BY <2>1, <3>1 DEF BornAlone, Unmakers
    <3>3. \A c \in born[r] \cap Drum : c.winch = e.winch => c.idx # e.idx
      BY <3>1 DEF BornAlone
    <3>4. d.winch = e.winch => d.idx # e.idx
      BY <2>1 DEF InsertWaits
    <3> QED
      BY <2>1, <3>2, <3>3, <3>4
  <2>22. LayoutOf(r)'
    BY <2>11, <2>12, <2>13, <2>14, <2>15, <2>16, <2>17, <2>18, <2>19, <2>20 DEF LayoutOf
  <2>23. /\ pc[r] # "done" /\ UNCHANGED <<pos, count>>
         /\ \A x \in Saver : x # r => held'[r] \cap held[x] = {} /\ gone'[r] \cap gone[x] = {}
    BY <2>1 DEF Open, Layouts, HeldApart
  <2> QED
    BY <2>1, <2>21, <2>22, <2>23, OneSave
<1> QED
  BY <1>1, <1>2

\* What a save claims of the deck it keeps while it inserts and removes nothing
\* more of it, and locks no winch.
LEMMA DeckClaims ==
  ASSUME Typed, Layouts, NEW r \in Saver, Open(r), Open(r)',
         UNCHANGED <<pos, count, req, gone, kept, lack, crossed>>,
         born'[r] \cap Drum = born[r] \cap Drum,
         held'[r] \cap Winch = held[r] \cap Winch,
         \A d \in Pending(r) \cap Drum : d \in Pending(r)',
         pc[r] # "done", \A x \in Saver : x # r => Rests(x)
  PROVE  /\ NothingPending(r)' /\ Named(r)' /\ Adjusted(r)' /\ Locked(r)'
         /\ LockedExist(r)' /\ Emptied(r)' /\ CrossedBy(r)' /\ BornAlone(r)'
         /\ Harmless(r)
<1>0. LayoutOf(r) /\ EndedStay
  BY DEF Layouts, LayoutOf, Rests, Same, EndedStay
<1>1. NothingPending(r)'
  BY DEF NothingPending
<1>2. Named(r)'
  <2>1. req[r].stores \subseteq Storage
    BY DEF Typed, Kinds, SaveReq, Open
  <2> QED
    BY <1>0, <2>1 DEF LayoutOf, Named, EndedStay, Known
<1>3. \A w : Seen(r, w)' = Seen(r, w) /\ Seen(r, w) \subseteq Drum
  BY DEF Seen, VisiblePos
<1>4. Adjusted(r)'
  <2> SUFFICES ASSUME NEW w \in (held[r] \cap Winch) \ crossed[r]
               PROVE  /\ 1..req[r].want[w] \subseteq
                           {e.idx : e \in Seen(r, w) \cup {c \in lack[r] : c.winch = w}}
                      /\ \A e \in Seen(r, w) : e.idx > req[r].want[w] => e \in Pending(r)'
    BY <1>3 DEF Adjusted
  <2> QED
    BY <1>0, <1>3 DEF LayoutOf, Adjusted
<1>5. \A w \in Winch : w \in held'[r] <=> w \in held[r]
  OBVIOUS
<1>6. kept[r] \subseteq Winch /\ crossed[r] \subseteq Winch
  BY DEF Typed, TypeOK, Request
<1>7. Locked(r)'
  BY <1>0, <1>5, <1>6 DEF LayoutOf, Locked
<1>8. LockedExist(r)'
  BY <1>0 DEF LayoutOf, LockedExist
<1>9. Emptied(r)'
  BY <1>0, <1>3 DEF LayoutOf, Emptied
<1>10. CrossedBy(r)'
  BY <1>0, <1>6, EndedFacts DEF LayoutOf, CrossedBy
<1>11. \A w \in held'[r] \cap Winch : req'[r].want[w] = 0 =>
         w \in held[r] /\ req[r].want[w] = 0
  OBVIOUS
<1>12. BornAlone(r)' /\ Harmless(r)
  BY <1>11, NoHarm, BornFrame
<1> QED
  BY <1>1, <1>2, <1>4, <1>7, <1>8, <1>9, <1>10, <1>12

\* Listing the winches the request leaves out.
LEMMA ListWinchesLayouts ==
  ASSUME Typed, Layouts, NEW r \in Saver, ListWinches(r)
  PROVE  Layouts'
<1> USE ConstantsAssumption
<1>0. r \in Request /\ Saver \subseteq Request
  BY DEF Request
<1>1. /\ pc[r] = "winches" /\ pc'[r] = "stores" /\ Settled(r) /\ Unsaved(r) = {}
      /\ drop'[r] = {w \in Winch : /\ count[w] > 0 /\ Home[w] = req[r].vessel
                                   /\ req[r].want[w] = 0}
      /\ \A x \in Saver : x # r => Rests(x)
      /\ UNCHANGED <<pos, count, req, born, gone, held, kept, lack, unit, crossed>>
  BY <1>0 DEF ListWinches, Goto, tables, Typed, TypeOK, Rests, Same
<1>2. /\ Pending(r) = {} /\ Pending(r)' = drop'[r] /\ drop'[r] \subseteq Winch
      /\ Open(r) /\ Open(r)'
  BY <1>1 DEF Pending, Settled, Open
<1>3. LayoutOf(r)
  BY DEF Layouts, LayoutOf
<1>4. AllSaved(r)'
  BY <1>1 DEF AllSaved, Unsaved
<1>5. DrumsClaimed(r)'
  BY <1>1, <1>2, <1>3 DEF LayoutOf, DrumsClaimed, Position
<1>6. SurplusOnly(r)'
  <2>1. \A u \in drop'[r] : u \notin Drum /\ req[r].want[u] = 0
    BY <1>1 DEF Position
  <2> QED
    BY <1>1, <1>2, <1>3, <2>1 DEF LayoutOf, SurplusOnly
<1>7. SaveHome(r)'
  BY <1>1, <1>2, <1>3 DEF LayoutOf, SaveHome
<1>8. /\ NothingPending(r)' /\ Named(r)' /\ Adjusted(r)' /\ Locked(r)'
      /\ LockedExist(r)' /\ Emptied(r)' /\ CrossedBy(r)' /\ BornAlone(r)'
      /\ Harmless(r)
  BY <1>1, <1>2, DeckClaims
<1>9. \A x \in Saver : x # r => held'[r] \cap held[x] = {} /\ gone'[r] \cap gone[x] = {}
  BY <1>1 DEF Layouts, HeldApart
<1>10. LayoutOf(r)'
  BY <1>4, <1>5, <1>6, <1>7, <1>8 DEF LayoutOf
<1> QED
  BY <1>1, <1>8, <1>9, <1>10, OneSave

\* Saving a storage location touches no drum.
LEMMA SaveStoreLayouts ==
  ASSUME Typed, Layouts, NEW r \in Saver, NEW s \in Storage, SaveStore(r, s)
  PROVE  Layouts'
<1> USE ConstantsAssumption
<1>0. r \in Request /\ Saver \subseteq Request
  BY DEF Request
<1>1. /\ pc[r] = "stores" /\ Settled(r) /\ s \in Unstored(r) /\ HeldBy(r, s) = {}
      /\ born'[r] = IF Maker[s] = r THEN born[r] \cup {s} ELSE born[r]
      /\ held'[r] \subseteq held[r] \cup {s} /\ held[r] \subseteq held'[r]
      /\ \A x \in Saver : x # r => Rests(x)
      /\ UNCHANGED <<pos, count, pc, req, gone, kept, lack, drop, unit, crossed>>
  BY <1>0 DEF SaveStore, tables, Typed, TypeOK, Rests, Same
<1>2. Pending(r) = {} /\ Pending(r)' = {} /\ Open(r) /\ Open(r)'
  BY <1>1 DEF Pending, Settled, Open
<1>3. LayoutOf(r)
  BY DEF Layouts, LayoutOf
<1>a. s \notin Drum /\ s \notin Winch
  BY DEF Position
<1>b. lack[r] \subseteq Drum
  BY <1>0 DEF Typed, TypeOK
<1>4. AllSaved(r)'
  BY <1>1, <1>3 DEF AllSaved, Unsaved, LayoutOf
<1>5. DrumsClaimed(r)'
  BY <1>1, <1>2, <1>3, <1>a DEF LayoutOf, DrumsClaimed
<1>6. SurplusOnly(r)'
  <2>1. (born'[r] \cup lack'[r]) \cap Drum = (born[r] \cup lack[r]) \cap Drum
    BY <1>1, <1>a
  <2> QED
    BY <1>1, <1>2, <1>3, <2>1 DEF LayoutOf, SurplusOnly
<1>7. SaveHome(r)'
  <2>1. Maker[s] = r => Home[s] = req[r].vessel
    BY <1>1, <1>2, <1>3 DEF Unstored, LayoutOf, Named
  <2> QED
    BY <1>1, <1>2, <1>3, <2>1 DEF LayoutOf, SaveHome
<1>8. /\ NothingPending(r)' /\ Named(r)' /\ Adjusted(r)' /\ Locked(r)'
      /\ LockedExist(r)' /\ Emptied(r)' /\ CrossedBy(r)' /\ BornAlone(r)'
      /\ Harmless(r)
  <2>1. /\ born'[r] \cap Drum = born[r] \cap Drum
        /\ held'[r] \cap Winch = held[r] \cap Winch
    BY <1>1, <1>a
  <2>2. pc[r] # "done"
    BY <1>1
  <2> QED
    BY <1>1, <1>2, <2>1, <2>2, DeckClaims
<1>9. \A x \in Saver : x # r => held'[r] \cap held[x] = {} /\ gone'[r] \cap gone[x] = {}
  BY <1>1 DEF HeldBy, Layouts, HeldApart
<1>10. LayoutOf(r)'
  BY <1>4, <1>5, <1>6, <1>7, <1>8 DEF LayoutOf
<1> QED
  BY <1>1, <1>8, <1>9, <1>10, OneSave

\* Listing the storage locations the request leaves out.
LEMMA ListStoresLayouts ==
  ASSUME Typed, Layouts, NEW r \in Saver, ListStores(r)
  PROVE  Layouts'
<1> USE ConstantsAssumption
<1>0. r \in Request /\ Saver \subseteq Request
  BY DEF Request
<1>1. /\ pc[r] = "stores" /\ pc'[r] = "emit" /\ Settled(r)
      /\ drop'[r] \subseteq {s \in Storage : Home[s] = req[r].vessel}
      /\ \A x \in Saver : x # r => Rests(x)
      /\ UNCHANGED <<pos, count, req, born, gone, held, kept, lack, unit, crossed>>
  BY <1>0 DEF ListStores, Goto, tables, Typed, TypeOK, Rests, Same
<1>2. /\ Pending(r) = {} /\ Pending(r)' = drop'[r] /\ Open(r) /\ Open(r)'
      /\ \A u \in drop'[r] : u \notin Winch /\ u \notin Drum /\ Home[u] = req[r].vessel
  BY <1>1 DEF Pending, Settled, Position, Open
<1>3. LayoutOf(r)
  BY DEF Layouts, LayoutOf
<1>4. AllSaved(r)'
  BY <1>1, <1>3 DEF AllSaved, Unsaved, LayoutOf
<1>5. DrumsClaimed(r)'
  BY <1>1, <1>2, <1>3 DEF LayoutOf, DrumsClaimed
<1>6. SurplusOnly(r)'
  BY <1>1, <1>2, <1>3 DEF LayoutOf, SurplusOnly
<1>7. SaveHome(r)'
  BY <1>1, <1>2, <1>3 DEF LayoutOf, SaveHome
<1>8. /\ NothingPending(r)' /\ Named(r)' /\ Adjusted(r)' /\ Locked(r)'
      /\ LockedExist(r)' /\ Emptied(r)' /\ CrossedBy(r)' /\ BornAlone(r)'
      /\ Harmless(r)
  BY <1>1, <1>2, DeckClaims
<1>9. \A x \in Saver : x # r => held'[r] \cap held[x] = {} /\ gone'[r] \cap gone[x] = {}
  BY <1>1 DEF Layouts, HeldApart
<1>10. LayoutOf(r)'
  BY <1>4, <1>5, <1>6, <1>7, <1>8 DEF LayoutOf
<1> QED
  BY <1>1, <1>8, <1>9, <1>10, OneSave

\* The occupancy check leaves pending what was pending.
LEMMA CheckEmptyLayouts ==
  ASSUME Typed, Layouts, NEW r \in Saver, NEW u \in drop[r], CheckEmpty(r, u)
  PROVE  Layouts'
<1> USE ConstantsAssumption
<1>0. r \in Request /\ Saver \subseteq Request
  BY DEF Request
<1>1. CASE Fail(r)
  BY <1>1, FailLayouts DEF CheckEmpty, Open
<1>2. CASE ~Fail(r)
  <2>1. /\ Open(r) /\ unit[r] = None
        /\ drop'[r] = drop[r] \ {u} /\ unit'[r] = u
        /\ \A x \in Saver : x # r => Rests(x)
        /\ UNCHANGED <<pos, count, pc, req, born, gone, held, kept, lack, crossed>>
    BY <1>0, <1>2 DEF CheckEmpty, tables, Typed, TypeOK, Rests, Same
  <2>2. u # None /\ Open(r)' /\ pc[r] # "done"
    BY <1>0, <2>1 DEF Typed, TypeOK, Open
  <2>3. Pending(r)' = Pending(r)
    BY <2>1, <2>2 DEF Pending
  <2>4. LayoutOf(r)
    BY DEF Layouts, LayoutOf
  <2>5. AllSaved(r)'
    BY <2>1, <2>4 DEF AllSaved, Unsaved, LayoutOf
  <2>6. DrumsClaimed(r)' /\ SurplusOnly(r)'
    BY <2>1, <2>3, <2>4 DEF LayoutOf, DrumsClaimed, SurplusOnly
  <2>7. SaveHome(r)'
    BY <2>1, <2>3, <2>4 DEF LayoutOf, SaveHome
  <2>8. /\ NothingPending(r)' /\ Named(r)' /\ Adjusted(r)' /\ Locked(r)'
        /\ LockedExist(r)' /\ Emptied(r)' /\ CrossedBy(r)' /\ BornAlone(r)'
        /\ Harmless(r)
    BY <2>1, <2>2, <2>3, DeckClaims
  <2>9. \A x \in Saver : x # r => held'[r] \cap held[x] = {} /\ gone'[r] \cap gone[x] = {}
    BY <2>1 DEF Layouts, HeldApart
  <2>10. LayoutOf(r)'
    BY <2>5, <2>6, <2>7, <2>8 DEF LayoutOf
  <2> QED
    BY <2>1, <2>2, <2>8, <2>9, <2>10, OneSave
<1> QED
  BY <1>1, <1>2

\* The event of a save is written when nothing is pending.
LEMMA EmitLayouts ==
  ASSUME Typed, Layouts, NEW r \in Saver, Emit(r)
  PROVE  Layouts'
<1>0. r \in Request /\ Saver \subseteq Request
  BY DEF Request
<1>1. /\ pc[r] = "emit" /\ pc'[r] = "commit"
      /\ \A x \in Saver : x # r => Rests(x)
      /\ UNCHANGED <<pos, count, req, born, gone, held, kept, lack, drop, unit, crossed>>
  BY <1>0 DEF Emit, Goto, tables, layout, Typed, TypeOK, Rests, Same
<1>2. LayoutOf(r) /\ Pending(r)' = Pending(r) /\ Open(r) /\ Open(r)'
  BY <1>1 DEF Layouts, LayoutOf, Pending, Open
<1>3. AllSaved(r)' /\ SaveHome(r)' /\ DrumsClaimed(r)' /\ SurplusOnly(r)'
  BY <1>1, <1>2 DEF AllSaved, SaveHome, Unsaved, LayoutOf, DrumsClaimed, SurplusOnly
<1>4. /\ NothingPending(r)' /\ Named(r)' /\ Adjusted(r)' /\ Locked(r)'
      /\ LockedExist(r)' /\ Emptied(r)' /\ CrossedBy(r)' /\ BornAlone(r)'
      /\ Harmless(r)
  BY <1>1, <1>2, DeckClaims
<1>5. \A x \in Saver : x # r => held'[r] \cap held[x] = {} /\ gone'[r] \cap gone[x] = {}
  BY <1>1 DEF Layouts, HeldApart
<1>6. LayoutOf(r)'
  BY <1>3, <1>4 DEF LayoutOf
<1> QED
  BY <1>1, <1>4, <1>5, <1>6, OneSave

\* A DELETE takes from a winch the surplus drum it was listed for, or with
\* the winch every drum there is; and none that another save has inserted or
\* deleted.
LEMMA RemoveLayouts ==
  ASSUME Typed, Layouts, NEW r \in Saver, Remove(r)
  PROVE  Layouts'
<1> USE ConstantsAssumption
<1> DEFINE u == unit[r]
           locked == IF (u \in Winch /\ count[u] > 0) \/ u \in Storage \cap pos
                     THEN {u} ELSE {}
<1>0. r \in Request /\ Saver \subseteq Request
  BY DEF Request
<1>1. /\ Open(r) /\ u # None /\ RemoveWaits(r, u) = {}
      /\ gone'[r] = gone[r] \cup Covered(r, u) /\ held'[r] = held[r] \cup locked
      /\ unit'[r] = None
      /\ \A x \in Saver : x # r => Rests(x)
      /\ UNCHANGED <<pos, count, pc, req, born, kept, lack, drop, crossed>>
  BY <1>0 DEF Remove, tables, Typed, TypeOK, Rests, Same
<1>2. u \in Pending(r) /\ Pending(r) = drop[r] \cup {u} /\ Pending(r)' = drop[r]
  BY <1>1 DEF Pending
<1>3. LayoutOf(r) /\ Open(r)'
  BY <1>1 DEF Layouts, LayoutOf, Open
<1>4. u \in Winch \cup Drum \cup Storage
  BY <1>0, <1>1 DEF Typed, TypeOK, Position
<1>5. Winch \cap (Drum \cup Storage) = {} /\ Drum \cap Storage = {}
  BY DEF Position
<1>6. \A w \in Winch : Seen(r, w)' = Seen(r, w) \ Covered(r, u)
  BY <1>1 DEF Seen, VisiblePos
<1>7. u \in Winch => Covered(r, u) = Seen(r, u)
  BY DEF Covered
<1>8. u \notin Winch => Covered(r, u) = {u} \cap VisiblePos(r)
  BY DEF Covered
<1>9. \A w \in Winch : \A d \in Seen(r, w) : d \in Drum /\ d.winch = w
  BY DEF Seen
<1>a. \A w \in Winch : req[r].want[w] \in 0..MaxDrums
  BY <1>1 DEF Typed, Kinds, SaveReq, Open
<1>b. u \in Winch => req[r].want[u] = 0 /\ Home[u] = req[r].vessel
  BY <1>2, <1>3 DEF LayoutOf, SurplusOnly, SaveHome
\* The save has inserted no drum of the winch it deletes.
<1>c. ASSUME NEW d \in born[r] \cap Drum PROVE d.winch # u
  <2>1. d.winch \in Winch /\ d.idx \in 1..MaxDrums
    BY DEF Drum
  <2>2. d.idx <= req[r].want[d.winch]
    BY <1>3 DEF LayoutOf, SurplusOnly
  <2> QED
    BY <1>a, <1>b, <2>1, <2>2
<1>d. u \in Winch /\ count[u] = 0 => Seen(r, u) = {}
  <2>1. u \in Winch /\ count[u] = 0 => DrumsOf(u) = {}
    BY DEF Layouts, DrumsMatchCount
  <2> QED
    BY <1>c, <2>1 DEF Seen, VisiblePos, DrumsOf
<1>e. u \in Winch => count[u] \in 0..MaxDrums
  BY DEF Typed, TypeOK
<1>f. \A d \in Covered(r, u) : d \in VisiblePos(r)
  BY <1>7, <1>8 DEF Seen
<1>10. NothingPending(r)' /\ AllSaved(r)'
  BY <1>1, <1>3 DEF NothingPending, AllSaved, Unsaved, LayoutOf
<1>11. DrumsClaimed(r)'
  <2>1. ASSUME NEW d \in Covered(r, u) \cap Drum PROVE d.winch \in kept[r] \cup held'[r]
    <3>1. CASE u \notin Winch
      BY <1>1, <1>2, <1>3, <1>8, <2>1, <3>1 DEF LayoutOf, DrumsClaimed
    <3>2. CASE u \in Winch
      BY <1>1, <1>7, <1>9, <1>d, <1>e, <2>1, <3>2
    <3> QED
      BY <3>1, <3>2
  <2> QED
    BY <1>1, <1>2, <1>3, <2>1 DEF LayoutOf, DrumsClaimed
<1>12. SurplusOnly(r)'
  <2>1. ASSUME NEW d \in Covered(r, u)
        PROVE  d \notin Winch /\ (d \in Drum => d.idx > req[r].want[d.winch])
    <3>1. CASE u \notin Winch
      <4>1. d = u
        BY <1>8, <3>1
      <4> QED
        BY <1>2, <1>3, <3>1, <4>1 DEF LayoutOf, SurplusOnly
    <3>2. CASE u \in Winch
      <4>1. d \in Drum /\ d.winch = u /\ d.idx \in 1..MaxDrums
        BY <1>7, <1>9, <3>2 DEF Drum
      <4> QED
        BY <1>5, <1>b, <3>2, <4>1
    <3> QED
      BY <3>1, <3>2
  <2> QED
    BY <1>1, <1>2, <1>3, <2>1 DEF LayoutOf, SurplusOnly
<1>13. Adjusted(r)'
  <2> SUFFICES ASSUME NEW v \in (held'[r] \cap Winch) \ crossed[r]
               PROVE  /\ 1..req[r].want[v] \subseteq
                           {e.idx : e \in Seen(r, v)' \cup {c \in lack[r] : c.winch = v}}
                      /\ \A d \in Seen(r, v)' : d.idx > req[r].want[v] => d \in drop[r]
    BY <1>1, <1>2 DEF Adjusted
  <2>1. CASE v = u
    <3>1. Seen(r, v)' = {} /\ req[r].want[v] = 0
      BY <1>6, <1>7, <1>b, <2>1
    <3> QED
      BY <3>1
  <2>2. CASE v # u
    <3>1. v \in held[r]
      BY <1>1, <2>2
    <3>2. /\ 1..req[r].want[v] \subseteq
               {e.idx : e \in Seen(r, v) \cup {c \in lack[r] : c.winch = v}}
          /\ \A d \in Seen(r, v) : d.idx > req[r].want[v] => d \in drop[r] \cup {u}
      BY <1>2, <1>3, <3>1 DEF LayoutOf, Adjusted
    <3>3. Seen(r, v)' \subseteq Seen(r, v) /\ u \notin Seen(r, v)'
      BY <1>5, <1>6, <1>8, <1>9 DEF Seen
    <3>4. ASSUME NEW d \in Seen(r, v), d.idx \in 1..req[r].want[v]
          PROVE  d \in Seen(r, v)'
      <4>1. CASE u \in Winch
        BY <1>6, <1>7, <1>9, <2>2, <4>1
      <4>2. CASE u \in Drum
        <5>1. u.idx > req[r].want[u.winch]
          BY <1>2, <1>3, <4>2 DEF LayoutOf, SurplusOnly
        <5>2. d # u
          <6> SUFFICES ASSUME d = u PROVE FALSE
            OBVIOUS
          <6>1. u.winch = v
            BY <1>9
          <6>2. req[r].want[v] \in Nat /\ d.idx \in Nat
            BY <1>9, <1>a DEF Drum
          <6> QED
            BY <3>4, <5>1, <6>1, <6>2
        <5> QED
          BY <1>5, <1>6, <1>8, <4>2, <5>2
      <4>3. CASE u \in Storage
        BY <1>5, <1>6, <1>8, <1>9, <4>3
      <4> QED
        BY <1>4, <4>1, <4>2, <4>3
    <3>5. \A d \in Seen(r, v)' : d.idx > req[r].want[v] => d \in drop[r]
      BY <3>2, <3>3
    <3>6. ASSUME NEW i \in 1..req[r].want[v]
          PROVE  \E e \in Seen(r, v)' \cup {c \in lack[r] : c.winch = v} : e.idx = i
      <4>1. PICK e \in Seen(r, v) \cup {c \in lack[r] : c.winch = v} : e.idx = i
        BY <3>2
      <4> QED
        BY <3>4, <4>1
    <3> QED
      BY <3>5, <3>6
  <2> QED
    BY <2>1, <2>2
<1>14. SaveHome(r)'
  <2>1. \A p \in Covered(r, u) : p \in Storage => Home[p] = req[r].vessel
    BY <1>2, <1>3, <1>5, <1>7, <1>8, <1>9 DEF LayoutOf, SaveHome
  <2> QED
    BY <1>1, <1>2, <1>3, <2>1 DEF LayoutOf, SaveHome
<1>15. Locked(r)' /\ LockedExist(r)'
  BY <1>1, <1>3, <1>5, <1>b DEF LayoutOf, Locked, LockedExist
<1>16. Emptied(r)'
  BY <1>1, <1>3, <1>6, <1>7 DEF LayoutOf, Emptied
<1>17. Named(r)' /\ CrossedBy(r)'
  <2>1. EndedStay
    BY <1>1 DEF Rests, Same, EndedStay, Open
  <2>2. crossed[r] \subseteq Winch /\ req[r].stores \subseteq Storage
    BY <1>0, <1>1 DEF Typed, TypeOK, Kinds, SaveReq, Open
  <2>3. Named(r)'
    BY <1>1, <1>3, <2>1, <2>2 DEF LayoutOf, Named, EndedStay, Known
  <2>4. CrossedBy(r)'
    BY <1>1, <1>3, <2>1, <2>2, EndedFacts DEF LayoutOf, CrossedBy
  <2> QED
    BY <2>3, <2>4
<1>18. BornAlone(r)'
  <2> SUFFICES ASSUME NEW d \in born[r] \cap Drum
               PROVE  /\ Maker[d.winch] = r \/ count[d.winch] > 0
                      /\ Unmakers(d.winch)' = {}
                      /\ \A c \in DrumsOf(d.winch) : c.idx # d.idx
                      /\ \A x \in Saver \ {r} : \A c \in born[x] \cap Drum :
                           c.winch = d.winch => c.idx # d.idx
    BY <1>1 DEF BornAlone, DrumsOf, Rests, Same
  <2>1. BornAlone(r) /\ d.winch # u
    BY <1>3, <1>c DEF LayoutOf
  <2>2. Unmakers(d.winch)' \subseteq Unmakers(d.winch)
    BY <1>1, <2>1 DEF Unmakers, Rests, Same
  <2> QED
    BY <2>1, <2>2 DEF BornAlone
<1>19. Harmless(r)
  <2> SUFFICES ASSUME NEW x \in Saver \ {r}, NEW d \in born[x] \cap Drum
               PROVE  /\ r \notin Unmakers(d.winch)'
                      /\ \A c \in born[r] \cap Drum : c.winch = d.winch => c.idx # d.idx
    BY <1>1 DEF Harmless
  <2>1. BornAlone(x)
    BY DEF Layouts
  <2>2. d.winch # u
    BY <1>1 DEF RemoveWaits
  <2>3. r \notin Unmakers(d.winch)'
    BY <1>1, <2>1, <2>2 DEF BornAlone, Unmakers
  <2> QED
    BY <2>1, <2>3 DEF BornAlone
<1>20. ASSUME NEW x \in Saver, x # r
       PROVE  held'[r] \cap held[x] = {} /\ gone'[r] \cap gone[x] = {}
  <2>1. u \notin held[x]
    BY <1>1, <1>20 DEF RemoveWaits, HeldBy
  <2>2. \A p \in Covered(r, u) : p \notin gone[x]
    <3> SUFFICES ASSUME NEW p \in Covered(r, u), p \in gone[x] PROVE FALSE
      OBVIOUS
    <3>1. x \in Removers(p) \ {r}
      BY <1>20 DEF Removers
    <3> QED
      BY <1>1, <3>1 DEF RemoveWaits
  <2> QED
    BY <1>1, <1>20, <2>1, <2>2 DEF Layouts, HeldApart
<1>21. LayoutOf(r)'
  BY <1>10, <1>11, <1>12, <1>13, <1>14, <1>15, <1>16, <1>17, <1>18 DEF LayoutOf
<1>22. pc[r] # "done" /\ UNCHANGED <<pos, count>>
  BY <1>1 DEF Open
<1> QED
  BY <1>1, <1>19, <1>20, <1>21, <1>22, OneSave

\* A winch a save about to commit has not locked is not the save's, unless it
\* is of another vessel: it has inserted and removed no drum there.
LEMMA Untouched ==
  ASSUME Layouts, NEW r \in Saver, Open(r), lack[r] = {}, NEW w \in Winch,
         w \notin held[r], ~Crosses(r, w)
  PROVE  Seen(r, w) = DrumsOf(w)
<1>1. DrumsClaimed(r) /\ Named(r) /\ Locked(r)
  BY DEF Layouts
<1>2. w \notin kept[r]
  BY <1>1 DEF Named, Locked, Crosses
<1> QED
  BY <1>1, <1>2 DEF Seen, DrumsOf, VisiblePos, DrumsClaimed

\* The commit of a save leaves each winch it locked with the drums it was
\* asked for, unless another save crossed it; and the winches of its vessel it
\* did not lock, and who works on them, alone.
LEMMA CommitLayouts ==
  ASSUME Typed, Safe, Layouts, MadeOnce, NEW r \in Saver, Commit(r)
  PROVE  /\ Layouts'
         /\ \A w \in Winch :
              req[r].want[w] > 0 /\ Home[w] = req[r].vessel /\ w \notin crossed[r] =>
                /\ count'[w] = req[r].want[w]
                /\ {d.idx : d \in DrumsOf(w)'} = 1..req[r].want[w]
<1> USE ConstantsAssumption
<1>0. r \in Request /\ Saver \subseteq Request
  BY DEF Request
<1>1. /\ pc[r] = "commit" /\ pc'[r] = "done" /\ pos' = VisiblePos(r)
      /\ \A w \in Winch : count'[w] = IF w \in held[r] THEN req[r].want[w] ELSE count[w]
      /\ born'[r] = {} /\ gone'[r] = {} /\ held'[r] = {} /\ kept'[r] = {}
      /\ crossed'[r] = {}
      /\ \A x \in Saver : x # r =>
           crossed'[x] = IF Open(x) THEN crossed[x] \cup {w \in Winch : Crosses(r, w)}
                                    ELSE crossed[x]
      /\ \A x \in Saver : x # r => Same(x)
      /\ UNCHANGED <<req, lack, drop, unit>>
  BY <1>0 DEF Commit, Goto, Typed, TypeOK, Same
<1>2. LayoutOf(r) /\ Settled(r) /\ Open(r)
  BY <1>1 DEF Layouts, LayoutOf, Safe, SettledAtCommit, Open
<1>3. Pending(r) = {} /\ drop[r] = {} /\ unit[r] = None /\ lack[r] = {}
  BY <1>2 DEF Settled, Pending
<1>4. \A w \in Winch : DrumsOf(w)' = Seen(r, w)
  BY <1>1 DEF DrumsOf, Seen
<1>5. \A w \in Winch : req[r].want[w] \in 0..MaxDrums /\ count[w] \in 0..MaxDrums
  BY <1>1 DEF Typed, TypeOK, Kinds, SaveReq
<1>6. \A w \in Winch : \A d \in Seen(r, w) :
        /\ d \in Drum /\ d.winch = w /\ d.idx \in 1..MaxDrums
        /\ d \in DrumsOf(w) \/ d \in born[r]
  BY DEF Seen, VisiblePos, DrumsOf, Drum
<1>7. EndedStay
  BY <1>1 DEF EndedStay, Same
<1>8. \A w \in Winch : Uncrossed(w)' => Uncrossed(w) /\ ~Crosses(r, w)
  <2>1. \A w \in Winch : Uncrossed(w)' => ~Crosses(r, w)
    BY <1>1 DEF Uncrossed, Crosses
  <2> QED
    BY <1>7, <2>1, EndedFacts
<1>9. ASSUME NEW w \in Winch \cap held[r], w \notin crossed[r]
      PROVE  {d.idx : d \in Seen(r, w)} = 1..req[r].want[w]
  <2>1. /\ 1..req[r].want[w] \subseteq {d.idx : d \in Seen(r, w)}
        /\ \A d \in Seen(r, w) : ~(d.idx > req[r].want[w])
    <3>1. Seen(r, w) \cup {c \in lack[r] : c.winch = w} = Seen(r, w)
      BY <1>3
    <3> QED
      BY <1>2, <1>3, <1>9, <3>1 DEF LayoutOf, Adjusted
  <2>2. \A d \in Seen(r, w) : d.idx \in 1..req[r].want[w]
    BY <1>5, <1>6, <2>1
  <2> QED
    BY <2>1, <2>2
<1>10. ASSUME NEW w \in Winch, ~Crosses(r, w), w \notin held[r]
       PROVE  DrumsOf(w)' = DrumsOf(w)
  BY <1>2, <1>3, <1>4, <1>10, Untouched
\* The winch of a drum r inserted is there when r has committed.
<1>11. ASSUME NEW d \in born[r] \cap Drum PROVE count'[d.winch] > 0
  <2>1. d.winch \in Winch /\ d.idx \in 1..MaxDrums
    BY DEF Drum
  <2>2. d.idx <= req[r].want[d.winch] /\ d.winch \in kept[r] \cup held[r]
    BY <1>2 DEF LayoutOf, SurplusOnly, DrumsClaimed
  <2>3. CASE d.winch \in held[r]
    BY <1>1, <1>5, <2>1, <2>2, <2>3
  <2>4. CASE d.winch \notin held[r]
    <3>1. Maker[d.winch] # r
      <4>1. Maker[d.winch] = r => Home[d.winch] = req[r].vessel
        BY <1>2, <1>5, <2>1, <2>2 DEF LayoutOf, Named
      <4> QED
        BY <1>2, <2>2, <2>4, <4>1 DEF LayoutOf, Locked
    <3>2. count[d.winch] > 0
      BY <1>2, <3>1 DEF LayoutOf, BornAlone
    <3> QED
      BY <1>1, <2>1, <2>4, <3>2
  <2> QED
    BY <2>3, <2>4
<1>12. DrumsMatchCount'
  <2> SUFFICES ASSUME NEW w \in Winch
               PROVE  /\ \A c, d \in Seen(r, w) : c.idx = d.idx => c = d
                      /\ count'[w] = 0 => Seen(r, w) = {}
                      /\ Uncrossed(w)' => {d.idx : d \in Seen(r, w)} = 1..count'[w]
    BY <1>4 DEF DrumsMatchCount
  <2>1. \A c, d \in Seen(r, w) : c.idx = d.idx => c = d
    <3>1. \A c, d \in DrumsOf(w) : c.idx = d.idx => c = d
      BY DEF Layouts, DrumsMatchCount
    <3>2. \A d \in born[r] \cap Drum : d.winch = w =>
            \A c \in DrumsOf(w) : c.idx # d.idx
      BY <1>2 DEF LayoutOf, BornAlone
    <3>3. \A c, d \in born[r] \cap Drum : c.winch = w /\ d.winch = w /\ c.idx = d.idx => c = d
      <4>1. \A d \in born[r] \cap Drum : d.by = r
        BY DEF MadeOnce, MakerOf
      <4> QED
        BY <4>1 DEF Drum
    <3> QED
      BY <1>6, <3>1, <3>2, <3>3
  <2>2. count'[w] = 0 => Seen(r, w) = {}
    <3> SUFFICES ASSUME count'[w] = 0, NEW d \in Seen(r, w) PROVE FALSE
      OBVIOUS
    <3>1. d \in DrumsOf(w)
      BY <1>6, <1>11
    <3>2. count[w] # 0
      BY <3>1 DEF Layouts, DrumsMatchCount
    <3>3. w \in held[r] /\ req[r].want[w] = 0
      BY <1>1, <3>2
    <3> QED
      BY <1>2, <3>3 DEF LayoutOf, Emptied
  <2>3. ASSUME Uncrossed(w)' PROVE {d.idx : d \in Seen(r, w)} = 1..count'[w]
    <3>1. Uncrossed(w) /\ ~Crosses(r, w)
      BY <1>8, <2>3
    <3>2. CASE w \in held[r]
      <4>1. w \notin crossed[r]
        BY <1>2, <3>1 DEF LayoutOf, CrossedBy
      <4> QED
        BY <1>1, <1>9, <3>2, <4>1
    <3>3. CASE w \notin held[r]
      <4>1. Seen(r, w) = DrumsOf(w) /\ count'[w] = count[w]
        BY <1>1, <1>4, <1>10, <3>1, <3>3
      <4> QED
        BY <3>1, <4>1 DEF Layouts, DrumsMatchCount
    <3> QED
      BY <3>2, <3>3
  <2> QED
    BY <2>1, <2>2, <2>3
<1>13. ASSUME NEW x \in Saver, x # r PROVE LayoutOf(x)'
  <2>0. LayoutOf(x) /\ Same(x)
    BY <1>1, <1>13 DEF Layouts, LayoutOf
  <2>1. /\ Pending(x)' = Pending(x) /\ Open(x)' = Open(x)
        /\ DrumsClaimed(x)' /\ SurplusOnly(x)' /\ AllSaved(x)' /\ SaveHome(x)'
    BY <2>0, OwnFrame
  <2>2. NothingPending(x)'
    BY <1>1, <1>13, <2>0, <2>1 DEF LayoutOf, NothingPending, Same
  <2>3. Named(x)'
    BY <1>7, <2>0, NamedFrame DEF LayoutOf
  <2>4. \A w \in held[x] : w \notin held[r] /\ Open(x)
    BY <1>13, <2>0 DEF Layouts, HeldApart, LayoutOf, NothingPending
  <2>5. Adjusted(x)'
    <3> SUFFICES ASSUME NEW w \in (held[x] \cap Winch) \ crossed'[x]
                 PROVE  /\ 1..req[x].want[w] \subseteq
                             {e.idx : e \in Seen(x, w)' \cup {c \in lack[x] : c.winch = w}}
                        /\ \A d \in Seen(x, w)' : d.idx > req[x].want[w] => d \in Pending(x)
      BY <2>0, <2>1 DEF Adjusted, Same
    <3>1. w \notin crossed[x] /\ ~Crosses(r, w)
      BY <1>1, <1>13, <2>4
    <3>2. DrumsOf(w)' = DrumsOf(w)
      BY <1>10, <2>4, <3>1
    <3>3. Seen(x, w)' = Seen(x, w)
      BY <2>0, <3>2 DEF Seen, DrumsOf, VisiblePos, Same
    <3> QED
      BY <2>0, <3>1, <3>3 DEF LayoutOf, Adjusted
  <2>6. Locked(x)'
    <3> SUFFICES ASSUME NEW w \in kept[x], Home[w] = req[x].vessel, w \notin held[x]
                 PROVE  /\ Maker[w] # x /\ count'[w] = 0
                        /\ \E d \in lack[x] : d.winch = w
      BY <2>0 DEF Locked, Same
    <3>1. Maker[w] # x /\ count[w] = 0 /\ \E d \in lack[x] : d.winch = w
      BY <2>0 DEF LayoutOf, Locked
    <3>2. w \in Winch /\ Open(x)
      BY <1>0, <2>0 DEF Typed, TypeOK, LayoutOf, NothingPending
    <3>3. w \notin held[r]
      <4> SUFFICES ASSUME w \in held[r] PROVE FALSE
        OBVIOUS
      <4>1. Maker[w] = r
        BY <1>2, <3>1, <3>2 DEF LayoutOf, LockedExist
      <4>2. Known(x, w)
        BY <2>0, <3>2 DEF LayoutOf, Named
      <4> QED
        BY <1>0, <1>1, <1>13, <4>1, <4>2 DEF Known
    <3> QED
      BY <1>1, <3>1, <3>2, <3>3
  <2>7. LockedExist(x)'
    BY <1>1, <2>0, <2>4 DEF LayoutOf, LockedExist, Same
  <2>8. Emptied(x)'
    <3> SUFFICES ASSUME NEW w \in held[x] \cap Winch, req[x].want[w] = 0,
                        NEW d \in Seen(x, w)'
                 PROVE  FALSE
      BY <2>0 DEF Emptied, Same
    <3>1. Seen(x, w) = {}
      BY <2>0 DEF LayoutOf, Emptied
    <3>2. d \in born[r] \cap Drum /\ d.winch = w
      BY <1>1, <2>0, <3>1 DEF Seen, VisiblePos, Same
    <3>3. x \in Unmakers(w)
      BY DEF Unmakers
    <3> QED
      BY <1>2, <3>2, <3>3 DEF LayoutOf, BornAlone
  <2>9. CrossedBy(x)'
    <3> SUFFICES ASSUME NEW w \in crossed'[x] PROVE ~Uncrossed(w)'
      BY DEF CrossedBy
    <3>1. crossed[x] \subseteq Winch
      BY <1>0 DEF Typed, TypeOK
    <3>2. w \in Winch /\ (w \in crossed[x] \/ Crosses(r, w))
      BY <1>1, <1>13, <3>1
    <3> QED
      BY <1>8, <2>0, <3>2 DEF LayoutOf, CrossedBy
  <2>10. BornAlone(x)'
    <3> SUFFICES ASSUME NEW d \in born[x] \cap Drum
                 PROVE  /\ Maker[d.winch] = x \/ count'[d.winch] > 0
                        /\ Unmakers(d.winch)' = {}
                        /\ \A c \in DrumsOf(d.winch)' : c.idx # d.idx
                        /\ \A y \in Saver \ {x} : \A c \in born'[y] \cap Drum :
                             c.winch = d.winch => c.idx # d.idx
      BY <2>0 DEF BornAlone, Same
    <3>1. d.winch \in Winch /\ BornAlone(x)
      BY <2>0 DEF Drum, LayoutOf
    <3>2. Unmakers(d.winch) = {}
      BY <3>1 DEF BornAlone
    <3>3. Unmakers(d.winch)' = {}
      BY <1>1, <3>2 DEF Unmakers, Same
    <3>4. d.winch \in held[r] => count'[d.winch] > 0
      BY <1>1, <1>5, <3>1, <3>2 DEF Unmakers
    <3>5. Maker[d.winch] = x \/ count'[d.winch] > 0
      BY <1>1, <3>1, <3>4 DEF BornAlone
    <3>6. \A c \in DrumsOf(d.winch)' : c.idx # d.idx
      BY <1>4, <1>6, <1>13, <3>1 DEF BornAlone
    <3>7. \A y \in Saver : born'[y] \subseteq born[y]
      BY <1>1 DEF Same
    <3> QED
      BY <3>1, <3>3, <3>5, <3>6, <3>7 DEF BornAlone
  <2> QED
    BY <2>1, <2>2, <2>3, <2>5, <2>6, <2>7, <2>8, <2>9, <2>10 DEF LayoutOf
<1>14. LayoutOf(r)'
  BY <1>1, <1>3, EndedLayout DEF Open
<1>15. HeldApart'
  BY <1>1 DEF Layouts, HeldApart, Same
<1>16. Unmade'
  <2> SUFFICES ASSUME NEW w \in Winch, count'[w] > 0
               PROVE  Maker[w] = Boot \/ pc'[Maker[w]] = "done"
    BY DEF Unmade
  <2>1. Maker[w] = r \/ count[w] > 0
    BY <1>1, <1>2 DEF LayoutOf, LockedExist
  <2>2. CASE Maker[w] = r
    BY <1>1, <2>2
  <2>3. CASE count[w] > 0
    <3>1. Maker[w] = Boot \/ (Maker[w] \in Saver /\ pc[Maker[w]] = "done")
      BY <2>3 DEF Layouts, Unmade
    <3> QED
      BY <1>7, <3>1 DEF EndedStay
  <2> QED
    BY <2>1, <2>2, <2>3
<1>17. Layouts'
  BY <1>12, <1>13, <1>14, <1>15, <1>16 DEF Layouts, LayoutOf
<1>18. ASSUME NEW w \in Winch, req[r].want[w] > 0, Home[w] = req[r].vessel,
              w \notin crossed[r]
       PROVE  /\ count'[w] = req[r].want[w]
              /\ {d.idx : d \in DrumsOf(w)'} = 1..req[r].want[w]
  <2>1. w \in kept[r]
    BY <1>1, <1>2, <1>18 DEF LayoutOf, AllSaved, Unsaved
  <2>2. w \in held[r]
    BY <1>2, <1>3, <1>18, <2>1 DEF LayoutOf, Locked
  <2> QED
    BY <1>1, <1>4, <1>9, <1>18, <2>2
<1> QED
  BY <1>17, <1>18

\* Nothing is locked or pending when the server starts, and the seeder gives a
\* winch the drums its drum_count says.
LEMMA InitLayouts == Init => Layouts
<1> SUFFICES ASSUME Init PROVE Layouts
  OBVIOUS
<1> USE ConstantsAssumption DEF Init
<1>1. ASSUME NEW r \in Saver PROVE LayoutOf(r)
  <2>1. /\ r \in Request /\ pc[r] = "idle" /\ born[r] = {} /\ gone[r] = {}
        /\ held[r] = {} /\ kept[r] = {} /\ lack[r] = {} /\ drop[r] = {}
        /\ unit[r] = None /\ crossed[r] = {}
    BY DEF Request
  <2>2. Pending(r) = {}
    BY <2>1 DEF Pending
  <2> QED
    BY <2>1, <2>2 DEF LayoutOf, NothingPending, Named, DrumsClaimed, SurplusOnly,
       Adjusted, Locked, LockedExist, Emptied, AllSaved, SaveHome, CrossedBy, BornAlone,
       Open
<1>2. HeldApart
  BY DEF HeldApart, Request
<1>3. DrumsMatchCount
  <2> SUFFICES ASSUME NEW w \in Winch
               PROVE  /\ {d.idx : d \in DrumsOf(w)} = 1..count[w]
                      /\ \A c, d \in DrumsOf(w) : c.idx = d.idx => c = d
                      /\ count[w] = 0 => DrumsOf(w) = {}
    BY DEF DrumsMatchCount
  <2>1. SeedDrums[w] \in 0..MaxDrums
    OBVIOUS
  <2>2. ASSUME NEW d \in DrumsOf(w)
        PROVE  d.idx \in 1..SeedDrums[w] /\ d = [winch |-> w, idx |-> d.idx, by |-> Boot]
    <3>1. /\ d \in [winch : Winch, idx : 1..MaxDrums, by : {Boot}]
          /\ d.idx <= SeedDrums[d.winch] /\ d.winch = w
      BY DEF DrumsOf
    <3> QED
      BY <2>1, <3>1
  <2>3. ASSUME NEW i \in 1..SeedDrums[w]
        PROVE  \E d \in DrumsOf(w) : d.idx = i
    <3>1. [winch |-> w, idx |-> i, by |-> Boot] \in DrumsOf(w)
      BY <2>1 DEF DrumsOf, Drum
    <3> QED
      BY <3>1
  <2>4. {d.idx : d \in DrumsOf(w)} = 1..SeedDrums[w]
    BY <2>2, <2>3
  <2>5. \A c, d \in DrumsOf(w) : c.idx = d.idx => c = d
    BY <2>2
  <2>6. SeedDrums[w] = 0 => DrumsOf(w) = {}
    BY <2>2
  <2> QED
    BY <2>4, <2>5, <2>6
<1>4. Unmade
  BY DEF Unmade
<1> QED
  BY <1>1, <1>2, <1>3, <1>4 DEF Layouts, LayoutOf

\* Every step keeps the layout invariant.
LEMMA LayoutsInductive ==
  Typed /\ Safe /\ Layouts /\ MadeOnce /\ [Next]_vars => Layouts'
<1> SUFFICES ASSUME Typed, Safe, Layouts, MadeOnce, [Next]_vars PROVE Layouts'
  OBVIOUS
<1>1. CASE UNCHANGED vars
  BY <1>1, CalmLayouts DEF Calm, Rests, Same, vars, tables, layout
<1>2. ASSUME NEW r \in Request, Step(r) \/ Cancel(r)
      PROVE  Layouts'
  <2>1. CASE r \in Mover \cup Registrar
    <3>1. r \notin Saver /\ ~(r \in Mover /\ r \in Registrar)
      BY <2>1, ConstantsAssumption
    <3> QED
      BY <1>2, <2>1, <3>1, CalmSteps, CalmLayouts DEF Step, Cancel, Deadlock
  <2>2. CASE r \in Saver
    <3>1. r \notin Mover /\ r \notin Registrar
      BY <2>2, ConstantsAssumption
    <3>2. CASE SaveStep(r)
      <4>1. ASSUME NEW l \in Line, SetNull(r, l) PROVE Calm
        BY <4>1 DEF SetNull, Calm, Rests, Same, tables, layout
      <4> QED
        BY <2>2, <3>2, <4>1, CalmLayouts, SaveBeginLayouts, SaveWinchLayouts,
           InsertDrumLayouts, ListWinchesLayouts, SaveStoreLayouts, ListStoresLayouts,
           CheckEmptyLayouts, RemoveLayouts DEF SaveStep
    <3>3. CASE Emit(r) \/ Commit(r)
      BY <2>2, <3>3, EmitLayouts, CommitLayouts
    <3>4. CASE Open(r) /\ Fail(r)
      BY <2>2, <3>4, FailLayouts DEF Open
    <3> QED
      BY <1>2, <3>1, <3>2, <3>3, <3>4 DEF Step, Cancel, Deadlock
  <2> QED
    BY <2>1, <2>2 DEF Request
<1> QED
  BY <1>1, <1>2 DEF Next, Finished

(***************************************************************************)
(* What any step leaves alone, and what the three kinds of commit write.   *)
(***************************************************************************)

\* What a step of r may change: the tables only when it commits, the event
\* ids only when it writes its event, its argument only when it begins.
StepEffect(r) ==
  /\ Alone(r) /\ pc[r] \notin {"done", "failed"}
  /\ Commit(r) \/ (pc'[r] # "done" /\ UNCHANGED <<line, pos, count>>)
  /\ Emit(r) \/ (pc'[r] = "commit" => pc[r] = "commit")
  /\ Emit(r) \/ ( /\ nextId' = nextId
                  /\ \A x \in Request : x # r => stamp'[x] = stamp[x]
                  /\ stamp'[r] \in {stamp[r], 0}
                  /\ pc'[r] # "failed" => stamp' = stamp)
  /\ pc[r] # "idle" /\ pc'[r] # "failed" => req'[r] = req[r]

\* Every step of the server is like that.
LEMMA StepFrame ==
  ASSUME Typed, NEW r \in Request, Step(r) \/ Cancel(r)
  PROVE  StepEffect(r)
<1> USE ConstantsAssumption DEF Typed, StepEffect
<1>1. CASE Fail(r) /\ pc[r] \notin {"done", "failed"}
  BY <1>1 DEF Fail, Alone, TypeOK, tables
<1>2. CASE Commit(r)
  BY <1>2 DEF Commit, Goto, Alone, TypeOK, events
<1>3. CASE Emit(r)
  BY <1>3 DEF Emit, Goto, Alone, TypeOK, tables, layout
<1> USE DEF Alone, TypeOK, Goto, tables, layout, events
<1>6. CASE r \in Mover /\ MoveStep(r)
  <2>1. CASE MoveBegin(r)
    BY <1>1, <2>1 DEF MoveBegin
  <2>2. CASE MoveLock(r)
    BY <2>2 DEF MoveLock
  <2>3. CASE MoveIndex(r)
    BY <1>1, <2>3 DEF MoveIndex
  <2>4. CASE MoveRef(r)
    BY <1>1, <2>4 DEF MoveRef
  <2> QED
    BY <1>6, <2>1, <2>2, <2>3, <2>4 DEF MoveStep
<1>7. CASE r \in Registrar /\ RegisterStep(r)
  <2>1. CASE RegisterBegin(r)
    BY <2>1 DEF RegisterBegin
  <2>2. CASE RegisterInsert(r)
    BY <1>1, <2>2 DEF RegisterInsert
  <2> QED
    BY <1>7, <2>1, <2>2 DEF RegisterStep
<1>8. CASE r \in Saver /\ SaveStep(r)
  <2>1. CASE SaveBegin(r)
    BY <2>1 DEF SaveBegin
  <2>2. ASSUME NEW w \in Winch, SaveWinch(r, w) PROVE StepEffect(r)
    BY <1>1, <2>2 DEF SaveWinch
  <2>9. ASSUME NEW d \in lack[r], InsertDrum(r, d) PROVE StepEffect(r)
    BY <1>1, <2>9 DEF InsertDrum, Open
  <2>3. CASE ListWinches(r)
    BY <2>3 DEF ListWinches
  <2>4. ASSUME NEW s \in Storage, SaveStore(r, s) PROVE StepEffect(r)
    BY <2>4 DEF SaveStore
  <2>5. CASE ListStores(r)
    BY <2>5 DEF ListStores
  <2>6. ASSUME NEW u \in drop[r], CheckEmpty(r, u) PROVE StepEffect(r)
    BY <1>1, <2>6 DEF CheckEmpty, Open
  <2>7. CASE Remove(r)
    BY <2>7 DEF Remove, Open
  <2>8. ASSUME NEW l \in Line, SetNull(r, l) PROVE StepEffect(r)
    BY <2>8 DEF SetNull, Open
  <2> QED
    BY <1>8, <2>1, <2>2, <2>3, <2>4, <2>5, <2>6, <2>7, <2>8, <2>9 DEF SaveStep
<1> QED
  BY <1>1, <1>2, <1>3, <1>6, <1>7, <1>8 DEF Step, Cancel, Deadlock, Open

\* The commit of a move puts its line, and no other, at its target.
LEMMA MoveCommitted ==
  ASSUME Typed, Safe, NEW r \in Mover, Commit(r)
  PROVE  LET l == req[r].line
             p == req[r].to
         IN  /\ l \in Line /\ p \in pos /\ pos' = pos
             /\ line[l] # NoRow /\ HomeOf(p) = line[l].vessel
             /\ p \in Drum => \A k \in Line \ {l} : line[k].at # p
             /\ line' = [line EXCEPT ![l] = [vessel |-> line[l].vessel,
                                             life |-> LifeAt(p), at |-> p]]
<1> USE ConstantsAssumption DEF Typed, Safe
<1>0. r \in Request
  BY DEF Request
<1> DEFINE l == req[r].line
           p == req[r].to
           row == [vessel |-> line[l].vessel, life |-> LifeAt(p), at |-> p]
<1>1. /\ pc[r] = "commit" /\ pos' = (pos \cup born[r]) \ gone[r]
      /\ \A k \in Line : line'[k] = IF mine[r][k] # NoRow THEN mine[r][k] ELSE line[k]
  BY <1>0, CommitEffect
<1>2. l \in Line /\ p \in Position
  BY <1>1 DEF Kinds, MoveReq
<1>3. /\ line[l] # NoRow /\ HomeOf(p) = line[l].vessel
      /\ mine[r][l] = row /\ \A k \in Line : k # l => mine[r][k] = NoRow
  BY <1>1 DEF MoverRows, Open
<1>4. row # NoRow
  <2>1. LifeAt(p) # "none"
    BY DEF LifeAt
  <2> QED
    BY <2>1 DEF NoRow
<1>5. line' \in [Line -> Row] /\ line \in [Line -> Row]
  BY <1>0, CommitTyped DEF TypeOK
<1>6. line' = [line EXCEPT ![l] = row]
  <2>1. \A k \in Line : line'[k] = IF k = l THEN row ELSE line[k]
    BY <1>1, <1>2, <1>3, <1>4
  <2> QED
    BY <1>2, <1>5, <2>1
<1>7. p \in pos /\ (p \in Drum => \A k \in Line \ {l} : line[k].at # p)
  BY <1>1 DEF RefHeld, KeyHeld, Indexed
<1>8. pos' = pos
  BY <1>1 DEF Kinds
<1> QED
  BY <1>2, <1>3, <1>6, <1>7, <1>8

\* The commit of a registration adds one row, with no place.
LEMMA RegisterCommitted ==
  ASSUME Typed, Safe, NEW r \in Registrar, Commit(r)
  PROVE  LET l == req[r].line
         IN  /\ l \in Line /\ line[l] = NoRow /\ pos' = pos
             /\ req[r].vessel \in Vessel /\ req[r].life # "none"
             /\ line' = [line EXCEPT ![l] = [vessel |-> req[r].vessel,
                                             life |-> req[r].life, at |-> None]]
<1> USE ConstantsAssumption DEF Typed, Safe
<1>0. r \in Request
  BY DEF Request
<1> DEFINE l == req[r].line
           row == [vessel |-> req[r].vessel, life |-> req[r].life, at |-> None]
<1>1. /\ pc[r] = "commit" /\ pos' = (pos \cup born[r]) \ gone[r]
      /\ \A k \in Line : line'[k] = IF mine[r][k] # NoRow THEN mine[r][k] ELSE line[k]
  BY <1>0, CommitEffect
<1>2. l \in Line /\ req[r].vessel \in Vessel /\ req[r].life # "none"
  BY <1>1 DEF Kinds, RegisterReq, Lifecycle
<1>3. /\ line[l] = NoRow
      /\ mine[r][l] = row /\ \A k \in Line : k # l => mine[r][k] = NoRow
  BY <1>1 DEF RegistrarRows
<1>4. row # NoRow
  BY <1>2 DEF NoRow
<1>5. line' \in [Line -> Row] /\ line \in [Line -> Row]
  BY <1>0, CommitTyped DEF TypeOK
<1>6. line' = [line EXCEPT ![l] = row]
  <2>1. \A k \in Line : line'[k] = IF k = l THEN row ELSE line[k]
    BY <1>1, <1>2, <1>3, <1>4
  <2> QED
    BY <1>2, <1>5, <2>1
<1>7. pos' = pos
  BY <1>1 DEF Kinds
<1> QED
  BY <1>2, <1>3, <1>6, <1>7

\* The commit of a save takes their place from the lines on what it deleted,
\* and touches no other.
LEMMA SaveCommitted ==
  ASSUME Typed, Safe, NEW r \in Saver, Commit(r)
  PROVE  /\ pc[r] = "commit" /\ pos' = (pos \cup born[r]) \ gone[r]
         /\ line' = [l \in Line |-> IF line[l].at \in gone[r] THEN Unplaced(line[l])
                                                               ELSE line[l]]
<1> USE ConstantsAssumption DEF Typed, Safe
<1>0. r \in Request
  BY DEF Request
<1>1. /\ pc[r] = "commit" /\ pos' = (pos \cup born[r]) \ gone[r]
      /\ \A k \in Line : line'[k] = IF mine[r][k] # NoRow THEN mine[r][k] ELSE line[k]
  BY <1>0, CommitEffect
<1>2. \A k \in Line : line'[k] = IF line[k].at \in gone[r] THEN Unplaced(line[k])
                                                            ELSE line[k]
  BY <1>1 DEF SaverRows, SettledAtCommit, Settled, ToNull
<1>3. line' \in [Line -> Row]
  BY <1>0, CommitTyped DEF TypeOK
<1> QED
  BY <1>1, <1>2, <1>3

(***************************************************************************)
(* A line nobody moved.                                                    *)
(***************************************************************************)

\* No move of line l has been committed.
Still(l) == \A m \in Mover : pc[m] = "done" => req[m].line # l

\* What has ended has ended, and what it was asked for is known.
LEMMA DoneStays ==
  ASSUME NEW r \in Request, StepEffect(r),
         NEW x \in Request, pc[x] = "done"
  PROVE  pc'[x] = "done" /\ req'[x] = req[x]
BY DEF StepEffect, Alone

\* A step that leaves lines where they are, or moves them, and removes
\* nothing new, keeps the promise.
LEMMA UnmovedFrame ==
  ASSUME Unmoved, TypeOK,
         \A l \in Line : line'[l].at # None /\ Still(l)' =>
           line'[l].at = line[l].at /\ Still(l),
         \A x \in Saver : gone'[x] \subseteq gone[x] /\ unit'[x] \in {unit[x], None}
  PROVE  Unmoved'
<1> SUFFICES ASSUME NEW l \in Line, line'[l].at # None, Still(l)', NEW x \in Saver
             PROVE  /\ line'[l].at \notin gone'[x]
                    /\ line'[l].at # unit'[x]
                    /\ line'[l].at \in Drum => line'[l].at.winch # unit'[x]
  BY DEF Unmoved, Still
<1>1. /\ line[l].at \notin gone[x] /\ line[l].at # unit[x]
      /\ line[l].at \in Drum => line[l].at.winch # unit[x]
  BY DEF Unmoved, Still
<1>2. line[l].at \in Drum => line[l].at.winch # None
  BY ConstantsAssumption DEF Drum
<1> QED
  BY <1>1, <1>2

\* The step of a save that reads, waits or deletes.
LEMMA UnmovedSave ==
  ASSUME Typed, Safe, Unmoved, NEW r \in Saver, SaveStep(r)
  PROVE  Unmoved'
<1> USE ConstantsAssumption
<1>0. r \in Request /\ Saver \subseteq Request /\ Mover \subseteq Request /\ TypeOK
      /\ r \notin Mover
  BY DEF Request, Typed
<1>1. ASSUME line' = line,
             \A x \in Mover : pc'[x] = pc[x] /\ req'[x] = req[x],
             \A x \in Saver : gone'[x] \subseteq gone[x] /\ unit'[x] \in {unit[x], None}
      PROVE  Unmoved'
  BY <1>0, <1>1, UnmovedFrame DEF Still
<1>2. CASE Fail(r)
  BY <1>0, <1>1, <1>2 DEF Fail, tables, TypeOK
<1>3. CASE SaveBegin(r) \/ ListWinches(r) \/ ListStores(r)
  <2>1. CASE SaveBegin(r)
    BY <1>0, <1>1, <2>1 DEF SaveBegin, Goto, tables, layout, TypeOK
  <2>2. CASE ListWinches(r)
    BY <1>0, <1>1, <2>2 DEF ListWinches, Goto, tables, TypeOK
  <2>3. CASE ListStores(r)
    BY <1>0, <1>1, <2>3 DEF ListStores, Goto, tables, TypeOK
  <2> QED
    BY <1>3, <2>1, <2>2, <2>3
<1>4. ASSUME NEW w \in Winch, SaveWinch(r, w) PROVE Unmoved'
  BY <1>1, <1>4 DEF SaveWinch, tables
<1>10. ASSUME NEW d \in lack[r], InsertDrum(r, d) PROVE Unmoved'
  BY <1>1, <1>2, <1>10 DEF InsertDrum, tables
<1>5. ASSUME NEW s \in Storage, SaveStore(r, s) PROVE Unmoved'
  BY <1>1, <1>5 DEF SaveStore, tables
<1>6. ASSUME NEW l \in Line, SetNull(r, l) PROVE Unmoved'
  BY <1>1, <1>6 DEF SetNull, tables, layout
\* Where a line nobody moved is, as long as it is there, r sees it.
<1>7. ASSUME NEW l \in Line, line[l].at # None, Still(l),
             NEW u \in Winch \cup Position
      PROVE  /\ mine[r][l] = NoRow
             /\ \/ line[l].at \in Covered(r, u)
                \/ line[l].at # u /\ (line[l].at \in Drum => line[l].at.winch # u)
  <2>1. line[l].at \in pos /\ line[l].at \notin gone[r]
    BY <1>7 DEF Safe, Placements, PlacesExist, Unmoved, Still
  <2>2. mine[r][l] = NoRow
    BY <2>1 DEF Safe, SaverRows
  <2>3. line[l].at \in Position /\ (line[l].at \in Drum => line[l].at.winch \in Winch)
    BY <1>0, <2>1 DEF TypeOK, Drum
  <2>4. CASE u \in Winch
    <3>1. line[l].at # u
      BY <2>3, <2>4
    <3>2. CASE line[l].at \in Drum /\ line[l].at.winch = u
      BY <2>2, <2>1, <2>4, <3>2 DEF Covered, Seen, VisiblePos
    <3> QED
      BY <2>2, <3>1, <3>2
  <2>5. CASE u \notin Winch
    <3>1. line[l].at = u => line[l].at \in Covered(r, u)
      BY <2>1, <2>5 DEF Covered, VisiblePos
    <3> QED
      BY <2>2, <2>3, <2>5, <3>1
  <2> QED
    BY <2>2, <2>4, <2>5
<1>8. ASSUME NEW u \in drop[r], CheckEmpty(r, u) PROVE Unmoved'
  <2>1. CASE ~Fail(r)
    <3>1. /\ ~\E l \in Line : View(r, l).at \in Covered(r, u)
          /\ UNCHANGED <<line, pc, req, gone>>
          /\ unit' = [unit EXCEPT ![r] = u]
      BY <1>8, <2>1 DEF CheckEmpty, tables
    <3>2. u \in Winch \cup Position
      BY <1>0 DEF TypeOK
    <3> SUFFICES ASSUME NEW l \in Line, line[l].at # None, Still(l), NEW x \in Saver
                 PROVE  /\ line[l].at \notin gone[x]
                        /\ line[l].at # unit'[x]
                        /\ line[l].at \in Drum => line[l].at.winch # unit'[x]
      BY <3>1 DEF Unmoved, Still
    <3>3. line[l].at \notin Covered(r, u)
      BY <1>7, <3>1, <3>2 DEF View
    <3>4. line[l].at # u /\ (line[l].at \in Drum => line[l].at.winch # u)
      BY <1>7, <3>2, <3>3
    <3> QED
      BY <1>0, <3>1, <3>4 DEF Unmoved, Still, TypeOK
  <2> QED
    BY <1>2, <2>1
<1>9. CASE Remove(r)
  <2>1. /\ UNCHANGED <<line, pc, req>> /\ unit[r] # None
        /\ gone' = [gone EXCEPT ![r] = @ \cup Covered(r, unit[r])]
        /\ unit' = [unit EXCEPT ![r] = None]
    BY <1>9 DEF Remove, tables
  <2> SUFFICES ASSUME NEW l \in Line, line[l].at # None, Still(l), NEW x \in Saver
               PROVE  /\ line[l].at \notin gone'[x]
                      /\ line[l].at # unit'[x]
                      /\ line[l].at \in Drum => line[l].at.winch # unit'[x]
    BY <2>1 DEF Unmoved, Still
  <2>2. /\ line[l].at \notin gone[x] /\ line[l].at # unit[x]
        /\ line[l].at \in Drum => line[l].at.winch # unit[x]
    BY DEF Unmoved, Still
  <2>3. line[l].at \notin Covered(r, unit[r])
    BY DEF Unmoved, Still, Covered, Seen
  <2>4. line[l].at \in Drum => line[l].at.winch # None
    BY DEF Drum
  <2> QED
    BY <1>0, <2>1, <2>2, <2>3, <2>4 DEF TypeOK
<1> QED
  BY <1>3, <1>4, <1>5, <1>6, <1>8, <1>9, <1>10 DEF SaveStep

\* The commits keep the promise: a move makes its line a moved one, a
\* registration has no place, and a save clears only what it has deleted.
LEMMA UnmovedCommit ==
  ASSUME Typed, Safe, Unmoved, NEW r \in Request, Commit(r)
  PROVE  Unmoved'
<1> USE ConstantsAssumption
<1>0. TypeOK /\ Mover \subseteq Request /\ Saver \subseteq Request
  BY DEF Typed, Request
<1>1. /\ Alone(r) /\ pc[r] = "commit" /\ pc'[r] = "done" /\ gone'[r] = {}
      /\ req' = req /\ unit' = unit
  BY CommitEffect DEF Commit
<1>2. \A l \in Line : Still(l)' => Still(l)
  BY <1>0, <1>1 DEF Still, Alone
<1>3. \A x \in Saver : gone'[x] \subseteq gone[x]
  BY <1>0, <1>1 DEF Alone
<1>5. line \in [Line -> Row]
  BY <1>0 DEF TypeOK
<1>4. ASSUME NEW l \in Line, line'[l].at # None, Still(l)'
      PROVE  line'[l].at = line[l].at
  <2>1. CASE r \in Mover
    <3>1. req[r].line # l
      BY <1>1, <1>4, <2>1 DEF Still
    <3>2. \E row : line' = [line EXCEPT ![req[r].line] = row]
      BY <2>1, MoveCommitted
    <3> QED
      BY <1>5, <3>1, <3>2
  <2>2. CASE r \in Registrar
    <3>1. \E row : row.at = None /\ line' = [line EXCEPT ![req[r].line] = row]
      BY <2>2, RegisterCommitted
    <3> QED
      BY <1>4, <1>5, <3>1
  <2>3. CASE r \in Saver
    BY <1>4, <2>3, SaveCommitted DEF Unplaced
  <2> QED
    BY <2>1, <2>2, <2>3 DEF Request
<1> QED
  BY <1>0, <1>1, <1>2, <1>3, <1>4, UnmovedFrame

\* Every step keeps the promise to the lines nobody moved.
LEMMA UnmovedInductive == Typed /\ Safe /\ Unmoved /\ [Next]_vars => Unmoved'
<1> SUFFICES ASSUME Typed, Safe, Unmoved, [Next]_vars PROVE Unmoved'
  OBVIOUS
<1>0. TypeOK
  BY DEF Typed
<1>1. CASE UNCHANGED vars
  BY <1>0, <1>1, UnmovedFrame DEF Still, vars, tables, layout
<1>2. ASSUME NEW r \in Request, Step(r) \/ Cancel(r)
      PROVE  Unmoved'
  <2>1. CASE Commit(r)
    BY <2>1, UnmovedCommit
  <2>2. CASE r \in Saver /\ SaveStep(r)
    BY <2>2, UnmovedSave
  <2>3. CASE ~Commit(r) /\ ~(r \in Saver /\ SaveStep(r))
    <3>1. StepEffect(r)
      BY <1>2, StepFrame
    <3>2. line' = line /\ pc'[r] # "done" /\ Alone(r) /\ pc[r] # "done"
      BY <2>3, <3>1 DEF StepEffect
    <3>3. \A l \in Line : Still(l)' => Still(l)
      BY <3>2 DEF Still, Alone, Request
    <3>4. \A x \in Saver : gone'[x] \subseteq gone[x] /\ unit'[x] \in {unit[x], None}
      <4>1. CASE r \in Mover \cup Registrar
        <5>1. r \notin Saver /\ ~(r \in Mover /\ r \in Registrar)
          BY <4>1, ConstantsAssumption
        <5>2. Calm
          BY <1>2, <2>3, <4>1, <5>1, CalmSteps DEF Step, Cancel, Deadlock
        <5> QED
          BY <5>2 DEF Calm, Rests, Same
      <4>2. CASE r \in Saver
        <5>1. r \notin Mover /\ r \notin Registrar
          BY <4>2, ConstantsAssumption
        <5>2. Emit(r) \/ Fail(r)
          BY <1>2, <2>3, <5>1 DEF Step, Cancel, Deadlock
        <5> QED
          BY <1>0, <5>2 DEF Emit, Fail, layout, TypeOK, Request
      <4> QED
        BY <4>1, <4>2 DEF Request
    <3> QED
      BY <1>0, <3>2, <3>3, <3>4, UnmovedFrame
  <2> QED
    BY <2>1, <2>2, <2>3
<1> QED
  BY <1>1, <1>2 DEF Next, Finished

(***************************************************************************)
(* The order of the outbox.                                                *)
(***************************************************************************)

\* A line that is registered stays registered.
LEMMA RowsStay ==
  ASSUME Typed, Safe, NEW r \in Request, StepEffect(r),
         NEW k \in Line, line[k] # NoRow
  PROVE  line'[k] # NoRow
<1> USE ConstantsAssumption
<1>1. line \in [Line -> Row]
  BY DEF Typed, TypeOK
<1>2. CASE ~Commit(r)
  BY <1>2 DEF StepEffect
<1>3. CASE Commit(r) /\ r \in Mover
  <2> DEFINE row == [vessel |-> line[req[r].line].vessel, life |-> LifeAt(req[r].to),
                     at |-> req[r].to]
  <2>1. line' = [line EXCEPT ![req[r].line] = row]
    BY <1>3, MoveCommitted
  <2>2. row # NoRow
    <3>1. LifeAt(req[r].to) # "none"
      BY DEF LifeAt
    <3> QED
      BY <3>1 DEF NoRow
  <2> HIDE DEF row
  <2> QED
    BY <1>1, <2>1, <2>2
<1>4. CASE Commit(r) /\ r \in Registrar
  <2> DEFINE row == [vessel |-> req[r].vessel, life |-> req[r].life, at |-> None]
  <2>1. line' = [line EXCEPT ![req[r].line] = row] /\ req[r].life # "none"
    BY <1>4, RegisterCommitted
  <2>2. row # NoRow
    BY <2>1 DEF NoRow
  <2> HIDE DEF row
  <2> QED
    BY <1>1, <2>1, <2>2
<1>5. CASE Commit(r) /\ r \in Saver
  <2>1. line'[k] = IF line[k].at \in gone[r] THEN Unplaced(line[k]) ELSE line[k]
    BY <1>5, SaveCommitted
  <2>2. CASE line[k].at \in gone[r]
    <3>1. line[k].at # None
      BY <2>2 DEF Typed, TypeOK
    <3>2. line[k].life # "none"
      BY <3>1 DEF Safe, Placements, PlacedLifecycle, LifeAt
    <3> QED
      BY <2>1, <2>2, <3>2 DEF Unplaced, NoRow
  <2> QED
    BY <2>1, <2>2
<1> QED
  BY <1>2, <1>3, <1>4, <1>5 DEF Request

\* A save inserts, and sets out to insert, only positions of its own making.
LEMMA BornMaker ==
  ASSUME Typed, MadeOnce, NEW r \in Request, Step(r) \/ Cancel(r),
         NEW x \in Saver, NEW p \in born'[x] \cup lack'[x]
  PROVE  MakerOf(p) = x
<1> USE ConstantsAssumption DEF MadeOnce
<1>0. Saver \subseteq Request /\ TypeOK
  BY DEF Request, Typed
<1>1. CASE p \in born[x] \cup lack[x]
  BY <1>1
<1>2. CASE p \notin born[x] \cup lack[x]
  <2>1. /\ ~Fail(r) /\ ~Commit(r) /\ ~Emit(r)
        /\ r \in Mover => ~MoveStep(r)
        /\ r \in Registrar => ~RegisterStep(r)
    <3>1. ~Fail(r)
      BY <1>0, <1>2 DEF Fail, TypeOK
    <3>2. ~Commit(r)
      BY <1>0, <1>2 DEF Commit, TypeOK
    <3>3. ~Emit(r)
      BY <1>2 DEF Emit, layout
    <3>4. r \in Mover => ~MoveStep(r)
      BY <1>2, <3>1 DEF MoveStep, MoveBegin, MoveLock, MoveIndex, MoveRef, layout
    <3>5. r \in Registrar => ~RegisterStep(r)
      BY <1>2, <3>1 DEF RegisterStep, RegisterBegin, RegisterInsert, layout
    <3> QED
      BY <3>1, <3>2, <3>3, <3>4, <3>5
  <2>2. r \in Saver /\ SaveStep(r)
    BY <2>1 DEF Step, Cancel, Deadlock
  <2>3. ASSUME NEW w \in Winch, SaveWinch(r, w) PROVE MakerOf(p) = x
    <3>1. /\ born' = born
          /\ \E missing \in SUBSET (1..req[r].want[w]) :
               lack' = [lack EXCEPT ![r] = [winch : {w}, idx : missing, by : {r}]]
      BY <2>3 DEF SaveWinch
    <3>2. lack' \in [Request -> SUBSET Drum]
      BY <2>2, SaveTyped DEF Typed, TypeOK
    <3>3. x = r /\ p \in lack'[r] /\ p.by = r
      BY <1>0, <1>2, <3>1 DEF TypeOK
    <3> QED
      BY <1>0, <3>2, <3>3 DEF MakerOf
  <2>4. ASSUME NEW d \in lack[r], InsertDrum(r, d) PROVE MakerOf(p) = x
    <3>1. /\ born' = [born EXCEPT ![r] = @ \cup {d}]
          /\ lack' = [lack EXCEPT ![r] = @ \ {d}]
      BY <2>1, <2>4 DEF InsertDrum
    <3>2. x = r /\ p = d
      BY <1>0, <1>2, <2>4, <3>1 DEF TypeOK
    <3> QED
      BY <2>2, <2>4, <3>2
  <2>5. ASSUME NEW s \in Storage, SaveStore(r, s) PROVE MakerOf(p) = x
    <3>1. lack' = lack /\ born' = [born EXCEPT ![r] = IF Maker[s] = r THEN @ \cup {s} ELSE @]
      BY <2>5 DEF SaveStore
    <3> QED
      BY <1>0, <1>2, <3>1 DEF TypeOK, MakerOf
  <2>6. CASE SaveBegin(r) \/ ListWinches(r) \/ ListStores(r) \/ Remove(r)
    BY <1>2, <2>6 DEF SaveBegin, ListWinches, ListStores, Remove, layout
  <2>7. ASSUME NEW u \in drop[r], CheckEmpty(r, u) PROVE MakerOf(p) = x
    BY <1>2, <2>1, <2>7 DEF CheckEmpty
  <2>8. ASSUME NEW l \in Line, SetNull(r, l) PROVE MakerOf(p) = x
    BY <1>2, <2>8 DEF SetNull, layout
  <2> QED
    BY <2>2, <2>3, <2>4, <2>5, <2>6, <2>7, <2>8 DEF SaveStep
<1> QED
  BY <1>1, <1>2

\* What was made stays made by a request that has ended.
LEMMA MadeOnceStep ==
  ASSUME Typed, Safe, MadeOnce, NEW r \in Request, Step(r) \/ Cancel(r)
  PROVE  MadeOnce'
<1> USE ConstantsAssumption
<1>0. /\ Saver \subseteq Request /\ Mover \subseteq Request /\ TypeOK
      /\ \A p \in Position : MakerOf(p) \in Saver \cup {Boot}
  BY DEF Request, Typed, MakerOf, Position, Drum
<1>1. StepEffect(r)
  BY StepFrame
<1>2. \A x \in Saver : pc[x] = "done" => pc'[x] = "done"
  BY <1>0, <1>1, DoneStays
<1>3. \A x \in Saver : \A p \in born'[x] \cup lack'[x] : MakerOf(p) = x
  BY BornMaker
<1>4. ASSUME NEW p \in pos' PROVE MakerOf(p) = Boot \/ pc'[MakerOf(p)] = "done"
  <2>1. CASE p \in pos
    BY <1>0, <1>2, <2>1 DEF MadeOnce, TypeOK
  <2>2. CASE p \notin pos
    <3>1. Commit(r) /\ p \in born[r] /\ pc'[r] = "done"
      BY <1>1, <1>4, <2>2, CommitEffect DEF StepEffect
    <3>2. r \in Saver
      BY <3>1 DEF Typed, Kinds, Request
    <3> QED
      BY <3>1, <3>2 DEF MadeOnce
  <2> QED
    BY <2>1, <2>2
<1>5. ASSUME NEW x \in Mover, pc'[x] \notin {"idle", "failed"}
      PROVE  MakerOf(req'[x].to) = Boot \/ pc'[MakerOf(req'[x].to)] = "done"
  <2>1. CASE pc[x] \notin {"idle", "failed"} /\ req'[x] = req[x]
    <3>1. req[x].to \in Position
      BY <2>1 DEF Typed, Kinds, MoveReq
    <3> QED
      BY <1>0, <1>2, <2>1, <3>1 DEF MadeOnce
  <2>2. CASE ~(pc[x] \notin {"idle", "failed"} /\ req'[x] = req[x])
    <3>1. x = r /\ pc[r] = "idle"
      BY <1>0, <1>1, <1>5, <2>2 DEF StepEffect, Alone
    <3>2. MoveBegin(r) /\ ~Fail(r)
      <4>1. ~Fail(r)
        BY <1>0, <1>5, <3>1 DEF Fail, TypeOK
      <4>2. r \notin Saver /\ r \notin Registrar
        BY <3>1
      <4> QED
        BY <3>1, <4>1, <4>2 DEF Step, Cancel, Deadlock, Emit, Commit, MoveStep, MoveLock,
           MoveIndex, MoveRef
    <3>3. PICK l \in Line, p \in Position :
            p \in pos /\ req' = [req EXCEPT ![r] = [kind |-> "move", line |-> l, to |-> p]]
      BY <3>2 DEF MoveBegin
    <3>4. req'[x].to \in pos
      BY <1>0, <3>1, <3>3 DEF TypeOK
    <3> QED
      BY <1>0, <1>2, <3>4 DEF MadeOnce, TypeOK
  <2> QED
    BY <2>1, <2>2
<1> QED
  BY <1>3, <1>4, <1>5 DEF MadeOnce

\* A request that commits a line holds its row.
LEMMA CommitHoldsRow ==
  ASSUME Typed, Safe, NEW r \in Mover \cup Registrar, pc[r] = "commit"
  PROVE  req[r].line \in Line /\ mine[r][req[r].line] # NoRow
<1>1. CASE r \in Mover
  <2>1. req[r].line \in Line
    BY <1>1 DEF Typed, Kinds, MoveReq
  <2>2. mine[r][req[r].line] = [vessel |-> line[req[r].line].vessel,
                                life |-> LifeAt(req[r].to), at |-> req[r].to]
    BY <1>1 DEF Safe, MoverRows, Open
  <2>3. LifeAt(req[r].to) # "none"
    BY DEF LifeAt
  <2> QED
    BY <2>1, <2>2, <2>3 DEF NoRow
<1>2. CASE r \in Registrar
  <2>1. req[r].line \in Line /\ req[r].life # "none"
    BY <1>2 DEF Typed, Kinds, RegisterReq, Lifecycle
  <2>2. mine[r][req[r].line] = [vessel |-> req[r].vessel, life |-> req[r].life,
                                at |-> None]
    BY <1>2 DEF Safe, RegistrarRows
  <2> QED
    BY <2>1, <2>2 DEF NoRow
<1> QED
  BY <1>1, <1>2

\* An event id taken under the row lock is the last one for that line.
LEMMA EventOrderStep ==
  ASSUME Typed, Safe, EventOrder, NEW r \in Request, Step(r) \/ Cancel(r)
  PROVE  EventOrder'
<1> USE ConstantsAssumption DEF EventOrder
<1>0. Mover \subseteq Request /\ Registrar \subseteq Request /\ TypeOK
  BY DEF Request, Typed
<1>1. StepEffect(r)
  BY StepFrame
<1>2. CASE Emit(r)
  <2>1. /\ nextId' = nextId + 1 /\ stamp'[r] = nextId /\ req' = req
        /\ \A x \in Request : x # r => stamp'[x] = stamp[x] /\ pc'[x] = pc[x]
        /\ pc'[r] = "commit"
    BY <1>0, <1>2 DEF Emit, Goto, TypeOK
  <2>2. \A x \in Request : stamp[x] \in Nat /\ nextId \in Nat
    BY <1>0 DEF TypeOK
  <2> QED
    BY <1>0, <2>1, <2>2
<1>3. CASE Commit(r)
  <2>1. /\ nextId' = nextId /\ stamp' = stamp /\ req' = req
        /\ \A x \in Request : x # r => pc'[x] = pc[x]
        /\ pc'[r] = "done" /\ pc[r] = "commit"
    BY <1>0, <1>3 DEF Commit, Goto, TypeOK, events
  <2>2. ASSUME NEW y \in Mover, pc[y] = "commit", y # r, r \in Mover \cup Registrar
        PROVE  req[y].line # req[r].line
    BY <1>0, <2>1, <2>2, CommitHoldsRow DEF Safe, RowLocks
  <2> QED
    BY <1>0, <2>1, <2>2
<1>4. CASE ~Emit(r) /\ ~Commit(r)
  <2>1. \A x \in Request : stamp[x] \in Nat /\ nextId \in Nat
    BY <1>0 DEF TypeOK
  <2>2. \A x \in Request : stamp'[x] < nextId'
    BY <1>1, <1>4, <2>1 DEF StepEffect
  <2>3. \A x \in Request : pc'[x] = "done" => /\ x # r /\ pc[x] = "done"
                                               /\ req'[x] = req[x] /\ stamp'[x] = stamp[x]
    BY <1>1, <1>4 DEF StepEffect, Alone
  <2>4. \A y \in Request : pc'[y] = "commit" => /\ pc[y] = "commit"
                                                 /\ req'[y] = req[y] /\ stamp'[y] = stamp[y]
    BY <1>1, <1>4 DEF StepEffect, Alone
  <2> QED
    BY <1>0, <2>2, <2>3, <2>4
<1> QED
  BY <1>2, <1>3, <1>4

\* Every step keeps the order of the outbox.
LEMMA OutboxStep ==
  ASSUME Typed, Safe, Outbox, NEW r \in Request, Step(r) \/ Cancel(r)
  PROVE  Outbox'
<1> USE ConstantsAssumption
<1>0. Mover \subseteq Request /\ Registrar \subseteq Request /\ TypeOK
  BY DEF Request, Typed
<1>1. StepEffect(r)
  BY StepFrame
<1>2. MadeOnce' /\ EventOrder'
  BY MadeOnceStep, EventOrderStep DEF Outbox
\* Who is done was done, or commits now; stamps do not change by that.
<1>3. ASSUME NEW x \in Request, pc'[x] = "done"
      PROVE  /\ req'[x] = req[x] /\ stamp'[x] = stamp[x]
             /\ pc[x] = "done" \/ (x = r /\ Commit(r))
  <2>1. CASE x = r
    <3>1. Commit(r)
      BY <1>1, <1>3, <2>1 DEF StepEffect
    <3> QED
      BY <2>1, <3>1 DEF Commit, events
  <2>2. CASE x # r
    <3>1. /\ pc'[x] = pc[x] /\ req'[x] = req[x]
      BY <1>1, <2>2 DEF StepEffect, Alone
    <3>2. stamp'[x] = stamp[x]
      BY <1>0, <1>1, <2>2 DEF StepEffect, Emit, TypeOK
    <3> QED
      BY <1>3, <3>1, <3>2
  <2> QED
    BY <2>1, <2>2
<1>4. MovedExists'
  <2> SUFFICES ASSUME NEW m \in Mover, pc'[m] = "done"
               PROVE  line'[req[m].line] # NoRow
    BY <1>0, <1>3 DEF MovedExists
  <2>1. req[m].line \in Line /\ line[req[m].line] # NoRow
    <3>1. CASE pc[m] = "done"
      BY <3>1 DEF Outbox, MovedExists, Typed, Kinds, MoveReq
    <3>2. CASE m = r /\ Commit(r)
      BY <3>2, MoveCommitted
    <3> QED
      BY <1>0, <1>3, <3>1, <3>2
  <2> QED
    BY <1>1, <2>1, RowsStay
<1>5. OutboxTracksPlacement'
  <2> SUFFICES ASSUME NEW m \in Mover, pc'[m] = "done"
               PROVE  /\ (\A x \in Mover : pc'[x] = "done" /\ req[x].line = req[m].line =>
                            stamp[x] <= stamp[m]) =>
                            \/ line'[req[m].line].at = req[m].to
                            \/ line'[req[m].line].at = None /\ req[m].to \notin pos'
                      /\ \A x \in Registrar :
                           pc'[x] = "done" /\ req[x].line = req[m].line
                             => stamp[x] < stamp[m]
    BY <1>0, <1>3 DEF OutboxTracksPlacement
  <2>1. CASE m = r /\ Commit(r)
    <3>1. pc[r] = "commit"
      BY <2>1 DEF Commit
    <3>2. line'[req[m].line].at = req[m].to
      <4> DEFINE row == [vessel |-> line[req[m].line].vessel, life |-> LifeAt(req[m].to),
                         at |-> req[m].to]
      <4>1. req[m].line \in Line /\ line' = [line EXCEPT ![req[m].line] = row]
        BY <2>1, MoveCommitted
      <4>2. line \in [Line -> Row]
        BY <1>0 DEF TypeOK
      <4>3. line'[req[m].line] = row
        BY <4>1, <4>2
      <4> QED
        BY <4>3
    <3>3. \A x \in Registrar : pc'[x] = "done" => pc[x] = "done"
      BY <1>0, <1>3, <2>1
    <3> QED
      BY <2>1, <3>1, <3>2, <3>3 DEF Outbox, EventOrder
  <2>2. CASE pc[m] = "done"
    <3> DEFINE l == req[m].line
               p == req[m].to
    <3>1. /\ l \in Line /\ line[l] # NoRow /\ p \in Position
          /\ MakerOf(p) = Boot \/ pc[MakerOf(p)] = "done"
      BY <2>2 DEF Outbox, MovedExists, MadeOnce, Typed, Kinds, MoveReq
    <3>2. \A x \in Request : pc[x] = "done" => pc'[x] = "done"
      BY <1>1, DoneStays
    <3>3. ASSUME NEW x \in Registrar, pc'[x] = "done", req[x].line = l
          PROVE  stamp[x] < stamp[m]
      <4>1. ~(x = r /\ Commit(r))
        BY <3>1, <3>3, RegisterCommitted
      <4> QED
        BY <1>0, <1>3, <2>2, <3>3, <4>1 DEF Outbox, OutboxTracksPlacement
    <3>4. ASSUME \A x \in Mover : pc'[x] = "done" /\ req[x].line = l =>
                   stamp[x] <= stamp[m]
          PROVE  \/ line'[l].at = p
                 \/ line'[l].at = None /\ p \notin pos'
      <4>1. line[l].at = p \/ (line[l].at = None /\ p \notin pos)
        BY <1>0, <2>2, <3>2, <3>4 DEF Outbox, OutboxTracksPlacement
      <4>2. CASE ~Commit(r)
        BY <1>1, <4>1, <4>2 DEF StepEffect
      <4>3. CASE Commit(r) /\ r \in Mover
        <5>1. req[r].line # l
          <6>1. pc'[r] = "done" /\ pc[r] = "commit"
            BY <4>3, CommitEffect
          <6>2. stamp[r] \in Nat /\ stamp[m] \in Nat
            BY <1>0 DEF TypeOK
          <6>3. req[r].line = l => stamp[m] < stamp[r] /\ stamp[r] <= stamp[m]
            BY <2>2, <3>4, <4>3, <6>1 DEF Outbox, EventOrder
          <6> QED
            BY <6>2, <6>3
        <5>2. pos' = pos /\ \E row : line' = [line EXCEPT ![req[r].line] = row]
          BY <4>3, MoveCommitted
        <5>3. line'[l] = line[l]
          BY <1>0, <3>1, <5>1, <5>2 DEF TypeOK
        <5> QED
          BY <4>1, <5>2, <5>3
      <4>4. CASE Commit(r) /\ r \in Registrar
        <5>1. /\ pos' = pos /\ line[req[r].line] = NoRow
              /\ \E row : line' = [line EXCEPT ![req[r].line] = row]
          BY <4>4, RegisterCommitted
        <5>2. line'[l] = line[l]
          BY <1>0, <3>1, <5>1 DEF TypeOK
        <5> QED
          BY <4>1, <5>1, <5>2
      <4>5. CASE Commit(r) /\ r \in Saver
        <5>1. /\ pc[r] = "commit" /\ pos' = (pos \cup born[r]) \ gone[r]
              /\ line'[l] = IF line[l].at \in gone[r] THEN Unplaced(line[l]) ELSE line[l]
          BY <3>1, <4>5, SaveCommitted
        <5>2. p \notin born[r]
          BY <3>1, <4>5, <5>1 DEF Outbox, MadeOnce, Request
        <5>3. None \notin gone[r]
          BY <1>0 DEF TypeOK
        <5> QED
          BY <4>1, <5>1, <5>2, <5>3 DEF Unplaced
      <4> QED
        BY <4>2, <4>3, <4>4, <4>5 DEF Request
    <3> QED
      BY <3>3, <3>4
  <2> QED
    BY <1>0, <1>3, <2>1, <2>2
<1> QED
  BY <1>2, <1>4, <1>5 DEF Outbox

\* Nothing has been moved or emitted when the server starts.
LEMMA InitOutbox == Init => Outbox
<1> SUFFICES ASSUME Init PROVE Outbox
  OBVIOUS
<1> USE ConstantsAssumption DEF Init
<1>1. MadeOnce
  <2>1. \A p \in pos : MakerOf(p) = Boot
    BY DEF MakerOf, Drum
  <2> QED
    BY <2>1 DEF MadeOnce, Request
<1>2. EventOrder
  BY DEF EventOrder, Request
<1>3. MovedExists /\ OutboxTracksPlacement
  BY DEF MovedExists, OutboxTracksPlacement, Request
<1> QED
  BY <1>1, <1>2, <1>3 DEF Outbox

(***************************************************************************)
(* The theorems.                                                           *)
(***************************************************************************)

\* Every step keeps the order of the outbox.
LEMMA OutboxInductive == Typed /\ Safe /\ Outbox /\ [Next]_vars => Outbox'
<1> SUFFICES ASSUME Typed, Safe, Outbox, [Next]_vars PROVE Outbox'
  OBVIOUS
<1>1. CASE UNCHANGED vars
  BY <1>1 DEF Outbox, MadeOnce, EventOrder, MovedExists, OutboxTracksPlacement,
     vars, tables, layout, events
<1>2. ASSUME NEW r \in Request, Step(r) \/ Cancel(r)
      PROVE  Outbox'
  BY <1>2, OutboxStep
<1> QED
  BY <1>1, <1>2 DEF Next, Finished

\* The inductive invariant holds of every behaviour of the server.
THEOREM Invariant == Spec => []IInv
<1>1. Init => Typed /\ Safe /\ Layouts /\ Unmoved /\ Outbox
  <2>1. Init => Unmoved
    <3> SUFFICES ASSUME Init PROVE Unmoved
      OBVIOUS
    <3> USE ConstantsAssumption
    <3>1. \A r \in Saver : gone[r] = {} /\ unit[r] = None
      BY DEF Init, Request
    <3>2. \A d \in Drum : d.winch # None
      BY DEF Drum
    <3> QED
      BY <3>1, <3>2 DEF Unmoved
  <2> QED
    BY <2>1, InitTyped, InitSafe, InitLayouts, InitOutbox
<1>2. Typed /\ Safe /\ Layouts /\ Unmoved /\ Outbox /\ [Next]_vars
        => (Typed /\ Safe /\ Layouts /\ Unmoved /\ Outbox)'
  <2>1. Outbox => MadeOnce
    BY DEF Outbox
  <2> QED
    BY <2>1, TypesInductive, SafeInductive, LayoutsInductive, UnmovedInductive,
       OutboxInductive
<1>3. Typed /\ Safe /\ Layouts /\ Unmoved /\ Outbox => IInv
  BY DEF Typed, Safe, IInv
<1> QED
  BY <1>1, <1>2, <1>3, PTL DEF Spec

\* However many editors save at once, and for whichever vessel: no two drums of
\* a winch have one idx, no drum outlives its winch, and a winch that no save of
\* another vessel has touched has the drums its drum_count says, and no others.
THEOREM CountsMatch == Spec => []DrumsMatchCount
<1>1. IInv => DrumsMatchCount
  BY DEF IInv, Layouts
<1> QED
  BY <1>1, Invariant, PTL

\* Replaying the outbox by event id ends, for every line that was moved and
\* whose last position has not been removed, where the database is. A line that
\* lost its place with the position has no place there, and no event says so.
THEOREM ReplayIsFaithful == Spec => []OutboxTracksPlacement
<1>1. IInv => OutboxTracksPlacement
  BY DEF IInv, Outbox
<1> QED
  BY <1>1, Invariant, PTL

\* The commit of a save leaves every winch of its vessel that it named with the
\* drum_count and the drums it asked for, unless a save of another vessel that
\* named the winch too was committed while it was open.
THEOREM SaveTakesEffect == Spec => SaveApplied
<1> DEFINE Applied ==
      \A r \in Saver : pc[r] = "commit" /\ pc'[r] = "done" =>
        \A w \in Winch :
          req[r].want[w] > 0 /\ Home[w] = req[r].vessel /\ w \notin crossed[r] =>
          /\ count'[w] = req[r].want[w]
          /\ {d.idx : d \in DrumsOf(w)'} = 1..req[r].want[w]
<1>1. IInv /\ [Next]_vars => [Applied]_vars
  <2> SUFFICES ASSUME IInv, Next, NEW r \in Saver, pc[r] = "commit", pc'[r] = "done"
               PROVE  \A w \in Winch :
                        req[r].want[w] > 0 /\ Home[w] = req[r].vessel
                          /\ w \notin crossed[r] =>
                        /\ count'[w] = req[r].want[w]
                        /\ {d.idx : d \in DrumsOf(w)'} = 1..req[r].want[w]
    OBVIOUS
  <2>1. Typed /\ Safe /\ Layouts /\ MadeOnce /\ r \in Request
    BY DEF IInv, Typed, Safe, Outbox, Request
  <2>2. PICK x \in Request : Step(x) \/ Cancel(x)
    BY DEF Next, Finished, vars
  <2>3. Commit(r)
    BY <2>1, <2>2, StepFrame DEF StepEffect, Alone
  <2> QED
    BY <2>1, <2>3, CommitLayouts
<1> QED
  BY <1>1, Invariant, PTL DEF Spec, SaveApplied

\* No layout save takes the place of a line that no request has moved: what
\* the occupancy check protects, it protects to the end.
THEOREM UnmovedKeepsPlace == Spec => UnmovedStays
<1> DEFINE Stays ==
      \A l \in Line :
        line[l].at # None /\ (\A r \in Mover : pc[r] = "done" => req[r].line # l)
          => line'[l].at # None
<1>1. IInv /\ [Next]_vars => [Stays]_vars
  <2> SUFFICES ASSUME IInv, Next, NEW l \in Line, line[l].at # None,
                      \A r \in Mover : pc[r] = "done" => req[r].line # l
               PROVE  line'[l].at # None
    OBVIOUS
  <2>1. Typed /\ Safe /\ Unmoved /\ line \in [Line -> Row]
    BY DEF IInv, Typed, Safe, TypeOK
  <2>2. CASE line' = line
    BY <2>2
  <2>3. ASSUME NEW r \in Request, Commit(r) PROVE line'[l].at # None
    <3>1. CASE r \in Mover
      <4> DEFINE row == [vessel |-> line[req[r].line].vessel,
                         life |-> LifeAt(req[r].to), at |-> req[r].to]
      <4>1. req[r].to \in pos /\ line' = [line EXCEPT ![req[r].line] = row]
        BY <2>1, <2>3, <3>1, MoveCommitted
      <4>2. line'[l] = row \/ line'[l] = line[l]
        BY <2>1, <4>1
      <4>3. row.at # None
        BY <2>1, <4>1, ConstantsAssumption DEF Typed, TypeOK
      <4> QED
        BY <4>2, <4>3
    <3>2. CASE r \in Registrar
      <4>1. /\ line[req[r].line] = NoRow
            /\ \E row : line' = [line EXCEPT ![req[r].line] = row]
        BY <2>1, <2>3, <3>2, RegisterCommitted
      <4>2. req[r].line # l
        BY <4>1 DEF NoRow
      <4> QED
        BY <2>1, <4>1, <4>2
    <3>3. CASE r \in Saver
      <4>1. line[l].at \notin gone[r]
        BY <2>1, <3>3 DEF Unmoved
      <4> QED
        BY <2>1, <2>3, <3>3, <4>1, SaveCommitted
    <3> QED
      BY <3>1, <3>2, <3>3 DEF Request
  <2>4. CASE \E r \in Request : Step(r) \/ Cancel(r)
    BY <2>1, <2>2, <2>3, <2>4, StepFrame DEF StepEffect
  <2>5. CASE Finished
    BY <2>2, <2>5 DEF Finished, vars, tables
  <2> QED
    BY <2>4, <2>5 DEF Next
<1> QED
  BY <1>1, Invariant, PTL DEF Spec, UnmovedStays

\* Every registration, move and layout save takes effect at one instant, at
\* its commit: the transactions implement the atomic operations.
THEOREM Atomicity == Spec => AtomicSpec
<1> USE ConstantsAssumption
<1>1. Init => Atomic!Init
  <2> SUFFICES ASSUME Init PROVE Atomic!Init
    OBVIOUS
  <2>1. pos \subseteq Position
    BY InitTyped DEF Typed, TypeOK
  <2> QED
    BY <2>1 DEF Init, Atomic!Init, Atomic!Position, Position
<1>2. IInv /\ [Next]_vars => [Atomic!Next]_<<line, pos>>
  <2> SUFFICES ASSUME IInv, Next, ~UNCHANGED <<line, pos>> PROVE Atomic!Next
    BY DEF vars, tables
  <2>1. Typed /\ Safe /\ Layouts /\ line \in [Line -> Row]
    BY DEF IInv, Typed, Safe, TypeOK
  <2>2. PICK r \in Request : Commit(r)
    BY <2>1, StepFrame DEF StepEffect, Next, Finished, vars, tables
  <2>3. CASE r \in Mover
    <3>1. /\ req[r].line \in Line /\ req[r].to \in pos
          /\ Atomic!Move(req[r].line, req[r].to)
      BY <2>1, <2>2, <2>3, MoveCommitted DEF Atomic!Move
    <3> QED
      BY <3>1 DEF Atomic!Next
  <2>4. CASE r \in Registrar
    <3> DEFINE row == [vessel |-> req[r].vessel, life |-> req[r].life, at |-> None]
    <3>1. /\ req[r].line \in Line /\ line[req[r].line] = NoRow /\ pos' = pos
          /\ req[r].vessel \in Vessel /\ req[r].life # "none"
          /\ line' = [line EXCEPT ![req[r].line] = row]
      BY <2>1, <2>2, <2>4, RegisterCommitted
    <3>2. line'[req[r].line] = row
      BY <2>1, <3>1
    <3>3. row # NoRow
      BY <3>1 DEF NoRow
    <3>4. Atomic!Register(req[r].line, req[r].vessel)
      <4>1. row.vessel = req[r].vessel /\ row.at = None
        OBVIOUS
      <4> HIDE DEF row
      <4>2. line' = [line EXCEPT ![req[r].line] = line'[req[r].line]]
        BY <3>1, <3>2
      <4> QED
        BY <3>1, <3>2, <3>3, <4>1, <4>2 DEF Atomic!Register
    <3> QED
      BY <3>1, <3>4 DEF Atomic!Next
  <2>5. CASE r \in Saver
    <3>1. /\ pc[r] = "commit" /\ pos' = (pos \cup born[r]) \ gone[r]
          /\ line' = [l \in Line |-> IF line[l].at \in gone[r] THEN Unplaced(line[l])
                                                               ELSE line[l]]
      BY <2>1, <2>2, <2>5, SaveCommitted
    <3>2. /\ req[r].vessel \in Vessel
          /\ \A p \in born[r] \cup gone[r] : p \in Storage => HomeOf(p) = req[r].vessel
      BY <2>1, <2>5, <3>1 DEF Typed, Kinds, SaveReq, Layouts, SaveHome, HomeOf, Open
    <3>3. \A l \in Line : line[l].at \in gone[r] <=> line[l].at \in pos \ pos'
      <4>1. None \notin gone[r]
        BY <2>1 DEF Typed, TypeOK
      <4> QED
        BY <2>1, <3>1, <4>1 DEF Safe, Placements, PlacesExist
    <3>4. pos' \subseteq Position
      BY <2>1, <2>2, CommitTyped DEF Typed, TypeOK
    <3>5. Atomic!Relayout(req[r].vessel)
      <4>1. line' = [l \in Line |-> IF line[l].at \in pos \ pos'
                                    THEN [vessel |-> line[l].vessel,
                                          life |-> line[l].life, at |-> None]
                                    ELSE line[l]]
        BY <3>1, <3>3 DEF Unplaced
      <4>2. \A p \in (pos \ pos') \cup (pos' \ pos) :
              p \in Storage => HomeOf(p) = req[r].vessel
        BY <3>1, <3>2
      <4> QED
        BY <3>4, <4>1, <4>2 DEF Atomic!Relayout, Atomic!Position, Position
    <3> QED
      BY <3>2, <3>5 DEF Atomic!Next
  <2> QED
    BY <2>3, <2>4, <2>5 DEF Request
<1> QED
  BY <1>1, <1>2, Invariant, PTL DEF Spec, AtomicSpec, Atomic!Spec

\* Every variable keeps its type.
THEOREM TypeCorrect == Spec => []TypeOK
<1>1. IInv => TypeOK
  BY DEF IInv
<1> QED
  BY <1>1, Invariant, PTL

\* Whatever moves, registrations and layout saves run at once, no drum ever
\* carries two lines.
THEOREM DrumsExclusive == Spec => []OneLinePerDrum
<1>1. IInv => OneLinePerDrum
  BY DEF IInv, Placements
<1> QED
  BY <1>1, Invariant, PTL

\* No line is ever at a position that does not exist: a layout save that
\* removes a drum or a locker leaves no line there, not even one that
\* arrived after the save looked.
THEOREM NoDanglingPlace == Spec => []PlacesExist
<1>1. IInv => PlacesExist
  BY DEF IInv, Placements
<1> QED
  BY <1>1, Invariant, PTL

\* No line is ever placed on another vessel than its own.
THEOREM StaysAboard == Spec => []OwnVessel
<1>1. IInv => OwnVessel
  BY DEF IInv, Placements
<1> QED
  BY <1>1, Invariant, PTL

\* A placed line is active on a drum and spare in storage, always.
THEOREM LifecycleFollowsPlace == Spec => []PlacedLifecycle
<1>1. IInv => PlacedLifecycle
  BY DEF IInv, Placements
<1> QED
  BY <1>1, Invariant, PTL
=============================================================================
