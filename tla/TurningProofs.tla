--------------------------- MODULE TurningProofs ---------------------------
(***************************************************************************)
(* What survives of a line's history when its turns race, for any number   *)
(* of turns, lines and days.                                               *)
(***************************************************************************)
EXTENDS Turning, TLAPS

\* The days up to the change of the side in service are in the ages.
Covered(row) ==
  row.install # None /\ row.side \in Side /\ row.since[row.side] # None =>
    row.acc["A"] + row.acc["B"] >= row.since[row.side] - row.install

\* Nothing is dated in the future.
Dated ==
  /\ \A l \in Line, s \in Side : line[l].since[s] # None => line[l].since[s] <= day
  /\ \A r \in Turner : on[r] # None => on[r] <= day

Running(r) == pc[r] \in {"date", "update", "record", "commit"}

\* What a request has read is a row the line once had: its ages have only grown
\* since.
SeenBefore ==
  \A r \in Turner :
    /\ Running(r) \/ pc[r] = "done" =>
         target[r] \in Line /\ seen[r] \in Row /\ seen[r].side \in Side
    /\ Running(r) =>
         /\ Covered(seen[r]) /\ seen[r].install = line[target[r]].install
         /\ \A s \in Side : seen[r].acc[s] <= line[target[r]].acc[s]
    /\ pc[r] \in {"update", "record", "commit", "done"} => on[r] \in Day

LineLock ==
  /\ \A r \in Turner : locked[r] <=> pc[r] \in {"record", "commit"}
  /\ \A x, y \in Turner : locked[x] /\ locked[y] /\ target[x] = target[y] => x = y

\* The event of the turn that holds a line is later than those of the turns
\* that are done.
EventOrder ==
  /\ \A r \in Turner : stamp[r] < nextId
  /\ \A x, y \in Turner :
       pc[x] = "commit" /\ pc[y] = "done" /\ target[x] = target[y] => stamp[y] < stamp[x]

LinesCovered == \A l \in Line : Covered(line[l])

IInv ==
  /\ TypeOK /\ Dated /\ SeenBefore /\ LineLock /\ EventOrder /\ LinesCovered
  /\ HistoryExplainsLine

-----------------------------------------------------------------------------
(* Rows and what a turn makes of them.                                     *)

\* The columns of a row.
LEMMA RowColumns ==
  ASSUME NEW row \in Row
  PROVE  /\ row.side \in {"A", "B", "n/a"}
         /\ row.acc["A"] \in Nat /\ row.acc["B"] \in Nat
         /\ \A s \in Side : row.acc[s] \in Nat /\ row.since[s] \in Day \cup {None}
         /\ row.install \in Day \cup {None} /\ row.turnable \in BOOLEAN
BY DEF Row, Side

\* The days are numbers, and NULL is none of them.
LEMMA Days == Day \subseteq Nat /\ None \notin Day
BY ConstantsAssumption DEF Day

\* The days served are a number, and at least those since the date the side
\* entered service, or since the line was installed if it never did.
LEMMA DaysServed ==
  ASSUME NEW row \in Row, row.side \in Side, NEW today \in Day
  PROVE  /\ Elapsed(row, today) \in Nat
         /\ row.since[row.side] # None => Elapsed(row, today) >= today - row.since[row.side]
         /\ row.since[row.side] = None /\ row.install # None
              => Elapsed(row, today) >= today - row.install
<1>1. /\ row.since[row.side] \in Day \cup {None} /\ row.install \in Day \cup {None}
  BY RowColumns
<1>2. \A d \in Day \cup {None} :
        AgeDays(d, today) \in Nat /\ (d # None => AgeDays(d, today) >= today - d)
  BY Days DEF AgeDays, DaysBetween
<1> DEFINE ref == IF row.since[row.side] # None THEN row.since[row.side] ELSE row.install
<1>3. ref \in Day \cup {None} /\ Elapsed(row, today) = AgeDays(ref, today)
  BY <1>1 DEF Elapsed
<1>4. /\ row.since[row.side] # None => ref = row.since[row.side]
      /\ row.since[row.side] = None => ref = row.install
  OBVIOUS
<1> HIDE DEF ref
<1> QED  BY <1>2, <1>3, <1>4

\* A turn adds the days served to the side it read as serving, and puts the
\* other one in service today.
LEMMA TurnedRow ==
  ASSUME TypeOK, NEW r \in Turner, target[r] \in Line, seen[r] \in Row, seen[r].side \in Side,
         on[r] \in Day
  PROVE  LET row == line[target[r]]
             old == seen[r].side
             new == Other(old)
         IN  /\ Turned(r) \in Row
             /\ new \in Side /\ Turned(r).side = new /\ Turned(r).install = row.install
             /\ \A s \in Side :
                  /\ Turned(r).acc[s] = IF s = old THEN row.acc[s] + Elapsed(seen[r], on[r])
                                                   ELSE row.acc[s]
                  /\ Turned(r).since[s] = IF s = new THEN on[r] ELSE row.since[s]
<1> DEFINE row == line[target[r]]
           old == seen[r].side
           new == Other(old)
           e == Elapsed(seen[r], on[r])
           acc == [row.acc EXCEPT ![old] = @ + e]
           since == [row.since EXCEPT ![new] = on[r]]
<1>1. row \in Row /\ e \in Nat /\ old \in Side /\ new \in Side
  BY DaysServed DEF TypeOK, Other, Side
<1> HIDE DEF e, old, new, row
<1>2. row.acc \in [Side -> Nat] /\ row.since \in [Side -> Day \cup {None}]
  BY <1>1 DEF Row
<1>3. acc \in [Side -> Nat] /\ since \in [Side -> Day \cup {None}]
  BY <1>1, <1>2
<1>4. \A s \in Side : /\ acc[s] = IF s = old THEN row.acc[s] + e ELSE row.acc[s]
                      /\ since[s] = IF s = new THEN on[r] ELSE row.since[s]
  BY <1>2
<1>5. Turned(r) = [row EXCEPT !.side = new, !.acc = acc, !.since = since]
  BY <1>1 DEF Turned, Row, old, new, e, row
<1> HIDE DEF acc, since
<1>6. /\ Turned(r) \in Row /\ Turned(r).side = new /\ Turned(r).install = row.install
      /\ Turned(r).acc = acc /\ Turned(r).since = since
  BY <1>1, <1>3, <1>5 DEF Row, Side
<1> QED  BY <1>1, <1>4, <1>6 DEF old, new, e, row

\* At the start no line has been turned.
LEMMA InitTurning == Init => IInv
<1> SUFFICES ASSUME Init PROVE IInv
  OBVIOUS
<1>1. TypeOK
  BY ConstantsAssumption DEF Init, TypeOK, Day
<1>2. \A l \in Line : line[l] \in SeedRows /\ \A s \in Side : line[l].since[s] = None
  BY ConstantsAssumption DEF Init
<1>3. Dated /\ LinesCovered
  BY <1>2 DEF Init, Dated, LinesCovered, Covered
<1>4. SeenBefore /\ LineLock /\ EventOrder /\ HistoryExplainsLine
  BY DEF Init, SeenBefore, Running, LineLock, EventOrder, HistoryExplainsLine
<1> QED  BY <1>1, <1>3, <1>4 DEF IInv

-----------------------------------------------------------------------------
(* The steps of a turn.                                                    *)

\* The row is read.
LEMMA ReadKeeps ==
  ASSUME IInv, NEW r \in Turner, NEW l \in Line, pc[r] = "idle",
         line[l].side \in Side, Goto(r, "date"), target' = [target EXCEPT ![r] = l],
         seen' = [seen EXCEPT ![r] = line[l]], UNCHANGED <<day, line, on, locked, stamp, nextId>>
  PROVE  IInv'
<1> USE DEF IInv
<1>1. line[l] \in Row
  BY DEF TypeOK
<1>2. TypeOK'
  BY <1>1 DEF TypeOK, Goto
<1>3. \A x \in Turner : /\ pc'[x] = IF x = r THEN "date" ELSE pc[x]
                        /\ target'[x] = IF x = r THEN l ELSE target[x]
                        /\ seen'[x] = IF x = r THEN line[l] ELSE seen[x]
  BY DEF TypeOK, Goto
<1>4. Dated' /\ LinesCovered' /\ LineLock' /\ EventOrder'
  BY <1>3 DEF Dated, LinesCovered, Covered, LineLock, EventOrder
<1>5. SeenBefore'
  <2>1. \A s \in Side : line[l].acc[s] <= line[l].acc[s]
    BY <1>1, RowColumns
  <2>2. ASSUME NEW x \in Turner, x # r
        PROVE  pc'[x] = pc[x] /\ target'[x] = target[x] /\ seen'[x] = seen[x]
    BY <1>3, <2>2
  <2> QED  BY <1>1, <1>3, <2>1, <2>2 DEF SeenBefore, Running, LinesCovered, Covered
<1>6. HistoryExplainsLine'
  BY <1>3 DEF HistoryExplainsLine
<1> QED  BY <1>2, <1>4, <1>5, <1>6

\* A request that is not over fails: nothing of it was committed.
LEMMA FailKeeps ==
  ASSUME IInv, NEW r \in Turner, pc[r] \notin {"done", "failed"}, Fail(r)
  PROVE  IInv'
<1> USE DEF IInv
<1>1. TypeOK'
  BY DEF TypeOK, Goto, Fail
<1>2. \A x \in Turner : /\ pc'[x] = IF x = r THEN "failed" ELSE pc[x]
                        /\ stamp'[x] = IF x = r THEN 0 ELSE stamp[x]
                        /\ locked'[x] = IF x = r THEN FALSE ELSE locked[x]
                        /\ on'[x] = IF x = r THEN None ELSE on[x]
                        /\ x # r => target'[x] = target[x] /\ seen'[x] = seen[x]
  BY DEF TypeOK, Goto, Fail
<1>3. UNCHANGED <<day, line, nextId>>
  BY DEF Fail
<1>4. ASSUME NEW x \in Turner, x # r
      PROVE  /\ pc'[x] = pc[x] /\ stamp'[x] = stamp[x] /\ (locked'[x] <=> locked[x])
             /\ on'[x] = on[x] /\ target'[x] = target[x] /\ seen'[x] = seen[x]
  BY <1>2, <1>4
<1>5. pc'[r] = "failed" /\ stamp'[r] = 0 /\ ~locked'[r] /\ on'[r] = None
  BY <1>2
<1>6. Dated' /\ LinesCovered'
  BY <1>3, <1>4, <1>5 DEF Dated, LinesCovered, Covered
<1>7. LineLock'
  BY <1>4, <1>5 DEF LineLock
<1>8. EventOrder'
  <2>1. stamp[r] \in Nat /\ nextId \in Nat /\ stamp[r] < nextId
    BY DEF EventOrder, TypeOK
  <2>2. 0 < nextId
    BY <2>1
  <2>3. \A x \in Turner : stamp'[x] < nextId'
    BY <1>3, <1>4, <1>5, <2>2 DEF EventOrder
  <2> QED  BY <1>4, <1>5, <2>3 DEF EventOrder
<1>9. SeenBefore'
  BY <1>3, <1>4, <1>5 DEF SeenBefore, Running, Covered
<1>10. HistoryExplainsLine'
  <2> SUFFICES ASSUME NEW x \in Turner, pc'[x] = "done",
                      \A y \in Turner : pc'[y] = "done" /\ target'[y] = target'[x]
                                          => stamp'[y] <= stamp'[x]
               PROVE  /\ line'[target'[x]].side = Other(seen'[x].side)
                      /\ line'[target'[x]].since[Other(seen'[x].side)] = on'[x]
    BY DEF HistoryExplainsLine
  <2>1. x # r
    BY <1>5
  <2>2. \A y \in Turner : pc[y] = "done" /\ target[y] = target[x] => stamp[y] <= stamp[x]
    BY <1>4, <2>1
  <2> QED  BY <1>3, <1>4, <2>1, <2>2 DEF HistoryExplainsLine
<1> QED  BY <1>1, <1>6, <1>7, <1>8, <1>9, <1>10

\* Today is taken.
LEMMA DateKeeps ==
  ASSUME IInv, NEW r \in Turner, Date(r)
  PROVE  IInv'
<1> USE DEF IInv
<1>1. TypeOK'
  BY DEF TypeOK, Goto, Date
<1>2. /\ pc[r] = "date"
      /\ \A x \in Turner : /\ pc'[x] = IF x = r THEN "update" ELSE pc[x]
                           /\ on'[x] = IF x = r THEN day ELSE on[x]
      /\ UNCHANGED <<day, line, target, seen, locked, stamp, nextId>>
  BY DEF TypeOK, Goto, Date
<1>3. day \in Day /\ day <= day
  BY Days DEF TypeOK
<1>4. Dated' /\ LinesCovered' /\ LineLock' /\ EventOrder'
  BY <1>2, <1>3 DEF Dated, LinesCovered, Covered, LineLock, EventOrder
<1>5. SeenBefore'
  BY <1>2, <1>3 DEF SeenBefore, Running, Covered
<1>6. HistoryExplainsLine'
  BY <1>2 DEF HistoryExplainsLine
<1> QED  BY <1>1, <1>4, <1>5, <1>6

\* The row is free when it is taken.
LEMMA UpdateKeeps ==
  ASSUME IInv, NEW r \in Turner, Update(r)
  PROVE  IInv'
<1> USE DEF IInv
<1>1. TypeOK'
  BY DEF TypeOK, Goto, Update
<1>2. /\ pc[r] = "update"
      /\ \A x \in Turner : /\ pc'[x] = IF x = r THEN "record" ELSE pc[x]
                           /\ locked'[x] = IF x = r THEN TRUE ELSE locked[x]
      /\ \A x \in Turner \ {r} : locked[x] => target[x] # target[r]
      /\ UNCHANGED <<day, line, target, seen, on, stamp, nextId>>
  BY DEF TypeOK, Goto, Update, RowFree
<1>3. LineLock'
  BY <1>2 DEF LineLock
<1>4. Dated' /\ LinesCovered' /\ EventOrder'
  BY <1>2 DEF Dated, LinesCovered, Covered, EventOrder
<1>5. SeenBefore'
  BY <1>2 DEF SeenBefore, Running, Covered
<1>6. HistoryExplainsLine'
  BY <1>2 DEF HistoryExplainsLine
<1> QED  BY <1>1, <1>3, <1>4, <1>5, <1>6

\* Its event is the latest of all.
LEMMA RecordKeeps ==
  ASSUME IInv, NEW r \in Turner, Record(r)
  PROVE  IInv'
<1> USE DEF IInv
<1>1. TypeOK'
  BY DEF TypeOK, Goto, Record
<1>2. /\ pc[r] = "record"
      /\ \A x \in Turner : /\ pc'[x] = IF x = r THEN "commit" ELSE pc[x]
                           /\ stamp'[x] = IF x = r THEN nextId ELSE stamp[x]
      /\ nextId' = nextId + 1 /\ UNCHANGED <<day, line, target, seen, on, locked>>
  BY DEF TypeOK, Goto, Record
<1>3. LineLock'
  BY <1>2 DEF LineLock
<1>4. EventOrder'
  <2>1. nextId \in Nat /\ \A x \in Turner : stamp[x] \in Nat /\ stamp[x] < nextId
    BY DEF EventOrder, TypeOK
  <2> QED  BY <1>2, <2>1 DEF EventOrder
<1>5. Dated' /\ LinesCovered'
  BY <1>2 DEF Dated, LinesCovered, Covered
<1>6. SeenBefore'
  BY <1>2 DEF SeenBefore, Running, Covered
<1>7. HistoryExplainsLine'
  BY <1>2 DEF HistoryExplainsLine
<1> QED  BY <1>1, <1>3, <1>4, <1>5, <1>6, <1>7

\* What a turn leaves behind covers the days up to it: what it read did, and the
\* ages have only grown since.
LEMMA TurnedCovered ==
  ASSUME IInv, NEW r \in Turner, pc[r] = "commit"
  PROVE  Covered(Turned(r))
<1> DEFINE row == line[target[r]]
           was == seen[r]
           e == Elapsed(was, on[r])
<1>1. /\ target[r] \in Line /\ was \in Row /\ was.side \in Side /\ on[r] \in Day
      /\ Covered(was) /\ was.install = row.install
      /\ \A s \in Side : was.acc[s] <= row.acc[s]
  BY DEF IInv, SeenBefore, Running
<1>2. row \in Row
  BY <1>1 DEF IInv, TypeOK
<1>3. /\ Turned(r).side \in Side /\ Turned(r).install = row.install
      /\ Turned(r).since[Turned(r).side] = on[r]
      /\ Turned(r).acc["A"] + Turned(r).acc["B"] = row.acc["A"] + row.acc["B"] + e
  <2>1. e \in Nat /\ row.acc["A"] \in Nat /\ row.acc["B"] \in Nat
    BY <1>1, <1>2, DaysServed, RowColumns
  <2>2. TypeOK /\ "A" \in Side /\ "B" \in Side /\ (was.side = "A" \/ was.side = "B")
    BY <1>1 DEF IInv, Side
  <2> HIDE DEF e, row
  <2>3. /\ Turned(r).side \in Side /\ Turned(r).install = row.install
        /\ Turned(r).since[Turned(r).side] = on[r]
        /\ \A s \in Side : Turned(r).acc[s] = IF s = was.side THEN row.acc[s] + e ELSE row.acc[s]
    BY <1>1, <2>2, TurnedRow DEF e, row
  <2> QED  BY <2>1, <2>2, <2>3
<1>4. row.install # None => row.acc["A"] + row.acc["B"] + e >= on[r] - row.install
  <2> SUFFICES ASSUME row.install # None
               PROVE  row.acc["A"] + row.acc["B"] + e >= on[r] - row.install
    OBVIOUS
  <2>1. /\ was.acc["A"] <= row.acc["A"] /\ was.acc["B"] <= row.acc["B"]
    BY <1>1 DEF Side
  <2>2. /\ row.acc["A"] \in Nat /\ row.acc["B"] \in Nat
        /\ was.acc["A"] \in Nat /\ was.acc["B"] \in Nat
    BY <1>1, <1>2, RowColumns
  <2>3. row.install \in Nat /\ on[r] \in Nat
    BY <1>1, <1>2, RowColumns, Days
  <2>4. e \in Nat
    BY <1>1, DaysServed
  <2>5. CASE was.since[was.side] # None
    <3>1. was.since[was.side] \in Nat
      BY <1>1, <2>5, RowColumns, Days
    <3>2. e >= on[r] - was.since[was.side]
      BY <1>1, <2>5, DaysServed
    <3>3. was.acc["A"] + was.acc["B"] >= was.since[was.side] - row.install
      BY <1>1, <2>5 DEF Covered
    <3> HIDE DEF e, row, was
    <3> QED  BY <2>1, <2>2, <2>3, <2>4, <3>1, <3>2, <3>3
  <2>6. CASE was.since[was.side] = None
    <3>1. e >= on[r] - row.install
      BY <1>1, <2>6, DaysServed
    <3> HIDE DEF e, row, was
    <3> QED  BY <2>2, <2>3, <2>4, <3>1
  <2> QED  BY <2>5, <2>6
<1> QED  BY <1>3, <1>4 DEF Covered

\* The turn is committed.
LEMMA CommitKeeps ==
  ASSUME IInv, NEW r \in Turner, Commit(r)
  PROVE  IInv'
<1> DEFINE k == target[r]
<1>1. /\ pc[r] = "commit" /\ pc' = [pc EXCEPT ![r] = "done"]
      /\ line' = [line EXCEPT ![k] = Turned(r)] /\ locked' = [locked EXCEPT ![r] = FALSE]
      /\ UNCHANGED <<day, target, seen, on, stamp, nextId>>
  BY DEF Commit, Goto
<1>2. /\ k \in Line /\ seen[r] \in Row /\ seen[r].side \in Side /\ on[r] \in Day
  BY <1>1 DEF IInv, SeenBefore, Running
<1>3. /\ Turned(r) \in Row /\ Turned(r).side = Other(seen[r].side)
      /\ Turned(r).install = line[k].install
      /\ \A s \in Side :
           /\ Turned(r).acc[s] = IF s = seen[r].side THEN line[k].acc[s] + Elapsed(seen[r], on[r])
                                                    ELSE line[k].acc[s]
           /\ Turned(r).since[s] = IF s = Other(seen[r].side) THEN on[r] ELSE line[k].since[s]
  BY <1>2, TurnedRow DEF IInv
<1>4. Other(seen[r].side) \in Side /\ Elapsed(seen[r], on[r]) \in Nat
      /\ \A s \in Side : line[k].acc[s] \in Nat
  BY <1>2, DaysServed, RowColumns DEF IInv, TypeOK, Other, Side
<1>5. Covered(Turned(r))
  BY <1>1, TurnedCovered
<1> HIDE DEF k
<1>6. TypeOK'
  BY <1>1, <1>2, <1>3 DEF IInv, TypeOK
<1>7. /\ \A x \in Turner : /\ pc'[x] = IF x = r THEN "done" ELSE pc[x]
                           /\ locked'[x] = IF x = r THEN FALSE ELSE locked[x]
      /\ \A l \in Line : line'[l] = IF l = k THEN Turned(r) ELSE line[l]
  BY <1>1, <1>2 DEF IInv, TypeOK
<1>8. Dated'
  <2>1. on[r] <= day
    BY <1>2, Days DEF IInv, Dated
  <2> QED  BY <1>1, <1>2, <1>3, <1>7, <2>1 DEF IInv, Dated
<1>9. LinesCovered'
  BY <1>1, <1>5, <1>7 DEF IInv, LinesCovered, Covered
<1>10. LineLock'
  <2>1. \A x \in Turner : locked'[x] <=> locked[x] /\ x # r
    BY <1>7
  <2>2. \A x \in Turner : locked[x] <=> pc[x] \in {"record", "commit"}
    BY DEF IInv, LineLock
  <2>3. \A x \in Turner : locked'[x] <=> pc'[x] \in {"record", "commit"}
    BY <1>7, <2>1, <2>2
  <2> QED  BY <1>1, <2>1, <2>3 DEF IInv, LineLock
<1>11. EventOrder'
  <2>1. ASSUME NEW x \in Turner, pc[x] = "commit", x # r PROVE target[x] # target[r]
    BY <1>1, <2>1 DEF IInv, LineLock
  <2> QED  BY <1>1, <1>7, <2>1 DEF IInv, EventOrder
<1>12. SeenBefore'
  <2>1. \A x \in Turner : pc'[x] = "done" => pc[x] = "done" \/ x = r
    BY <1>7
  <2>2. ASSUME NEW x \in Turner, Running(x)'
        PROVE  /\ Running(x) /\ seen[x].install = line'[target[x]].install
               /\ \A s \in Side : seen[x].acc[s] <= line'[target[x]].acc[s]
    <3>1. Running(x) /\ x # r
      BY <1>7, <2>2 DEF Running
    <3>2. /\ target[x] \in Line /\ seen[x] \in Row
          /\ seen[x].install = line[target[x]].install
          /\ \A s \in Side : seen[x].acc[s] <= line[target[x]].acc[s]
      BY <3>1 DEF IInv, SeenBefore
    <3>3. \A s \in Side : seen[x].acc[s] \in Nat
      BY <3>2, RowColumns
    <3>4. CASE target[x] # k
      BY <1>7, <3>1, <3>2, <3>4
    <3>5. CASE target[x] = k
      <4>1. line'[target[x]] = Turned(r)
        BY <1>7, <3>2, <3>5
      <4>2. \A s \in Side : line[k].acc[s] <= Turned(r).acc[s] /\ Turned(r).acc[s] \in Nat
        BY <1>3, <1>4
      <4>3. \A s \in Side : seen[x].acc[s] <= Turned(r).acc[s]
        BY <1>4, <3>2, <3>3, <3>5, <4>2
      <4> QED  BY <1>3, <3>1, <3>2, <3>5, <4>1, <4>3
    <3> QED  BY <3>4, <3>5
  <2>3. \A x \in Turner : Running(x) => Covered(seen[x])
    BY DEF IInv, SeenBefore
  <2>4. \A x \in Turner : pc'[x] \in {"update", "record", "commit", "done"} => on[x] \in Day
    BY <1>2, <1>7 DEF IInv, SeenBefore
  <2>5. \A x \in Turner : Running(x) \/ pc[x] = "done" =>
          target[x] \in Line /\ seen[x] \in Row /\ seen[x].side \in Side
    BY DEF IInv, SeenBefore
  <2>6. Running(r)
    BY <1>1 DEF Running
  <2> QED  BY <1>1, <2>1, <2>2, <2>3, <2>4, <2>5, <2>6 DEF SeenBefore, Covered
<1>13. HistoryExplainsLine'
  <2> SUFFICES ASSUME NEW x \in Turner, pc'[x] = "done",
                      \A y \in Turner : pc'[y] = "done" /\ target[y] = target[x]
                                          => stamp[y] <= stamp[x]
               PROVE  /\ line'[target[x]].side = Other(seen[x].side)
                      /\ line'[target[x]].since[Other(seen[x].side)] = on[x]
    BY <1>1 DEF HistoryExplainsLine
  <2>1. CASE x = r
    BY <1>2, <1>3, <1>4, <1>7, <2>1 DEF k
  <2>2. CASE x # r
    <3>1. pc[x] = "done" /\ target[x] \in Line
      BY <1>7, <2>2 DEF IInv, SeenBefore
    <3>2. target[x] # k
      <4> SUFFICES ASSUME target[x] = target[r] PROVE FALSE
        BY DEF k
      <4>1. stamp[x] < stamp[r]
        BY <1>1, <3>1 DEF IInv, EventOrder
      <4>2. stamp[r] <= stamp[x]
        BY <1>7
      <4> QED  BY <4>1, <4>2 DEF IInv, TypeOK
    <3>3. line'[target[x]] = line[target[x]]
      BY <1>7, <3>1, <3>2
    <3>4. \A y \in Turner : pc[y] = "done" /\ target[y] = target[x] => stamp[y] <= stamp[x]
      BY <1>1, <1>7
    <3> QED  BY <3>1, <3>3, <3>4 DEF IInv, HistoryExplainsLine
  <2> QED  BY <2>1, <2>2
<1> QED  BY <1>6, <1>8, <1>9, <1>10, <1>11, <1>12, <1>13 DEF IInv

\* Midnight.
LEMMA TickKeeps ==
  ASSUME IInv, Tick
  PROVE  IInv'
<1> USE DEF IInv
<1>1. day' = day + 1 /\ UNCHANGED <<line, pc, target, seen, on, locked, stamp, nextId>>
  BY DEF Tick
<1>2. TypeOK'
  <2>1. day' \in Day
    BY ConstantsAssumption DEF Tick, TypeOK, Day
  <2> QED  BY <1>1, <2>1 DEF TypeOK
<1>3. Dated'
  <2>1. \A l \in Line, s \in Side : line[l].since[s] # None => line[l].since[s] \in Nat
    BY RowColumns, Days DEF TypeOK
  <2>2. \A r \in Turner : on[r] # None => on[r] \in Nat
    BY Days DEF TypeOK
  <2>3. day \in Nat
    BY Days DEF TypeOK
  <2> QED  BY <1>1, <2>1, <2>2, <2>3 DEF Dated
<1>4. SeenBefore' /\ LineLock' /\ EventOrder' /\ LinesCovered' /\ HistoryExplainsLine'
  BY <1>1 DEF SeenBefore, Running, Covered, LineLock, EventOrder, LinesCovered,
              HistoryExplainsLine
<1> QED  BY <1>2, <1>3, <1>4

\* Every step keeps the invariant.
LEMMA NextTurning == IInv /\ [Next]_vars => IInv'
<1> SUFFICES ASSUME IInv, [Next]_vars PROVE IInv'
  OBVIOUS
<1>1. CASE UNCHANGED vars
  BY <1>1 DEF vars, IInv, TypeOK, Dated, SeenBefore, Running, Covered, LineLock, EventOrder,
              LinesCovered, HistoryExplainsLine
<1>2. ASSUME NEW r \in Turner, Step(r) \/ Cancel(r) PROVE IInv'
  <2>1. CASE Read(r)
    BY <2>1, ReadKeeps, FailKeeps DEF Read
  <2>2. CASE Cancel(r)
    BY <2>2, FailKeeps DEF Cancel, Open
  <2> QED  BY <1>2, <2>1, <2>2, DateKeeps, UpdateKeeps, RecordKeeps, CommitKeeps DEF Step
<1> QED  BY <1>1, <1>2, TickKeeps DEF Next

\* What a turn knows and leaves behind at each of its stages.
THEOREM TurningInvariant == Spec => []IInv
BY InitTurning, NextTurning, PTL DEF Spec

\* The rows and the requests are well formed.
THEOREM TurningTypes == Spec => []TypeOK
<1>1. IInv => TypeOK
  BY DEF IInv
<1> QED  BY <1>1, TurningInvariant, PTL

\* The latest turn event explains the row.
THEOREM EventExplains == Spec => []HistoryExplainsLine
<1>1. IInv => HistoryExplainsLine
  BY DEF IInv
<1> QED  BY <1>1, TurningInvariant, PTL

\* No day in service is lost, however turns race.
THEOREM NoDayLost == Spec => []AgeCovered
<1>1. IInv => AgeCovered
  <2> SUFFICES ASSUME IInv, NEW l \in Line, line[l].install # None, line[l].side \in Side,
                      line[l].since[line[l].side] # None
               PROVE  LiveSideAge(line[l], "A", day) + LiveSideAge(line[l], "B", day)
                        >= day - line[l].install
    BY DEF AgeCovered
  <2> DEFINE row == line[l]
             from == row.since[row.side]
             a == row.acc["A"]
             b == row.acc["B"]
  <2>1. row \in Row /\ day \in Nat
    BY Days DEF IInv, TypeOK
  <2>2. a \in Nat /\ b \in Nat /\ from \in Nat /\ row.install \in Nat
    BY <2>1, RowColumns, Days
  <2>3. from <= day
    BY DEF IInv, Dated
  <2>4. a + b >= from - row.install
    BY DEF IInv, LinesCovered, Covered
  <2>5. AgeDays(from, day) = day - from
    BY <2>1, <2>2, <2>3 DEF AgeDays, DaysBetween
  <2>6. \/ /\ row.side = "A" /\ LiveSideAge(row, "A", day) = a + AgeDays(from, day)
           /\ LiveSideAge(row, "B", day) = b + 0
        \/ /\ row.side = "B" /\ LiveSideAge(row, "B", day) = b + AgeDays(from, day)
           /\ LiveSideAge(row, "A", day) = a + 0
    BY DEF LiveSideAge, Side
  <2> HIDE DEF row, from, a, b
  <2>7. LiveSideAge(row, "A", day) + LiveSideAge(row, "B", day) = a + b + (day - from)
    BY <2>1, <2>2, <2>5, <2>6
  <2>8. a + b + (day - from) >= day - row.install
    BY <2>1, <2>2, <2>4
  <2> QED  BY <2>7, <2>8 DEF row
<1> QED  BY <1>1, TurningInvariant, PTL

\* Only lines that can be turned are turned.
Turnable ==
  \A r \in Turner : Running(r) \/ pc[r] = "done" => line[target[r]].turnable

\* Whether a line can be turned is settled when it is registered.
LEMMA NextTurnable == IInv /\ Turnable /\ [Next]_vars => Turnable'
<1> SUFFICES ASSUME IInv, Turnable, [Next]_vars PROVE Turnable'
  OBVIOUS
<1>1. CASE UNCHANGED vars
  BY <1>1 DEF vars, Turnable, Running
<1>2. ASSUME NEW r \in Turner, Fail(r) PROVE Turnable'
  <2>1. /\ pc'[r] = "failed" /\ line' = line
        /\ \A x \in Turner \ {r} : pc'[x] = pc[x] /\ target'[x] = target[x]
    BY <1>2 DEF Fail, Goto, IInv, TypeOK
  <2> QED  BY <2>1 DEF Turnable, Running
<1>3. ASSUME NEW r \in Turner, NEW l \in Line, line[l].turnable,
             target' = [target EXCEPT ![r] = l], Goto(r, "date"), line' = line
      PROVE  Turnable'
  <2>1. /\ target'[r] = l
        /\ \A x \in Turner \ {r} : pc'[x] = pc[x] /\ target'[x] = target[x]
    BY <1>3 DEF Goto, IInv, TypeOK
  <2> QED  BY <1>3, <2>1 DEF Turnable, Running
<1>4. ASSUME NEW r \in Turner, Date(r) \/ Update(r) \/ Record(r) PROVE Turnable'
  <2>1. /\ UNCHANGED <<line, target>> /\ Running(r)
        /\ \A x \in Turner \ {r} : pc'[x] = pc[x]
    BY <1>4 DEF Date, Update, Record, Goto, IInv, TypeOK, Running
  <2> QED  BY <2>1 DEF Turnable, Running
<1>5. ASSUME NEW r \in Turner, Commit(r) PROVE Turnable'
  <2>1. /\ target' = target /\ Running(r) /\ line' = [line EXCEPT ![target[r]] = Turned(r)]
        /\ \A x \in Turner \ {r} : pc'[x] = pc[x]
    BY <1>5 DEF Commit, Goto, IInv, TypeOK, Running
  <2>2. target[r] \in Line /\ line \in [Line -> Row]
    BY <2>1 DEF IInv, SeenBefore, TypeOK
  <2>3. Turned(r).turnable = line[target[r]].turnable
    BY <2>2 DEF Turned, Row
  <2>4. \A l \in Line : line'[l].turnable = line[l].turnable
    BY <2>1, <2>2, <2>3
  <2>5. \A x \in Turner : Running(x) \/ pc[x] = "done" => target[x] \in Line
    BY DEF IInv, SeenBefore
  <2> QED  BY <2>1, <2>4, <2>5 DEF Turnable, Running
<1>6. CASE Tick
  BY <1>6 DEF Tick, Turnable, Running
<1> QED
  BY <1>1, <1>2, <1>3, <1>4, <1>5, <1>6 DEF Next, Step, Cancel, Read

\* No side serves longer than the interval without the line being reported due,
\* whatever turns overlapped: the last turn event says since when it serves, and
\* no age is negative.
THEOREM DueIsReported == Spec => []DueInTime
<1>1. Init => Turnable
  BY DEF Init, Turnable, Running
<1>2. IInv /\ Turnable => DueInTime
  <2> SUFFICES ASSUME IInv, Turnable, NEW r \in Turner, pc[r] = "done",
                      \A x \in {y \in Turner : pc[y] = "done" /\ target[y] = target[r]} :
                        stamp[x] <= stamp[r],
                      day >= on[r] + TurnInterval
               PROVE  TurnDue(line[target[r]], day)
    BY DEF DueInTime
  <2> DEFINE row == line[target[r]]
             after == Other(seen[r].side)
  <2>1. row.side = after /\ row.since[after] = on[r]
    BY DEF IInv, HistoryExplainsLine
  <2>2. target[r] \in Line /\ seen[r].side \in Side /\ on[r] \in Day
    BY DEF IInv, SeenBefore
  <2>3. row \in Row /\ row.turnable /\ after \in Side /\ day \in Day
    BY <2>2 DEF IInv, TypeOK, Turnable, Other, Side
  <2>4. row.acc[after] \in Nat
    BY <2>3, RowColumns
  <2>5. on[r] \in Nat /\ day \in Nat /\ on[r] # None
    BY <2>2, <2>3, Days
  <2>6. AgeDays(row.since[after], day) >= TurnInterval
    BY <2>1, <2>5, ConstantsAssumption DEF AgeDays, DaysBetween
  <2>7. LiveSideAge(row, after, day) = row.acc[after] + AgeDays(row.since[after], day)
    BY <2>1 DEF LiveSideAge
  <2>8. AgeDays(row.since[after], day) \in Nat
    BY <2>1, <2>5 DEF AgeDays, DaysBetween
  <2>9. (IF row.side = "B" THEN "B" ELSE "A") = after
    BY <2>1, <2>3 DEF Side
  <2> HIDE DEF row, after
  <2>10. LiveSideAge(row, after, day) >= TurnInterval
    BY <2>4, <2>6, <2>7, <2>8, ConstantsAssumption
  <2>11. TurnDue(row, day)
    BY <2>3, <2>9, <2>10 DEF TurnDue
  <2> QED  BY <2>11 DEF row
<1> QED  BY <1>1, <1>2, NextTurnable, TurningInvariant, PTL DEF Spec

-----------------------------------------------------------------------------
(* Turns that nothing overtakes age a line as SideAge says.                *)

\* Today, as a request took it, is not before the dates it read and not long
\* ago.
Timely ==
  \A r \in Turner :
    /\ pc[r] = "date" => \A s \in Side : seen[r].since[s] # None => seen[r].since[s] <= day
    /\ pc[r] \in {"update", "record", "commit"} =>
         /\ \A s \in Side : seen[r].since[s] # None => seen[r].since[s] <= on[r]
         /\ day <= on[r] + Late

\* Every step keeps it.
LEMMA NextTimely == IInv /\ Timely /\ [Next]_vars => Timely'
<1> SUFFICES ASSUME IInv, Timely, [Next]_vars PROVE Timely'
  OBVIOUS
<1>1. CASE UNCHANGED vars
  BY <1>1 DEF vars, Timely
<1>2. ASSUME NEW r \in Turner, Fail(r) PROVE Timely'
  <2>1. /\ pc'[r] = "failed" /\ day' = day
        /\ \A x \in Turner \ {r} : pc'[x] = pc[x] /\ seen'[x] = seen[x] /\ on'[x] = on[x]
    BY <1>2 DEF Fail, Goto, IInv, TypeOK
  <2> QED  BY <2>1 DEF Timely
<1>3. ASSUME NEW r \in Turner, NEW l \in Line, Goto(r, "date"),
             seen' = [seen EXCEPT ![r] = line[l]], UNCHANGED <<day, on>>
      PROVE  Timely'
  <2>1. /\ pc'[r] = "date" /\ seen'[r] = line[l]
        /\ \A x \in Turner \ {r} : pc'[x] = pc[x] /\ seen'[x] = seen[x]
    BY <1>3 DEF Goto, IInv, TypeOK
  <2>2. \A s \in Side : line[l].since[s] # None => line[l].since[s] <= day
    BY DEF IInv, Dated
  <2> QED  BY <1>3, <2>1, <2>2 DEF Timely
<1>4. ASSUME NEW r \in Turner, Date(r) PROVE Timely'
  <2>1. /\ pc[r] = "date" /\ pc'[r] = "update" /\ on'[r] = day /\ UNCHANGED <<day, seen>>
        /\ \A x \in Turner \ {r} : pc'[x] = pc[x] /\ on'[x] = on[x]
    BY <1>4 DEF Date, Goto, IInv, TypeOK
  <2>2. day <= day + Late
    BY Days, ConstantsAssumption DEF IInv, TypeOK
  <2> QED  BY <2>1, <2>2 DEF Timely
<1>5. ASSUME NEW r \in Turner, Update(r) \/ Record(r) \/ Commit(r) PROVE Timely'
  <2>1. /\ UNCHANGED <<day, seen, on>> /\ pc[r] \in {"update", "record", "commit"}
        /\ pc'[r] # "date"
        /\ \A x \in Turner \ {r} : pc'[x] = pc[x]
    BY <1>5 DEF Update, Record, Commit, Goto, IInv, TypeOK
  <2> QED  BY <2>1 DEF Timely
<1>6. CASE Tick
  <2>1. day' = day + 1 /\ day \in Nat /\ UNCHANGED <<pc, seen, on>>
    BY <1>6, Days DEF Tick, IInv, TypeOK
  <2>2. ASSUME NEW r \in Turner, pc[r] = "date", NEW s \in Side, seen[r].since[s] # None
        PROVE  seen[r].since[s] <= day + 1
    <3>1. seen[r] \in Row
      BY <2>2 DEF IInv, SeenBefore, Running
    <3>2. seen[r].since[s] \in Nat
      BY <2>2, <3>1, RowColumns, Days
    <3>3. seen[r].since[s] <= day
      BY <2>2 DEF Timely
    <3> QED  BY <2>1, <3>2, <3>3
  <2>3. ASSUME NEW r \in Turner, pc[r] \in {"update", "record", "commit"}
        PROVE  day + 1 <= on[r] + Late
    <3>1. on[r] \in Nat /\ on[r] # None
      BY <2>3, Days DEF IInv, SeenBefore
    <3>2. day < on[r] + Late
      BY <1>6, <2>3, <3>1 DEF Tick, Open
    <3> QED  BY <2>1, <3>1, <3>2, ConstantsAssumption
  <2> QED  BY <2>1, <2>2, <2>3 DEF Timely
<1> QED  BY <1>1, <1>2, <1>3, <1>4, <1>5, <1>6 DEF Next, Step, Cancel, Read

\* The day the side in service was put there, or the line was.
From(row) == IF row.since[row.side] # None THEN row.since[row.side] ELSE row.install

\* Of a line in service since the first day, the days served are those since
\* that day.
LEMMA ServedSince ==
  ASSUME NEW row \in Row, row.side \in Side, row.install = 0, NEW d \in Nat,
         row.since[row.side] # None => row.since[row.side] <= d
  PROVE  From(row) \in Nat /\ From(row) <= d /\ Elapsed(row, d) = d - From(row)
<1>1. row.since[row.side] # None => row.since[row.side] \in Nat
  BY RowColumns, Days
<1>2. From(row) \in Nat /\ From(row) <= d
  BY <1>1 DEF From
<1>3. Elapsed(row, d) = AgeDays(From(row), d)
  BY DEF Elapsed, From
<1>4. From(row) # None
  BY <1>2, ConstantsAssumption
<1> QED  BY <1>2, <1>3, <1>4 DEF AgeDays, DaysBetween

\* A day passes.
LEMMA TickPasses ==
  ASSUME IInv, InService, Tick
  PROVE  Aging!Pass
<1>1. day \in Nat /\ day' = day + 1 /\ line' = line
  BY Days DEF Tick, IInv, TypeOK
<1>2. ASSUME NEW l \in Line
      PROVE  /\ Elapsed(line[l], day) \in Nat
             /\ Elapsed(line[l], day + 1) = Elapsed(line[l], day) + 1
             /\ \A s \in Side : line[l].acc[s] \in Nat
  <2>1. line[l] \in Row /\ line[l].side \in Side /\ line[l].install = 0
    BY DEF IInv, TypeOK, InService
  <2>2. line[l].since[line[l].side] # None =>
          line[l].since[line[l].side] \in Nat /\ line[l].since[line[l].side] <= day
    BY <2>1, RowColumns, Days DEF IInv, Dated
  <2>3. line[l].since[line[l].side] # None => line[l].since[line[l].side] <= day + 1
    BY <1>1, <2>2
  <2>4. /\ From(line[l]) \in Nat /\ From(line[l]) <= day
        /\ Elapsed(line[l], day) = day - From(line[l])
    BY <1>1, <2>1, <2>2, ServedSince
  <2>5. Elapsed(line[l], day + 1) = day + 1 - From(line[l])
    BY <1>1, <2>1, <2>3, ServedSince
  <2> QED  BY <1>1, <2>1, <2>4, <2>5, RowColumns
<1>3. Worn' = [l \in Line |-> [s \in Side |->
                 IF line[l].side = s THEN Worn[l][s] + 1 ELSE Worn[l][s]]]
  BY <1>1, <1>2 DEF Worn
<1> QED  BY <1>1, <1>3 DEF Aging!Pass, Aging!Side, Side

\* A turn is committed of the row it read.
LEMMA CommitTurns ==
  ASSUME IInv, Timely, InService, NEW r \in Turner, Commit(r), seen[r] = line[target[r]],
         NEW k \in Line, k = target[r]
  PROVE  Aging!Turn(k)
<1> DEFINE row == line[k]
           old == row.side
           new == Other(old)
           t == Turned(r)
           d == day - on[r]
<1>1. /\ k \in Line /\ row \in Row /\ old \in Side /\ on[r] \in Day /\ row.install = 0
      /\ pc[r] = "commit" /\ line' = [line EXCEPT ![k] = t] /\ day' = day
  BY DEF Commit, IInv, SeenBefore, Running, InService
<1>2. /\ day \in Nat /\ on[r] \in Nat /\ on[r] # None /\ on[r] <= day /\ day <= on[r] + Late
      /\ (row.since[old] # None => row.since[old] <= on[r])
  BY <1>1, Days DEF IInv, TypeOK, Dated, Timely
<1>3. /\ t \in Row /\ new \in Side /\ new # old /\ t.side = new /\ t.install = 0
      /\ \A s \in Side : /\ t.acc[s] = IF s = old THEN row.acc[s] + Elapsed(row, on[r])
                                                  ELSE row.acc[s]
                         /\ t.since[s] = IF s = new THEN on[r] ELSE row.since[s]
  BY <1>1, TurnedRow DEF IInv, Other
<1>4. row.acc[old] \in Nat /\ row.acc[new] \in Nat
  BY <1>1, <1>3, RowColumns
<1>5. row.since[old] # None => row.since[old] \in Nat /\ row.since[old] <= day
  BY <1>1, <1>2, RowColumns, Days DEF IInv, Dated
<1>6. /\ From(row) \in Nat /\ From(row) <= on[r] /\ Elapsed(row, on[r]) = on[r] - From(row)
  BY <1>1, <1>2, ServedSince
<1>7. Elapsed(row, day) = day - From(row)
  BY <1>1, <1>2, <1>5, ServedSince
<1>8. t.since[t.side] = on[r]
  BY <1>3
<1>9. From(t) = on[r]
  BY <1>2, <1>8 DEF From
<1>10. Elapsed(t, day) = day - on[r]
  BY <1>2, <1>3, <1>8, <1>9, ServedSince
<1> HIDE DEF row, new, t
<1>11. Worn \in [Line -> [Side -> Int]] /\ \A l \in Line, s \in Side :
         Worn[l][s] = line[l].acc[s] + IF line[l].side = s THEN Elapsed(line[l], day) ELSE 0
  <2>1. ASSUME NEW l \in Line, NEW s \in Side
        PROVE  line[l].acc[s] + (IF line[l].side = s THEN Elapsed(line[l], day) ELSE 0) \in Int
    <3>1. line[l] \in Row /\ line[l].side \in Side /\ day \in Day
      BY DEF IInv, TypeOK, InService
    <3>2. line[l].acc[s] \in Nat /\ Elapsed(line[l], day) \in Nat
      BY <3>1, DaysServed, RowColumns
    <3> QED  BY <3>2
  <2> QED  BY <2>1 DEF Worn
<1>12. Worn' = [l \in Line |-> [s \in Side |->
                 line'[l].acc[s] + IF line'[l].side = s THEN Elapsed(line'[l], day) ELSE 0]]
  BY <1>1 DEF Worn
<1>13. /\ \A l \in Line \ {k} : line'[l] = line[l]
       /\ line'[k] = t
  BY <1>1 DEF IInv, TypeOK
<1>14. d \in 0..Late /\ d <= Worn[k][old]
  BY <1>1, <1>2, <1>4, <1>6, <1>7, <1>11, ConstantsAssumption DEF row
<1>15. Worn'[k] = [Worn[k] EXCEPT ![old] = @ - d, ![new] = @ + d]
  <2>1. Worn'[k] = [s \in Side |-> t.acc[s] + IF t.side = s THEN Elapsed(t, day) ELSE 0]
    BY <1>1, <1>12, <1>13
  <2>2. Worn'[k][old] = Worn[k][old] - d
    BY <1>1, <1>2, <1>3, <1>4, <1>6, <1>7, <1>11, <2>1 DEF row
  <2>3. Worn'[k][new] = Worn[k][new] + d
    BY <1>1, <1>2, <1>3, <1>4, <1>10, <1>11, <2>1 DEF row
  <2>4. Side = {old, new}
    BY <1>1, <1>3 DEF Side
  <2>5. Worn[k] \in [Side -> Int]
    BY <1>1, <1>11
  <2> QED  BY <1>3, <2>1, <2>2, <2>3, <2>4, <2>5
<1>16. Worn' = [Worn EXCEPT ![k][old] = @ - d, ![k][new] = @ + d]
  <2> DEFINE u == [Worn EXCEPT ![k][old] = @ - d, ![k][new] = @ + d]
  <2>1. \A l \in Line \ {k} : Worn'[l] = Worn[l]
    BY <1>12, <1>13 DEF Worn
  <2>2. PICK w : w = Worn'
    OBVIOUS
  <2>3. w = [l \in Line |-> w[l]]
    BY <1>12, <2>2
  <2>4. /\ old \in Side /\ new \in Side /\ old # new
    BY <1>1, <1>3
  <2> HIDE DEF d, old
  <2>5. u = [l \in Line |-> u[l]]
    BY <1>11
  <2>6. \A l \in Line \ {k} : u[l] = Worn[l]
    BY <1>11
  <2>7. u[k] = [Worn[k] EXCEPT ![old] = @ - d, ![new] = @ + d]
    BY <1>11, <2>4
  <2> HIDE DEF u
  <2>8. w[k] = u[k]
    BY <1>15, <2>2, <2>7
  <2>9. \A l \in Line : w[l] = u[l]
    BY <2>1, <2>2, <2>6, <2>8
  <2>10. w = u
    BY <2>3, <2>5, <2>9
  <2> QED  BY <2>2, <2>10 DEF u
<1>17. [l \in Line |-> line[l].side]' = [[l \in Line |-> line[l].side] EXCEPT ![k] = new]
  <2>1. \A l \in Line : line'[l].side = IF l = k THEN new ELSE line[l].side
    BY <1>1, <1>3, <1>13
  <2>2. [l \in Line |-> line'[l].side]
          = [l \in Line |-> IF l = k THEN new ELSE line[l].side]
    BY <2>1
  <2>3. [[l \in Line |-> line[l].side] EXCEPT ![k] = new]
          = [l \in Line |-> IF l = k THEN new ELSE line[l].side]
    BY <1>1
  <2> QED  BY <2>2, <2>3
<1> QED  BY <1>1, <1>3, <1>14, <1>16, <1>17
      DEF Aging!Turn, Aging!Side, Aging!Other, Side, Other, new, row

\* As long as turns do not overlap, the ages are what SideAge says.
THEOREM FreshTurnsAge == Spec => FreshTurnAges
<1> DEFINE A == InService /\ (\A r \in Turner :
                    pc[r] = "commit" /\ pc'[r] = "done" => seen[r] = line[target[r]])
                  => Aging!Next \/ UNCHANGED <<day, line>>
<1>1. Init => Timely
  BY DEF Init, Timely
<1>2. Spec => [](IInv /\ Timely)
  BY <1>1, InitTurning, NextTurning, NextTimely, PTL DEF Spec
<1>3. IInv /\ Timely /\ [Next]_vars => [A]_vars
  <2> SUFFICES ASSUME IInv, Timely, Next, InService,
                      \A r \in Turner :
                        pc[r] = "commit" /\ pc'[r] = "done" => seen[r] = line[target[r]]
               PROVE  Aging!Next \/ UNCHANGED <<day, line>>
    OBVIOUS
  <2>1. CASE Tick
    BY <2>1, TickPasses DEF Aging!Next
  <2>2. ASSUME NEW r \in Turner, Commit(r) PROVE Aging!Next
    <3>1. pc[r] = "commit" /\ pc'[r] = "done" /\ target[r] \in Line
      BY <2>2 DEF Commit, Goto, IInv, TypeOK, SeenBefore, Running
    <3>2. seen[r] = line[target[r]]
      BY <3>1
    <3>3. PICK k \in Line : k = target[r]
      BY <3>1
    <3>4. Aging!Turn(k)
      BY <2>2, <3>2, <3>3, CommitTurns
    <3> QED  BY <3>4 DEF Aging!Next
  <2>3. ASSUME NEW r \in Turner,
               Read(r) \/ Date(r) \/ Update(r) \/ Record(r) \/ Cancel(r)
        PROVE  UNCHANGED <<day, line>>
    BY <2>3 DEF Read, Date, Update, Record, Cancel, Fail
  <2> QED  BY <2>1, <2>2, <2>3 DEF Next, Step
<1> QED  BY <1>2, <1>3, PTL DEF Spec, FreshTurnAges
=============================================================================
