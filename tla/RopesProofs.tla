---------------------------- MODULE RopesProofs ----------------------------
(***************************************************************************)
(* What the comments of AddLineDialog promise of a line that is registered *)
(* onto a drum, for any number of browsers, dialogs, lines and drums.      *)
(***************************************************************************)
EXTENDS Ropes, TLAPS

Stages ==
  {"unused", "form", "registering", "register ok", "register failed",
   "moving", "move ok", "move failed", "done", "dropped"}

Errors == {"nothing", "could not register", "saved as a spare", "move failed"}

Dialog == [stage : Stages, kind : {"none", "move", "assign", "register"},
           by : Client \cup {None}, line : Line \cup {None},
           from : Position \cup {None}, to : Position \cup {None},
           life : {"ordered", "active", "spare"}]

Past == [placing : BOOLEAN, moved : BOOLEAN, taken : BOOLEAN]

Types ==
  /\ line \in [Line -> Row \cup {None}]
  /\ view \in [Client -> [Line -> Row \cup {None}]]
  /\ flow \in [Flow -> Dialog]
  /\ told \in [Flow -> Errors]
  /\ past \in [Line -> Past]

\* What a dialog is for does not change; what a request asks for is known when
\* it is sent.
Asked ==
  \A f \in Flow :
    /\ flow[f].kind = "assign" => flow[f].to \in Drum
    /\ flow[f].kind = "move" => flow[f].line \in Line
    /\ flow[f].kind = "register" => flow[f].to \in Drum \cup {None}
    /\ flow[f].stage \in {"registering", "register ok", "register failed"} =>
         flow[f].kind = "register" /\ flow[f].line \in Line
    /\ flow[f].stage \in {"moving", "move ok", "move failed"} =>
         flow[f].line \in Line /\ flow[f].to \in Position

\* A line for a drum is registered as a spare.
AsksForSpare ==
  \A f \in Flow : Placing(f) /\ flow[f].stage = "registering" => flow[f].life = "spare"

\* An error is shown in a form.
ToldInForm == \A f \in Flow : told[f] # "nothing" => flow[f].stage = "form"

\* Registered by a dialog, and a spare without a place until it is moved.
Saved(l) ==
  /\ l \in Line /\ Exists(line, l)
  /\ ~past[l].moved => line[l] = [life |-> "spare", at |-> None]

\* The dialog has been told that it registered its line, for a drum.
Placed(f) ==
  /\ Placing(f)
  /\ \/ flow[f].stage \in {"register ok", "moving", "move ok", "move failed"}
     \/ told[f] = "saved as a spare"

RegisteredIsSaved == \A f \in Flow : Placed(f) => Saved(flow[f].line)

ToldWhenPlacing == \A f \in Flow : told[f] = "saved as a spare" => Placing(f)

IInv ==
  /\ Types /\ Asked /\ AsksForSpare /\ ToldInForm /\ RegisteredIsSaved
  /\ ToldWhenPlacing /\ NeverHalfPlaced

-----------------------------------------------------------------------------

\* The blank dialogs.
LEMMA Blank ==
  /\ Unused = [stage |-> "unused", kind |-> "none", by |-> None, line |-> None,
               from |-> None, to |-> None, life |-> "spare"]
  /\ Dropped = [stage |-> "dropped", kind |-> "none", by |-> None, line |-> None,
                from |-> None, to |-> None, life |-> "spare"]
  BY DEF Unused, Dropped

\* At the start no dialog has been opened.
LEMMA InitRopes == Init => IInv
<1> SUFFICES ASSUME Init PROVE IInv
  OBVIOUS
<1>1. Types
  <2>1. line \in [Line -> Row \cup {None}]
    BY ConstantsAssumption DEF Init
  <2>2. view \in [Client -> [Line -> Row \cup {None}]]
    BY <2>1 DEF Init
  <2>3. flow = [f \in Flow |-> Unused] /\ told = [f \in Flow |-> "nothing"]
        /\ past = [l \in Line |-> [placing |-> FALSE, moved |-> FALSE, taken |-> FALSE]]
    BY DEF Init
  <2>4. Unused \in Dialog
    BY Blank DEF Dialog, Stages
  <2> QED  BY <2>1, <2>2, <2>3, <2>4 DEF Types, Past, Errors
<1>2. Asked /\ AsksForSpare /\ ToldInForm /\ RegisteredIsSaved /\ ToldWhenPlacing
  BY Blank DEF Init, Asked, AsksForSpare, ToldInForm, RegisteredIsSaved, ToldWhenPlacing,
               Placed, Placing
<1>3. NeverHalfPlaced
  BY DEF Init, NeverHalfPlaced
<1> QED  BY <1>1, <1>2, <1>3 DEF IInv

\* The invariant is about what the server and the dialogs hold.
LEMMA Untouched ==
  ASSUME IInv, UNCHANGED <<line, flow, told, past>>, Types'
  PROVE  IInv'
BY DEF IInv, Asked, AsksForSpare, ToldInForm, RegisteredIsSaved, ToldWhenPlacing,
       NeverHalfPlaced, Placed, Placing, Saved, Exists

\* A dialog is opened.
LEMMA OpenRopes ==
  ASSUME IInv, NEW c \in Client, NEW f \in Flow, OpenDialog(c, f)
  PROVE  IInv'
<1> USE DEF IInv
<1>1. PICK kind \in {"move", "assign", "register"}, l \in Line \cup {None},
           from \in Position \cup {None}, to \in Drum \cup {None} :
        /\ Open(c, f, kind, l, from, to)
        /\ kind = "assign" => to \in Drum
        /\ kind = "move" => l \in Line
  <2>1. ASSUME NEW l \in Line, Exists(view[c], l)
        PROVE  view[c][l].at \in Position \cup {None}
    BY <2>1 DEF Types, Row, Exists, Position
  <2>2. CASE \E l \in Line : /\ Exists(view[c], l) /\ view[c][l].at # None
                             /\ Open(c, f, "move", l, view[c][l].at, None)
    BY <2>1, <2>2
  <2>3. CASE \E d \in Drum : /\ Empty(view[c], d)
                             /\ \/ Open(c, f, "assign", None, None, d)
                                \/ Open(c, f, "register", None, None, d)
    BY <2>3
  <2>4. CASE Open(c, f, "register", None, None, None)
    BY <2>4
  <2> QED  BY <2>2, <2>3, <2>4 DEF OpenDialog
<1>2. Types'
  BY <1>1 DEF Open, Types, Dialog, Stages, Position
<1>3. Asked' /\ AsksForSpare'
  BY <1>1 DEF Open, Types, Asked, AsksForSpare, Placing
<1>4. told[f] = "nothing"
  BY <1>1, Blank DEF Open, ToldInForm
<1>5. ToldInForm' /\ ToldWhenPlacing' /\ RegisteredIsSaved' /\ NeverHalfPlaced'
  BY <1>1, <1>4 DEF Open, Types, ToldInForm, ToldWhenPlacing, RegisteredIsSaved, Placed, Placing,
                    Saved, Exists, NeverHalfPlaced
<1> QED  BY <1>2, <1>3, <1>5

\* A dialog is submitted with new contents: what it placed before is not what
\* it asks for now, unless it is for another kind.
LEMMA SubmitRopes ==
  ASSUME IInv, NEW c \in Client, NEW f \in Flow,
         PickTarget(c, f) \/ PickLine(c, f) \/ SubmitRegister(c, f)
  PROVE  IInv'
<1> USE DEF IInv
<1>1. PICK new :
        /\ Submit(c, f, new)
        /\ new \in Dialog /\ new.stage \in {"moving", "registering"}
        /\ new.kind = flow[f].kind /\ new.line \in Line
        /\ new.stage = "moving" => new.kind \in {"move", "assign"} /\ new.to \in Position
        /\ new.stage = "registering" => new.kind = "register" /\ new.to = flow[f].to
        /\ new.kind = "assign" => new.to = flow[f].to
        /\ new.kind = "register" /\ new.to # None => new.life = "spare"
  <2>1. CASE PickTarget(c, f)
    <3>1. PICK p \in Targets(view[c], flow[f].from) :
            Submit(c, f, [flow[f] EXCEPT !.stage = "moving", !.to = p])
      BY <2>1 DEF PickTarget
    <3>2. p \in Position /\ flow[f].line \in Line /\ flow[f].kind = "move"
      BY <2>1 DEF PickTarget, Targets, Position, Asked
    <3>3. flow[f] \in Dialog
      BY DEF Types
    <3> DEFINE new == [flow[f] EXCEPT !.stage = "moving", !.to = p]
    <3>4. /\ new \in Dialog /\ new.stage = "moving" /\ new.kind = flow[f].kind
          /\ new.line = flow[f].line /\ new.to = p
      BY <3>2, <3>3 DEF Dialog, Stages
    <3> QED  BY <3>1, <3>2, <3>4
  <2>2. CASE PickLine(c, f)
    <3>1. PICK l \in Line : Submit(c, f, [flow[f] EXCEPT !.stage = "moving", !.line = l])
      BY <2>2 DEF PickLine
    <3>2. flow[f].to \in Position /\ flow[f].kind = "assign"
      BY <2>2 DEF PickLine, Asked, Position
    <3>3. flow[f] \in Dialog
      BY DEF Types
    <3> DEFINE new == [flow[f] EXCEPT !.stage = "moving", !.line = l]
    <3>4. /\ new \in Dialog /\ new.stage = "moving" /\ new.kind = flow[f].kind
          /\ new.line = l /\ new.to = flow[f].to
      BY <3>3 DEF Dialog, Stages
    <3> QED  BY <3>1, <3>2, <3>4
  <2>3. CASE SubmitRegister(c, f)
    <3>1. PICK l \in Line, life \in Chosen :
            Submit(c, f, [flow[f] EXCEPT !.stage = "registering", !.line = l,
                                         !.life = RegisteredLife(f, life)])
      BY <2>3 DEF SubmitRegister
    <3>2. flow[f].to \in Position \cup {None} /\ flow[f].kind = "register"
      BY <2>3 DEF SubmitRegister, Types, Dialog
    <3>3. flow[f] \in Dialog
      BY DEF Types
    <3>4. /\ RegisteredLife(f, life) \in {"ordered", "active", "spare"}
          /\ flow[f].to # None => RegisteredLife(f, life) = "spare"
      BY <3>2, ConstantsAssumption DEF RegisteredLife, Placing
    <3> DEFINE new == [flow[f] EXCEPT !.stage = "registering", !.line = l,
                                      !.life = RegisteredLife(f, life)]
    <3>5. /\ new \in Dialog /\ new.stage = "registering" /\ new.kind = flow[f].kind
          /\ new.line = l /\ new.to = flow[f].to /\ new.life = RegisteredLife(f, life)
      BY <3>3, <3>4 DEF Dialog, Stages
    <3> QED  BY <3>1, <3>2, <3>4, <3>5
  <2> QED  BY <2>1, <2>2, <2>3
<1>2. /\ flow' = [flow EXCEPT ![f] = new] /\ told' = [told EXCEPT ![f] = "nothing"]
      /\ UNCHANGED <<line, view, past>>
  BY <1>1 DEF Submit
<1>4. Types'
  BY <1>1, <1>2 DEF Types, Errors
<1>5. Asked'
  BY <1>1, <1>2 DEF Types, Asked
<1>6. AsksForSpare' /\ ToldInForm' /\ ToldWhenPlacing' /\ NeverHalfPlaced'
  <2>1. AsksForSpare'
    BY <1>1, <1>2 DEF Types, AsksForSpare, Placing
  <2>2. ToldInForm' /\ ToldWhenPlacing'
    BY <1>1, <1>2 DEF Types, ToldInForm, ToldWhenPlacing, Placing
  <2>3. NeverHalfPlaced'
    BY <1>2 DEF NeverHalfPlaced, Exists
  <2> QED  BY <2>1, <2>2, <2>3
<1>7. RegisteredIsSaved'
  BY <1>1, <1>2 DEF Types, RegisteredIsSaved, Placed, Placing, Saved, Exists
<1> QED  BY <1>4, <1>5, <1>6, <1>7

\* A dialog goes from one stage to another.
LEMMA NextStage ==
  ASSUME flow \in [Flow -> Dialog], NEW f \in Flow, NEW stage \in Stages,
         Reaches(f, stage)
  PROVE  /\ flow' \in [Flow -> Dialog]
         /\ \A g \in Flow : /\ flow'[g].kind = flow[g].kind /\ flow'[g].to = flow[g].to
                            /\ flow'[g].line = flow[g].line /\ flow'[g].life = flow[g].life
                            /\ flow'[g].stage = IF g = f THEN stage ELSE flow[g].stage
BY DEF Dialog, Reaches

\* Such a dialog has placed nothing, or keeps what it has placed.
LEMMA StageRopes ==
  ASSUME IInv, NEW f \in Flow, NEW stage \in Stages, Reaches(f, stage),
         UNCHANGED <<line, view, told, past>>,
         \/ flow[f].stage = "registering" /\ stage = "register failed"
         \/ flow[f].stage = "register ok" /\ stage = "moving" /\ Placing(f)
         \/ flow[f].stage = "moving" /\ stage = "move failed"
         \/ flow[f].stage = "move ok" /\ stage = "done"
  PROVE  IInv'
<1> USE DEF IInv
<1>1. /\ flow' \in [Flow -> Dialog]
      /\ \A g \in Flow : /\ flow'[g].kind = flow[g].kind /\ flow'[g].to = flow[g].to
                         /\ flow'[g].line = flow[g].line /\ flow'[g].life = flow[g].life
                         /\ flow'[g].stage = IF g = f THEN stage ELSE flow[g].stage
  BY NextStage DEF Types
<1>2. Types' /\ told[f] = "nothing"
  BY <1>1 DEF Types, ToldInForm
<1>3. Asked'
  BY <1>1 DEF Asked, Placing, Position
<1>4. AsksForSpare' /\ ToldInForm' /\ ToldWhenPlacing'
  <2>1. AsksForSpare /\ ToldInForm /\ ToldWhenPlacing
    OBVIOUS
  <2> HIDE DEF IInv
  <2>2. AsksForSpare'
    BY <1>1, <2>1 DEF AsksForSpare, Placing, Reaches
  <2>3. ToldInForm'
    BY <1>1, <1>2, <2>1 DEF ToldInForm
  <2>4. ToldWhenPlacing'
    BY <1>1, <2>1 DEF ToldWhenPlacing, Placing
  <2> QED  BY <2>2, <2>3, <2>4
<1>5. NeverHalfPlaced'
  BY DEF NeverHalfPlaced, Exists
<1>6. RegisteredIsSaved'
  <2>1. \A g \in Flow : Placed(g)' => Placed(g)
    BY <1>1, <1>2 DEF Placed, Placing
  <2>2. \A g \in Flow : Saved(flow[g].line) => Saved(flow[g].line)'
    BY <1>1 DEF Saved, Exists
  <2> QED  BY <2>1, <2>2 DEF RegisteredIsSaved
<1> QED  BY <1>2, <1>3, <1>4, <1>5, <1>6

\* The server registers a line that did not exist: nobody has been told of it.
LEMMA RegisterRopes ==
  ASSUME IInv, NEW f \in Flow, RegisterArrives(f)
  PROVE  IInv'
<1> USE DEF IInv
<1> DEFINE l == flow[f].line
           row == [life |-> flow[f].life, at |-> None]
<1>1. PICK stage \in {"register ok", "register failed"} : Reaches(f, stage)
  BY DEF RegisterArrives
<1>2. /\ flow' \in [Flow -> Dialog]
      /\ \A g \in Flow : /\ flow'[g].kind = flow[g].kind /\ flow'[g].to = flow[g].to
                         /\ flow'[g].line = flow[g].line /\ flow'[g].life = flow[g].life
                         /\ flow'[g].stage = IF g = f THEN stage ELSE flow[g].stage
  <2>1. flow \in [Flow -> Dialog] /\ stage \in Stages
    BY DEF Types, Stages
  <2> QED  BY <1>1, <2>1, NextStage
<1>3. /\ flow[f].stage = "registering" /\ ~Exists(line, l) /\ l \in Line
      /\ flow[f].kind = "register"
      /\ line' = [line EXCEPT ![l] = row]
      /\ past' = [past EXCEPT ![l].placing = Placing(f)]
      /\ UNCHANGED <<view, told>>
  BY DEF RegisterArrives, Asked
<1>4. row \in Row /\ row # None
  <2>1. flow[f].life \in {"ordered", "active", "spare"}
    BY DEF Types, Dialog
  <2>2. row \in [life : {"ordered", "active", "spare"}, at : {None}]
    BY <2>1
  <2>3. row \in Row
    BY <2>2 DEF Row
  <2> HIDE DEF row
  <2> QED  BY <2>3, ConstantsAssumption
<1>5. /\ past' \in [Line -> Past]
      /\ \A k \in Line : /\ past'[k].moved = past[k].moved
                         /\ past'[k].taken = past[k].taken
                         /\ past'[k].placing = IF k = l THEN Placing(f) ELSE past[k].placing
  BY <1>3 DEF Types, Past, Placing
<1>6. Types' /\ told[f] = "nothing"
  BY <1>2, <1>3, <1>4, <1>5 DEF Types, ToldInForm
<1>7. Asked' /\ AsksForSpare' /\ ToldInForm' /\ ToldWhenPlacing'
  <2>1. Asked'
    BY <1>2, <1>3 DEF Asked
  <2>2. AsksForSpare'
    BY <1>2 DEF AsksForSpare, Placing
  <2>3. ToldInForm'
    BY <1>2, <1>3, <1>6 DEF ToldInForm
  <2>4. ToldWhenPlacing'
    BY <1>2, <1>3 DEF ToldWhenPlacing, Placing
  <2> QED  BY <2>1, <2>2, <2>3, <2>4
<1>8. NeverHalfPlaced'
  BY <1>3, <1>5 DEF NeverHalfPlaced, Types, Exists, AsksForSpare
<1>9. RegisteredIsSaved'
  <2>1. \A k : Saved(k) => Saved(k)'
    BY <1>3, <1>5 DEF Saved, Exists, Types
  <2>2. \A g \in Flow : g # f /\ Placed(g)' => Placed(g)
    BY <1>2, <1>3 DEF Placed, Placing
  <2>3. Placed(f)' => Saved(l)'
    BY <1>2, <1>3, <1>4, <1>5, <1>6 DEF Placed, Placing, Saved, Exists, Types, AsksForSpare
  <2> QED  BY <1>2, <2>1, <2>2, <2>3 DEF RegisteredIsSaved
<1> QED  BY <1>6, <1>7, <1>8, <1>9

\* The server moves a line: it is somewhere then.
LEMMA MoveRopes ==
  ASSUME IInv, NEW f \in Flow, MoveArrives(f)
  PROVE  IInv'
<1> USE DEF IInv
<1> DEFINE l == flow[f].line
           p == flow[f].to
           row == [life |-> LifeAt(p), at |-> p]
<1>1. PICK stage \in {"move ok", "move failed"} : Reaches(f, stage)
  BY DEF MoveArrives
<1>2. /\ flow' \in [Flow -> Dialog]
      /\ \A g \in Flow : /\ flow'[g].kind = flow[g].kind /\ flow'[g].to = flow[g].to
                         /\ flow'[g].line = flow[g].line /\ flow'[g].life = flow[g].life
                         /\ flow'[g].stage = IF g = f THEN stage ELSE flow[g].stage
  <2>1. flow \in [Flow -> Dialog] /\ stage \in Stages
    BY DEF Types, Stages
  <2> QED  BY <1>1, <2>1, NextStage
<1>3. /\ flow[f].stage = "moving" /\ Exists(line, l) /\ l \in Line /\ p \in Position
      /\ line' = [line EXCEPT ![l] = row]
      /\ past' = [past EXCEPT ![l].moved = TRUE, ![l].taken = FALSE]
      /\ UNCHANGED <<view, told>>
  BY DEF MoveArrives, Asked
<1>4. row \in Row /\ row # None /\ p # None
  <2>1. p # None
    BY <1>3, ConstantsAssumption
  <2>2. CASE p \in Storage
    <3>1. row \in [life : {"spare"}, at : Storage]
      BY <2>2 DEF LifeAt
    <3> QED  BY <2>1, <3>1, ConstantsAssumption DEF Row
  <2>3. CASE p \notin Storage
    <3>1. row \in [life : {"active"}, at : Drum]
      BY <1>3, <2>3 DEF LifeAt, Position
    <3> QED  BY <2>1, <3>1, ConstantsAssumption DEF Row
  <2> QED  BY <2>2, <2>3
<1>5. /\ past' \in [Line -> Past]
      /\ \A k \in Line : /\ past'[k].placing = past[k].placing
                         /\ past'[k].moved = IF k = l THEN TRUE ELSE past[k].moved
                         /\ past'[k].taken = IF k = l THEN FALSE ELSE past[k].taken
  BY <1>3 DEF Types, Past
<1>6. Types' /\ told[f] = "nothing"
  BY <1>2, <1>3, <1>4, <1>5 DEF Types, ToldInForm
<1>7. Asked' /\ AsksForSpare' /\ ToldInForm' /\ ToldWhenPlacing'
  <2>1. Asked'
    BY <1>2, <1>3 DEF Asked
  <2>2. AsksForSpare'
    BY <1>2 DEF AsksForSpare, Placing
  <2>3. ToldInForm'
    BY <1>2, <1>3, <1>6 DEF ToldInForm
  <2>4. ToldWhenPlacing'
    BY <1>2, <1>3 DEF ToldWhenPlacing, Placing
  <2> QED  BY <2>1, <2>2, <2>3, <2>4
<1>8. NeverHalfPlaced'
  BY <1>3, <1>4, <1>5 DEF NeverHalfPlaced, Types, Exists
<1>9. RegisteredIsSaved'
  <2>1. \A k : Saved(k) => Saved(k)'
    BY <1>3, <1>4, <1>5 DEF Saved, Exists, Types
  <2>2. \A g \in Flow : Placed(g)' => Placed(g)
    BY <1>2, <1>3, <1>6 DEF Placed, Placing
  <2> QED  BY <1>2, <2>1, <2>2 DEF RegisteredIsSaved
<1> QED  BY <1>6, <1>7, <1>8, <1>9

\* A layout save: who loses a place has had one, and keeps the status.
LEMMA RelayoutRopes ==
  ASSUME IInv, NEW changed \in SUBSET Position, Relayout(changed)
  PROVE  IInv'
<1> USE DEF IInv
<1>1. /\ UNCHANGED <<view, flow, told>>
      /\ line \in [Line -> Row \cup {None}] /\ past \in [Line -> Past]
      /\ line' = [l \in Line |-> IF l \in Lines(changed)
                                 THEN [life |-> line[l].life, at |-> None] ELSE line[l]]
      /\ past' = [l \in Line |-> [past[l] EXCEPT !.taken = @ \/ l \in Lines(changed)]]
  BY DEF Relayout, Types
<1>2. /\ past' \in [Line -> Past]
      /\ \A l \in Line : /\ past'[l].placing = past[l].placing
                         /\ past'[l].moved = past[l].moved
                         /\ l \in Lines(changed) => past'[l].taken
                         /\ l \notin Lines(changed) => past'[l] = past[l]
  BY <1>1 DEF Past
<1>3. ASSUME NEW l \in Lines(changed)
      PROVE  /\ l \in Line /\ line[l] # None /\ line[l].at # None
             /\ [life |-> line[l].life, at |-> None] \in Row
             /\ [life |-> line[l].life, at |-> None] # None
  <2>1. l \in Line /\ line[l] # None /\ line[l].at \in Position
    BY DEF Lines, Exists
  <2>2. line[l] \in Row /\ line[l].life \in {"ordered", "active", "spare"}
    BY <1>1, <2>1 DEF Row
  <2>3. [life |-> line[l].life, at |-> None]
          \in [life : {"ordered", "active", "spare"}, at : {None}]
    BY <2>2
  <2>4. [life |-> line[l].life, at |-> None] \in Row
    BY <2>3 DEF Row
  <2> QED  BY <2>1, <2>4, ConstantsAssumption
<1>4. Types'
  BY <1>1, <1>2, <1>3 DEF Types
<1>5. Asked' /\ AsksForSpare' /\ ToldInForm' /\ ToldWhenPlacing'
  BY <1>1 DEF Asked, AsksForSpare, ToldInForm, ToldWhenPlacing, Placing
<1>6. NeverHalfPlaced'
  <2> SUFFICES ASSUME NEW l \in Line, line'[l] # None, past'[l].placing, line'[l].at = None
               PROVE  line'[l].life = "spare" \/ past'[l].taken
    BY DEF NeverHalfPlaced, Exists
  <2>1. CASE l \in Lines(changed)
    BY <1>2, <2>1
  <2>2. CASE l \notin Lines(changed)
    <3>1. line'[l] = line[l] /\ past'[l] = past[l]
      BY <1>1, <1>2, <2>2
    <3> QED  BY <3>1 DEF NeverHalfPlaced, Exists
  <2> QED  BY <2>1, <2>2
<1>7. RegisteredIsSaved'
  <2>1. \A g \in Flow : Placed(g)' => Placed(g)
    BY <1>1 DEF Placed, Placing
  <2>2. ASSUME NEW l, Saved(l) PROVE Saved(l)'
    <3>1. CASE l \in Lines(changed)
      <4>1. past[l].moved
        BY <1>3, <2>2, <3>1 DEF Saved
      <4> QED  BY <1>1, <1>2, <1>3, <3>1, <4>1 DEF Saved, Exists
    <3>2. CASE l \notin Lines(changed)
      BY <1>1, <1>2, <2>2, <3>2 DEF Saved, Exists
    <3> QED  BY <3>1, <3>2
  <2> QED  BY <1>1, <2>1, <2>2 DEF RegisteredIsSaved
<1> QED  BY <1>4, <1>5, <1>6, <1>7

\* Dialogs that end, with the error they show.
LEMMA EndRopes ==
  ASSUME IInv, UNCHANGED <<line, view, past>>,
         flow' \in [Flow -> Dialog], told' \in [Flow -> Errors],
         \A g \in Flow :
           \/ flow'[g] = flow[g] /\ told'[g] \in {told[g], "nothing"}
           \/ flow'[g] = Dropped /\ told'[g] = "nothing"
           \/ flow'[g] = [flow[g] EXCEPT !.stage = "done"] /\ told'[g] = "nothing"
  PROVE  IInv'
<1> USE DEF IInv
<1>1. Types'
  BY DEF Types
<1>2. \A g \in Flow :
        \/ flow'[g] = flow[g] /\ told'[g] \in {told[g], "nothing"}
        \/ /\ flow'[g].stage \in {"dropped", "done"} /\ told'[g] = "nothing"
           /\ \/ flow'[g].kind = "none"
              \/ /\ flow'[g].kind = flow[g].kind /\ flow'[g].to = flow[g].to
                 /\ flow'[g].line = flow[g].line
  BY Blank DEF Types, Dialog
<1>3. Asked' /\ AsksForSpare' /\ ToldInForm' /\ ToldWhenPlacing'
  <2>1. Asked'
    <3>1. ASSUME NEW g \in Flow, flow'[g] # flow[g]
          PROVE  /\ flow'[g].stage \in {"dropped", "done"}
                 /\ \/ flow'[g].kind = "none"
                    \/ /\ flow'[g].kind = flow[g].kind /\ flow'[g].to = flow[g].to
                       /\ flow'[g].line = flow[g].line
      BY <1>2, <3>1
    <3> DEFINE AskedOf(d) ==
          /\ d.kind = "assign" => d.to \in Drum
          /\ d.kind = "move" => d.line \in Line
          /\ d.kind = "register" => d.to \in Drum \cup {None}
          /\ d.stage \in {"registering", "register ok", "register failed"} =>
               d.kind = "register" /\ d.line \in Line
          /\ d.stage \in {"moving", "move ok", "move failed"} =>
               d.line \in Line /\ d.to \in Position
    <3>2. \A g \in Flow : AskedOf(flow[g])
      BY DEF Asked
    <3>3. ASSUME NEW g \in Flow  PROVE  AskedOf(flow'[g])
      <4>1. CASE flow'[g] = flow[g]
        BY <3>2, <4>1
      <4>2. CASE flow'[g] # flow[g]
        BY <3>1, <3>2, <4>2
      <4> QED  BY <4>1, <4>2
    <3> HIDE DEF IInv
    <3> QED  BY <3>3 DEF Asked
  <2>2. AsksForSpare'
    BY <1>2 DEF AsksForSpare, Placing
  <2>3. ToldInForm'
    BY <1>2 DEF ToldInForm
  <2>4. ToldWhenPlacing'
    <3> SUFFICES ASSUME NEW g \in Flow, told'[g] = "saved as a spare"
                 PROVE  Placing(g)'
      BY DEF ToldWhenPlacing
    <3>1. flow'[g] = flow[g] /\ told[g] = "saved as a spare"
      BY <1>2
    <3>2. Placing(g)
      BY <3>1 DEF ToldWhenPlacing
    <3> QED  BY <3>1, <3>2 DEF Placing
  <2> QED  BY <2>1, <2>2, <2>3, <2>4
<1>4. NeverHalfPlaced'
  BY DEF NeverHalfPlaced, Exists
<1>5. RegisteredIsSaved'
  <2>1. \A g \in Flow : Placed(g)' => Placed(g) /\ flow'[g] = flow[g]
    BY <1>2 DEF Placed, Placing
  <2>2. \A k : Saved(k) => Saved(k)'
    BY DEF Saved, Exists
  <2> QED  BY <2>1, <2>2 DEF RegisteredIsSaved
<1> QED  BY <1>1, <1>3, <1>4, <1>5

\* onClose() after the awaits.
LEMMA CloseAnyRopes ==
  ASSUME IInv, NEW f \in Flow, flow[f].stage \in {"register ok", "move ok"},
         CloseAny(f), UNCHANGED <<line, view, past>>
  PROVE  IInv'
<1> USE DEF IInv
<1>1. flow \in [Flow -> Dialog] /\ told \in [Flow -> Errors] /\ told[f] = "nothing"
  BY DEF Types, ToldInForm
<1>2. [flow[f] EXCEPT !.stage = "done"] \in Dialog /\ Dropped \in Dialog
  BY <1>1, Blank DEF Dialog, Stages
<1>3. flow' \in [Flow -> Dialog] /\ told' \in [Flow -> Errors]
  BY <1>1, <1>2 DEF CloseAny, Errors
<1>4. \A g \in Flow :
        \/ flow'[g] = flow[g] /\ told'[g] \in {told[g], "nothing"}
        \/ flow'[g] = Dropped /\ told'[g] = "nothing"
        \/ flow'[g] = [flow[g] EXCEPT !.stage = "done"] /\ told'[g] = "nothing"
  BY <1>1 DEF CloseAny
<1> QED  BY <1>3, <1>4, EndRopes

\* A dialog is closed.
LEMMA CloseRopes ==
  ASSUME IInv, NEW c \in Client, Close(c)
  PROVE  IInv'
<1> USE DEF IInv
<1>1. flow \in [Flow -> Dialog] /\ told \in [Flow -> Errors]
  BY DEF Types
<1>2. CASE flow[shown[c]].stage = "form"
  <2>1. Dropped \in Dialog
    BY Blank, ConstantsAssumption DEF Dialog, Stages
  <2>2. /\ flow' = [flow EXCEPT ![shown[c]] = Dropped]
        /\ told' = [told EXCEPT ![shown[c]] = "nothing"]
        /\ UNCHANGED <<line, view, past>>
    BY <1>2 DEF Close
  <2>3. flow' \in [Flow -> Dialog] /\ told' \in [Flow -> Errors]
    BY <1>1, <2>1, <2>2 DEF Errors
  <2>4. \A g \in Flow : \/ flow'[g] = flow[g] /\ told'[g] \in {told[g], "nothing"}
                        \/ flow'[g] = Dropped /\ told'[g] = "nothing"
    BY <1>1, <2>2
  <2> QED  BY <2>2, <2>3, <2>4, EndRopes
<1>3. CASE flow[shown[c]].stage # "form"
  <2>1. UNCHANGED <<line, view, flow, told, past>>
    BY <1>3 DEF Close
  <2>2. Types'
    BY <2>1 DEF Types
  <2> QED  BY <2>1, <2>2, Untouched
<1> QED  BY <1>2, <1>3

\* A dialog gets an error: that the line was saved as a spare only when it was.
LEMMA ErrorRopes ==
  ASSUME IInv, NEW f \in Flow, RegisterErrs(f) \/ MoveErrs(f)
  PROVE  IInv'
<1> USE DEF IInv
<1>1. /\ flow \in [Flow -> Dialog] /\ told \in [Flow -> Errors] /\ told[f] = "nothing"
      /\ flow[f].stage \in {"register failed", "move failed"}
      /\ UNCHANGED <<line, view, past>>
  BY DEF Types, ToldInForm, RegisterErrs, MoveErrs
<1>2. PICK new \in Dialog, error \in Errors :
        /\ flow' = [flow EXCEPT ![f] = new] /\ told' = [told EXCEPT ![f] = error]
        /\ new.stage \in {"form", "dropped"}
        /\ error # "nothing" => new.stage = "form"
        /\ \/ new.kind = "none"
           \/ /\ new.kind = flow[f].kind /\ new.to = flow[f].to
              /\ new.kind = "move" => new.line \in Line
        /\ error = "saved as a spare" =>
             /\ flow[f].stage = "move failed" /\ new.kind = "register"
             /\ new.line = flow[f].line /\ new.to \in Position
  <2>1. Dropped \in Dialog /\ Dropped.stage = "dropped" /\ Dropped.kind = "none"
    BY Blank DEF Dialog, Stages
  <2>2. CASE shown[flow[f].by] # f
    <3>1. flow' = [flow EXCEPT ![f] = Dropped] /\ told' = [told EXCEPT ![f] = "nothing"]
      BY <2>2 DEF RegisterErrs, MoveErrs, BackToForm
    <3> QED  BY <2>1, <3>1 DEF Errors
  <2>3. CASE RegisterErrs(f) /\ shown[flow[f].by] = f
    <3> DEFINE typed == [flow[f] EXCEPT !.line = None, !.life = "spare"]
               back == [typed EXCEPT !.stage = "form"]
    <3>1. typed \in Dialog /\ typed.kind = flow[f].kind /\ typed.to = flow[f].to
      BY <1>1 DEF Dialog
    <3>2. /\ back \in Dialog /\ back.stage = "form" /\ back.kind = flow[f].kind
          /\ back.to = flow[f].to
      BY <3>1 DEF Dialog, Stages
    <3>3. flow[f].kind = "register"
      BY <2>3 DEF RegisterErrs, Asked
    <3>4. flow' = [flow EXCEPT ![f] = back] /\ told' = [told EXCEPT ![f] = "could not register"]
      BY <2>3 DEF RegisterErrs, BackToForm
    <3> HIDE DEF back
    <3> QED  BY <3>2, <3>3, <3>4 DEF Errors
  <2>4. CASE MoveErrs(f) /\ shown[flow[f].by] = f
    <3> DEFINE back == [flow[f] EXCEPT !.stage = "form"]
               error == IF flow[f].kind = "register" THEN "saved as a spare" ELSE "move failed"
    <3>1. /\ back \in Dialog /\ back.stage = "form" /\ back.kind = flow[f].kind
          /\ back.to = flow[f].to /\ back.line = flow[f].line
      BY <1>1 DEF Dialog, Stages
    <3>2. flow[f].stage = "move failed" /\ flow[f].line \in Line /\ flow[f].to \in Position
      BY <2>4 DEF MoveErrs, Asked
    <3>3. flow' = [flow EXCEPT ![f] = back] /\ told' = [told EXCEPT ![f] = error]
      BY <2>4 DEF MoveErrs, BackToForm
    <3> HIDE DEF back
    <3> QED  BY <3>1, <3>2, <3>3 DEF Errors
  <2> QED  BY <2>2, <2>3, <2>4
<1>3. Types'
  BY <1>1, <1>2 DEF Types
<1>4. \A g \in Flow : g # f => flow'[g] = flow[g] /\ told'[g] = told[g]
  BY <1>1, <1>2
<1>5. flow'[f] = new /\ told'[f] = error
  BY <1>1, <1>2
<1>6. Asked'
  BY <1>2, <1>4, <1>5 DEF Asked
<1>7. AsksForSpare'
  BY <1>2, <1>4, <1>5 DEF AsksForSpare, Placing
<1>8. ToldInForm'
  BY <1>2, <1>4, <1>5 DEF ToldInForm
<1>9. ToldWhenPlacing'
  <2>1. \A g \in Flow \ {f} : told'[g] = "saved as a spare" => Placing(g)'
    BY <1>4 DEF ToldWhenPlacing, Placing
  <2>2. error = "saved as a spare" => new.kind = "register" /\ new.to # None
    BY <1>2, ConstantsAssumption
  <2> QED  BY <1>5, <2>1, <2>2 DEF ToldWhenPlacing, Placing
<1>10. NeverHalfPlaced'
  BY <1>1 DEF NeverHalfPlaced, Exists
<1>11. RegisteredIsSaved'
  <2>1. \A k : Saved(k) => Saved(k)'
    BY <1>1 DEF Saved, Exists
  <2>2. \A g \in Flow : g # f /\ Placed(g)' => Placed(g) /\ flow'[g] = flow[g]
    BY <1>4 DEF Placed, Placing
  <2>3. Placed(f)' => Placed(f) /\ new.line = flow[f].line
    BY <1>2, <1>5, ConstantsAssumption DEF Placed, Placing
  <2> QED  BY <1>5, <2>1, <2>2, <2>3 DEF RegisteredIsSaved
<1> QED  BY <1>3, <1>6, <1>7, <1>8, <1>9, <1>10, <1>11

\* Every step keeps the invariant.
LEMMA NextRopes == IInv /\ [Next]_vars => IInv'
<1> SUFFICES ASSUME IInv, [Next]_vars PROVE IInv'
  OBVIOUS
<1> USE DEF IInv
<1>1. ASSUME NEW f \in Flow, Serve(f) PROVE IInv'
  <2>1. CASE RegisterArrives(f)
    BY <2>1, RegisterRopes
  <2>2. CASE MoveArrives(f)
    BY <2>2, MoveRopes
  <2>3. CASE RequestFails(f)
    BY <2>3, StageRopes DEF RequestFails, Stages
  <2> QED  BY <1>1, <2>1, <2>2, <2>3 DEF Serve
<1>2. ASSUME NEW f \in Flow, Answer(f) PROVE IInv'
  <2>1. CASE RegisterAnswered(f)
    <3>1. flow[f].stage = "register ok" /\ UNCHANGED <<line, view, past>>
      BY <2>1 DEF RegisterAnswered
    <3>2. CASE Placing(f)
      <4>1. Reaches(f, "moving") /\ UNCHANGED told
        BY <2>1, <3>2 DEF RegisterAnswered
      <4> QED  BY <3>1, <3>2, <4>1, StageRopes DEF Stages
    <3>3. CASE ~Placing(f)
      BY <2>1, <3>1, <3>3, CloseAnyRopes DEF RegisterAnswered
    <3> QED  BY <3>2, <3>3
  <2>2. CASE MoveAnswered(f)
    <3>1. flow[f].stage = "move ok" /\ UNCHANGED <<line, view, past>>
      BY <2>2 DEF MoveAnswered
    <3>2. CASE CloseAny(f)
      BY <3>1, <3>2, CloseAnyRopes
    <3>3. CASE CloseOwn(f)
      BY <3>1, <3>3, StageRopes DEF CloseOwn, Stages
    <3> QED  BY <2>2, <3>2, <3>3 DEF MoveAnswered
  <2>3. CASE RegisterErrs(f) \/ MoveErrs(f)
    BY <2>3, ErrorRopes
  <2> QED  BY <1>2, <2>1, <2>2, <2>3 DEF Answer
<1>3. ASSUME NEW f \in Flow, NEW c \in Client, User(c, f) PROVE IInv'
  BY <1>3, OpenRopes, SubmitRopes DEF User
<1>4. ASSUME NEW c \in Client, Refresh(c) PROVE IInv'
  <2>1. Types'
    BY <1>4 DEF Refresh, Types
  <2> QED  BY <1>4, <2>1, Untouched DEF Refresh
<1>5. ASSUME NEW c \in Client, Leave(c) PROVE IInv'
  <2>1. Types'
    BY <1>5 DEF Leave, Types
  <2> QED  BY <1>5, <2>1, Untouched DEF Leave
<1>6. ASSUME NEW c \in Client, Close(c) PROVE IInv'
  BY <1>6, CloseRopes
<1>7. CASE UNCHANGED vars
  <2>1. Types'
    BY <1>7 DEF vars, Types
  <2> QED  BY <1>7, <2>1, Untouched DEF vars
<1>8. ASSUME NEW changed \in SUBSET Position, Relayout(changed) PROVE IInv'
  BY <1>8, RelayoutRopes
<1> QED  BY <1>1, <1>2, <1>3, <1>4, <1>5, <1>6, <1>7, <1>8 DEF Next

\* What the dialogs ask for, say and have placed, in every reachable state.
THEOREM RopesInvariant == Spec => []IInv
BY InitRopes, NextRopes, PTL DEF Spec

\* However many dialogs of however many browsers register and move lines, a
\* line registered for a drum is a spare until it is on a drum or in storage,
\* and without a place and not a spare only where a layout save removed the
\* position it had been moved to.
THEOREM SparesUntilPlaced == Spec => []NeverHalfPlaced
<1>1. IInv => NeverHalfPlaced
  BY DEF IInv
<1> QED  BY <1>1, RopesInvariant, PTL

\* A dialog that says the line was saved as a spare speaks of a line that was.
THEOREM ToldTruthfully == Spec => []SavedAsSpare
<1>1. IInv => SavedAsSpare
  <2> SUFFICES ASSUME IInv, NEW f \in Flow, told[f] = "saved as a spare"
               PROVE  Saved(flow[f].line)
    BY DEF SavedAsSpare, Saved
  <2> QED  BY DEF IInv, RegisteredIsSaved, ToldWhenPlacing, Placed
<1> QED  BY <1>1, RopesInvariant, PTL
=============================================================================
