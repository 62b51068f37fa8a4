------------------------------- MODULE Ropes -------------------------------
(***************************************************************************)
(* The dialogs that register and place mooring lines: MovePicker and       *)
(* AssignPicker of the deck map (web/src/features/deck/WinchPanel.tsx) and *)
(* AddLineDialog (web/src/features/register/AddLineDialog.tsx), which, for *)
(* a drum, sends two requests one after the other. Each opened dialog is a *)
(* Flow. It outlives its window: closing it stops no request, and what     *)
(* follows an await runs whether or not the dialog is still shown.         *)
(*                                                                         *)
(* The server executes a request in one step (AtomicPlacement). Requests   *)
(* and answers get lost, and a browser may be closed at any time. Layouts  *)
(* are saved meanwhile (DeckEdit): positions come and go.                  *)
(***************************************************************************)
EXTENDS FiniteSets

CONSTANTS
  Client,    \* browsers
  Flow,      \* dialogs opened, one each
  Line,      \* serial numbers
  Drum, Storage,
  SeedPlaces,  \* the positions there are at the start
  SeedRows,  \* the rows a line may have at the start
  Chosen,    \* bound: lifecycle statuses chosen for lines without a drum
  None

Position == Drum \cup Storage

\* What a move makes of the lifecycle status.
LifeAt(p) == IF p \in Storage THEN "spare" ELSE "active"

\* Active on a drum, spare in storage; any status without a place.
Row == [life : {"ordered", "active", "spare"}, at : {None}]
         \cup [life : {"active"}, at : Drum] \cup [life : {"spare"}, at : Storage]

ASSUME ConstantsAssumption ==
  /\ Drum \cap Storage = {} /\ None \notin Position \cup Flow \cup Line \cup Row
  /\ SeedPlaces \subseteq Position
  /\ SeedRows \subseteq Row \cup {None}
  /\ \A row \in SeedRows \ {None} : row.at \in SeedPlaces \cup {None}
  /\ Chosen \subseteq {"ordered", "active", "spare"}

VARIABLES
  line,    \* mooring_line: the row of each serial number, or None
  view,    \* the cached list of lines each browser shows
  shown,   \* the dialog that is open in each browser, or None
  left,    \* browsers that have been closed
  flow,    \* each dialog: what it is for and how far it has come
  told,    \* the error it shows
  past,    \* history of each line: whether it was registered for a drum,
           \* whether it was ever moved, and whether a layout save has removed
           \* the position it was moved to last
  deck     \* each position: not added yet, there, or removed

vars == <<line, view, shown, left, flow, told, past, deck>>

Unused == [stage |-> "unused", kind |-> "none", by |-> None, line |-> None,
           from |-> None, to |-> None, life |-> "spare"]

Init ==
  /\ line \in [Line -> SeedRows]
  /\ \A k, l \in Line : line[k] # None /\ line[l] # None /\ line[k].at \in Drum
                          /\ line[k].at = line[l].at => k = l
  /\ view = [c \in Client |-> line]
  /\ shown = [c \in Client |-> None]
  /\ left = {}
  /\ flow = [f \in Flow |-> Unused]
  /\ told = [f \in Flow |-> "nothing"]
  /\ past = [l \in Line |-> [placing |-> FALSE, moved |-> FALSE, taken |-> FALSE]]
  /\ deck = [p \in Position |-> IF p \in SeedPlaces THEN "there" ELSE "future"]

-----------------------------------------------------------------------------
(* What the panel shows and offers.                                        *)

Exists(rows, l) == rows[l] # None

\* lineOnDrum, occupied.
Empty(rows, d) == \A l \in Line : Exists(rows, l) => rows[l].at # d

\* isAssignable.
Assignable(row) ==
  /\ row.at \notin Drum
  /\ \/ row.life = "spare"
     \/ row.life = "active" /\ row.at \in Storage

\* What a cached layout may show: positions that are there or were, however
\* old it is.
Drawn == {p \in Position : deck[p] # "future"}

\* The destinations of MovePicker; from is where the line was when the
\* dialog was opened.
Targets(rows, from) ==
  Drawn \cap (({d \in Drum : Empty(rows, d)} \cup Storage) \ {from})

\* A refetch: the cached list is the current one. (How it may fail to be is
\* the subject of ClientCache.)
Refresh(c) ==
  /\ c \notin left /\ view[c] # line
  /\ view' = [view EXCEPT ![c] = line]
  /\ UNCHANGED <<line, shown, left, flow, told, past, deck>>

Open(c, f, kind, l, from, to) ==
  /\ c \notin left /\ shown[c] = None /\ flow[f] = Unused
  /\ flow' = [flow EXCEPT ![f] = [stage |-> "form", kind |-> kind, by |-> c, line |-> l,
                                  from |-> from, to |-> to, life |-> "spare"]]
  /\ shown' = [shown EXCEPT ![c] = f]
  /\ UNCHANGED <<line, view, left, told, past, deck>>

\* The chips of a drum or of a stored line, and Add line on the register
\* page. A move dialog keeps the row it was opened for: from.
OpenDialog(c, f) ==
  \/ \E l \in Line : /\ Exists(view[c], l) /\ view[c][l].at # None
                     /\ Open(c, f, "move", l, view[c][l].at, None)
  \/ \E d \in Drum \cap Drawn :
                     /\ Empty(view[c], d)
                     /\ \/ Open(c, f, "assign", None, None, d)
                        \/ Open(c, f, "register", None, None, d)
  \/ Open(c, f, "register", None, None, None)

\* A dialog that is not shown and waits for nothing is gone.
Dropped == [Unused EXCEPT !.stage = "dropped"]

\* Cancel, or a click beside the dialog; also while a request is pending.
Close(c) ==
  /\ c \notin left /\ shown[c] # None
  /\ shown' = [shown EXCEPT ![c] = None]
  /\ LET f == shown[c]
     IN  IF flow[f].stage = "form"
         THEN /\ flow' = [flow EXCEPT ![f] = Dropped]
              /\ told' = [told EXCEPT ![f] = "nothing"]
         ELSE UNCHANGED <<flow, told>>
  /\ UNCHANGED <<line, view, left, past, deck>>

\* The browser is closed or reloaded.
Leave(c) ==
  /\ c \notin left
  /\ left' = left \cup {c}
  /\ shown' = [shown EXCEPT ![c] = None]
  /\ UNCHANGED <<line, view, flow, told, past, deck>>

-----------------------------------------------------------------------------
(* Submitting. The buttons are disabled while a request is pending.        *)

Placing(f) == flow[f].kind = "register" /\ flow[f].to # None

Submit(c, f, new) ==
  /\ c \notin left /\ shown[c] = f /\ flow[f].stage = "form"
  /\ flow' = [flow EXCEPT ![f] = new]
  /\ told' = [told EXCEPT ![f] = "nothing"]
  /\ UNCHANGED <<line, view, shown, left, past, deck>>

\* MovePicker: go.
PickTarget(c, f) ==
  /\ flow[f].kind = "move"
  /\ \E p \in Targets(view[c], flow[f].from) :
       Submit(c, f, [flow[f] EXCEPT !.stage = "moving", !.to = p])

\* AssignPicker: go.
PickLine(c, f) ==
  /\ flow[f].kind = "assign"
  /\ \E l \in Line :
       /\ Exists(view[c], l) /\ Assignable(view[c][l])
       /\ Submit(c, f, [flow[f] EXCEPT !.stage = "moving", !.line = l])

\* Mutant: a line for a drum is registered as active.
RegisteredLifeActive(f, chosen) == IF Placing(f) THEN "active" ELSE chosen

\* lifecycle_status of the request.
RegisteredLife(f, chosen) == IF Placing(f) THEN "spare" ELSE chosen

\* AddLineDialog: submit, with a serial number and a lifecycle status the
\* user has typed, perhaps others than at the last attempt.
SubmitRegister(c, f) ==
  /\ flow[f].kind = "register"
  /\ \E l \in Line, life \in Chosen :
       Submit(c, f, [flow[f] EXCEPT !.stage = "registering", !.line = l,
                                    !.life = RegisteredLife(f, life)])

-----------------------------------------------------------------------------
(* The server.                                                             *)

Reaches(f, stage) == flow' = [flow EXCEPT ![f].stage = stage]

\* CreateLine: the serial number is unique. The answer may get lost.
RegisterArrives(f) ==
  LET l == flow[f].line
  IN  /\ flow[f].stage = "registering" /\ ~Exists(line, l)
      /\ line' = [line EXCEPT ![l] = [life |-> flow[f].life, at |-> None]]
      /\ past' = [past EXCEPT ![l].placing = Placing(f)]
      /\ Reaches(f, "register ok") \/ Reaches(f, "register failed")
      /\ UNCHANGED <<view, shown, left, told, deck>>

\* MoveLine: the target is there, and free if it is a drum.
MoveArrives(f) ==
  LET l == flow[f].line
      p == flow[f].to
  IN  /\ flow[f].stage = "moving" /\ Exists(line, l) /\ deck[p] = "there"
      /\ p \in Drum => \A k \in Line \ {l} : Exists(line, k) => line[k].at # p
      /\ line' = [line EXCEPT ![l] = [life |-> LifeAt(p), at |-> p]]
      /\ past' = [past EXCEPT ![l].moved = TRUE, ![l].taken = FALSE]
      /\ Reaches(f, "move ok") \/ Reaches(f, "move failed")
      /\ UNCHANGED <<view, shown, left, told, deck>>

\* The request is lost or refused.
RequestFails(f) ==
  /\ \/ flow[f].stage = "registering" /\ Reaches(f, "register failed")
     \/ flow[f].stage = "moving" /\ Reaches(f, "move failed")
  /\ UNCHANGED <<line, view, shown, left, told, past, deck>>

\* The lines on a set of positions.
Lines(places) == {l \in Line : Exists(line, l) /\ line[l].at \in places}

\* SaveLayout, by any browser: positions are added and removed. What was empty
\* when the save looked may hold a line by now; ON DELETE SET NULL takes its
\* place and leaves its status. A line nobody has moved was seen
\* (Placement!UnmovedStays).
Relayout(changed) ==
  /\ changed # {} /\ \A p \in changed : deck[p] # "removed"
  /\ \A l \in Lines(changed) : past[l].moved
  /\ deck' = [p \in Position |-> IF p \notin changed THEN deck[p]
                                 ELSE IF deck[p] = "future" THEN "there" ELSE "removed"]
  /\ line' = [l \in Line |-> IF l \in Lines(changed)
                             THEN [life |-> line[l].life, at |-> None] ELSE line[l]]
  /\ past' = [l \in Line |-> [past[l] EXCEPT !.taken = @ \/ l \in Lines(changed)]]
  /\ UNCHANGED <<view, shown, left, flow, told>>

-----------------------------------------------------------------------------
(* Answers, in a browser that is still there.                              *)

Running(f) == flow[f].by \notin left

\* onClose() after the awaits of submit: it closes whichever dialog is shown
\* by then, with what was typed into it.
CloseAny(f) ==
  LET c == flow[f].by
  IN  /\ shown' = [shown EXCEPT ![c] = None]
      /\ flow' = [g \in Flow |-> IF g = f THEN [flow[f] EXCEPT !.stage = "done"]
                                ELSE IF g = shown[c] /\ flow[g].stage = "form" THEN Dropped
                                ELSE flow[g]]
      /\ told' = [g \in Flow |-> IF g = shown[c] THEN "nothing" ELSE told[g]]

\* { onSuccess: onClose } of a picker: dropped if the picker is not there.
CloseOwn(f) ==
  /\ shown' = [shown EXCEPT ![flow[f].by] = IF @ = f THEN None ELSE @]
  /\ Reaches(f, "done")
  /\ UNCHANGED told

RegisterAnswered(f) ==
  /\ Running(f) /\ flow[f].stage = "register ok"
  /\ IF Placing(f) THEN Reaches(f, "moving") /\ UNCHANGED <<shown, told>> ELSE CloseAny(f)
  /\ UNCHANGED <<line, view, left, past, deck>>

\* The dialog can be submitted again, unless it was closed.
BackToForm(f, new, error) ==
  LET open == shown[flow[f].by] = f
  IN  /\ flow' = [flow EXCEPT ![f] = IF open THEN [new EXCEPT !.stage = "form"] ELSE Dropped]
      /\ told' = [told EXCEPT ![f] = IF open THEN error ELSE "nothing"]

\* Mutant: the try of submit encloses the registration too.
RegisterErrsSaved(f) ==
  /\ Running(f) /\ flow[f].stage = "register failed"
  /\ BackToForm(f, flow[f], "saved as a spare")
  /\ UNCHANGED <<line, view, shown, left, past, deck>>

\* mutateAsync throws out of submit. (The form keeps what was typed; all of
\* it may be changed before it is submitted again.)
RegisterErrs(f) ==
  /\ Running(f) /\ flow[f].stage = "register failed"
  /\ BackToForm(f, [flow[f] EXCEPT !.line = None, !.life = "spare"], "could not register")
  /\ UNCHANGED <<line, view, shown, left, past, deck>>

MoveAnswered(f) ==
  /\ Running(f) /\ flow[f].stage = "move ok"
  /\ IF flow[f].kind = "register" THEN CloseAny(f) ELSE CloseOwn(f)
  /\ UNCHANGED <<line, view, left, past, deck>>

\* The error of a move stays in the dialog; AddLineDialog says the line was
\* saved as a spare.
MoveErrs(f) ==
  /\ Running(f) /\ flow[f].stage = "move failed"
  /\ BackToForm(f, flow[f], IF flow[f].kind = "register" THEN "saved as a spare"
                                                        ELSE "move failed")
  /\ UNCHANGED <<line, view, shown, left, past, deck>>

Answer(f) == RegisterAnswered(f) \/ RegisterErrs(f) \/ MoveAnswered(f) \/ MoveErrs(f)

Serve(f) == RegisterArrives(f) \/ MoveArrives(f) \/ RequestFails(f)

User(c, f) ==
  OpenDialog(c, f) \/ PickTarget(c, f) \/ PickLine(c, f) \/ SubmitRegister(c, f)

Next ==
  \/ \E f \in Flow : Serve(f) \/ Answer(f) \/ \E c \in Client : User(c, f)
  \/ \E c \in Client : Refresh(c) \/ Close(c) \/ Leave(c)
  \/ \E changed \in SUBSET Position : Relayout(changed)

Spec == Init /\ [][Next]_vars

-----------------------------------------------------------------------------
(* Properties.                                                             *)

\* A line registered onto a drum is a spare as long as it has no place,
\* whichever of its two requests fails or is never sent, and however often
\* dialogs are submitted ("a failed move leaves a valid spare, never a
\* half-placed active line"), unless the move succeeded and a layout save then
\* removed the position under it.
NeverHalfPlaced ==
  \A l \in Line : Exists(line, l) /\ past[l].placing /\ line[l].at = None
    => line[l].life = "spare" \/ past[l].taken

\* When the dialog says the line was saved as a spare, there is such a line,
\* and it is a spare without a place unless somebody has moved it: another
\* dialog, or this one without the answer arriving.
SavedAsSpare ==
  \A f \in Flow : told[f] = "saved as a spare" =>
    LET l == flow[f].line
    IN  /\ Exists(line, l)
        /\ ~past[l].moved => line[l] = [life |-> "spare", at |-> None]
=============================================================================
