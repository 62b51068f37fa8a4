------------------------------ MODULE DeckEdit ------------------------------
(***************************************************************************)
(* The deck editor (web/src/features/deck/DeckPage.tsx) in several         *)
(* browsers, over the layouts the server keeps. An editor clones the       *)
(* cached layout into a draft, changes the draft, and saves it whole; the  *)
(* server replaces the winches and storage locations of the vessel named   *)
(* in the request by those of the draft.                                   *)
(*                                                                         *)
(* SaveLayout is one step here (Placement has its statements): what it     *)
(* refuses and what it does to the rows is kept, GetLayout stays two reads.*)
(* A position x is reduced to the side of the deck it is on, and the drums *)
(* and lines of a winch to how many drum rows it has and the highest drum  *)
(* that holds a line. Lines stay where they are; Placement moves them.     *)
(***************************************************************************)
EXTENDS Integers, FiniteSets, SequencesExt

CONSTANTS
  Editor,      \* browsers that show the deck page
  Switcher,    \* bound: those whose user switches the vessel
  Vessel,      \* vessels in the database of a shore server
  First,       \* the first of them, selected at the start
  Station,     \* ends of the ship with winches: "fwd", "aft"
  SeedDeck,    \* winches of each vessel at the start
  SeedStores,  \* storage locations of each vessel at the start
  Filled,      \* positions that hold a line
  MaxDrums,    \* the stepper and the CHECK stop at 6
  MaxEdits,    \* bound: changes each user makes
  MaxSaves,    \* bound: saves of all editors
  MaxFetches,  \* bound: fetches of all editors
  None

Side == {"P", "C", "S"}

\* An id names the symbol it was made for, <<maker, n>>, and the save that
\* inserted it; 0 while it is only in a draft ("tmp:").
IsTmp(id) == id[2] = 0

\* A name typed by the user, and one derived from the position.
Typed == [station |-> "", side |-> "", n |-> 0]
AutoName(w, n) == [station |-> w.station, side |-> w.side, n |-> n]

Id == ((Editor \cup {None}) \X Nat) \X Nat
Name == [station : Station \cup {""}, side : Side \cup {""}, n : Nat]
Winch == [id : Id, station : Station, side : Side, auto : BOOLEAN, label : Name, count : Nat]

Ids(winches) == {w.id : w \in winches}

\* Winches named automatically are named for where they are, and apart.
NamesFollow(winches) ==
  \A w \in winches : w.auto =>
    /\ w.label = AutoName(w, w.label.n)
    /\ \A x \in winches : x.auto /\ x.label = w.label => x = w

\* The rows at the start were made for symbols of their own, by no editor.
SeedIds(v) == Ids(SeedDeck[v]) \cup SeedStores[v]

ASSUME DeckAssumption ==
  /\ None \notin Editor /\ First \in Vessel /\ MaxDrums \in Nat
  /\ SeedDeck \in [Vessel -> SUBSET Winch] /\ SeedStores \in [Vessel -> SUBSET Id]
  /\ \A v \in Vessel :
       /\ IsFiniteSet(SeedDeck[v]) /\ NamesFollow(SeedDeck[v])
       /\ \A w, x \in SeedDeck[v] : w.id = x.id => w = x
       /\ Ids(SeedDeck[v]) \cap SeedStores[v] = {}
       /\ \A i \in SeedIds(v) : i[1][1] = None /\ ~IsTmp(i)
  /\ \A u, v \in Vessel : \A i \in SeedIds(u), j \in SeedIds(v) :
       i[1] = j[1] => u = v /\ i = j

VARIABLES
  deck,     \* winch_location of each vessel
  stores,   \* ids of storage_location of each vessel
  rows,     \* drum rows of each winch id that has any
  top,      \* highest drum of a winch, or 1 for a storage location, with a line
  at,       \* vessel each editor has selected
  cache,    \* the layouts in the query cache of each editor
  fetch,    \* a GET of a layout in flight: what it has read so far
  draft,    \* the draft being edited, or None
  put,      \* the PUT of the save in flight and, once there, its answer
  tally     \* what the bounds count

server == <<deck, stores, rows, top>>
vars == <<server, at, cache, fetch, draft, put, tally>>

\* ORDER BY station, label: what matters to renumbering is the order of the
\* derived names of one place (up to nine of them).
Before(a, b) == a.label.n <= b.label.n

Ordered(winches) ==
  CHOOSE list \in SetToSeqs(winches) :
    \A i, j \in DOMAIN list : i < j => Before(list[i], list[j])

\* useVesselLayout: a layout as GetLayout returns it.
Layout(v, winches, storage) ==
  [vessel |-> v, winches |-> Ordered(winches), stores |-> storage]

\* The deck page is open and has loaded its layout.
Init ==
  /\ deck = SeedDeck
  /\ stores = SeedStores
  /\ rows = [id \in UNION {Ids(deck[v]) : v \in Vessel} |->
               (CHOOSE w \in UNION {deck[v] : v \in Vessel} : w.id = id).count]
  /\ top = [id \in DOMAIN rows \cup UNION {stores[v] : v \in Vessel} |->
              IF id \in Filled THEN 1 ELSE 0]
  /\ at = [e \in Editor |-> First]
  /\ cache = [e \in Editor |-> [v \in Vessel |->
               IF v = First THEN Layout(v, deck[v], stores[v]) ELSE None]]
  /\ fetch = [e \in Editor |-> [v \in Vessel |-> None]]
  /\ draft = [e \in Editor |-> None]
  /\ put = [e \in Editor |-> None]
  /\ tally = [edits |-> [e \in Editor |-> 0], saves |-> 0, fetches |-> 0]

Count(what) == tally' = [tally EXCEPT ![what] = @ + 1]

-----------------------------------------------------------------------------
(* The draft.                                                              *)

\* Every winch named automatically is renamed for its place, numbered there
\* in array order.
RenumberAuto(winches) ==
  [i \in DOMAIN winches |->
     LET w == winches[i]
         sameUpTo == {j \in 1..i : /\ winches[j].auto
                                   /\ winches[j].station = w.station
                                   /\ winches[j].side = w.side}
     IN  IF w.auto THEN [w EXCEPT !.label = AutoName(w, Cardinality(sameUpTo))] ELSE w]

\* clone: a draft of a layout. shown and cut are history: what the layout
\* had, and what the user has removed since.
Clone(layout) ==
  [vessel |-> layout.vessel, winches |-> layout.winches, stores |-> layout.stores,
   shown |-> Ids(ToSet(layout.winches)) \cup layout.stores, cut |-> {}]

\* Edit layout.
EnterEdit(e) ==
  /\ draft[e] = None /\ cache[e][at[e]] # None
  /\ draft' = [draft EXCEPT ![e] = Clone(cache[e][at[e]])]
  /\ UNCHANGED <<server, at, cache, fetch, put, tally>>

CancelEdit(e) ==
  /\ draft[e] # None
  /\ draft' = [draft EXCEPT ![e] = None]
  /\ UNCHANGED <<server, at, cache, fetch, put, tally>>

\* Reset: back to the cached layout of the vessel selected by now.
ResetEdit(e) ==
  /\ draft[e] # None /\ cache[e][at[e]] # None
  /\ draft' = [draft EXCEPT ![e] = Clone(cache[e][at[e]])]
  /\ UNCHANGED <<server, at, cache, fetch, put, tally>>

\* setDraft: also while a save is pending.
SetDraft(e, new) ==
  /\ tally.edits[e] < MaxEdits[e]
  /\ draft' = [draft EXCEPT ![e] = new]
  /\ tally' = [tally EXCEPT !.edits[e] = @ + 1]
  /\ UNCHANGED <<server, at, cache, fetch, put>>

NewId(e) == <<<<e, tally.edits[e] + 1>>, 0>>

AddWinch(e, station) ==
  /\ draft[e] # None
  /\ LET w == [id |-> NewId(e), station |-> station, side |-> "C", auto |-> TRUE,
               label |-> Typed, count |-> IF MaxDrums < 2 THEN MaxDrums ELSE 2]
     IN  SetDraft(e, [draft[e] EXCEPT !.winches = RenumberAuto(Append(@, w))])

AddStorage(e) ==
  /\ draft[e] # None
  /\ SetDraft(e, [draft[e] EXCEPT !.stores = @ \cup {NewId(e)}])

\* updateWinch: renumber when the patch has station or label_auto.
UpdateWinch(e, i, patch, renumber) ==
  LET winches == [draft[e].winches EXCEPT ![i] = patch]
  IN  SetDraft(e, [draft[e] EXCEPT !.winches =
                     IF renumber THEN RenumberAuto(winches) ELSE winches])

\* Mutant: onMove without renumberAuto.
DragOnly(e, i, side) ==
  /\ draft[e].winches[i].side # side
  /\ UpdateWinch(e, i, [draft[e].winches[i] EXCEPT !.side = side], FALSE)

\* onMove, to a position on another side of the deck.
Drag(e, i, side) ==
  /\ draft[e].winches[i].side # side
  /\ UpdateWinch(e, i, [draft[e].winches[i] EXCEPT !.side = side], TRUE)

SetStation(e, i, station) ==
  /\ draft[e].winches[i].station # station
  /\ UpdateWinch(e, i, [draft[e].winches[i] EXCEPT !.station = station], TRUE)

Rename(e, i) ==
  UpdateWinch(e, i, [draft[e].winches[i] EXCEPT !.label = Typed, !.auto = FALSE], TRUE)

\* use auto
UseAuto(e, i) ==
  /\ ~draft[e].winches[i].auto
  /\ UpdateWinch(e, i, [draft[e].winches[i] EXCEPT !.auto = TRUE], TRUE)

\* - and +, which stop at 1 and MaxDrums.
StepDrums(e, i, n) ==
  /\ draft[e].winches[i].count + n \in 1..MaxDrums
  /\ UpdateWinch(e, i, [draft[e].winches[i] EXCEPT !.count = @ + n], FALSE)

\* filter by id, which no two winches of a draft share.
Without(winches, id) ==
  IF id \in Ids(ToSet(winches))
  THEN RemoveAt(winches, CHOOSE i \in DOMAIN winches : winches[i].id = id)
  ELSE winches

\* removeSel.
RemoveSel(e, id) ==
  /\ draft[e] # None
  /\ id \in Ids(ToSet(draft[e].winches)) \cup draft[e].stores
  /\ SetDraft(e, [draft[e] EXCEPT
       !.winches = RenumberAuto(Without(@, id)),
       !.stores = @ \ {id}, !.cut = @ \cup {id}])

EditWinch(e, i) ==
  \/ \E side \in Side : Drag(e, i, side)
  \/ \E station \in Station : SetStation(e, i, station)
  \/ Rename(e, i) \/ UseAuto(e, i)
  \/ \E n \in {-1, 1} : StepDrums(e, i, n)

-----------------------------------------------------------------------------
(* Saving.                                                                 *)

\* Mutant: storage locations are left out of the body.
BodyWinches(d) == [d EXCEPT !.stores = {}]

\* The body of the PUT: the whole draft.
Body(d) == d

\* doSave: Save is enabled unless a save is pending. The request names the
\* vessel selected now.
Save(e) ==
  /\ draft[e] # None /\ put[e] = None
  /\ tally.saves < MaxSaves
  /\ put' = [put EXCEPT ![e] = [stage |-> "sent", n |-> tally.saves + 1, vessel |-> at[e],
                                draft |-> Body(draft[e]), answer |-> None]]
  /\ Count("saves")
  /\ UNCHANGED <<server, at, cache, fetch, draft>>

\* newID: what is inserted for a symbol the draft has added.
Fresh(id, n) == IF IsTmp(id) THEN <<id[1], n>> ELSE id

\* Mutant: nothing is removed but what the user removed.
DroppedByUser(v, d) == (Ids(deck[v]) \cup stores[v]) \cap d.cut

\* Winches and storage of the vessel that the request leaves out.
Dropped(v, d) == (Ids(deck[v]) \cup stores[v]) \ (Ids(ToSet(d.winches)) \cup d.stores)

\* SaveLayout fails: adjustDrums inserts a drum of a winch that is gone, or
\* would remove one that holds a line; or a position left out holds one.
Refused(v, d) ==
  \/ \E w \in ToSet(d.winches) :
       ~IsTmp(w.id) /\ (w.id \notin DOMAIN rows \/ w.count < top[w.id])
  \/ \E id \in Dropped(v, d) : top[id] > 0

Inserted(d, n) ==
  {[w EXCEPT !.id = Fresh(w.id, n)] : w \in {x \in ToSet(d.winches) : IsTmp(x.id)}}

\* Mutant: adjustDrums only for winches that are inserted.
AdjustedNew(d, n) == Inserted(d, n)

\* The winches adjustDrums gives the drums the request asks for, by their id
\* alone.
Adjusted(d, n) == {w \in ToSet(d.winches) : ~IsTmp(w.id)} \cup Inserted(d, n)

\* What SaveLayout makes of the tables. The UPDATE of a winch asks for its
\* vessel too.
Saved(v, d, n) ==
  LET sent == ToSet(d.winches)
      Updated(w) == IF w.id \in Ids(sent) THEN CHOOSE x \in sent : x.id = w.id ELSE w
      kept == {w \in deck[v] : w.id \notin Dropped(v, d)}
      newStores == {Fresh(id, n) : id \in {x \in d.stores : IsTmp(x)}}
      adjusted == Adjusted(d, n)
      winchesLeft == (DOMAIN rows \ Dropped(v, d)) \cup Ids(adjusted)
      left == (DOMAIN top \ Dropped(v, d)) \cup Ids(adjusted) \cup newStores
  IN  /\ deck' = [deck EXCEPT ![v] = {Updated(w) : w \in kept} \cup Inserted(d, n)]
      /\ stores' = [stores EXCEPT ![v] = (@ \ Dropped(v, d)) \cup newStores]
      /\ rows' = [id \in winchesLeft |->
                    IF id \in Ids(adjusted) THEN (CHOOSE w \in adjusted : w.id = id).count
                                            ELSE rows[id]]
      /\ top' = [id \in left |-> IF id \in DOMAIN top THEN top[id] ELSE 0]

Answered(e, stage, layout) ==
  put' = [put EXCEPT ![e] = [@ EXCEPT !.stage = stage, !.answer = layout]]

\* The PUT commits and answers with the layout; the answer may get lost.
SaveCommits(e) ==
  /\ put[e] # None /\ put[e].stage = "sent"
  /\ ~Refused(put[e].vessel, put[e].draft)
  /\ Saved(put[e].vessel, put[e].draft, put[e].n)
  /\ \/ Answered(e, "failed", None)
     \/ LET v == put[e].vessel IN Answered(e, "ok", Layout(v, deck'[v], stores'[v]))
  /\ UNCHANGED <<at, cache, fetch, draft, tally>>

\* The PUT is refused or never reaches the store.
SaveFails(e) ==
  /\ put[e] # None /\ put[e].stage = "sent"
  /\ Answered(e, "failed", None)
  /\ UNCHANGED <<server, at, cache, fetch, draft, tally>>

\* onSuccess seeds the cache under the vessel selected by now, and doSave
\* goes on: the draft is closed, whatever has become of it.
SaveSucceeds(e) ==
  /\ put[e] # None /\ put[e].stage = "ok"
  /\ put' = [put EXCEPT ![e] = None]
  /\ cache' = [cache EXCEPT ![e][at[e]] = put[e].answer]
  /\ draft' = [draft EXCEPT ![e] = None]
  /\ UNCHANGED <<server, at, fetch, tally>>

\* mutateAsync throws; the draft stays open, to be saved again.
SaveErrors(e) ==
  /\ put[e] # None /\ put[e].stage = "failed"
  /\ put' = [put EXCEPT ![e] = None]
  /\ UNCHANGED <<server, at, cache, fetch, draft, tally>>

-----------------------------------------------------------------------------
(* Around the editor.                                                      *)

\* VesselSwitcher: also with a draft open or a save pending.
SwitchVessel(e, v) ==
  /\ e \in Switcher /\ v # at[e]
  /\ at' = [at EXCEPT ![e] = v]
  /\ UNCHANGED <<server, cache, fetch, draft, put, tally>>

\* GetLayout reads the winches of the vessel on the screen: when the page
\* opens, or the layout was invalidated by a move or a turn.
FetchWinches(e) ==
  /\ fetch[e][at[e]] = None /\ tally.fetches < MaxFetches
  /\ fetch' = [fetch EXCEPT ![e][at[e]] = [winches |-> deck[at[e]], stores |-> None]]
  /\ Count("fetches")
  /\ UNCHANGED <<server, at, cache, draft, put>>

\* It reads the storage locations in another snapshot.
FetchStores(e, v) ==
  /\ fetch[e][v] # None /\ fetch[e][v].stores = None
  /\ fetch' = [fetch EXCEPT ![e][v].stores = stores[v]]
  /\ UNCHANGED <<server, at, cache, draft, put, tally>>

\* The answer replaces what is cached, however old it has become.
FetchArrives(e, v) ==
  /\ fetch[e][v] # None /\ fetch[e][v].stores # None
  /\ cache' = [cache EXCEPT ![e][v] = Layout(v, fetch[e][v].winches, fetch[e][v].stores)]
  /\ fetch' = [fetch EXCEPT ![e][v] = None]
  /\ UNCHANGED <<server, at, draft, put, tally>>

Edit(e) ==
  \/ \E station \in Station : AddWinch(e, station)
  \/ AddStorage(e)
  \/ draft[e] # None /\ \E i \in DOMAIN draft[e].winches : EditWinch(e, i)
  \/ draft[e] # None /\ \E id \in Ids(ToSet(draft[e].winches)) \cup draft[e].stores :
       RemoveSel(e, id)

Next ==
  \/ \E e \in Editor :
       \/ EnterEdit(e) \/ CancelEdit(e) \/ ResetEdit(e) \/ Edit(e)
       \/ Save(e) \/ SaveCommits(e) \/ SaveFails(e) \/ SaveSucceeds(e) \/ SaveErrors(e)
       \/ FetchWinches(e)
       \/ \E v \in Vessel :
            SwitchVessel(e, v) \/ FetchStores(e, v) \/ FetchArrives(e, v)

Spec == Init /\ [][Next]_vars

-----------------------------------------------------------------------------
(* Properties.                                                             *)

\* Two editors, drags, station changes, removals, saves that were answered
\* or not: on the deck of a vessel a winch named automatically is named for
\* where it is, and no other winch named automatically has its name.
AutoNamesFollowPlace == \A v \in Vessel : NamesFollow(deck[v])

\* A symbol the user added once is on a deck once at most, also when the
\* answer to the save was lost and the draft was saved again.
AddedOnce ==
  \A v \in Vessel : \A i, j \in Ids(deck[v]) \cup stores[v] : i[1] = j[1] => i = j

\* The draft is of one vessel and the save in flight names another.
Crossing(e) == put[e] # None /\ put[e].vessel # put[e].draft.vessel

\* A save leaves a winch that has the drums its drum_count says with the
\* drums its drum_count says, whichever editors save, unless the save
\* crosses vessels: adjustDrums then changes winches that the UPDATE does not.
DrumsKept ==
  [][\A v \in Vessel :
       (\A w \in deck[v] : rows[w.id] = w.count)
       /\ ~(\E e \in Editor : Crossing(e) /\ put'[e] # put[e])
         => \A w \in deck'[v] : rows'[w.id] = w.count]_vars

\* Saving a draft on the vessel it was made for removes what the user
\* removed and what the user was never shown, and nothing else.
ShownStays ==
  [][\A e \in Editor : put[e] # None /\ put[e].stage = "sent" /\ ~Crossing(e) =>
       LET v == put[e].vessel
           d == put[e].draft
           removed == (Ids(deck[v]) \cup stores[v]) \ (Ids(deck'[v]) \cup stores'[v])
       IN  put'[e] # put[e] => removed \cap d.shown \subseteq d.cut]_vars
=============================================================================
