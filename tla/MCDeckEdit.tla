----------------------------- MODULE MCDeckEdit -----------------------------
(***************************************************************************)
(* An instance of DeckEdit for TLC: two vessels, one of which has a winch  *)
(* and a storage location.                                                 *)
(***************************************************************************)
EXTENDS DeckEdit, TLC

CONSTANTS e1, e2, v1, v2

Seeded(n) == <<<<None, n>>, 1>>

Named(n, auto) ==
  [id |-> Seeded(n), station |-> "fwd", side |-> "P", auto |-> auto, count |-> 1,
   label |-> IF auto THEN [station |-> "fwd", side |-> "P", n |-> 1] ELSE Typed]

\* A winch named automatically and one named by hand, side by side.
MCDeck == [v \in Vessel |->
            IF v = v1 THEN {Named(1, TRUE), Named(2, FALSE)} ELSE {}]
MCStores == [v \in Vessel |-> IF v = v1 THEN {Seeded(3)} ELSE {}]

\* One line, on the first winch.
MCFilled == {Seeded(1)}

\* e1 changes its draft, e2 saves what it was shown.
MCEdits == [e \in Editor |-> IF e = e1 THEN 1 ELSE 0]
=============================================================================
