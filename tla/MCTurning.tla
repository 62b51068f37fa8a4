----------------------------- MODULE MCTurning -----------------------------
(***************************************************************************)
(* Instances of Turning for TLC.                                           *)
(***************************************************************************)
EXTENDS Turning, TLC

\* A line as CreateLine registers it, on side s and installed on day i.
New(s, i, turnable) ==
  [side |-> s, acc |-> [x \in Side |-> 0], since |-> [x \in Side |-> None],
   install |-> i, turnable |-> turnable]

\* Installed at once, later, or on an unknown date; and lines that cannot
\* be turned.
AnyNew == {New("A", i, TRUE) : i \in {0, 2, None}} \cup
          {New("n/a", 0, TRUE), New("B", 0, FALSE)}

\* Installed when registered.
Installed == {New("A", 0, TRUE), New("B", 0, TRUE)}

Turners == Permutations(Turner)
=============================================================================
