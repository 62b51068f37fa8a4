------------------------------ MODULE MCRopes ------------------------------
(***************************************************************************)
(* An instance of Ropes for TLC.                                           *)
(***************************************************************************)
EXTENDS Ropes, TLC

CONSTANT s1

\* A line in storage, or one nobody has registered.
StoredOrNew == {[life |-> "spare", at |-> s1], None}

\* The drum is added by a layout save.
Locker == {s1}

Symmetric == Permutations(Client) \cup Permutations(Flow) \cup Permutations(Line)
=============================================================================
