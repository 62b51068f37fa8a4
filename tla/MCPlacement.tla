---------------------------- MODULE MCPlacement ----------------------------
(***************************************************************************)
(* Instances of Placement for TLC. Winch w1 and w2 and storage s1 and s2   *)
(* exist from the start; w3 and s3 are the ids request save1 gives a winch *)
(* and a storage location it adds. Where there is a second vessel, w2 and  *)
(* s2 are on it.                                                           *)
(***************************************************************************)
EXTENDS Placement, TLC

CONSTANTS v1, v2, w1, w2, w3, s1, s2, s3, save1

MCHome == [i \in Winch \cup Storage |->
             IF i \in {w2, s2} /\ v2 \in Vessel THEN v2 ELSE v1]

MCMaker == [i \in Winch \cup Storage |-> IF i \in {w3, s3} THEN save1 ELSE Boot]

\* One drum on every winch; two drums on w1, one on the others.
OneDrum == [w \in Winch |-> IF w = w3 THEN 0 ELSE 1]
TwoDrums == [w \in Winch |-> CASE w = w1 -> 2 [] w = w3 -> 0 [] OTHER -> 1]

D(w, i) == [winch |-> w, idx |-> i, by |-> Boot]
At(p) == [vessel |-> HomeOf(p), life |-> LifeAt(p), at |-> p]

\* Lines on the two drums of a winch (a move may be a swap), or registered and
\* without a place (two may want one free drum).
Aboard == {At(D(w1, 1)), At(D(w1, 2)),
           [vessel |-> v1, life |-> "ordered", at |-> None]}

\* A line on the first drum or a spare of the storage locker.
Crowded == {At(D(w1, 1)), At(s1)}

\* A line on the first drum, or one nobody has registered yet.
OnDrumOrNew == {At(D(w1, 1)), NoRow}
=============================================================================
