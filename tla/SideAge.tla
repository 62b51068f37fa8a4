------------------------------ MODULE SideAge ------------------------------
(***************************************************************************)
(* What turning a line promises: one side of a line is in service at a     *)
(* time, a side ages by one day for each day it is in service, and a turn  *)
(* changes which side that is and no age. A turn may count as of the day   *)
(* it was asked for; the days since then then belong to the entering side. *)
(***************************************************************************)
EXTENDS Naturals

CONSTANTS Line, Late    \* Late: the most days between the request and its effect

VARIABLES day, side, worn

Side == {"A", "B"}

Other(s) == IF s = "A" THEN "B" ELSE "A"

Pass ==
  /\ day' = day + 1
  /\ worn' = [l \in Line |-> [s \in Side |->
                IF side[l] = s THEN worn[l][s] + 1 ELSE worn[l][s]]]
  /\ UNCHANGED side

Turn(l) ==
  /\ side[l] \in Side
  /\ side' = [side EXCEPT ![l] = Other(@)]
  /\ \E k \in 0..Late :
       /\ k <= worn[l][side[l]]
       /\ worn' = [worn EXCEPT ![l][side[l]] = @ - k, ![l][Other(side[l])] = @ + k]
  /\ UNCHANGED day

Next == Pass \/ \E l \in Line : Turn(l)
=============================================================================
