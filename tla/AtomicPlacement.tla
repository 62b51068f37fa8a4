-------------------------- MODULE AtomicPlacement --------------------------
(***************************************************************************)
(* What the register and the deck promise together: registering a line,    *)
(* moving it and saving a layout each happen at one instant. A move only   *)
(* ever ends on a free drum, or a storage location, of the line's own      *)
(* vessel. Saving a layout changes the storage locations of one vessel and *)
(* drums, and may take a position from under a line.                       *)
(***************************************************************************)
CONSTANTS Vessel, Line, Drum, Storage, None,
          NoRow,        \* no line with this serial number
          HomeOf(_),    \* the vessel a position is on
          LifeAt(_)     \* lifecycle_status of a line put at a position

VARIABLES line, pos

Position == Drum \cup Storage

Init ==
  /\ pos \subseteq Position
  /\ \A l \in Line : line[l].at \in pos \cup {None}
  /\ \A k, l \in Line : line[k].at \in Drum /\ line[k].at = line[l].at => k = l

Register(l, v) ==
  /\ line[l] = NoRow /\ line'[l] # NoRow
  /\ line'[l].vessel = v /\ line'[l].at = None
  /\ line' = [line EXCEPT ![l] = line'[l]]
  /\ pos' = pos

Move(l, p) ==
  /\ line[l] # NoRow
  /\ p \in pos /\ HomeOf(p) = line[l].vessel
  /\ p \in Drum => \A k \in Line \ {l} : line[k].at # p
  /\ line' = [line EXCEPT ![l] = [vessel |-> line[l].vessel, life |-> LifeAt(p),
                               at |-> p]]
  /\ pos' = pos

\* The positions of one vessel change, and drums of winches the save names,
\* whatever vessel they are on; lines on what is removed lose their place and
\* keep their lifecycle status.
Relayout(v) ==
  /\ pos' \subseteq Position
  /\ \A p \in (pos \ pos') \cup (pos' \ pos) : p \in Storage => HomeOf(p) = v
  /\ line' = [l \in Line |-> IF line[l].at \in pos \ pos'
                             THEN [vessel |-> line[l].vessel, life |-> line[l].life,
                                   at |-> None]
                             ELSE line[l]]

Next ==
  \/ \E l \in Line, v \in Vessel : Register(l, v)
  \/ \E l \in Line, p \in pos : Move(l, p)
  \/ \E v \in Vessel : Relayout(v)

Spec == Init /\ [][Next]_<<line, pos>>
=============================================================================
