------------------------------ MODULE SlotPool ------------------------------
(***************************************************************************)
(* What the memory pool promises: a slot that is handed out is nobody      *)
(* else's, and there is none to hand out only when all are held.           *)
(***************************************************************************)
CONSTANTS Slots, Null

VARIABLES
  held,      \* the slots handed out and not returned
  returned   \* what allocate returned last

Init == held = {} /\ returned = Null

Allocate ==
  \E p \in Slots \ held : held' = held \cup {p} /\ returned' = p

Exhausted == held = Slots /\ returned' = Null /\ UNCHANGED held

Deallocate ==
  \E p \in held : held' = held \ {p} /\ UNCHANGED returned

Next == Allocate \/ Exhausted \/ Deallocate

Spec == Init /\ [][Next]_<< held, returned >>
=============================================================================
