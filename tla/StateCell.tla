----------------------------- MODULE StateCell -----------------------------
(***************************************************************************)
(* What the daemon's users of a state file rely on: whoever reads the file *)
(* finds a complete version of the store, and a newer one each time.  Only *)
(* damage from outside, of which there is one at most, leaves a cell that  *)
(* has no version, and the next version ends that.                         *)
(***************************************************************************)
EXTENDS Integers

CONSTANT MayDamage

Unreadable == -1

VARIABLES cell,     \* the version that is there, or Unreadable
          damaged   \* the cell has been damaged

Init == cell = 0 /\ damaged = FALSE

Advance == cell' \in Nat /\ cell' > cell /\ UNCHANGED damaged

Damage == MayDamage /\ ~damaged /\ damaged' = TRUE /\ cell' = Unreadable

Next == Advance \/ Damage

Spec == Init /\ [][Next]_<<cell, damaged>>

=============================================================================
