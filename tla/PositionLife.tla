--------------------------- MODULE PositionLife ---------------------------
(***************************************************************************)
(* What the pipeline promises about its position in each mint: one         *)
(* execution at a time, begun only while the position is flat; the         *)
(* position is held after it or flat again, and a held position is never   *)
(* bought into.  There is no sale: a held position ends only when the      *)
(* store forgets the mint.                                                 *)
(***************************************************************************)
CONSTANT Mints

VARIABLE position   \* "flat", "buying" or "held"

Init == position = [m \in Mints |-> "flat"]

Becomes(m, from, to) ==
    position[m] = from /\ position' = [position EXCEPT ![m] = to]

Buy(m) == Becomes(m, "flat", "buying")
Fill(m) == Becomes(m, "buying", "held")
Abort(m) == Becomes(m, "buying", "flat")
Forget(m) == Becomes(m, "held", "flat")

Next == \E m \in Mints : Buy(m) \/ Fill(m) \/ Abort(m) \/ Forget(m)

Spec == Init /\ [][Next]_position

=============================================================================
