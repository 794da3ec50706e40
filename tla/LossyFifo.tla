---------------------------- MODULE LossyFifo ----------------------------
(***************************************************************************)
(* What the ingestion client promises its handlers: the stream produces    *)
(* slots 1, 2, 3, ... and the handlers are given some of them, each at     *)
(* most once and in the order of the stream.  Which slots are lost, and    *)
(* how many, is left open: overflow, staleness and deduplication decide.   *)
(***************************************************************************)
EXTENDS Naturals, Sequences

VARIABLES
    produced,   \* the last slot the stream has produced
    delivered   \* the slots given to the handlers, in order

vars == <<produced, delivered>>

Init == produced = 0 /\ delivered = <<>>

Produce == produced' = produced + 1 /\ UNCHANGED delivered

IsNews(slot) == \A i \in 1..Len(delivered) : delivered[i] < slot

Deliver == \E slot \in 1..produced :
    /\ IsNews(slot)
    /\ delivered' = Append(delivered, slot)
    /\ UNCHANGED produced

Next == Produce \/ Deliver

Spec == Init /\ [][Next]_vars

=============================================================================
