---------------------------- MODULE MCStrategy ----------------------------
(* Instances of Strategy for TLC: values on both sides of every threshold.  *)
EXTENDS Strategy, TLC

MintSymmetry == Permutations(Mints)
AllReturns == {-5, -4, 0, 10, 20}

Strong == [audit |-> "ALLOW", staleness |-> 0, age |-> 0, cooldown |-> 0,
           trades |-> 20, velocity |-> 1000, volume |-> 300, imbalance |-> 90,
           ofi |-> 7500, return |-> 0, acceleration |-> 0, extension |-> 0]

\* A token whose score the infrastructure decides.
Marginal == [audit |-> "ALLOW", staleness |-> 400, age |-> 30, cooldown |-> 0,
             trades |-> 8, velocity |-> 400, volume |-> 75, imbalance |-> 72,
             ofi |-> 4500, return |-> 0, acceleration |-> 0, extension |-> 0]

\* As far extended as the gates allow.
Extended == [Strong EXCEPT !.return = 25, !.acceleration = 15, !.extension = 150,
                           !.staleness = 2000, !.age = 120, !.trades = 5]

\* Each fails one gate.
Refused == { [Strong EXCEPT !.audit = "PENDING"], [Strong EXCEPT !.staleness = 2001],
             [Strong EXCEPT !.age = 121], [Strong EXCEPT !.cooldown = 1],
             [Strong EXCEPT !.trades = 4], [Strong EXCEPT !.ofi = 1499],
             [Strong EXCEPT !.extension = 151] }

SomeTokens == {Strong, Marginal, Extended} \cup Refused
=============================================================================
