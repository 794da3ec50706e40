---------------------------- MODULE MCTradeFlow ----------------------------
(* Instances of TradeFlow for TLC.                                          *)
EXTENDS TradeFlow

\* Buys below and above a sale, and a trade of no tokens.
SomeTrades ==
    { [side |-> "buy", sol |-> 4, token |-> 4],
      [side |-> "sell", sol |-> 4, token |-> 2],
      [side |-> "buy", sol |-> 3, token |-> 1],
      [side |-> "buy", sol |-> 1, token |-> 0] }
=============================================================================
