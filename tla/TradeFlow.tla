----------------------------- MODULE TradeFlow -----------------------------
(***************************************************************************)
(* The trades of one mint: the part of handle_raw_event that feeds the     *)
(* FeatureEngine (src/engine/features.py), the O(1) indicators             *)
(* (src/engine/indicators.py) and the mint's TokenState, with the          *)
(* evictions of the token store, which the engine's and the indicators'    *)
(* dictionaries outlive.  The batch order flow of MicrostructureEngine     *)
(* (src/engine/microstructure.py) is given as a function of the trades.    *)
(*                                                                         *)
(* Prices and amounts are integers and the arithmetic is exact: rounding   *)
(* is left out.  The two averages of the RSI are kept multiplied by the    *)
(* same power of the period, which their ratio does not notice.            *)
(***************************************************************************)
EXTENDS Integers, Sequences, FiniteSetsExt

CONSTANTS
    Trades,         \* trades considered: [side, sol, token]
    RsiPeriod,      \* 14 in the code
    BandPeriod,     \* 20 in the code
    OfiWindow,      \* 50 in the code: trades calculate_ofi looks at
    None,
    MaxTrades       \* bound: trades of the mint

ASSUME TradesAssumption ==
    \A t \in Trades : /\ t.side \in {"buy", "sell"}
                      /\ t.sol \in Nat /\ t.token \in Nat
                      /\ t.token > 0 => t.sol % t.token = 0
\* The buffer the window is taken of keeps the latest 1000 trades.
ASSUME PeriodsAssumption == /\ RsiPeriod \in Nat \ {0, 1}
                            /\ BandPeriod \in Nat \ {0}
                            /\ OfiWindow \in 1 .. 1000
                            /\ MaxTrades \in Nat
ASSUME NoneAssumption == None \notin Int

VARIABLES
    stored,     \* the token store has a state of the mint
    token,      \* that state, the defaults if there is none
    last_price, \* FeatureEngine._last_prices[mint]
    ofi,        \* FeatureEngine._ofi_values[mint]
    rsi,        \* rsi_indicators[mint]
    bands,      \* bb_indicators[mint]
    history,    \* history: all trades of the mint
    created     \* history: trades before the stored state was created

vars == <<stored, token, last_price, ofi, rsi, bands, history, created>>

NewToken == [recent_trade_count |-> 0, buy_volume_sol |-> 0, rolling_price |-> 0,
             ofi |-> 0, rsi |-> None, bollinger_mid |-> None]

Init ==
    /\ stored = FALSE
    /\ token = NewToken
    /\ last_price = None
    /\ ofi = 0
    /\ rsi = [last_price |-> None, count |-> 0, gain |-> 0, loss |-> 0, scale |-> 1]
    /\ bands = [prices |-> <<>>, sum_x |-> 0, sum_x2 |-> 0]
    /\ history = <<>>
    /\ created = 0

-----------------------------------------------------------------------------

\* A trade of no tokens has the price 0.
Price(t) == IF t.token > 0 THEN t.sol \div t.token ELSE 0

\* Mutant: a trade at an unchanged price counts against its side.
FlowOnlyOnMove(t, change) ==
    IF t.side = "buy" THEN (IF change > 0 THEN t.token ELSE -t.token)
    ELSE IF change < 0 THEN -t.token ELSE t.token

Flow(t, change) ==
    IF t.side = "buy" THEN (IF change >= 0 THEN t.token ELSE -t.token)
    ELSE IF change <= 0 THEN -t.token ELSE t.token

UpdateFeatures(t) ==
    /\ last_price' = Price(t)
    /\ ofi' = ofi + IF last_price = None THEN 0 ELSE Flow(t, Price(t) - last_price)

Positive(x) == IF x > 0 THEN x ELSE 0

\* Mutant: a gain is smoothed, a loss is added to the average as it is.
SmoothedGainOnly(r, gain, loss) ==
    [r EXCEPT !.gain = @ * (RsiPeriod - 1) + gain * r.scale,
              !.loss = (@ + loss) * r.scale,
              !.scale = @ * RsiPeriod]

\* Wilder's average: the old one weighs period - 1, the new value 1.
Smoothed(r, gain, loss) ==
    [r EXCEPT !.gain = @ * (RsiPeriod - 1) + gain * r.scale,
              !.loss = @ * (RsiPeriod - 1) + loss * r.scale,
              !.scale = @ * RsiPeriod]

\* Until the period is full the gains and losses are only collected.
Collected(r, gain, loss) ==
    [r EXCEPT !.gain = @ + gain, !.loss = @ + loss,
              !.scale = IF r.count + 1 = RsiPeriod THEN RsiPeriod ELSE 1]

\* Mutant: the moves are measured from the first price.
RsiUpdateFromFirst(r, price) ==
    IF r.last_price = None THEN [r EXCEPT !.last_price = price]
    ELSE LET gain == Positive(price - r.last_price)
             loss == Positive(r.last_price - price)
         IN [(IF r.count < RsiPeriod THEN Collected(r, gain, loss)
              ELSE Smoothed(r, gain, loss)) EXCEPT !.count = r.count + 1]

RsiUpdate(r, price) ==
    IF r.last_price = None THEN [r EXCEPT !.last_price = price]
    ELSE LET gain == Positive(price - r.last_price)
             loss == Positive(r.last_price - price)
             averaged == IF r.count < RsiPeriod THEN Collected(r, gain, loss)
                         ELSE Smoothed(r, gain, loss)
         IN [averaged EXCEPT !.last_price = price, !.count = r.count + 1]

\* The value is 100 gain / (gain + loss), and 100 if there is no loss.
RsiValue(r) ==
    IF r.count < RsiPeriod THEN None ELSE [gain |-> r.gain, loss |-> r.loss]

\* Mutant: the square of the price that leaves the window stays in the sum.
BandsUpdateKeepsSquare(b, price) ==
    LET full == Len(b.prices) = BandPeriod
        old == IF full THEN Head(b.prices) ELSE 0
    IN [prices |-> Append(IF full THEN Tail(b.prices) ELSE b.prices, price),
        sum_x |-> b.sum_x - old + price,
        sum_x2 |-> b.sum_x2 + price * price]

BandsUpdate(b, price) ==
    LET full == Len(b.prices) = BandPeriod
        old == IF full THEN Head(b.prices) ELSE 0
    IN [prices |-> Append(IF full THEN Tail(b.prices) ELSE b.prices, price),
        sum_x |-> b.sum_x - old + price,
        sum_x2 |-> b.sum_x2 - old * old + price * price]

\* The middle band is this sum over the period.
BandMid(b) == IF Len(b.prices) < BandPeriod THEN None ELSE b.sum_x

HandleTrade(t) ==
    /\ Len(history) < MaxTrades         \* bound
    /\ stored' = TRUE
    /\ UpdateFeatures(t)
    /\ IF Price(t) > 0
       THEN /\ rsi' = RsiUpdate(rsi, Price(t))
            /\ bands' = BandsUpdate(bands, Price(t))
       ELSE UNCHANGED <<rsi, bands>>
    /\ token' = [token EXCEPT
          !.recent_trade_count = @ + 1,
          !.buy_volume_sol = @ + IF t.side = "buy" THEN t.sol ELSE 0,
          !.ofi = ofi',
          !.rolling_price = IF Price(t) > 0 THEN Price(t) ELSE @,
          !.rsi = IF Price(t) > 0 THEN RsiValue(rsi') ELSE @,
          !.bollinger_mid =
              IF Price(t) > 0 /\ BandMid(bands') # None THEN BandMid(bands') ELSE @]
    /\ history' = Append(history, t)
    /\ created' = IF stored THEN created ELSE Len(history)

\* A creation event has no trade in it.
HandleCreation ==
    /\ stored' = TRUE
    /\ created' = IF stored THEN created ELSE Len(history)
    /\ UNCHANGED <<token, last_price, ofi, rsi, bands, history>>

\* TokenStore._cleanup_loop, an hour after the last event.
Evict ==
    /\ stored /\ stored' = FALSE
    /\ token' = NewToken
    /\ UNCHANGED <<last_price, ofi, rsi, bands, history, created>>

Next == (\E t \in Trades : HandleTrade(t)) \/ HandleCreation \/ Evict

Spec == Init /\ [][Next]_vars

-----------------------------------------------------------------------------
(* MicrostructureEngine                                                    *)

Last(s, n) == SubSeq(s, IF Len(s) > n THEN Len(s) - n + 1 ELSE 1, Len(s))

TotalOf(s, F(_)) == SumFunction([i \in DOMAIN s |-> F(s[i])])

\* The order flow imbalance of a sequence of trades.
CalculateOfi(trades) ==
    LET w == Last(trades, OfiWindow)
        Change(i) == Price(w[i]) - Price(w[i - 1])
        Agrees(i) == IF w[i].side = "buy" THEN Change(i) >= 0 ELSE Change(i) > 0
    IN SumFunction([i \in 2 .. Len(w) |->
                        IF Agrees(i) THEN w[i].token ELSE -w[i].token])

-----------------------------------------------------------------------------
(* Properties                                                              *)

\* The trades of a sequence that have a price.
Priced(trades) ==
    LET first[n \in 0 .. Len(trades)] ==
            IF n = 0 THEN <<>>
            ELSE IF Price(trades[n]) > 0 THEN Append(first[n - 1], trades[n])
            ELSE first[n - 1]
    IN first[Len(trades)]

Power(b, n) ==
    LET power[k \in 0 .. n] == IF k = 0 THEN 1 ELSE b * power[k - 1]
    IN power[n]

\* Types of the variables: prices and averages are natural numbers, the order
\* flow has a sign.
TypeOK ==
    /\ stored \in BOOLEAN
    /\ token \in [recent_trade_count : Nat, buy_volume_sol : Nat,
                  rolling_price : Nat, ofi : Int,
                  rsi : {None} \cup [gain : Nat, loss : Nat],
                  bollinger_mid : {None} \cup Int]
    /\ last_price \in Nat \cup {None}
    /\ ofi \in Int
    /\ rsi \in [last_price : Nat \cup {None}, count : Nat, gain : Nat, loss : Nat,
                scale : Nat \ {0}]
    /\ bands \in [prices : Seq(Nat), sum_x : Int, sum_x2 : Int]
    /\ history \in Seq(Trades) /\ created \in Nat

\* The running sums of the Bollinger bands are those of the latest priced
\* trades, whatever left the window and however often the mint was evicted, and
\* the stored middle band is the mean of them.
BandsOfLatestPrices ==
    LET w == Last(Priced(history), BandPeriod) IN
    /\ bands.prices = [i \in DOMAIN w |-> Price(w[i])]
    /\ bands.sum_x = TotalOf(w, Price)
    /\ bands.sum_x2 = TotalOf(w, LAMBDA t : Price(t) * Price(t))
    /\ token.bollinger_mid # None => token.bollinger_mid = bands.sum_x

\* The order flow added up trade by trade is the batch order flow of all trades
\* of the mint, as long as the window of the batch holds them; what the signal
\* reads is that value from the state's first trade on, while the trades it
\* counts are those since the state was created.
OfiOfAllTrades ==
    /\ Len(history) <= OfiWindow => ofi = CalculateOfi(history)
    /\ token.recent_trade_count = IF stored THEN Len(history) - created ELSE 0
    /\ token.ofi = IF token.recent_trade_count > 0 THEN ofi ELSE 0

\* a is at least b as a value of the RSI
RsiAtLeast(a, b) ==
    a.loss = 0 \/ (b.loss # 0 /\ a.gain * b.loss >= b.gain * a.loss)

\* The RSI of a mint never falls at a trade whose price is not lower and never
\* rises at one whose price is not higher; a trade without a price leaves it.
RsiFollowsPrice ==
    [][ token.rsi # None /\ token'.rsi # None =>
          /\ token'.rolling_price >= token.rolling_price
                => RsiAtLeast(token'.rsi, token.rsi)
          /\ token'.rolling_price <= token.rolling_price
                => RsiAtLeast(token.rsi, token'.rsi) ]_vars

\* The averages built up step by step are Wilder's: of all the price moves the
\* first period's weigh alike, and from there on each weighs
\* period / (period - 1) times its predecessor.
RsiIsWilders ==
    LET priced == Priced(history)
        n == Len(priced) - 1
        Move(i) == Price(priced[i + 1]) - Price(priced[i])
        Weight(i) == IF i <= RsiPeriod THEN Power(RsiPeriod - 1, n - RsiPeriod)
                     ELSE Power(RsiPeriod, i - RsiPeriod) * Power(RsiPeriod - 1, n - i)
    IN n >= RsiPeriod =>
         /\ rsi.gain = SumFunction([i \in 1 .. n |-> Weight(i) * Positive(Move(i))])
         /\ rsi.loss = SumFunction([i \in 1 .. n |-> Weight(i) * Positive(-Move(i))])

=============================================================================
