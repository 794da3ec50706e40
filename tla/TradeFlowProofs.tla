-------------------------- MODULE TradeFlowProofs --------------------------
(***************************************************************************)
(* Proofs about TradeFlow, for any trades, periods and windows.            *)
(***************************************************************************)
EXTENDS TradeFlow, NumberLemmas, SequenceTheorems, TLAPS

\* The price of a trade is a natural number, its flow an integer.
LEMMA PriceTypes ==
  ASSUME NEW t \in Trades
  PROVE  Price(t) \in Nat /\ t.sol \in Nat /\ t.token \in Nat
<1>1. t.sol \in Nat /\ t.token \in Nat
  BY TradesAssumption
<1> QED BY <1>1 DEF Price

RsiTypes == [last_price : Nat \cup {None}, count : Nat, gain : Nat, loss : Nat,
             scale : Nat \ {0}]

\* Products of natural numbers, for leaves that only need their type.
LEMMA NatProducts == \A a, b \in Nat : a * b \in Nat
OBVIOUS

\* The averages of the RSI are fed with natural numbers.
LEMMA RsiUpdateTyped ==
  ASSUME NEW r \in RsiTypes, NEW price \in Nat
  PROVE  RsiUpdate(r, price) \in RsiTypes
<1> DEFINE gain == Positive(price - r.last_price)
           loss == Positive(r.last_price - price)
<1>1. CASE r.last_price = None
  BY <1>1 DEF RsiUpdate, RsiTypes
<1>2. CASE r.last_price # None
  <2>1. r.last_price \in Nat
    BY <1>2 DEF RsiTypes
  <2>2. gain \in Nat /\ loss \in Nat
    BY <2>1 DEF Positive
  <2> HIDE DEF gain, loss
  <2>3. /\ RsiPeriod - 1 \in Nat /\ RsiPeriod \in Nat \ {0} /\ r.scale \in Nat \ {0}
        /\ r.gain \in Nat /\ r.loss \in Nat /\ r.count \in Nat
    BY PeriodsAssumption DEF RsiTypes
  <2>4. /\ r.gain * (RsiPeriod - 1) \in Nat /\ gain * r.scale \in Nat
        /\ r.loss * (RsiPeriod - 1) \in Nat /\ loss * r.scale \in Nat
        /\ r.scale * RsiPeriod \in Nat
    BY <2>2, <2>3, NatProducts
  <2>5. r.scale * RsiPeriod # 0
    BY <2>3
  <2>6. ASSUME NEW g \in Nat, NEW l \in Nat, NEW c \in Nat \ {0}
        PROVE  [r EXCEPT !.gain = g, !.loss = l, !.scale = c] \in RsiTypes
    BY DEF RsiTypes
  <2>8. Collected(r, gain, loss) \in RsiTypes
    <3> DEFINE g == r.gain + gain
               l == r.loss + loss
               c == IF r.count + 1 = RsiPeriod THEN RsiPeriod ELSE 1
    <3>1. g \in Nat /\ l \in Nat /\ c \in Nat \ {0}
      BY <2>2, <2>3
    <3> HIDE DEF g, l, c
    <3>2. [r EXCEPT !.gain = g, !.loss = l, !.scale = c] \in RsiTypes
      BY <2>6, <3>1
    <3> QED BY <3>2 DEF Collected, g, l, c
  <2>9. Smoothed(r, gain, loss) \in RsiTypes
    <3> DEFINE g == r.gain * (RsiPeriod - 1) + gain * r.scale
               l == r.loss * (RsiPeriod - 1) + loss * r.scale
               c == r.scale * RsiPeriod
    <3>1. g \in Nat /\ l \in Nat /\ c \in Nat \ {0}
      BY <2>4, <2>5
    <3> HIDE DEF g, l, c
    <3>2. [r EXCEPT !.gain = g, !.loss = l, !.scale = c] \in RsiTypes
      BY <2>6, <3>1
    <3> QED BY <3>2 DEF Smoothed, g, l, c
  <2>7. ASSUME NEW a \in RsiTypes, NEW n \in Nat
        PROVE  [a EXCEPT !.last_price = price, !.count = n] \in RsiTypes
    BY DEF RsiTypes
  <2> DEFINE averaged == IF r.count < RsiPeriod THEN Collected(r, gain, loss)
                         ELSE Smoothed(r, gain, loss)
             next == r.count + 1
  <2>10. averaged \in RsiTypes /\ next \in Nat
    BY <2>3, <2>8, <2>9
  <2> HIDE DEF averaged, next
  <2>11. [averaged EXCEPT !.last_price = price, !.count = next] \in RsiTypes
    BY <2>7, <2>10
  <2> QED BY <1>2, <2>11 DEF RsiUpdate, averaged, next, gain, loss
<1> QED BY <1>1, <1>2

\* While the state of the mint shows an RSI, it is that of the indicator, and
\* the state's price is the one the indicator saw last.
RsiShown ==
    token.rsi # None =>
        /\ token.rsi = [gain |-> rsi.gain, loss |-> rsi.loss]
        /\ rsi.count >= RsiPeriod
        /\ rsi.last_price \in Nat /\ token.rolling_price = rsi.last_price

TokenTypes == [recent_trade_count : Nat, buy_volume_sol : Nat,
               rolling_price : Nat, ofi : Int,
               rsi : {None} \cup [gain : Nat, loss : Nat],
               bollinger_mid : {None} \cup Int]
BandTypes == [prices : Seq(Nat), sum_x : Int, sum_x2 : Int]

\* What a trade does to the RSI of the mint's state and to its price.
LEMMA TradeShown ==
  ASSUME NEW t \in Trades, token \in TokenTypes, HandleTrade(t)
  PROVE  /\ Price(t) = 0 => /\ token'.rsi = token.rsi
                            /\ token'.rolling_price = token.rolling_price
                            /\ rsi' = rsi
         /\ Price(t) > 0 => /\ token'.rsi = RsiValue(rsi')
                            /\ token'.rolling_price = Price(t)
                            /\ rsi' = RsiUpdate(rsi, Price(t))
<1>1. Price(t) \in Nat
  BY PriceTypes
<1> HIDE DEF Price
<1>2. CASE Price(t) = 0
  BY <1>2 DEF HandleTrade, TokenTypes
<1>3. CASE Price(t) > 0
  BY <1>1, <1>3 DEF HandleTrade, TokenTypes
<1> QED BY <1>1, <1>2, <1>3

\* The sums of the bands are integers.
LEMMA BandsUpdateTyped ==
  ASSUME NEW b \in BandTypes, NEW price \in Nat
  PROVE  BandsUpdate(b, price) \in BandTypes
<1> DEFINE full == Len(b.prices) = BandPeriod
           old == IF full THEN Head(b.prices) ELSE 0
           kept == IF full THEN Tail(b.prices) ELSE b.prices
<1>1. b.prices \in Seq(Nat) /\ b.sum_x \in Int /\ b.sum_x2 \in Int
  BY DEF BandTypes
<1>2. old \in Nat /\ kept \in Seq(Nat)
  <2>1. full => b.prices # <<>>
    BY <1>1, PeriodsAssumption
  <2> QED BY <1>1, <2>1
<1> HIDE DEF old, kept
<1>3. old * old \in Nat /\ price * price \in Nat
  BY <1>2, NatProducts
<1>4. Append(kept, price) \in Seq(Nat)
  BY <1>2
<1>5. b.sum_x - old + price \in Int /\ b.sum_x2 - old * old + price * price \in Int
  BY <1>1, <1>2, <1>3
<1> QED BY <1>4, <1>5 DEF BandsUpdate, BandTypes, old, kept, full

\* The value of an indicator and of the bands.
LEMMA ShownTyped ==
  /\ \A r \in RsiTypes : RsiValue(r) \in {None} \cup [gain : Nat, loss : Nat]
  /\ \A b \in BandTypes : BandMid(b) \in {None} \cup Int
BY DEF RsiValue, RsiTypes, BandMid, BandTypes

\* One step per action; a trade is typed field by field of the mint's state.
LEMMA TypeStep == TypeOK /\ [Next]_vars => TypeOK'
<1> SUFFICES ASSUME TypeOK, [Next]_vars PROVE TypeOK'
  OBVIOUS
<1>0. /\ token \in TokenTypes /\ rsi \in RsiTypes /\ bands \in BandTypes
      /\ ofi \in Int /\ last_price \in Nat \cup {None}
      /\ history \in Seq(Trades) /\ created \in Nat /\ stored \in BOOLEAN
  BY DEF TypeOK, TokenTypes, RsiTypes, BandTypes
<1>1. ASSUME NEW t \in Trades, HandleTrade(t) PROVE TypeOK'
  <2>1. Price(t) \in Nat /\ t.sol \in Nat /\ t.token \in Nat
    BY PriceTypes
  <2> HIDE DEF Price
  <2>2. last_price' = Price(t) /\ ofi' \in Int
    <3>1. last_price = None => ofi' = ofi
      BY <1>0, <1>1 DEF HandleTrade, UpdateFeatures
    <3>2. last_price # None => ofi' = ofi + Flow(t, Price(t) - last_price)
      BY <1>1 DEF HandleTrade, UpdateFeatures
    <3>3. \A c \in Int : Flow(t, c) \in Int
      BY <2>1 DEF Flow
    <3>4. last_price # None => Price(t) - last_price \in Int
      BY <1>0, <2>1
    <3>5. last_price' = Price(t)
      BY <1>1 DEF HandleTrade, UpdateFeatures
    <3> QED BY <1>0, <3>1, <3>2, <3>3, <3>4, <3>5
  <2>3. rsi' \in RsiTypes /\ bands' \in BandTypes
    BY <1>0, <1>1, <2>1, RsiUpdateTyped, BandsUpdateTyped DEF HandleTrade
  <2>4. token' \in TokenTypes
    <3> DEFINE bought == token.buy_volume_sol + IF t.side = "buy" THEN t.sol ELSE 0
               count == token.recent_trade_count + 1
               price == IF Price(t) > 0 THEN Price(t) ELSE token.rolling_price
               shown == IF Price(t) > 0 THEN RsiValue(rsi') ELSE token.rsi
               mid == IF Price(t) > 0 /\ BandMid(bands') # None THEN BandMid(bands')
                      ELSE token.bollinger_mid
               flow == ofi'
    <3>1. /\ token.recent_trade_count \in Nat /\ token.buy_volume_sol \in Nat
          /\ token.rolling_price \in Nat /\ token.bollinger_mid \in {None} \cup Int
          /\ token.rsi \in {None} \cup [gain : Nat, loss : Nat]
      BY <1>0 DEF TokenTypes
    <3>2. /\ bought \in Nat /\ count \in Nat /\ price \in Nat /\ flow \in Int
      BY <2>1, <2>2, <3>1
    <3>3. /\ shown \in {None} \cup [gain : Nat, loss : Nat]
          /\ mid \in {None} \cup Int
      BY <2>3, <3>1, ShownTyped
    <3>4. token' = [token EXCEPT !.recent_trade_count = count,
                                 !.buy_volume_sol = bought, !.ofi = flow,
                                 !.rolling_price = price, !.rsi = shown,
                                 !.bollinger_mid = mid]
      BY <1>1 DEF HandleTrade
    <3> HIDE DEF bought, count, price, shown, mid, flow
    <3> QED BY <1>0, <3>2, <3>3, <3>4 DEF TokenTypes
  <2>5. history' \in Seq(Trades) /\ created' \in Nat /\ stored' \in BOOLEAN
    BY <1>0, <1>1 DEF HandleTrade
  <2> QED BY <2>1, <2>2, <2>3, <2>4, <2>5 DEF TypeOK, TokenTypes, RsiTypes, BandTypes
<1>2. CASE HandleCreation
  <2>1. stored' \in BOOLEAN /\ created' \in Nat
    BY <1>0, <1>2 DEF HandleCreation
  <2> QED BY <1>2, <2>1 DEF HandleCreation, TypeOK
<1>3. CASE Evict
  <2>1. token' \in TokenTypes
    BY <1>3 DEF Evict, NewToken, TokenTypes
  <2> QED BY <1>3, <2>1 DEF Evict, TypeOK, TokenTypes
<1>4. CASE UNCHANGED vars
  BY <1>4 DEF vars, TypeOK
<1> QED BY <1>1, <1>2, <1>3, <1>4 DEF Next

\* Types of the variables.
THEOREM TradeFlowTypeCorrect == Spec => []TypeOK
<1>1. Init => TypeOK
  <2> SUFFICES ASSUME Init PROVE TypeOK
    OBVIOUS
  <2>1. token \in TokenTypes
    BY DEF Init, NewToken, TokenTypes
  <2>2. rsi \in RsiTypes
    BY DEF Init, RsiTypes
  <2>3. bands \in BandTypes
    BY DEF Init, BandTypes
  <2>4. stored \in BOOLEAN /\ last_price \in Nat \cup {None}
    BY DEF Init
  <2>5. ofi \in Int /\ history = <<>> /\ created \in Nat
    BY DEF Init
  <2>6. history \in Seq(Trades)
    BY <2>5
  <2> QED BY <2>1, <2>2, <2>3, <2>4, <2>5, <2>6 DEF TypeOK, TokenTypes, RsiTypes, BandTypes
<1> QED BY <1>1, TypeStep, PTL DEF Spec

-----------------------------------------------------------------------------
(* The RSI follows the price                                               *)

\* An update of a full indicator smooths its averages; the indicator then
\* holds the price.
LEMMA FullUpdate ==
  ASSUME NEW r \in RsiTypes, NEW p \in Nat, r.last_price \in Nat,
         r.count >= RsiPeriod
  PROVE  LET u == RsiUpdate(r, p) IN
         /\ u.last_price = p /\ u.count = r.count + 1 /\ u.count >= RsiPeriod
         /\ u.scale = r.scale * RsiPeriod
         /\ u.gain = r.gain * (RsiPeriod - 1) + Positive(p - r.last_price) * r.scale
         /\ u.loss = r.loss * (RsiPeriod - 1) + Positive(r.last_price - p) * r.scale
<1> DEFINE gain == Positive(p - r.last_price)
           loss == Positive(r.last_price - p)
           smoothed == Smoothed(r, gain, loss)
           next == r.count + 1
           updated == [smoothed EXCEPT !.last_price = p, !.count = next]
<1>1. RsiUpdate(r, p) = updated
  <2>1. r.last_price # None
    BY NoneAssumption
  <2>2. r.count \in Nat /\ ~(r.count < RsiPeriod)
    BY PeriodsAssumption DEF RsiTypes
  <2> QED BY <2>1, <2>2 DEF RsiUpdate
<1>2. smoothed.gain = r.gain * (RsiPeriod - 1) + gain * r.scale
  BY DEF Smoothed, RsiTypes
<1>6. smoothed.loss = r.loss * (RsiPeriod - 1) + loss * r.scale
  BY DEF Smoothed, RsiTypes
<1>7. smoothed.scale = r.scale * RsiPeriod
  BY DEF Smoothed, RsiTypes
<1>3. DOMAIN smoothed = {"last_price", "count", "gain", "loss", "scale"}
  BY DEF Smoothed, RsiTypes
<1> HIDE DEF smoothed, gain, loss
<1>4. /\ updated.last_price = p /\ updated.count = next
      /\ updated.gain = smoothed.gain /\ updated.loss = smoothed.loss
      /\ updated.scale = smoothed.scale
  BY <1>3
<1>5. next \in Nat /\ next >= RsiPeriod
  BY PeriodsAssumption DEF RsiTypes
<1> HIDE DEF updated, next
<1> QED BY <1>1, <1>2, <1>4, <1>5, <1>6, <1>7 DEF gain, loss, next

\* The first value appears with the period's last price.
LEMMA UpdateHoldsPrice ==
  ASSUME NEW r \in RsiTypes, NEW p \in Nat
  PROVE  RsiUpdate(r, p).last_price = p
<1>1. CASE r.last_price = None
  BY <1>1 DEF RsiUpdate, RsiTypes
<1>2. CASE r.last_price # None
  <2> DEFINE gain == Positive(p - r.last_price)
             loss == Positive(r.last_price - p)
             averaged == IF r.count < RsiPeriod THEN Collected(r, gain, loss)
                         ELSE Smoothed(r, gain, loss)
             next == r.count + 1
  <2>1. DOMAIN averaged = {"last_price", "count", "gain", "loss", "scale"}
    BY DEF Collected, Smoothed, RsiTypes
  <2> HIDE DEF averaged, next
  <2>2. [averaged EXCEPT !.last_price = p, !.count = next].last_price = p
    BY <2>1
  <2> QED BY <1>2, <2>2 DEF RsiUpdate, averaged, next
<1> QED BY <1>1, <1>2

\* Without a loss added the RSI does not fall, without a gain it does not rise.
LEMMA AveragesOrdered ==
  ASSUME NEW g \in Nat, NEW l \in Nat, NEW k \in Nat \ {0}, NEW up \in Nat,
         NEW dn \in Nat, NEW old, NEW new,
         old = [gain |-> g, loss |-> l],
         new = [gain |-> g * k + up, loss |-> l * k + dn]
  PROVE  /\ dn = 0 => RsiAtLeast(new, old)
         /\ up = 0 => RsiAtLeast(old, new)
<1>1. g * k \in Nat /\ l * k \in Nat
  BY NatProducts
<1>2. ASSUME dn = 0 PROVE RsiAtLeast(new, old)
  <2>1. CASE l = 0
    BY <1>2, <2>1 DEF RsiAtLeast
  <2>2. CASE l # 0
    <3>1. new.loss = l * k
      BY <1>1, <1>2
    <3>2. (g * k + up) * l = g * (l * k) + up * l
      OBVIOUS
    <3>3. up * l \in Nat /\ g * (l * k) \in Nat
      BY <1>1, NatProducts
    <3>4. new.gain * old.loss >= old.gain * new.loss
      BY <3>1, <3>2, <3>3
    <3> QED BY <2>2, <3>4 DEF RsiAtLeast
  <2> QED BY <2>1, <2>2
<1>3. ASSUME up = 0 PROVE RsiAtLeast(old, new)
  <2>1. CASE l = 0
    BY <2>1 DEF RsiAtLeast
  <2>2. CASE l # 0
    <3>1. new.gain = g * k
      BY <1>1, <1>3
    <3>2. g * (l * k + dn) = (g * k) * l + g * dn
      OBVIOUS
    <3>3. g * dn \in Nat /\ (g * k) * l \in Nat
      BY <1>1, NatProducts
    <3>4. old.gain * new.loss >= new.gain * old.loss
      BY <3>1, <3>2, <3>3
    <3>5. new.loss # 0
      <4>1. l * k > 0
        BY <2>2
      <4> QED BY <1>1, <4>1
    <3> QED BY <3>4, <3>5 DEF RsiAtLeast
  <2> QED BY <2>1, <2>2
<1> QED BY <1>2, <1>3

\* What the state shows is the indicator's value, also after an eviction, when
\* it shows none until the next priced trade.
LEMMA ShownStep == TypeOK /\ RsiShown /\ [Next]_vars => RsiShown'
<1> SUFFICES ASSUME TypeOK, RsiShown, [Next]_vars PROVE RsiShown'
  OBVIOUS
<1>0. token \in TokenTypes /\ rsi \in RsiTypes
  BY DEF TypeOK, TokenTypes, RsiTypes
<1>1. ASSUME NEW t \in Trades, HandleTrade(t) PROVE RsiShown'
  <2>1. Price(t) \in Nat
    BY PriceTypes
  <2> HIDE DEF Price
  <2>2. CASE Price(t) = 0
    BY <1>0, <1>1, <2>2, TradeShown DEF RsiShown
  <2>3. CASE Price(t) > 0
    <3>1. /\ token'.rsi = RsiValue(rsi') /\ token'.rolling_price = Price(t)
          /\ rsi' = RsiUpdate(rsi, Price(t))
      BY <1>0, <1>1, <2>3, TradeShown
    <3>2. rsi'.last_price = Price(t) /\ rsi' \in RsiTypes
      BY <1>0, <2>1, <3>1, UpdateHoldsPrice, RsiUpdateTyped
    <3>3. rsi'.count \in Nat /\ RsiPeriod \in Nat
      BY <3>2, PeriodsAssumption DEF RsiTypes
    <3> QED BY <2>1, <3>1, <3>2, <3>3 DEF RsiShown, RsiValue
  <2> QED BY <2>1, <2>2, <2>3
<1>2. CASE HandleCreation \/ UNCHANGED vars
  BY <1>2 DEF HandleCreation, vars, RsiShown
<1>3. CASE Evict
  BY <1>3 DEF Evict, NewToken, RsiShown
<1> QED BY <1>1, <1>2, <1>3 DEF Next

\* Both values of a step that shows one before and after are the indicator's.
LEMMA RsiStep ==
  TypeOK /\ RsiShown /\ [Next]_vars =>
    (token.rsi # None /\ token'.rsi # None =>
       /\ token'.rolling_price >= token.rolling_price
             => RsiAtLeast(token'.rsi, token.rsi)
       /\ token'.rolling_price <= token.rolling_price
             => RsiAtLeast(token.rsi, token'.rsi))
<1> SUFFICES ASSUME TypeOK, RsiShown, [Next]_vars, token.rsi # None,
                    token'.rsi # None
             PROVE  /\ token'.rolling_price >= token.rolling_price
                          => RsiAtLeast(token'.rsi, token.rsi)
                    /\ token'.rolling_price <= token.rolling_price
                          => RsiAtLeast(token.rsi, token'.rsi)
  OBVIOUS
<1>0. token \in TokenTypes /\ rsi \in RsiTypes
  BY DEF TypeOK, TokenTypes, RsiTypes
<1>1. /\ token.rsi = [gain |-> rsi.gain, loss |-> rsi.loss]
      /\ rsi.count >= RsiPeriod
      /\ rsi.last_price \in Nat /\ token.rolling_price = rsi.last_price
  BY DEF RsiShown
<1>2. rsi.gain \in Nat /\ rsi.loss \in Nat /\ rsi.scale \in Nat
  BY <1>0 DEF RsiTypes
<1>3. ASSUME token'.rsi = token.rsi
      PROVE  RsiAtLeast(token'.rsi, token.rsi) /\ RsiAtLeast(token.rsi, token'.rsi)
  <2>1. rsi.gain * rsi.loss \in Nat
    BY <1>2, NatProducts
  <2> QED BY <1>1, <1>3, <2>1 DEF RsiAtLeast
<1>4. ASSUME NEW t \in Trades, HandleTrade(t), Price(t) > 0
      PROVE  /\ token'.rolling_price >= token.rolling_price
                   => RsiAtLeast(token'.rsi, token.rsi)
             /\ token'.rolling_price <= token.rolling_price
                   => RsiAtLeast(token.rsi, token'.rsi)
  <2> DEFINE p == Price(t)
             up == Positive(p - rsi.last_price) * rsi.scale
             dn == Positive(rsi.last_price - p) * rsi.scale
             k == RsiPeriod - 1
  <2>1. p \in Nat
    BY PriceTypes
  <2>2. /\ token'.rsi = RsiValue(rsi') /\ token'.rolling_price = p
        /\ rsi' = RsiUpdate(rsi, p)
    BY <1>0, <1>4, TradeShown
  <2>3. /\ rsi'.count >= RsiPeriod
        /\ rsi'.gain = rsi.gain * k + up /\ rsi'.loss = rsi.loss * k + dn
    BY <1>0, <1>1, <2>1, <2>2, FullUpdate
  <2>4. rsi'.count \in Nat /\ RsiPeriod \in Nat /\ k \in Nat \ {0}
    BY <1>0, <2>1, <2>2, RsiUpdateTyped, PeriodsAssumption DEF RsiTypes
  <2>5. token'.rsi = [gain |-> rsi'.gain, loss |-> rsi'.loss]
    BY <2>2, <2>3, <2>4 DEF RsiValue
  <2>6. Positive(p - rsi.last_price) \in Nat /\ Positive(rsi.last_price - p) \in Nat
    BY <1>1, <2>1 DEF Positive
  <2>7. up \in Nat /\ dn \in Nat
    BY <1>2, <2>6, NatProducts
  <2>8. p >= rsi.last_price => dn = 0
    BY <1>1, <1>2, <2>1 DEF Positive
  <2>9. p <= rsi.last_price => up = 0
    BY <1>1, <1>2, <2>1 DEF Positive
  <2> HIDE DEF p, up, dn, k
  <2>10. token'.rsi = [gain |-> rsi.gain * k + up, loss |-> rsi.loss * k + dn]
    BY <2>3, <2>5
  <2>11. /\ dn = 0 => RsiAtLeast(token'.rsi, token.rsi)
         /\ up = 0 => RsiAtLeast(token.rsi, token'.rsi)
    <3> DEFINE g == rsi.gain
               l == rsi.loss
               old == token.rsi
               new == token'.rsi
    <3>1. /\ g \in Nat /\ l \in Nat
          /\ old = [gain |-> g, loss |-> l]
          /\ new = [gain |-> g * k + up, loss |-> l * k + dn]
      BY <1>1, <1>2, <2>10
    <3> HIDE DEF g, l, old, new
    <3>2. (dn = 0 => RsiAtLeast(new, old)) /\ (up = 0 => RsiAtLeast(old, new))
      BY <2>4, <2>7, <3>1, AveragesOrdered
    <3> QED BY <3>2 DEF old, new
  <2> QED BY <1>1, <2>2, <2>8, <2>9, <2>11
<1>5. ASSUME NEW t \in Trades, HandleTrade(t), Price(t) = 0
      PROVE  token'.rsi = token.rsi
  BY <1>0, <1>5, TradeShown
<1>6. \A t \in Trades : Price(t) = 0 \/ Price(t) > 0
  <2> SUFFICES ASSUME NEW t \in Trades PROVE Price(t) = 0 \/ Price(t) > 0
    OBVIOUS
  <2>1. Price(t) \in Nat
    BY PriceTypes
  <2> HIDE DEF Price
  <2> QED BY <2>1
<1>7. CASE HandleCreation \/ UNCHANGED vars
  BY <1>3, <1>7 DEF HandleCreation, vars
<1>8. CASE Evict
  BY <1>8 DEF Evict, NewToken
<1> HIDE DEF Price
<1> QED BY <1>3, <1>4, <1>5, <1>6, <1>7, <1>8 DEF Next

\* Whatever the trades and however often the mint is evicted, the RSI that the
\* signal reads moves with the price, for every period.
THEOREM RsiMovesWithPrice == Spec => RsiFollowsPrice
<1>1. Init => RsiShown
  BY DEF Init, NewToken, RsiShown
<1>2. TypeOK /\ RsiShown /\ [Next]_vars =>
        [token.rsi # None /\ token'.rsi # None =>
           /\ token'.rolling_price >= token.rolling_price
                 => RsiAtLeast(token'.rsi, token.rsi)
           /\ token'.rolling_price <= token.rolling_price
                 => RsiAtLeast(token.rsi, token'.rsi)]_vars
  BY RsiStep
<1> QED BY <1>1, <1>2, ShownStep, TradeFlowTypeCorrect, PTL DEF Spec, RsiFollowsPrice

-----------------------------------------------------------------------------
(* The order flow                                                          *)

\* The flow counts against its side as the batch has it.
LEMMA FlowTyped ==
  ASSUME NEW t \in Trades, NEW c \in Int
  PROVE  /\ Flow(t, c) \in Int
         /\ Flow(t, c) = IF (IF t.side = "buy" THEN c >= 0 ELSE c > 0)
                         THEN t.token ELSE -t.token
<1>1. t.token \in Nat
  BY PriceTypes
<1> QED BY <1>1 DEF Flow

\* The flow of each trade after the first.
Flows(trades) == [i \in 2 .. Len(trades) |->
                     Flow(trades[i], Price(trades[i]) - Price(trades[i - 1]))]

\* There are finitely many flows and they are numbers.
LEMMA FlowsTyped ==
  ASSUME NEW h \in Seq(Trades)
  PROVE  /\ IsFiniteSet(2 .. Len(h))
         /\ \A i \in 2 .. Len(h) : Flows(h)[i] \in Int
<1>1. IsFiniteSet(2 .. Len(h))
  BY FS_Interval
<1>2. ASSUME NEW i \in 2 .. Len(h) PROVE Flows(h)[i] \in Int
  <2>1. i \in 1 .. Len(h) /\ i - 1 \in 1 .. Len(h)
    OBVIOUS
  <2>2. h[i] \in Trades /\ h[i - 1] \in Trades
    BY <2>1
  <2>3. Price(h[i]) \in Nat /\ Price(h[i - 1]) \in Nat
    BY <2>2, PriceTypes
  <2> DEFINE c == Price(h[i]) - Price(h[i - 1])
  <2>4. c \in Int
    BY <2>3
  <2>5. Flow(h[i], c) \in Int
    BY <2>2, <2>4, FlowTyped
  <2> QED BY <2>5 DEF Flows
<1> QED BY <1>1, <1>2

\* Another trade adds its flow.
LEMMA FlowsGrow ==
  ASSUME NEW h \in Seq(Trades), NEW t \in Trades
  PROVE  SumFunction(Flows(Append(h, t))) = SumFunction(Flows(h)) +
           IF h = <<>> THEN 0 ELSE Flow(t, Price(t) - Price(h[Len(h)]))
<1> DEFINE e == Append(h, t)
           n == Len(h)
           D == 2 .. n + 1
<1>1. /\ n \in Nat /\ e \in Seq(Trades) /\ Len(e) = n + 1 /\ e[n + 1] = t
      /\ \A i \in 1 .. n : e[i] = h[i]
  OBVIOUS
<1>2. /\ SumFunction(Flows(e)) = SumFunctionOnSet(Flows(e), D)
      /\ SumFunction(Flows(h)) = SumFunctionOnSet(Flows(h), 2 .. n)
  BY <1>1 DEF SumFunction, Flows
<1>3. CASE h = <<>>
  <2>1. n = 0 /\ D = {} /\ 2 .. n = {}
    BY <1>3
  <2> HIDE DEF e, n, D
  <2>2. SumFunction(Flows(e)) = 0 /\ SumFunction(Flows(h)) = 0
    BY <1>2, <2>1, SumOfNone
  <2> QED BY <1>3, <2>2 DEF e
<1>4. CASE h # <<>>
  <2>1. n >= 1 /\ n + 1 \in D /\ D \ {n + 1} = 2 .. n
    BY <1>4
  <2>2. /\ IsFiniteSet(D) /\ \A i \in D : Flows(e)[i] \in Int
        /\ IsFiniteSet(2 .. n) /\ \A i \in 2 .. n : Flows(h)[i] \in Int
    BY <1>1, FlowsTyped
  <2>3. \A i \in 2 .. n : Flows(h)[i] = Flows(e)[i]
    <3> SUFFICES ASSUME NEW i \in 2 .. n PROVE Flows(h)[i] = Flows(e)[i]
      OBVIOUS
    <3>1. i \in 2 .. n + 1 /\ e[i] = h[i] /\ e[i - 1] = h[i - 1]
      BY <1>1
    <3> QED BY <1>1, <3>1 DEF Flows
  <2>4. Flows(e)[n + 1] = Flow(t, Price(t) - Price(h[n]))
    <3>1. e[n + 1] = t /\ e[n + 1 - 1] = h[n]
      BY <1>1, <2>1
    <3> QED BY <1>1, <2>1, <3>1 DEF Flows
  <2> HIDE DEF e, D
  <2>5. SumFunctionOnSet(Flows(e), D) =
          Flows(e)[n + 1] + SumFunctionOnSet(Flows(e), D \ {n + 1})
    BY <2>1, <2>2, SumTakesAny
  <2>6. SumFunctionOnSet(Flows(h), 2 .. n) = SumFunctionOnSet(Flows(e), 2 .. n)
    BY <2>2, <2>3, SumAgrees
  <2>7. SumFunctionOnSet(Flows(h), 2 .. n) \in Int /\ Flows(e)[n + 1] \in Int
    BY <2>1, <2>2, SumTyped
  <2> DEFINE a == SumFunction(Flows(h))
             b == Flows(e)[n + 1]
  <2>8. SumFunction(Flows(e)) = a + b
    <3> HIDE DEF n
    <3>1. SumFunctionOnSet(Flows(e), D \ {n + 1}) = a
      BY <1>2, <2>1, <2>6
    <3>2. a \in Int /\ b \in Int
      BY <1>2, <2>7
    <3>3. SumFunction(Flows(e)) = b + SumFunctionOnSet(Flows(e), D \ {n + 1})
      BY <1>2, <2>5 DEF D
    <3> HIDE DEF a, b
    <3> QED BY <3>1, <3>2, <3>3
  <2>9. SumFunction(Flows(Append(h, t))) =
          SumFunction(Flows(h)) + Flow(t, Price(t) - Price(h[Len(h)]))
    BY <2>4, <2>8 DEF e, n
  <2> QED BY <1>4, <2>9
<1> QED BY <1>3, <1>4

\* A batch that the window holds is all of it.
LEMMA WindowHolds ==
  ASSUME NEW T, NEW s \in Seq(T), NEW n \in Nat, Len(s) <= n
  PROVE  Last(s, n) = s
<1>1. ~(Len(s) > n)
  OBVIOUS
<1>2. Last(s, n) = SubSeq(s, 1, Len(s))
  BY <1>1 DEF Last
<1> QED BY <1>2, SubSeqFull

\* The batch order flow of trades the window holds is the sum of their flows.
LEMMA BatchAddsFlows ==
  ASSUME NEW h \in Seq(Trades), Len(h) <= OfiWindow
  PROVE  CalculateOfi(h) = SumFunction(Flows(h))
<1> DEFINE Change(i) == Price(h[i]) - Price(h[i - 1])
           Agrees(i) == IF h[i].side = "buy" THEN Change(i) >= 0 ELSE Change(i) > 0
           b == [i \in 2 .. Len(h) |-> IF Agrees(i) THEN h[i].token ELSE -h[i].token]
<1>1. Last(h, OfiWindow) = h
  BY WindowHolds, PeriodsAssumption
<1>2. CalculateOfi(h) = SumFunction(b)
  BY <1>1 DEF CalculateOfi
<1>3. ASSUME NEW i \in 2 .. Len(h) PROVE b[i] = Flows(h)[i]
  <2>1. i \in 1 .. Len(h) /\ i - 1 \in 1 .. Len(h)
    OBVIOUS
  <2>2. h[i] \in Trades /\ h[i - 1] \in Trades
    BY <2>1
  <2>3. Price(h[i]) \in Nat /\ Price(h[i - 1]) \in Nat
    BY <2>2, PriceTypes
  <2>4. Change(i) \in Int
    BY <2>3
  <2>5. Flows(h)[i] = Flow(h[i], Change(i))
    BY DEF Flows
  <2>6. Flow(h[i], Change(i)) = IF Agrees(i) THEN h[i].token ELSE -h[i].token
    <3> HIDE DEF Change
    <3> QED BY <2>2, <2>4, FlowTyped
  <2> QED BY <2>5, <2>6
<1>4. b = Flows(h)
  BY <1>3 DEF Flows
<1> QED BY <1>2, <1>4

\* The engine's price and order flow are those of all trades; the counter of the
\* stored state is that of the trades since its creation, and what the state
\* shows of the flow is current from its first trade on.
FlowTracked ==
    /\ last_price = IF history = <<>> THEN None ELSE Price(history[Len(history)])
    /\ ofi = SumFunction(Flows(history))
    /\ created <= Len(history)
    /\ token.recent_trade_count = IF stored THEN Len(history) - created ELSE 0
    /\ token.ofi = IF token.recent_trade_count > 0 THEN ofi ELSE 0

\* Nothing has flowed yet.
LEMMA FlowStarts == Init => FlowTracked
<1> SUFFICES ASSUME Init PROVE FlowTracked
  OBVIOUS
<1>1. history = <<>> /\ Len(history) = 0 /\ 2 .. Len(history) = {}
  BY DEF Init
<1>2. SumFunction(Flows(history)) = 0
  <2>1. DOMAIN Flows(history) = {}
    BY <1>1 DEF Flows
  <2> QED BY <2>1, SumOfNone DEF SumFunction
<1>3. /\ token.recent_trade_count = 0 /\ token.ofi = 0 /\ ofi = 0 /\ created = 0
      /\ last_price = None /\ stored = FALSE
  BY DEF Init, NewToken
<1> QED BY <1>1, <1>2, <1>3 DEF FlowTracked

\* Every step keeps the order flow that of all trades.
LEMMA FlowStep == TypeOK /\ FlowTracked /\ [Next]_vars => FlowTracked'
<1> SUFFICES ASSUME TypeOK, FlowTracked, [Next]_vars PROVE FlowTracked'
  OBVIOUS
<1>0. /\ token \in TokenTypes /\ ofi \in Int /\ stored \in BOOLEAN
      /\ history \in Seq(Trades) /\ created \in Nat
  BY DEF TypeOK, TokenTypes
<1>1. ASSUME NEW t \in Trades, HandleTrade(t) PROVE FlowTracked'
  <2>1. /\ history' = Append(history, t) /\ stored' = TRUE
        /\ created' = IF stored THEN created ELSE Len(history)
        /\ last_price' = Price(t)
        /\ ofi' = ofi + IF last_price = None THEN 0
                        ELSE Flow(t, Price(t) - last_price)
    BY <1>1 DEF HandleTrade, UpdateFeatures
  <2>2. token'.recent_trade_count = token.recent_trade_count + 1 /\ token'.ofi = ofi'
    BY <1>0, <1>1 DEF HandleTrade, TokenTypes
  <2>3. history' # <<>> /\ Len(history') = Len(history) + 1
        /\ history'[Len(history')] = t /\ Len(history) \in Nat
    BY <1>0, <2>1
  <2>4. last_price' = IF history' = <<>> THEN None ELSE Price(history'[Len(history')])
    BY <2>1, <2>3
  <2>5. ofi' = SumFunction(Flows(history'))
    <3>1. SumFunction(Flows(history')) = ofi +
            IF history = <<>> THEN 0 ELSE Flow(t, Price(t) - Price(history[Len(history)]))
      BY <1>0, <2>1, FlowsGrow DEF FlowTracked
    <3>2. history # <<>> => Price(history[Len(history)]) # None
      <4>1. ASSUME history # <<>> PROVE history[Len(history)] \in Trades
        BY <1>0, <4>1
      <4>2. \A p \in Nat : p # None
        BY NoneAssumption
      <4> QED BY <4>1, <4>2, PriceTypes
    <3> HIDE DEF Price, Flow
    <3>3. last_price = IF history = <<>> THEN None ELSE Price(history[Len(history)])
      BY DEF FlowTracked
    <3>4. CASE history = <<>>
      BY <2>1, <3>1, <3>3, <3>4
    <3>5. CASE history # <<>>
      BY <2>1, <3>1, <3>2, <3>3, <3>5
    <3> QED BY <3>4, <3>5
  <2>6. created' <= Len(history')
    BY <1>0, <2>1, <2>3 DEF FlowTracked
  <2>7. token'.recent_trade_count = Len(history') - created'
    BY <1>0, <2>1, <2>2, <2>3 DEF FlowTracked
  <2>8. token'.recent_trade_count > 0
    BY <1>0, <2>2 DEF TokenTypes
  <2> QED BY <2>1, <2>2, <2>4, <2>5, <2>6, <2>7, <2>8 DEF FlowTracked
<1>2. CASE HandleCreation
  <2>1. /\ history' = history /\ token' = token /\ ofi' = ofi
        /\ last_price' = last_price /\ stored' = TRUE
        /\ created' = IF stored THEN created ELSE Len(history)
    BY <1>2 DEF HandleCreation
  <2>2. created' <= Len(history)
        /\ token.recent_trade_count = Len(history) - created'
    BY <1>0, <2>1 DEF FlowTracked
  <2> QED BY <2>1, <2>2 DEF FlowTracked
<1>3. CASE Evict
  <2>1. /\ history' = history /\ ofi' = ofi /\ created' = created
        /\ last_price' = last_price /\ stored' = FALSE
        /\ token'.recent_trade_count = 0 /\ token'.ofi = 0
    BY <1>3 DEF Evict, NewToken
  <2> QED BY <2>1 DEF FlowTracked
<1>4. CASE UNCHANGED vars
  BY <1>4 DEF vars, FlowTracked
<1> QED BY <1>1, <1>2, <1>3, <1>4 DEF Next

\* The order flow the signal reads is the batch order flow of all trades of the
\* mint, for every window, and the trades it counts are those of the state.
THEOREM FlowIsOfAllTrades == Spec => []OfiOfAllTrades
<1>1. TypeOK /\ FlowTracked => OfiOfAllTrades
  <2> SUFFICES ASSUME TypeOK, FlowTracked PROVE OfiOfAllTrades
    OBVIOUS
  <2>1. history \in Seq(Trades)
    BY DEF TypeOK
  <2>2. Len(history) <= OfiWindow => ofi = CalculateOfi(history)
    BY <2>1, BatchAddsFlows DEF FlowTracked
  <2> QED BY <2>2 DEF FlowTracked, OfiOfAllTrades
<1> QED BY <1>1, FlowStarts, FlowStep, TradeFlowTypeCorrect, PTL DEF Spec

-----------------------------------------------------------------------------
(* The trades with a price                                                 *)

\* f collects the trades with a price as Priced does.
Collects(f, trades) ==
    f = [n \in 0 .. Len(trades) |->
           IF n = 0 THEN <<>>
           ELSE IF Price(trades[n]) > 0 THEN Append(f[n - 1], trades[n])
           ELSE f[n - 1]]

\* There is a function that collects.
LEMMA Collection ==
  ASSUME NEW h \in Seq(Trades)
  PROVE  \E f \in [0 .. Len(h) -> Seq(Trades)] : Collects(f, h)
<1> DEFINE S == Seq(Trades)
           next(n, q) == IF n < Len(h) /\ Price(h[n + 1]) > 0 THEN Append(q, h[n + 1])
                         ELSE q
           step == [p \in Nat \X S |-> next(p[1], p[2])]
<1>1. <<>> \in S
  OBVIOUS
<1>2. ASSUME NEW n \in Nat, NEW q \in S PROVE next(n, q) \in S
  <2>1. CASE n < Len(h)
    <3>1. h[n + 1] \in Trades
      BY <2>1
    <3> HIDE DEF Price
    <3> QED BY <3>1
  <2>2. CASE ~(n < Len(h))
    BY <2>2
  <2> QED BY <2>1, <2>2
<1>3. step \in [Nat \X S -> S]
  <2> HIDE DEF next, S
  <2> QED BY <1>2
<1>4. PICK g : Follows(g, S, <<>>, step)
  <2> HIDE DEF S, step
  <2> QED BY <1>1, <1>3, Recursion
<1>5. /\ g \in [Nat -> S] /\ g[0] = <<>>
      /\ \A n \in Nat : g[n + 1] = step[<<n, g[n]>>]
  BY <1>4 DEF Follows
<1>6. ASSUME NEW n \in Nat PROVE g[n + 1] = next(n, g[n])
  <2>1. g[n] \in S
    BY <1>5
  <2> HIDE DEF S, next
  <2> QED BY <1>5, <2>1
<1> DEFINE f == [n \in 0 .. Len(h) |-> g[n]]
<1>7. f \in [0 .. Len(h) -> S]
  BY <1>5
<1>8. ASSUME NEW n \in 0 .. Len(h)
      PROVE  f[n] = IF n = 0 THEN <<>>
                    ELSE IF Price(h[n]) > 0 THEN Append(f[n - 1], h[n])
                    ELSE f[n - 1]
  <2>1. CASE n = 0
    BY <1>5, <2>1
  <2>2. CASE n # 0
    <3>1. /\ n - 1 \in Nat /\ n - 1 < Len(h) /\ n - 1 + 1 = n
          /\ n - 1 \in 0 .. Len(h)
      BY <2>2
    <3>2. g[n] = next(n - 1, g[n - 1])
      BY <1>6, <3>1
    <3>3. f[n] = g[n] /\ f[n - 1] = g[n - 1]
      BY <3>1
    <3> HIDE DEF f
    <3> QED BY <2>2, <3>1, <3>2, <3>3
  <2> QED BY <2>1, <2>2
<1> HIDE DEF f
<1>9. Collects(f, h)
  BY <1>7, <1>8 DEF Collects
<1> QED BY <1>7, <1>9

\* What is collected from two sequences agrees as long as they do.
LEMMA CollectionsAgree ==
  ASSUME NEW h \in Seq(Trades), NEW e \in Seq(Trades), NEW f, NEW g,
         Collects(f, h), Collects(g, e), Len(h) <= Len(e),
         \A i \in 1 .. Len(h) : h[i] = e[i]
  PROVE  f[Len(h)] = g[Len(h)]
<1> DEFINE m == Len(h)
           A == {n \in Nat : n <= m => f[n] = g[n]}
<1>1. ASSUME NEW n \in 0 .. m
      PROVE  /\ f[n] = IF n = 0 THEN <<>>
                       ELSE IF Price(h[n]) > 0 THEN Append(f[n - 1], h[n])
                       ELSE f[n - 1]
             /\ g[n] = IF n = 0 THEN <<>>
                       ELSE IF Price(e[n]) > 0 THEN Append(g[n - 1], e[n])
                       ELSE g[n - 1]
  <2>1. n \in 0 .. Len(h) /\ n \in 0 .. Len(e)
    OBVIOUS
  <2> QED BY <2>1 DEF Collects
<1>2. 0 \in A
  BY <1>1
<1>3. ASSUME NEW n \in Nat, n \in A PROVE n + 1 \in A
  <2>1. SUFFICES ASSUME n + 1 <= m PROVE f[n + 1] = g[n + 1]
    OBVIOUS
  <2>2. /\ n + 1 \in 0 .. m /\ n + 1 # 0 /\ n + 1 - 1 = n /\ f[n] = g[n]
        /\ h[n + 1] = e[n + 1]
    BY <1>3, <2>1
  <2> QED BY <1>1, <2>2
<1>4. \A n \in Nat : n \in A
  <2> HIDE DEF A
  <2> QED BY <1>2, <1>3, Induction
<1>5. m \in Nat
  OBVIOUS
<1> HIDE DEF m
<1>6. f[m] = g[m]
  BY <1>4, <1>5
<1> QED BY <1>6 DEF m

\* Priced chooses such a function and takes its last value.
LEMMA PricedCollects ==
  ASSUME NEW h \in Seq(Trades)
  PROVE  \E f \in [0 .. Len(h) -> Seq(Trades)] :
            Collects(f, h) /\ Priced(h) = f[Len(h)]
<1>1. PICK f \in [0 .. Len(h) -> Seq(Trades)] : Collects(f, h)
  BY Collection
<1> DEFINE c == CHOOSE c : Collects(c, h)
<1>2. Collects(c, h)
  BY <1>1
<1>3. Priced(h) = c[Len(h)]
  BY Zenon DEF Priced, Collects
<1> HIDE DEF c
<1>4. c[Len(h)] = f[Len(h)]
  <2>1. Len(h) <= Len(h)
    OBVIOUS
  <2> QED BY <1>1, <1>2, <2>1, CollectionsAgree
<1> QED BY <1>1, <1>3, <1>4

\* A trade with a price joins the sequence, another leaves it.
LEMMA PricedGrows ==
  ASSUME NEW h \in Seq(Trades), NEW t \in Trades
  PROVE  /\ Priced(h) \in Seq(Trades)
         /\ Priced(Append(h, t)) = IF Price(t) > 0 THEN Append(Priced(h), t)
                                   ELSE Priced(h)
<1> DEFINE e == Append(h, t)
           n == Len(h)
<1>1. /\ n \in Nat /\ e \in Seq(Trades) /\ Len(e) = n + 1 /\ e[n + 1] = t
      /\ \A i \in 1 .. n : h[i] = e[i]
  OBVIOUS
<1>2. PICK f \in [0 .. n -> Seq(Trades)] : Collects(f, h) /\ Priced(h) = f[n]
  BY PricedCollects
<1> HIDE DEF e
<1>3. PICK g : Collects(g, e) /\ Priced(e) = g[n + 1]
  BY <1>1, PricedCollects
<1>4. f[n] = g[n]
  <2>1. Len(h) <= Len(e) /\ \A i \in 1 .. Len(h) : h[i] = e[i]
    BY <1>1
  <2> QED BY <1>1, <1>2, <1>3, <2>1, CollectionsAgree
<1>5. g[n + 1] = IF Price(t) > 0 THEN Append(g[n], t) ELSE g[n]
  <2>1. \A m \in 0 .. Len(e) :
          g[m] = IF m = 0 THEN <<>>
                 ELSE IF Price(e[m]) > 0 THEN Append(g[m - 1], e[m]) ELSE g[m - 1]
    BY <1>3 DEF Collects
  <2>2. n + 1 \in 0 .. Len(e) /\ n + 1 # 0 /\ n + 1 - 1 = n
    BY <1>1
  <2> HIDE DEF n, Price
  <2> QED BY <1>1, <2>1, <2>2
<1>6. Priced(h) \in Seq(Trades)
  BY <1>1, <1>2
<1> QED BY <1>2, <1>3, <1>4, <1>5, <1>6 DEF e

\* Without trades there is none with a price.
LEMMA PricedOfNone == Priced(<<>>) = <<>>
<1>1. <<>> \in Seq(Trades) /\ Len(<<>>) = 0
  OBVIOUS
<1>2. PICK c : Collects(c, <<>>) /\ Priced(<<>>) = c[0]
  BY <1>1, PricedCollects
<1> QED BY <1>1, <1>2 DEF Collects

-----------------------------------------------------------------------------
(* The sums of the bands                                                   *)

\* The window after another trade: its last n trades.
LEMMA LastSlides ==
  ASSUME NEW T, NEW s \in Seq(T), NEW x \in T, NEW n \in Nat \ {0}
  PROVE  LET w == Last(s, n) IN
         /\ w \in Seq(T) /\ Len(w) = IF Len(s) > n THEN n ELSE Len(s)
         /\ Last(Append(s, x), n) = Append(IF Len(w) = n THEN Tail(w) ELSE w, x)
<1> DEFINE k == IF Len(s) > n THEN Len(s) - n + 1 ELSE 1
           e == Append(s, x)
           j == IF Len(e) > n THEN Len(e) - n + 1 ELSE 1
           w == Last(s, n)
           v == Last(e, n)
           u == Append(IF Len(w) = n THEN Tail(w) ELSE w, x)
<1>1. /\ Len(s) \in Nat /\ e \in Seq(T) /\ Len(e) = Len(s) + 1
      /\ e[Len(s) + 1] = x /\ \A i \in 1 .. Len(s) : e[i] = s[i]
  OBVIOUS
<1>2. k \in Int /\ j \in Int /\ Len(s) \in Int /\ Len(e) \in Int
  BY <1>1
<1>3. /\ \A i \in k .. Len(s) : s[i] \in T
      /\ \A i \in j .. Len(e) : e[i] \in T
  BY <1>1
<1>4. w = SubSeq(s, k, Len(s)) /\ v = SubSeq(e, j, Len(e))
  BY DEF Last
<1> HIDE DEF w, v, e
<1>5. /\ w \in Seq(T)
      /\ Len(w) = IF k <= Len(s) THEN Len(s) - k + 1 ELSE 0
      /\ \A i \in 1 .. Len(s) - k + 1 : w[i] = s[k + i - 1]
  <2> HIDE DEF k
  <2> QED BY <1>2, <1>3, <1>4, SubSeqProperties
<1>6. /\ v \in Seq(T)
      /\ Len(v) = IF j <= Len(e) THEN Len(e) - j + 1 ELSE 0
      /\ \A i \in 1 .. Len(e) - j + 1 : v[i] = e[j + i - 1]
  <2> HIDE DEF j
  <2> QED BY <1>2, <1>3, <1>4, SubSeqProperties
<1>7. Len(w) = IF Len(s) > n THEN n ELSE Len(s)
  <2> DEFINE l == Len(s)
             d == Len(w)
  <2>1. d = IF k <= l THEN l - k + 1 ELSE 0
    BY <1>5
  <2>2. l \in Nat /\ n \in Nat /\ n >= 1
    BY <1>1
  <2>3. k = IF l > n THEN l - n + 1 ELSE 1
    OBVIOUS
  <2> HIDE DEF l, k, d
  <2>4. d = IF l > n THEN n ELSE l
    BY <2>1, <2>2, <2>3
  <2> QED BY <2>4 DEF l, d
<1>8. u = v
  <2>1. CASE Len(s) >= n
    <3>1. Len(w) = n /\ w # <<>> /\ k = Len(s) - n + 1 /\ j = Len(s) - n + 2
      BY <1>1, <1>5, <1>7, <2>1
    <3>2. /\ Tail(w) \in Seq(T) /\ Len(Tail(w)) = n - 1
          /\ \A i \in 1 .. n - 1 : Tail(w)[i] = w[i + 1]
      BY <1>5, <3>1
    <3>3. /\ u = Append(Tail(w), x) /\ Len(u) = n /\ u \in Seq(T) /\ u[n] = x
          /\ \A i \in 1 .. n - 1 : u[i] = w[i + 1]
      BY <3>1, <3>2
    <3>4. /\ Len(v) = n
          /\ \A i \in 1 .. n : v[i] = e[Len(s) - n + 1 + i]
      <4>1. /\ j <= Len(e) /\ Len(e) - j + 1 = n
            /\ \A i \in 1 .. n : j + i - 1 = Len(s) - n + 1 + i
        BY <1>1, <3>1
      <4> HIDE DEF j
      <4> QED BY <1>6, <4>1
    <3>5. \A i \in 1 .. n - 1 : w[i + 1] = s[Len(s) - n + 1 + i]
      <4>1. /\ Len(s) - k + 1 = n
            /\ \A i \in 1 .. n - 1 : /\ i + 1 \in 1 .. n
                                     /\ k + (i + 1) - 1 = Len(s) - n + 1 + i
        BY <1>1, <3>1
      <4> HIDE DEF k
      <4> QED BY <1>5, <4>1
    <3>6. ASSUME NEW i \in 1 .. n PROVE u[i] = v[i]
      <4>1. CASE i = n
        <5>1. Len(s) - n + 1 + i = Len(s) + 1
          BY <1>1, <4>1
        <5> QED BY <1>1, <3>3, <3>4, <4>1, <5>1
      <4>2. CASE i # n
        <5> DEFINE m == Len(s) - n + 1 + i
        <5>1. i \in 1 .. n - 1 /\ m \in 1 .. Len(s)
          BY <1>1, <2>1, <4>2
        <5>2. u[i] = w[i + 1] /\ w[i + 1] = s[m] /\ v[i] = e[m]
          BY <3>3, <3>4, <3>5, <5>1
        <5> HIDE DEF m
        <5> QED BY <1>1, <5>1, <5>2
      <4> QED BY <4>1, <4>2
    <3> HIDE DEF u, j, k
    <3>7. u \in Seq(T) /\ v \in Seq(T) /\ Len(u) = Len(v)
      BY <1>6, <3>3, <3>4
    <3>8. \A i \in 1 .. Len(u) : u[i] = v[i]
      BY <3>3, <3>6
    <3> QED BY <3>7, <3>8, SeqEqual
  <2>2. CASE ~(Len(s) >= n)
    <3>1. k = 1 /\ j = 1 /\ Len(w) = Len(s) /\ Len(w) # n
      BY <1>1, <1>7, <2>2
    <3>2. w = s
      <4>1. \A i \in 1 .. Len(s) : w[i] = s[i]
        BY <1>1, <1>5, <3>1
      <4> QED BY <1>5, <3>1, <4>1
    <3>3. v = e
      <4>0. Len(e) \in Nat /\ Len(e) >= 1 /\ j = 1
        BY <1>1, <3>1
      <4>1. /\ j <= Len(e) /\ Len(e) - j + 1 = Len(e)
            /\ \A i \in 1 .. Len(e) : j + i - 1 = i
        <5> HIDE DEF j
        <5> QED BY <4>0
      <4> HIDE DEF j
      <4>2. Len(v) = Len(e) /\ \A i \in 1 .. Len(e) : v[i] = e[i]
        BY <1>6, <4>1
      <4> QED BY <1>1, <1>6, <4>2
    <3> QED BY <3>1, <3>2, <3>3 DEF e
  <2> QED BY <1>1, <2>1, <2>2
<1> QED BY <1>5, <1>7, <1>8 DEF w, v, e

-----------------------------------------------------------------------------
(* Windows that slide                                                      *)

\* A function applied to each element of a sequence.
Mapped(F, s) == [i \in DOMAIN s |-> F[s[i]]]

\* It is a sequence of the same length.
LEMMA MappedTyped ==
  ASSUME NEW U, NEW T, NEW s \in Seq(T), NEW F, \A y \in T : F[y] \in U
  PROVE  /\ Mapped(F, s) \in Seq(U) /\ Len(Mapped(F, s)) = Len(s)
         /\ \A i \in 1 .. Len(s) : Mapped(F, s)[i] = F[s[i]]
<1>1. Mapped(F, s) = [i \in 1 .. Len(s) |-> F[s[i]]]
  BY DEF Mapped
<1>2. \A i \in 1 .. Len(s) : F[s[i]] \in U
  OBVIOUS
<1> QED BY <1>1, <1>2

\* It moves with the sequence.
LEMMA MappedSlides ==
  ASSUME NEW T, NEW s \in Seq(T), NEW x \in T, NEW F
  PROVE  /\ Mapped(F, Append(s, x)) = Append(Mapped(F, s), F[x])
         /\ s # <<>> => /\ Mapped(F, Tail(s)) = Tail(Mapped(F, s))
                        /\ Mapped(F, s)[1] = F[s[1]]
<1> DEFINE U == {F[y] : y \in T}
<1>1. ASSUME NEW q \in Seq(T)
      PROVE  /\ Mapped(F, q) \in Seq(U) /\ Len(Mapped(F, q)) = Len(q)
             /\ \A i \in 1 .. Len(q) : Mapped(F, q)[i] = F[q[i]]
  <2>1. \A y \in T : F[y] \in U
    OBVIOUS
  <2> HIDE DEF U
  <2> QED BY <2>1, MappedTyped
<1>0. F[x] \in U
  OBVIOUS
<1> HIDE DEF U
<1> DEFINE r == Mapped(F, s)
<1>2. /\ r \in Seq(U) /\ Len(r) = Len(s) /\ F[x] \in U
      /\ \A i \in 1 .. Len(s) : r[i] = F[s[i]]
  BY <1>0, <1>1
<1> HIDE DEF r
<1>3. Mapped(F, Append(s, x)) = Append(r, F[x])
  <2> DEFINE a == Append(s, x)
             u == Mapped(F, a)
             v == Append(r, F[x])
  <2>1. /\ a \in Seq(T) /\ Len(a) = Len(s) + 1 /\ a[Len(s) + 1] = x
        /\ \A i \in 1 .. Len(s) : a[i] = s[i]
    OBVIOUS
  <2>2. /\ v \in Seq(U) /\ Len(v) = Len(s) + 1 /\ v[Len(s) + 1] = F[x]
        /\ \A i \in 1 .. Len(s) : v[i] = F[s[i]]
    BY <1>2
  <2> HIDE DEF a, v
  <2>3. /\ u \in Seq(U) /\ Len(u) = Len(s) + 1
        /\ \A i \in 1 .. Len(s) + 1 : u[i] = F[a[i]]
    BY <1>1, <2>1
  <2> HIDE DEF u
  <2>4. ASSUME NEW i \in 1 .. Len(s) + 1 PROVE u[i] = v[i]
    <3>1. CASE i = Len(s) + 1
      BY <2>1, <2>2, <2>3, <3>1
    <3>2. CASE i # Len(s) + 1
      <4>1. i \in 1 .. Len(s)
        BY <3>2
      <4> QED BY <2>1, <2>2, <2>3, <4>1
    <3> QED BY <3>1, <3>2
  <2>5. u = v
    BY <2>2, <2>3, <2>4, SeqEqual
  <2> QED BY <2>5 DEF u, v, a
<1>4. ASSUME s # <<>>
      PROVE  Mapped(F, Tail(s)) = Tail(r) /\ r[1] = F[s[1]]
  <2> DEFINE a == Tail(s)
             u == Mapped(F, a)
             v == Tail(r)
  <2>1. /\ a \in Seq(T) /\ Len(a) = Len(s) - 1 /\ Len(s) >= 1
        /\ \A i \in 1 .. Len(s) - 1 : a[i] = s[i + 1]
    BY <1>4
  <2>2. /\ v \in Seq(U) /\ Len(v) = Len(s) - 1
        /\ \A i \in 1 .. Len(s) - 1 : v[i] = r[i + 1]
    BY <1>2, <2>1
  <2> HIDE DEF a, v
  <2>3. /\ u \in Seq(U) /\ Len(u) = Len(s) - 1
        /\ \A i \in 1 .. Len(s) - 1 : u[i] = F[a[i]]
    BY <1>1, <2>1
  <2> HIDE DEF u
  <2>4. ASSUME NEW i \in 1 .. Len(s) - 1 PROVE u[i] = v[i]
    <3>1. i + 1 \in 1 .. Len(s)
      OBVIOUS
    <3> QED BY <1>2, <2>1, <2>2, <2>3, <3>1
  <2>5. u = v
    BY <2>2, <2>3, <2>4, SeqEqual
  <2>6. r[1] = F[s[1]]
    BY <1>2, <2>1
  <2> QED BY <2>5, <2>6 DEF u, v, a
<1> QED BY <1>3, <1>4 DEF r

Squares(q) == [i \in DOMAIN q |-> q[i] * q[i]]

\* The squares of a window that slides.
LEMMA SquaresSlide ==
  ASSUME NEW q \in Seq(Nat), NEW p \in Nat
  PROVE  /\ Squares(q) \in Seq(Int) /\ Len(Squares(q)) = Len(q)
         /\ Squares(Append(q, p)) = Append(Squares(q), p * p)
         /\ q # <<>> => /\ Squares(q) # <<>> /\ Squares(q)[1] = q[1] * q[1]
                        /\ Squares(Tail(q)) = Tail(Squares(q))
                        /\ Tail(q) \in Seq(Nat) /\ q[1] \in Nat
<1>1. Squares(q) \in Seq(Int) /\ Len(Squares(q)) = Len(q)
  <2>1. \A i \in 1 .. Len(q) : q[i] * q[i] \in Nat
    BY NatProducts
  <2>2. Squares(q) = [i \in 1 .. Len(q) |-> q[i] * q[i]]
    BY DEF Squares
  <2> QED BY <2>1, <2>2
<1> DEFINE N == Nat
           F == [x \in N |-> x * x]
<1>2. \A x \in N : F[x] = x * x
  OBVIOUS
<1>3. ASSUME NEW s \in Seq(N) PROVE Squares(s) = Mapped(F, s)
  <2> HIDE DEF F, N
  <2>1. \A i \in DOMAIN s : F[s[i]] = s[i] * s[i]
    BY <1>2
  <2> QED BY <2>1 DEF Squares, Mapped
<1>4. /\ q \in Seq(N) /\ p \in N /\ Append(q, p) \in Seq(N)
      /\ q # <<>> => Tail(q) \in Seq(N) /\ q[1] \in N
  OBVIOUS
<1> HIDE DEF F, N
<1>5. /\ Mapped(F, Append(q, p)) = Append(Mapped(F, q), F[p])
      /\ q # <<>> => /\ Mapped(F, Tail(q)) = Tail(Mapped(F, q))
                     /\ Mapped(F, q)[1] = F[q[1]]
  BY <1>4, MappedSlides
<1>6. q # <<>> => Squares(q) # <<>>
  BY <1>1
<1> QED BY <1>1, <1>2, <1>3, <1>4, <1>5, <1>6 DEF N

\* The sums of the bands are those of their prices.
Summed(b) == b.sum_x = SumFunction(b.prices) /\ b.sum_x2 = SumFunction(Squares(b.prices))

\* An update of the bands leaves them with the sums of the new window.
LEMMA BandsUpdateSums ==
  ASSUME NEW b \in BandTypes, NEW price \in Nat, Summed(b)
  PROVE  LET u == BandsUpdate(b, price)
             full == Len(b.prices) = BandPeriod
         IN /\ u.prices = Append(IF full THEN Tail(b.prices) ELSE b.prices, price)
            /\ Summed(u)
<1> DEFINE q == b.prices
           s == Squares(q)
           x == price * price
           u == BandsUpdate(b, price)
           full == Len(q) = BandPeriod
<1>1. q \in Seq(Nat) /\ q \in Seq(Int) /\ s \in Seq(Int) /\ x \in Int /\ price \in Int
  <2>1. q \in Seq(Nat)
    BY DEF BandTypes
  <2>2. s \in Seq(Int) /\ x \in Int
    BY <2>1, NatProducts, SquaresSlide
  <2> QED BY <2>1, <2>2
<1>2. u.prices = Append(IF full THEN Tail(q) ELSE q, price)
  BY DEF BandsUpdate
<1>3. /\ b.sum_x = SumFunction(q) /\ b.sum_x2 = SumFunction(s)
      /\ SumFunction(q) \in Int /\ SumFunction(s) \in Int
  BY <1>1, SumOfSequence DEF Summed
<1>4. CASE full
  <2>1. q # <<>>
    BY <1>1, <1>4, PeriodsAssumption
  <2> DEFINE old == q[1]
             tq == Tail(q)
             ts == Tail(s)
  <2>2. /\ s # <<>> /\ s[1] = old * old /\ Squares(tq) = ts
        /\ tq \in Seq(Nat) /\ old \in Nat /\ old * old \in Nat
    BY <1>1, <2>1, SquaresSlide, NatProducts
  <2>3. ts \in Seq(Int) /\ tq \in Seq(Int)
    BY <1>1, <2>2
  <2>4. /\ SumFunction(tq) = SumFunction(q) - old
        /\ SumFunction(ts) = SumFunction(s) - old * old
    BY <1>1, <2>1, <2>2, SumOfSequence
  <2>5. /\ u.sum_x = b.sum_x - old + price
        /\ u.sum_x2 = b.sum_x2 - old * old + x
        /\ u.prices = Append(tq, price)
    <3>1. Head(q) = old
      BY <1>1, <2>1
    <3> QED BY <1>4, <3>1 DEF BandsUpdate
  <2> HIDE DEF old, tq, ts, x, s, q, u
  <2>6. /\ SumFunction(Append(tq, price)) = SumFunction(tq) + price
        /\ SumFunction(Append(ts, x)) = SumFunction(ts) + x
    BY <1>1, <2>3, SumOfSequence
  <2>7. Squares(Append(tq, price)) = Append(ts, x)
    BY <2>2, SquaresSlide DEF x
  <2>8. u.sum_x = SumFunction(u.prices)
    BY <1>1, <1>3, <2>2, <2>4, <2>5, <2>6
  <2>9. u.sum_x2 = SumFunction(Squares(u.prices))
    <3> DEFINE oo == old * old
    <3>1. oo \in Nat /\ SumFunction(ts) = SumFunction(s) - oo /\ u.sum_x2 = b.sum_x2 - oo + x
      BY <2>2, <2>4, <2>5
    <3> HIDE DEF oo
    <3> QED BY <1>1, <1>3, <2>5, <2>6, <2>7, <3>1
  <2>10. Summed(u)
    BY <2>8, <2>9 DEF Summed
  <2> QED BY <1>2, <2>10 DEF u, q
<1>5. CASE ~full
  <2>1. /\ u.sum_x = b.sum_x - 0 + price
        /\ u.sum_x2 = b.sum_x2 - 0 * 0 + x
        /\ u.prices = Append(q, price)
    BY <1>5 DEF BandsUpdate
  <2> HIDE DEF x, s, q, u
  <2>2. /\ SumFunction(Append(q, price)) = SumFunction(q) + price
        /\ SumFunction(Append(s, x)) = SumFunction(s) + x
    BY <1>1, SumOfSequence
  <2>3. Squares(Append(q, price)) = Append(s, x)
    BY <1>1, SquaresSlide DEF x, s
  <2>4. u.sum_x = SumFunction(u.prices)
    BY <1>1, <1>3, <2>1, <2>2
  <2>5. u.sum_x2 = SumFunction(Squares(u.prices))
    BY <1>1, <1>3, <2>1, <2>2, <2>3
  <2>6. Summed(u)
    BY <2>4, <2>5 DEF Summed
  <2> QED BY <1>2, <2>6 DEF u, q
<1> QED BY <1>4, <1>5

PricesOf(w) == [i \in DOMAIN w |-> Price(w[i])]

\* The prices of a window that slides.
LEMMA PricesSlide ==
  ASSUME NEW w \in Seq(Trades), NEW t \in Trades
  PROVE  /\ PricesOf(w) \in Seq(Nat) /\ Len(PricesOf(w)) = Len(w)
         /\ PricesOf(Append(w, t)) = Append(PricesOf(w), Price(t))
         /\ w # <<>> => /\ PricesOf(Tail(w)) = Tail(PricesOf(w))
                        /\ Tail(w) \in Seq(Trades)
<1> DEFINE N == Nat
           F == [x \in Trades |-> Price(x)]
<1>1. (\A x \in Trades : F[x] \in N) /\ F[t] = Price(t)
  BY PriceTypes
<1>2. \A s \in Seq(Trades) : PricesOf(s) = Mapped(F, s)
  <2> HIDE DEF Price
  <2> QED BY DEF PricesOf, Mapped
<1>3. Append(w, t) \in Seq(Trades) /\ (w # <<>> => Tail(w) \in Seq(Trades))
  OBVIOUS
<1> HIDE DEF F, N
<1>4. /\ Mapped(F, w) \in Seq(N) /\ Len(Mapped(F, w)) = Len(w)
      /\ Mapped(F, Append(w, t)) = Append(Mapped(F, w), F[t])
      /\ w # <<>> => Mapped(F, Tail(w)) = Tail(Mapped(F, w))
  <2>1. Mapped(F, w) \in Seq(N) /\ Len(Mapped(F, w)) = Len(w)
    BY <1>1, MappedTyped
  <2> QED BY <2>1, MappedSlides
<1> QED BY <1>1, <1>2, <1>3, <1>4 DEF N

\* The prices in the window are those of the mint's latest trades with a price,
\* the sums are theirs, and a middle band is shown from a full window on.
BandsTracked ==
    LET w == Last(Priced(history), BandPeriod) IN
    /\ bands.prices = PricesOf(w)
    /\ Summed(bands)
    /\ token.bollinger_mid # None => /\ token.bollinger_mid = bands.sum_x
                                     /\ Len(bands.prices) = BandPeriod

\* The window of no trades is empty and so are the sums.
LEMMA BandsStart == Init => BandsTracked
<1> SUFFICES ASSUME Init PROVE BandsTracked
  OBVIOUS
<1> DEFINE w == Last(Priced(history), BandPeriod)
           q == bands.prices
<1>1. history = <<>> /\ token.bollinger_mid = None
  BY DEF Init, NewToken
<1>2. w = <<>>
  <2>1. Priced(history) = <<>>
    BY <1>1, PricedOfNone
  <2>2. <<>> \in Seq(Trades) /\ Len(<<>>) <= BandPeriod /\ BandPeriod \in Nat
    BY PeriodsAssumption
  <2> QED BY <2>1, <2>2, WindowHolds
<1>3. q = <<>> /\ bands.sum_x = 0 /\ bands.sum_x2 = 0
  BY DEF Init
<1>4. PricesOf(<<>>) = <<>> /\ Squares(<<>>) = <<>>
  BY DEF PricesOf, Squares
<1>5. SumFunction(<<>>) = 0
  <2>1. DOMAIN <<>> = {}
    OBVIOUS
  <2> QED BY <2>1, SumOfNone DEF SumFunction
<1>6. Summed(bands)
  BY <1>3, <1>4, <1>5 DEF Summed
<1> HIDE DEF w, q
<1>7. bands.prices = PricesOf(w)
  BY <1>2, <1>3, <1>4 DEF q
<1> QED BY <1>1, <1>6, <1>7 DEF BandsTracked, w

\* Every step keeps the bands those of the window.
LEMMA BandsStep == TypeOK /\ BandsTracked /\ [Next]_vars => BandsTracked'
<1> SUFFICES ASSUME TypeOK, BandsTracked, [Next]_vars PROVE BandsTracked'
  OBVIOUS
<1>0. /\ token \in TokenTypes /\ bands \in BandTypes /\ history \in Seq(Trades)
  BY DEF TypeOK, TokenTypes, BandTypes
<1>1. ASSUME NEW t \in Trades, HandleTrade(t) PROVE BandsTracked'
  <2> DEFINE p == Price(t)
             s == Priced(history)
             w == Last(s, BandPeriod)
             full == Len(bands.prices) = BandPeriod
  <2>1. p \in Nat /\ history' = Append(history, t) /\ s \in Seq(Trades)
    BY <1>0, <1>1, PriceTypes, PricedGrows DEF HandleTrade
  <2>2. CASE p = 0
    <3>1. Priced(history') = s
      <4> HIDE DEF Price
      <4>1. ~(Price(t) > 0)
        BY <2>2
      <4> QED BY <1>0, <2>1, <4>1, PricedGrows
    <3>2. bands' = bands /\ token'.bollinger_mid = token.bollinger_mid
      <4> HIDE DEF Price
      <4> QED BY <1>0, <1>1, <2>2 DEF HandleTrade, TokenTypes
    <3> HIDE DEF p
    <3> QED BY <3>1, <3>2 DEF BandsTracked, Summed
  <2>3. CASE p > 0
    <3>1. Priced(history') = Append(s, t)
      <4> HIDE DEF Price
      <4> QED BY <1>0, <2>1, <2>3, PricedGrows
    <3>2. /\ bands' = BandsUpdate(bands, p)
          /\ token'.bollinger_mid = IF BandMid(bands') # None THEN BandMid(bands')
                                    ELSE token.bollinger_mid
      <4> HIDE DEF Price
      <4> QED BY <1>0, <1>1, <2>3 DEF HandleTrade, TokenTypes
    <3>3. /\ w \in Seq(Trades)
          /\ Last(Append(s, t), BandPeriod) =
               Append(IF Len(w) = BandPeriod THEN Tail(w) ELSE w, t)
      <4> HIDE DEF s
      <4> QED BY <2>1, PeriodsAssumption, LastSlides
    <3>4. bands.prices = PricesOf(w) /\ Len(bands.prices) = Len(w) /\ Summed(bands)
      <4>1. bands.prices = PricesOf(w) /\ Summed(bands)
        BY DEF BandsTracked
      <4> HIDE DEF w
      <4> QED BY <3>3, <4>1, PricesSlide
    <3>5. /\ bands'.prices = Append(IF full THEN Tail(bands.prices) ELSE bands.prices, p)
          /\ Summed(bands') /\ bands' \in BandTypes
      <4> HIDE DEF p
      <4> QED BY <1>0, <2>1, <3>2, <3>4, BandsUpdateSums, BandsUpdateTyped
    <3>6. Append(IF full THEN Tail(bands.prices) ELSE bands.prices, p) =
            PricesOf(Append(IF Len(w) = BandPeriod THEN Tail(w) ELSE w, t))
      <4> HIDE DEF w
      <4>1. CASE full
        <5>1. w # <<>> /\ Len(w) = BandPeriod
          BY <3>3, <3>4, <4>1, PeriodsAssumption
        <5>2. Tail(w) \in Seq(Trades) /\ PricesOf(Tail(w)) = Tail(bands.prices)
          BY <3>3, <3>4, <5>1, PricesSlide
        <5> HIDE DEF p
        <5>3. PricesOf(Append(Tail(w), t)) = Append(PricesOf(Tail(w)), p)
          BY <5>2, PricesSlide DEF p
        <5> QED BY <4>1, <5>1, <5>2, <5>3
      <4>2. CASE ~full
        <5>1. Len(w) # BandPeriod
          BY <3>4, <4>2
        <5>2. PricesOf(Append(w, t)) = Append(PricesOf(w), p)
          BY <3>3, PricesSlide
        <5> HIDE DEF p
        <5> QED BY <3>4, <4>2, <5>1, <5>2
      <4> QED BY <4>1, <4>2
    <3>7. bands'.prices = PricesOf(Last(Priced(history'), BandPeriod))
      BY <3>1, <3>3, <3>5, <3>6
    <3>8. token'.bollinger_mid # None =>
            token'.bollinger_mid = bands'.sum_x /\ Len(bands'.prices) = BandPeriod
      <4> DEFINE q == bands.prices
                 kept == IF full THEN Tail(q) ELSE q
      <4>1. q \in Seq(Nat) /\ BandPeriod \in Nat \ {0}
        BY <1>0, PeriodsAssumption DEF BandTypes
      <4>2. kept \in Seq(Nat) /\ Len(kept) <= BandPeriod /\ (full => Len(kept) = BandPeriod - 1)
        <5>1. Len(w) <= BandPeriod
          <6> HIDE DEF s
          <6>1. Len(w) = IF Len(s) > BandPeriod THEN BandPeriod ELSE Len(s)
            BY <2>1, <4>1, LastSlides
          <6> QED BY <2>1, <4>1, <6>1
        <5>2. full => q # <<>>
          BY <4>1
        <5> HIDE DEF w
        <5> QED BY <3>4, <4>1, <5>1, <5>2
      <4> HIDE DEF kept, p
      <4>3. Len(bands'.prices) = Len(kept) + 1
        BY <2>1, <3>5, <4>2 DEF kept
      <4>4. BandMid(bands') # None => /\ BandMid(bands') = bands'.sum_x
                                      /\ ~(Len(bands'.prices) < BandPeriod)
        BY DEF BandMid
      <4>5. ~(Len(bands'.prices) < BandPeriod) => Len(bands'.prices) = BandPeriod
        <5>1. Len(kept) \in Nat /\ (~full => Len(kept) # BandPeriod)
          BY <4>2 DEF kept
        <5> HIDE DEF full
        <5> QED BY <4>1, <4>2, <4>3, <5>1
      <4>6. BandMid(bands') = None => token.bollinger_mid = None
        <5>1. full => Len(bands'.prices) = BandPeriod
          <6> HIDE DEF full
          <6> QED BY <4>1, <4>2, <4>3
        <5>2. Len(bands'.prices) = BandPeriod => BandMid(bands') = bands'.sum_x
          BY <4>1 DEF BandMid
        <5>3. bands'.sum_x # None
          BY <3>5, NoneAssumption DEF BandTypes
        <5>4. token.bollinger_mid # None => full
          BY DEF BandsTracked
        <5> HIDE DEF full
        <5> QED BY <5>1, <5>2, <5>3, <5>4
      <4> HIDE DEF full
      <4> QED BY <3>2, <4>4, <4>5, <4>6
    <3> QED BY <3>5, <3>7, <3>8 DEF BandsTracked
  <2> HIDE DEF p
  <2> QED BY <2>1, <2>2, <2>3
<1>2. CASE HandleCreation \/ UNCHANGED vars
  BY <1>2 DEF HandleCreation, vars, BandsTracked, Summed
<1>3. CASE Evict
  <2>1. history' = history /\ bands' = bands /\ token'.bollinger_mid = None
    BY <1>3 DEF Evict, NewToken
  <2> QED BY <2>1 DEF BandsTracked, Summed
<1> QED BY <1>1, <1>2, <1>3 DEF Next

\* The running sums of the bands are those of the latest priced trades, for
\* every period, and the stored middle band is the mean of them.
THEOREM BandsOfTheLatest == Spec => []BandsOfLatestPrices
<1>1. TypeOK /\ BandsTracked => BandsOfLatestPrices
  <2> SUFFICES ASSUME TypeOK, BandsTracked PROVE BandsOfLatestPrices
    OBVIOUS
  <2> DEFINE w == Last(Priced(history), BandPeriod)
  <2>1. bands.prices = PricesOf(w)
    BY DEF BandsTracked
  <2>2. TotalOf(w, Price) = SumFunction(PricesOf(w))
    BY DEF TotalOf, PricesOf
  <2>3. TotalOf(w, LAMBDA t : Price(t) * Price(t)) = SumFunction(Squares(PricesOf(w)))
    <3>1. Squares(PricesOf(w)) = [i \in DOMAIN w |-> Price(w[i]) * Price(w[i])]
      BY DEF Squares, PricesOf
    <3> QED BY <3>1 DEF TotalOf
  <2> HIDE DEF w
  <2> QED BY <2>1, <2>2, <2>3 DEF BandsTracked, Summed, BandsOfLatestPrices, PricesOf, w
<1> QED BY <1>1, BandsStart, BandsStep, TradeFlowTypeCorrect, PTL DEF Spec

-----------------------------------------------------------------------------
(* Wilder's averages                                                       *)

\* The recursive function in Power is the one it looks like.
LEMMA PowerSteps ==
  ASSUME NEW b \in Nat, NEW n \in Nat
  PROVE  /\ Power(b, 0) = 1 /\ Power(b, n) \in Nat
         /\ Power(b, n + 1) = b * Power(b, n)
<1> DEFINE IsPower(f, m) == f = [k \in 0 .. m |-> IF k = 0 THEN 1 ELSE b * f[k - 1]]
           N == Nat
           step == [p \in Nat \X N |-> b * p[2]]
<1>1. \E g : Follows(g, N, 1, step)
  <2>1. 1 \in N /\ step \in [Nat \X N -> N]
    BY NatProducts
  <2> HIDE DEF N, step
  <2> QED BY <2>1, Recursion
<1>2. PICK g \in [Nat -> Nat] : g[0] = 1 /\ \A k \in Nat : g[k + 1] = b * g[k]
  <2>1. PICK g : Follows(g, N, 1, step)
    BY <1>1
  <2>2. /\ g \in [Nat -> N] /\ g[0] = 1
        /\ \A k \in Nat : g[k + 1] = step[<<k, g[k]>>]
    <3> HIDE DEF N, step
    <3> QED BY <2>1 DEF Follows
  <2>3. \A k \in Nat : g[k + 1] = b * g[k]
    BY <2>2
  <2> QED BY <2>2, <2>3
<1>3. ASSUME NEW m \in Nat PROVE Power(b, m) = g[m]
  <2> DEFINE f == [k \in 0 .. m |-> g[k]]
             c == CHOOSE c : IsPower(c, m)
             A == {k \in Nat : k <= m => c[k] = g[k]}
  <2>1. \A k \in 0 .. m : f[k] = IF k = 0 THEN 1 ELSE b * f[k - 1]
    <3> SUFFICES ASSUME NEW k \in 0 .. m, k # 0 PROVE f[k] = b * f[k - 1]
      BY <1>2
    <3>1. k - 1 \in Nat /\ k - 1 \in 0 .. m /\ k - 1 + 1 = k
      OBVIOUS
    <3>2. g[k - 1 + 1] = b * g[k - 1]
      BY <1>2, <3>1
    <3> QED BY <3>1, <3>2
  <2>2. IsPower(f, m)
    <3> DEFINE h == [k \in 0 .. m |-> IF k = 0 THEN 1 ELSE b * f[k - 1]]
    <3>1. \A k \in 0 .. m : f[k] = h[k]
      BY <2>1
    <3>2. f = [k \in 0 .. m |-> f[k]] /\ h = [k \in 0 .. m |-> h[k]]
      OBVIOUS
    <3> HIDE DEF f, h
    <3>3. f = h
      BY <3>1, <3>2
    <3> QED BY <3>3 DEF h
  <2>3. Power(b, m) = c[m]
    BY Zenon DEF Power
  <2>4. IsPower(c, m)
    <3> HIDE DEF IsPower, f
    <3> QED BY <2>2
  <2> HIDE DEF c
  <2>5. \A k \in 0 .. m : c[k] = IF k = 0 THEN 1 ELSE b * c[k - 1]
    BY <2>4
  <2>6. 0 \in A
    BY <1>2, <2>5
  <2>7. ASSUME NEW k \in Nat, k \in A PROVE k + 1 \in A
    <3>1. SUFFICES ASSUME k + 1 <= m PROVE c[k + 1] = g[k + 1]
      OBVIOUS
    <3>2. k + 1 \in 0 .. m /\ k + 1 # 0 /\ k + 1 - 1 = k /\ c[k] = g[k]
      BY <2>7, <3>1
    <3> HIDE DEF A, IsPower
    <3>3. c[k + 1] = b * c[k]
      BY <2>5, <3>2
    <3> QED BY <1>2, <3>2, <3>3
  <2>8. m \in A
    <3>1. \A k \in Nat : k \in A
      <4> HIDE DEF A
      <4> QED BY <2>6, <2>7, Induction
    <3> QED BY <3>1
  <2> HIDE DEF IsPower, f
  <2> QED BY <2>3, <2>8
<1> QED BY <1>2, <1>3

\* What a move of the price weighs after n moves, the factor by which the next
\* move makes it weigh more, and what that move weighs itself.
WeightIn(n, i) ==
    IF n < RsiPeriod THEN 1
    ELSE IF i <= RsiPeriod THEN Power(RsiPeriod - 1, n - RsiPeriod)
    ELSE Power(RsiPeriod, i - RsiPeriod) * Power(RsiPeriod - 1, n - i)
Factor(n) == IF n < RsiPeriod THEN 1 ELSE RsiPeriod - 1
ScaleOf(n) == IF n < RsiPeriod THEN 1 ELSE Power(RsiPeriod, n - RsiPeriod + 1)

\* What another move does to the weights, and to the scale that the
\* indicator keeps beside its averages.
LEMMA WeightsStep ==
  ASSUME NEW n \in Nat
  PROVE  /\ \A i \in 1 .. n : /\ WeightIn(n, i) \in Nat
                              /\ WeightIn(n + 1, i) = Factor(n) * WeightIn(n, i)
         /\ WeightIn(n + 1, n + 1) = ScaleOf(n)
         /\ Factor(n) \in Nat /\ ScaleOf(n) \in Nat
         /\ ScaleOf(n + 1) = IF n < RsiPeriod
                             THEN IF n + 1 = RsiPeriod THEN RsiPeriod ELSE 1
                             ELSE ScaleOf(n) * RsiPeriod
<1> DEFINE p == RsiPeriod
           q == RsiPeriod - 1
<1>1. p \in Nat /\ q \in Nat /\ p = q + 1 /\ q >= 1
  BY PeriodsAssumption
<1>2. ASSUME NEW b \in Nat, NEW k \in Nat
      PROVE  /\ Power(b, 0) = 1 /\ Power(b, k) \in Nat
             /\ Power(b, k + 1) = b * Power(b, k)
  BY <1>2, PowerSteps
<1>3. CASE n + 1 < p
  <2>1. n < p
    BY <1>1, <1>3
  <2> QED BY <1>1, <1>3, <2>1 DEF WeightIn, Factor, ScaleOf
<1>4. CASE n + 1 = p
  <2>1. /\ n < p /\ ~(n + 1 < p) /\ n + 1 - p = 0 /\ n + 1 - p + 1 = 0 + 1
        /\ n + 1 <= p
    BY <1>1, <1>4
  <2>2. Power(q, 0) = 1 /\ Power(p, 0 + 1) = p * 1
    BY <1>1, <1>2
  <2>3. \A i \in 1 .. n + 1 : WeightIn(n + 1, i) = 1
    <3> SUFFICES ASSUME NEW i \in 1 .. n + 1 PROVE WeightIn(n + 1, i) = 1
      OBVIOUS
    <3>1. i <= p
      BY <1>1, <2>1
    <3>2. WeightIn(n + 1, i) = Power(q, n + 1 - p)
      BY <1>1, <2>1, <3>1 DEF WeightIn
    <3> QED BY <2>1, <2>2, <3>2
  <2>4. \A i \in 1 .. n : WeightIn(n, i) = 1
    BY <2>1 DEF WeightIn
  <2>5. Factor(n) = 1 /\ ScaleOf(n) = 1
    BY <2>1 DEF Factor, ScaleOf
  <2>6. ScaleOf(n + 1) = p
    <3>1. ScaleOf(n + 1) = Power(p, n + 1 - p + 1)
      BY <1>1, <2>1 DEF ScaleOf
    <3> QED BY <1>1, <2>1, <2>2, <3>1
  <2> QED BY <1>1, <1>4, <2>1, <2>3, <2>4, <2>5, <2>6
<1>5. CASE n >= p
  <2>1. ~(n < p) /\ ~(n + 1 < p) /\ n - p \in Nat /\ n + 1 - p = n - p + 1 /\ ~(n + 1 <= p)
        /\ n + 1 - p + 1 = n - p + 1 + 1 /\ n - p + 1 \in Nat /\ n + 1 - (n + 1) = 0
    BY <1>1, <1>5
  <2>2. Factor(n) = q /\ ScaleOf(n) = Power(p, n - p + 1)
    BY <2>1 DEF Factor, ScaleOf
  <2>3. ASSUME NEW i \in 1 .. n
        PROVE  WeightIn(n, i) \in Nat /\ WeightIn(n + 1, i) = q * WeightIn(n, i)
    <3>1. CASE i <= p
      <4>1. WeightIn(n, i) = Power(q, n - p) /\ WeightIn(n + 1, i) = Power(q, n + 1 - p)
        BY <1>1, <2>1, <3>1 DEF WeightIn
      <4> QED BY <1>1, <1>2, <2>1, <4>1
    <3>2. CASE ~(i <= p)
      <4> DEFINE a == Power(p, i - p)
                 b == Power(q, n - i)
      <4>1. i - p \in Nat /\ n - i \in Nat /\ n + 1 - i = n - i + 1
        BY <1>1, <3>2
      <4>2. WeightIn(n, i) = a * b /\ WeightIn(n + 1, i) = a * Power(q, n + 1 - i)
        BY <2>1, <3>2 DEF WeightIn
      <4>3. a \in Nat /\ b \in Nat /\ Power(q, n + 1 - i) = q * b
        BY <1>1, <1>2, <4>1
      <4> HIDE DEF a, b, p, q
      <4>4. a * (q * b) = q * (a * b) /\ a * b \in Nat
        BY <1>1, <4>3, NatProducts
      <4> QED BY <4>2, <4>3, <4>4
    <3> QED BY <3>1, <3>2
  <2>4. WeightIn(n + 1, n + 1) = ScaleOf(n)
    <3>1. WeightIn(n + 1, n + 1) = Power(p, n + 1 - p) * Power(q, n + 1 - (n + 1))
      BY <1>1, <2>1 DEF WeightIn
    <3>2. Power(p, n - p + 1) \in Nat /\ Power(q, 0) = 1
      BY <1>1, <1>2, <2>1
    <3> DEFINE a == Power(p, n - p + 1)
    <3>3. WeightIn(n + 1, n + 1) = a * 1
      BY <2>1, <3>1, <3>2
    <3> HIDE DEF a
    <3> QED BY <2>2, <3>2, <3>3 DEF a
  <2>5. ScaleOf(n + 1) = ScaleOf(n) * p /\ ScaleOf(n) \in Nat
    <3> DEFINE a == Power(p, n - p + 1)
    <3>1. ScaleOf(n + 1) = Power(p, n + 1 - p + 1)
      BY <1>1, <2>1 DEF ScaleOf
    <3>2. a \in Nat /\ Power(p, n - p + 1 + 1) = p * a
      BY <1>1, <1>2, <2>1
    <3>3. p * a = a * p
      <4> HIDE DEF p, a
      <4> QED BY <1>1, <3>2
    <3> QED BY <2>1, <2>2, <3>1, <3>2, <3>3
  <2> HIDE DEF q
  <2> QED BY <1>1, <2>1, <2>2, <2>3, <2>4, <2>5
<1> HIDE DEF q
<1> QED BY <1>1, <1>3, <1>4, <1>5

\* The weighted sum of the first n moves of g.
WeightedSum(g, n) == SumTo([i \in 1 .. n |-> WeightIn(n, i) * g[i]], n)

\* No moves weigh nothing.
LEMMA NothingWeighed == ASSUME NEW g PROVE WeightedSum(g, 0) = 0
<1>1. 1 .. 0 = {}
  OBVIOUS
<1> QED BY <1>1, SumOfNone DEF WeightedSum, SumTo

\* Another move scales the sum of those before it.
LEMMA WeightedSumSteps ==
  ASSUME NEW n \in Nat, NEW g, \A i \in 1 .. n + 1 : g[i] \in Nat
  PROVE  /\ WeightedSum(g, n) \in Int
         /\ WeightedSum(g, n + 1) =
              Factor(n) * WeightedSum(g, n) + ScaleOf(n) * g[n + 1]
<1> DEFINE f == [i \in 1 .. n |-> WeightIn(n, i) * g[i]]
           e == [i \in 1 .. n + 1 |-> WeightIn(n + 1, i) * g[i]]
           k == Factor(n)
           c == ScaleOf(n)
<1>1. /\ \A i \in 1 .. n : /\ WeightIn(n, i) \in Nat
                           /\ WeightIn(n + 1, i) = k * WeightIn(n, i)
      /\ WeightIn(n + 1, n + 1) = c /\ k \in Nat /\ c \in Nat
  BY WeightsStep
<1>2. ASSUME NEW i \in 1 .. n PROVE f[i] \in Nat /\ e[i] = k * f[i]
  <2> DEFINE w == WeightIn(n, i)
             m == g[i]
  <2>1. w \in Nat /\ m \in Nat /\ WeightIn(n + 1, i) = k * w
    BY <1>1
  <2>2. f[i] = w * m /\ e[i] = WeightIn(n + 1, i) * m
    OBVIOUS
  <2> HIDE DEF w, m, f, e, k
  <2>3. w * m \in Nat /\ (k * w) * m = k * (w * m)
    BY <1>1, <2>1, NatProducts
  <2> QED BY <2>1, <2>2, <2>3
<1>3. e[n + 1] = c * g[n + 1] /\ e[n + 1] \in Int
  <2>1. n + 1 \in 1 .. n + 1 /\ g[n + 1] \in Nat
    OBVIOUS
  <2>2. e[n + 1] = c * g[n + 1]
    BY <1>1, <2>1
  <2>3. c * g[n + 1] \in Nat
    BY <1>1, <2>1, NatProducts
  <2> HIDE DEF e, c
  <2> QED BY <2>2, <2>3
<1>4. WeightedSum(g, n) = SumTo(f, n) /\ WeightedSum(g, n + 1) = SumTo(e, n + 1)
  BY DEF WeightedSum
<1> HIDE DEF f, e, k, c
<1>5. SumTo(e, n) = k * SumTo(f, n) /\ SumTo(f, n) \in Int
  <2>1. k \in Int /\ \A i \in 1 .. n : f[i] \in Int
    BY <1>1, <1>2
  <2>2. SumTo(e, n) = k * SumTo(f, n)
    BY <1>2, <2>1, SumToTimes
  <2>3. IsFiniteSet(1 .. n)
    BY FS_Interval
  <2> QED BY <2>1, <2>2, <2>3, SumTyped DEF SumTo
<1>6. SumTo(e, n + 1) = SumTo(e, n) + e[n + 1]
  <2>1. ASSUME NEW i \in 1 .. n + 1 PROVE e[i] \in Int
    <3>1. CASE i = n + 1
      BY <1>3, <3>1
    <3>2. CASE i # n + 1
      <4>1. i \in 1 .. n
        BY <3>2
      <4>2. f[i] \in Nat /\ e[i] = k * f[i] /\ k \in Nat
        BY <1>1, <1>2, <4>1
      <4> QED BY <4>2, NatProducts
    <3> QED BY <3>1, <3>2
  <2> QED BY <2>1, SumToSteps
<1> QED BY <1>3, <1>4, <1>5, <1>6 DEF k, c

\* The price moves up and down between the trades of a sequence.
Gains(s) == [i \in 1 .. Len(s) - 1 |-> Positive(Price(s[i + 1]) - Price(s[i]))]
Losses(s) == [i \in 1 .. Len(s) - 1 |-> Positive(Price(s[i]) - Price(s[i + 1]))]

\* Moves of priced trades are natural numbers.
LEMMA MovesTyped ==
  ASSUME NEW s \in Seq(Trades), NEW i \in 1 .. Len(s) - 1
  PROVE  /\ Price(s[i]) \in Nat /\ Price(s[i + 1]) \in Nat
         /\ Gains(s)[i] \in Nat /\ Losses(s)[i] \in Nat
<1>1. s[i] \in Trades /\ s[i + 1] \in Trades
  OBVIOUS
<1>2. Price(s[i]) \in Nat /\ Price(s[i + 1]) \in Nat
  BY <1>1, PriceTypes
<1>3. Gains(s)[i] \in Nat
  BY <1>2 DEF Gains, Positive
<1>4. Losses(s)[i] \in Nat
  BY <1>2 DEF Losses, Positive
<1> QED BY <1>2, <1>3, <1>4

\* A weighted sum depends on the moves it sums only.
LEMMA WeightedSumAgrees ==
  ASSUME NEW n \in Nat, NEW g, NEW h,
         \A i \in 1 .. n : g[i] \in Nat /\ g[i] = h[i]
  PROVE  WeightedSum(g, n) = WeightedSum(h, n)
<1> DEFINE f == [i \in 1 .. n |-> WeightIn(n, i) * g[i]]
           e == [i \in 1 .. n |-> WeightIn(n, i) * h[i]]
<1>1. f = e
  OBVIOUS
<1> QED BY <1>1 DEF WeightedSum

\* Another trade adds its move.
LEMMA MovesGrow ==
  ASSUME NEW s \in Seq(Trades), s # <<>>, NEW t \in Trades
  PROVE  LET n == Len(s) - 1
             e == Append(s, t)
             last == Price(s[Len(s)])
         IN /\ n \in Nat /\ last \in Nat
            /\ WeightedSum(Gains(e), n + 1) =
                 Factor(n) * WeightedSum(Gains(s), n)
                   + ScaleOf(n) * Positive(Price(t) - last)
            /\ WeightedSum(Losses(e), n + 1) =
                 Factor(n) * WeightedSum(Losses(s), n)
                   + ScaleOf(n) * Positive(last - Price(t))
<1> DEFINE n == Len(s) - 1
           e == Append(s, t)
           last == Price(s[Len(s)])
<1>1. /\ n \in Nat /\ e \in Seq(Trades) /\ Len(e) = n + 2 /\ e[n + 2] = t
      /\ Len(s) = n + 1 /\ \A i \in 1 .. n + 1 : e[i] = s[i]
  OBVIOUS
<1>2. last \in Nat
  <2>1. s[Len(s)] \in Trades
    OBVIOUS
  <2> QED BY <2>1, PriceTypes
<1> HIDE DEF e
<1>3. ASSUME NEW i \in 1 .. n
      PROVE  /\ Gains(s)[i] \in Nat /\ Gains(s)[i] = Gains(e)[i]
             /\ Losses(s)[i] \in Nat /\ Losses(s)[i] = Losses(e)[i]
  <2>1. i \in 1 .. Len(s) - 1 /\ i \in 1 .. Len(e) - 1
    BY <1>1
  <2>2. e[i] = s[i] /\ e[i + 1] = s[i + 1]
    BY <1>1
  <2>3. Gains(s)[i] = Gains(e)[i]
    BY <2>1, <2>2 DEF Gains
  <2>4. Losses(s)[i] = Losses(e)[i]
    BY <2>1, <2>2 DEF Losses
  <2> QED BY <2>1, <2>3, <2>4, MovesTyped
<1>4. /\ Gains(e)[n + 1] = Positive(Price(t) - last)
      /\ Losses(e)[n + 1] = Positive(last - Price(t))
  <2>1. n + 1 \in 1 .. Len(e) - 1 /\ e[n + 1] = s[Len(s)] /\ e[n + 1 + 1] = t
    BY <1>1
  <2>2. Gains(e)[n + 1] = Positive(Price(t) - last)
    BY <2>1 DEF Gains
  <2>3. Losses(e)[n + 1] = Positive(last - Price(t))
    BY <2>1 DEF Losses
  <2> QED BY <2>2, <2>3
<1>5. \A i \in 1 .. n + 1 : Gains(e)[i] \in Nat /\ Losses(e)[i] \in Nat
  <2>1. \A i \in 1 .. n + 1 : i \in 1 .. Len(e) - 1
    BY <1>1
  <2> QED BY <1>1, <2>1, MovesTyped
<1>6. /\ WeightedSum(Gains(s), n) = WeightedSum(Gains(e), n)
      /\ WeightedSum(Losses(s), n) = WeightedSum(Losses(e), n)
  <2> HIDE DEF n
  <2> QED BY <1>1, <1>3, WeightedSumAgrees
<1>7. /\ WeightedSum(Gains(e), n + 1) =
           Factor(n) * WeightedSum(Gains(e), n) + ScaleOf(n) * Gains(e)[n + 1]
      /\ WeightedSum(Losses(e), n + 1) =
           Factor(n) * WeightedSum(Losses(e), n) + ScaleOf(n) * Losses(e)[n + 1]
  <2> HIDE DEF n
  <2> QED BY <1>1, <1>5, WeightedSumSteps
<1> HIDE DEF last
<1> QED BY <1>1, <1>2, <1>4, <1>6, <1>7 DEF n, e, last

\* Until the period is full an update collects the moves.
LEMMA CollectingUpdate ==
  ASSUME NEW r \in RsiTypes, NEW p \in Nat, r.last_price \in Nat,
         r.count < RsiPeriod
  PROVE  LET u == RsiUpdate(r, p) IN
         /\ u.last_price = p /\ u.count = r.count + 1
         /\ u.gain = r.gain + Positive(p - r.last_price)
         /\ u.loss = r.loss + Positive(r.last_price - p)
         /\ u.scale = IF r.count + 1 = RsiPeriod THEN RsiPeriod ELSE 1
<1> DEFINE gain == Positive(p - r.last_price)
           loss == Positive(r.last_price - p)
           collected == Collected(r, gain, loss)
           next == r.count + 1
           updated == [collected EXCEPT !.last_price = p, !.count = next]
<1>1. RsiUpdate(r, p) = updated
  <2>1. r.last_price # None
    BY NoneAssumption
  <2> QED BY <2>1 DEF RsiUpdate
<1>2. collected.gain = r.gain + gain
  BY DEF Collected, RsiTypes
<1>3. collected.loss = r.loss + loss
  BY DEF Collected, RsiTypes
<1>4. collected.scale = IF r.count + 1 = RsiPeriod THEN RsiPeriod ELSE 1
  BY DEF Collected, RsiTypes
<1>5. DOMAIN collected = {"last_price", "count", "gain", "loss", "scale"}
  BY DEF Collected, RsiTypes
<1> HIDE DEF collected, gain, loss, next
<1>6. /\ updated.last_price = p /\ updated.count = next
      /\ updated.gain = collected.gain /\ updated.loss = collected.loss
      /\ updated.scale = collected.scale
  BY <1>5
<1> HIDE DEF updated
<1> QED BY <1>1, <1>2, <1>3, <1>4, <1>6 DEF gain, loss, next

\* Every update weighs the averages so far by the factor and the move by the
\* scale, which goes on to that of the next move.
LEMMA UpdateWeighs ==
  ASSUME NEW r \in RsiTypes, NEW p \in Nat, r.last_price \in Nat,
         r.scale = ScaleOf(r.count)
  PROVE  LET u == RsiUpdate(r, p)
             n == r.count
         IN /\ u.last_price = p /\ u.count = n + 1 /\ u.scale = ScaleOf(n + 1)
            /\ u.gain = Factor(n) * r.gain + ScaleOf(n) * Positive(p - r.last_price)
            /\ u.loss = Factor(n) * r.loss + ScaleOf(n) * Positive(r.last_price - p)
<1> DEFINE u == RsiUpdate(r, p)
           n == r.count
           gain == Positive(p - r.last_price)
           loss == Positive(r.last_price - p)
<1>1. /\ n \in Nat /\ r.gain \in Nat /\ r.loss \in Nat /\ r.scale \in Nat
      /\ RsiPeriod \in Nat
  BY PeriodsAssumption DEF RsiTypes
<1>2. gain \in Nat /\ loss \in Nat
  BY DEF Positive
<1>3. /\ ScaleOf(n) \in Nat /\ Factor(n) \in Nat
      /\ ScaleOf(n + 1) = IF n < RsiPeriod
                          THEN IF n + 1 = RsiPeriod THEN RsiPeriod ELSE 1
                          ELSE ScaleOf(n) * RsiPeriod
  BY <1>1, WeightsStep
<1>4. CASE n < RsiPeriod
  <2>1. /\ u.last_price = p /\ u.count = n + 1
        /\ u.gain = r.gain + gain /\ u.loss = r.loss + loss
        /\ u.scale = IF n + 1 = RsiPeriod THEN RsiPeriod ELSE 1
    BY <1>4, CollectingUpdate
  <2>2. Factor(n) = 1 /\ ScaleOf(n) = 1
    BY <1>4 DEF Factor, ScaleOf
  <2> HIDE DEF u, n, gain, loss
  <2>3. 1 * r.gain + 1 * gain = r.gain + gain /\ 1 * r.loss + 1 * loss = r.loss + loss
    BY <1>1, <1>2
  <2>4. /\ u.gain = Factor(n) * r.gain + ScaleOf(n) * gain
        /\ u.loss = Factor(n) * r.loss + ScaleOf(n) * loss
    BY <2>1, <2>2, <2>3
  <2> QED BY <1>3, <1>4, <2>1, <2>4 DEF u, n, gain, loss
<1>5. CASE ~(n < RsiPeriod)
  <2>1. /\ u.last_price = p /\ u.count = n + 1
        /\ u.gain = r.gain * (RsiPeriod - 1) + gain * r.scale
        /\ u.loss = r.loss * (RsiPeriod - 1) + loss * r.scale
        /\ u.scale = r.scale * RsiPeriod
    BY <1>1, <1>5, FullUpdate
  <2>2. Factor(n) = RsiPeriod - 1
    BY <1>5 DEF Factor
  <2> DEFINE k == Factor(n)
             c == ScaleOf(n)
  <2>3. \A a, b \in Nat : a * b = b * a
    OBVIOUS
  <2>4. r.gain * k = k * r.gain /\ r.loss * k = k * r.loss
        /\ gain * c = c * gain /\ loss * c = c * loss
    <3> HIDE DEF k, c, gain, loss
    <3> QED BY <1>1, <1>2, <1>3, <2>3 DEF k, c
  <2> HIDE DEF u, n, gain, loss
  <2>5. u.gain = k * r.gain + c * gain /\ u.loss = k * r.loss + c * loss
    BY <2>1, <2>2, <2>4 DEF n
  <2>6. u.scale = ScaleOf(n + 1)
    BY <1>3, <1>5, <2>1 DEF n
  <2> QED BY <2>1, <2>5, <2>6 DEF u, n, gain, loss
<1> QED BY <1>4, <1>5

\* The averages are the weighted sums of the moves of the trades with a price.
RsiTracked ==
    LET s == Priced(history) IN
    /\ s = <<>> => rsi.last_price = None /\ rsi.count = 0
    /\ s # <<>> => rsi.last_price = Price(s[Len(s)]) /\ rsi.count = Len(s) - 1
    /\ rsi.scale = ScaleOf(rsi.count)
    /\ rsi.gain = WeightedSum(Gains(s), rsi.count)
    /\ rsi.loss = WeightedSum(Losses(s), rsi.count)

\* Without moves both averages are 0.
LEMMA RsiStarts == Init => RsiTracked
<1> SUFFICES ASSUME Init PROVE RsiTracked
  OBVIOUS
<1>1. /\ history = <<>> /\ rsi.last_price = None /\ rsi.count = 0
      /\ rsi.gain = 0 /\ rsi.loss = 0 /\ rsi.scale = 1
  BY DEF Init
<1>2. Priced(history) = <<>>
  BY <1>1, PricedOfNone
<1>3. ScaleOf(0) = 1
  BY PeriodsAssumption DEF ScaleOf
<1>4. \A g : WeightedSum(g, 0) = 0
  BY NothingWeighed
<1> QED BY <1>1, <1>2, <1>3, <1>4 DEF RsiTracked

\* Every step keeps the averages the weighted sums.
LEMMA RsiTrackedStep == TypeOK /\ RsiTracked /\ [Next]_vars => RsiTracked'
<1> SUFFICES ASSUME TypeOK, RsiTracked, [Next]_vars PROVE RsiTracked'
  OBVIOUS
<1>0. token \in TokenTypes /\ rsi \in RsiTypes /\ history \in Seq(Trades)
  BY DEF TypeOK, TokenTypes, RsiTypes
<1>1. ASSUME NEW t \in Trades, HandleTrade(t) PROVE RsiTracked'
  <2> DEFINE p == Price(t)
             s == Priced(history)
             e == Append(s, t)
             n == Len(s) - 1
  <2>1. p \in Nat /\ history' = Append(history, t) /\ s \in Seq(Trades)
    BY <1>0, <1>1, PriceTypes, PricedGrows DEF HandleTrade
  <2>2. CASE p = 0
    <3>1. Priced(history') = s
      <4> HIDE DEF Price
      <4>1. ~(Price(t) > 0)
        BY <2>2
      <4> QED BY <1>0, <2>1, <4>1, PricedGrows
    <3>2. rsi' = rsi
      BY <1>0, <1>1, <2>2, TradeShown
    <3> HIDE DEF p
    <3> QED BY <3>1, <3>2 DEF RsiTracked
  <2>3. CASE p > 0
    <3>1. Priced(history') = e
      <4> HIDE DEF Price
      <4> QED BY <1>0, <2>1, <2>3, PricedGrows
    <3>2. rsi' = RsiUpdate(rsi, p)
      BY <1>0, <1>1, <2>3, TradeShown
    <3>3. e # <<>> /\ Len(e) - 1 = Len(s) /\ e[Len(e)] = t /\ Len(s) \in Nat
      <4> HIDE DEF s
      <4> QED BY <2>1
    <3>4. CASE s = <<>>
      <4>1. rsi.last_price = None /\ rsi.count = 0 /\ Len(s) = 0
        BY <3>4 DEF RsiTracked
      <4>2. /\ rsi'.last_price = p /\ rsi'.count = rsi.count /\ rsi'.gain = rsi.gain
            /\ rsi'.loss = rsi.loss /\ rsi'.scale = rsi.scale
        <5> HIDE DEF p
        <5> QED BY <1>0, <3>2, <4>1 DEF RsiUpdate, RsiTypes
      <4>3. \A g : WeightedSum(g, 0) = 0
        BY NothingWeighed
      <4>4. rsi.gain = 0 /\ rsi.loss = 0 /\ rsi.scale = ScaleOf(0)
        BY <4>1, <4>3 DEF RsiTracked
      <4> HIDE DEF s
      <4> QED BY <3>1, <3>3, <4>1, <4>2, <4>3, <4>4 DEF RsiTracked
    <3>5. CASE s # <<>>
      <4>1. /\ rsi.last_price = Price(s[Len(s)]) /\ rsi.count = n
            /\ rsi.scale = ScaleOf(rsi.count)
            /\ rsi.gain = WeightedSum(Gains(s), n)
            /\ rsi.loss = WeightedSum(Losses(s), n)
        BY <3>5 DEF RsiTracked
      <4> HIDE DEF s
      <4>2. /\ n \in Nat /\ Price(s[Len(s)]) \in Nat
            /\ WeightedSum(Gains(e), n + 1) =
                 Factor(n) * rsi.gain + ScaleOf(n) * Positive(p - rsi.last_price)
            /\ WeightedSum(Losses(e), n + 1) =
                 Factor(n) * rsi.loss + ScaleOf(n) * Positive(rsi.last_price - p)
        <5> HIDE DEF Price
        <5> QED BY <2>1, <3>5, <4>1, MovesGrow
      <4>3. rsi.last_price \in Nat
        BY <4>1, <4>2
      <4>4. /\ rsi'.last_price = p /\ rsi'.count = n + 1 /\ rsi'.scale = ScaleOf(n + 1)
            /\ rsi'.gain = Factor(n) * rsi.gain + ScaleOf(n) * Positive(p - rsi.last_price)
            /\ rsi'.loss = Factor(n) * rsi.loss + ScaleOf(n) * Positive(rsi.last_price - p)
        <5> HIDE DEF p, n
        <5> QED BY <1>0, <2>1, <3>2, <4>1, <4>3, UpdateWeighs
      <4>5. n + 1 = Len(e) - 1
        BY <3>3
      <4> HIDE DEF e, n
      <4> QED BY <3>1, <3>3, <4>2, <4>4, <4>5 DEF RsiTracked
    <3> QED BY <3>4, <3>5
  <2> HIDE DEF p
  <2> QED BY <2>1, <2>2, <2>3
<1>2. CASE HandleCreation \/ Evict \/ UNCHANGED vars
  BY <1>2 DEF HandleCreation, Evict, vars, RsiTracked
<1> QED BY <1>1, <1>2 DEF Next

\* The averages built up step by step are Wilder's of all the price moves, for
\* every period.
THEOREM AveragesAreWilders == Spec => []RsiIsWilders
<1>1. TypeOK /\ RsiTracked => RsiIsWilders
  <2> SUFFICES ASSUME TypeOK, RsiTracked PROVE RsiIsWilders
    OBVIOUS
  <2> DEFINE s == Priced(history)
             n == Len(s) - 1
             Move(i) == Price(s[i + 1]) - Price(s[i])
             Weight(i) == IF i <= RsiPeriod THEN Power(RsiPeriod - 1, n - RsiPeriod)
                          ELSE Power(RsiPeriod, i - RsiPeriod) * Power(RsiPeriod - 1, n - i)
             up == [i \in 1 .. n |-> Weight(i) * Positive(Move(i))]
             dn == [i \in 1 .. n |-> Weight(i) * Positive(-Move(i))]
  <2>1. history \in Seq(Trades) /\ RsiPeriod \in Nat \ {0, 1}
    BY PeriodsAssumption DEF TypeOK
  <2>2. s \in Seq(Trades)
    <3>1. PICK c \in [0 .. Len(history) -> Seq(Trades)] : s = c[Len(history)]
      BY <2>1, PricedCollects
    <3>2. Len(history) \in 0 .. Len(history)
      BY <2>1
    <3> QED BY <3>1, <3>2
  <2>3. SUFFICES ASSUME n >= RsiPeriod
                 PROVE  rsi.gain = SumFunction(up) /\ rsi.loss = SumFunction(dn)
    BY DEF RsiIsWilders
  <2>4. /\ rsi.gain = WeightedSum(Gains(s), n)
        /\ rsi.loss = WeightedSum(Losses(s), n)
    <3>1. s # <<>>
      BY <2>1, <2>2, <2>3
    <3> QED BY <3>1 DEF RsiTracked
  <2> HIDE DEF s
  <2>5. n \in Nat /\ ~(n < RsiPeriod)
    BY <2>1, <2>2, <2>3
  <2>6. ASSUME NEW i \in 1 .. n
        PROVE  /\ WeightIn(n, i) = Weight(i)
               /\ Gains(s)[i] = Positive(Move(i)) /\ Losses(s)[i] = Positive(-Move(i))
    <3>1. Price(s[i]) \in Nat /\ Price(s[i + 1]) \in Nat
      BY <2>2, MovesTyped
    <3>2. -Move(i) = Price(s[i]) - Price(s[i + 1])
      <4> HIDE DEF Price
      <4> QED BY <3>1
    <3>3. WeightIn(n, i) = Weight(i)
      BY <2>5 DEF WeightIn
    <3> HIDE DEF Price
    <3>4. Gains(s)[i] = Positive(Move(i))
      BY DEF Gains
    <3>5. Losses(s)[i] = Positive(Price(s[i]) - Price(s[i + 1]))
      BY DEF Losses
    <3> QED BY <3>2, <3>3, <3>4, <3>5
  <2>7. /\ up = [i \in 1 .. n |-> WeightIn(n, i) * Gains(s)[i]]
        /\ dn = [i \in 1 .. n |-> WeightIn(n, i) * Losses(s)[i]]
    <3> HIDE DEF n, Weight, Move
    <3> QED BY <2>6
  <2>8. SumFunction(up) = SumTo(up, n) /\ SumFunction(dn) = SumTo(dn, n)
    BY DEF SumFunction, SumTo
  <2> HIDE DEF up, dn, n
  <2> QED BY <2>4, <2>7, <2>8 DEF WeightedSum
<1> QED BY <1>1, RsiStarts, RsiTrackedStep, TradeFlowTypeCorrect, PTL DEF Spec

=============================================================================
