---------------------------- MODULE BacktestProofs ----------------------------
(* Theorems about module Backtest, for all bars, closes, windows, spawn points *)
(* and chromosomes.                                                            *)
EXTENDS Backtest, FoldsAndExtrema

-----------------------------------------------------------------------------
(* Arithmetic.                                                                *)

\* A division of naturals rounds down.
LEMMA Quotient ==
  ASSUME NEW a \in Nat, NEW d \in Nat \ {0}
  PROVE  a \div d \in Nat /\ (a \div d) * d <= a /\ a < (a \div d) * d + d
  <1>1. a = d * (a \div d) + (a % d) /\ a % d \in 0 .. d - 1 /\ a \div d \in Int
    OBVIOUS
  <1>2. a \div d >= 0
    <2> SUFFICES ASSUME a \div d <= -1
                 PROVE  FALSE
      BY <1>1
    <2> DEFINE q == a \div d
    <2>1. q \in Int /\ q <= -1 /\ a = d * q + (a % d) /\ a % d <= d - 1
      BY <1>1
    <2> HIDE DEF q
    <2>2. d * (-1 - q) >= 0
      BY <2>1
    <2>3. QED
      BY <2>1, <2>2, <1>1
  <1>3. QED
    BY <1>1, <1>2

\* A percentage or a share in per mille of a natural is a natural, and no more.
LEMMA Share ==
  ASSUME NEW x \in Nat, NEW p \in 0 .. 100
  PROVE  (x * p) \div 100 \in Nat /\ (x * p) \div 100 <= x
  <1>1. x * p \in Nat /\ x * p <= x * 100
    OBVIOUS
  <1>2. QED
    BY <1>1

LEMMA Permille ==
  ASSUME NEW x \in Nat, NEW p \in 0 .. 1000
  PROVE  (x * p) \div 1000 \in Nat /\ (x * p) \div 1000 <= x
  <1>1. x * p \in Nat /\ x * p <= x * 1000
    OBVIOUS
  <1>2. QED
    BY <1>1

\* Whole lots: what is snapped leaves less than a lot.
LEMMA Snap ==
  ASSUME NEW qty \in Nat
  PROVE  Snapped(qty) \in Nat /\ Snapped(qty) <= qty /\ qty < Snapped(qty) + LotStep
  <1>1. LotStep \in Nat \ {0}
    BY BacktestAssumption
  <1>2. qty \div LotStep \in Nat /\ (qty \div LotStep) * LotStep <= qty
          /\ qty < (qty \div LotStep) * LotStep + LotStep
    BY <1>1, Quotient
  <1>3. QED
    BY <1>1, <1>2 DEF Snapped

LEMMA SnapLess ==
  ASSUME NEW qty \in Nat, qty < LotStep
  PROVE  Snapped(qty) = 0
  <1>1. LotStep \in Nat \ {0}
    BY BacktestAssumption
  <1>2. qty \div LotStep = 0
    <2> DEFINE q == qty \div LotStep
    <2>1. q \in Nat /\ q * LotStep <= qty
      BY <1>1, Quotient
    <2> HIDE DEF q
    <2>2. q >= 1 => q * LotStep >= LotStep
      <3>1. (q - 1) * LotStep >= 0 <=> q * LotStep >= LotStep
        BY <2>1, <1>1
      <3>2. q >= 1 => (q - 1) * LotStep >= 0
        BY <2>1, <1>1
      <3>3. QED
        BY <3>1, <3>2
    <2>3. QED
      BY <2>1, <2>2, <1>1 DEF q
  <1>3. QED
    BY <1>1, <1>2 DEF Snapped

\* What a purchase pays for whole lots, fee included, is at most what it may spend.
LEMMA Affordable ==
  ASSUME NEW spend \in Nat, NEW price \in Nat \ {0}
  PROVE  LET qty == Snapped((spend * (1000 - FeePermille)) \div (price * 1000))
         IN qty \in Nat /\ qty * price <= spend
  <1> DEFINE part == spend * (1000 - FeePermille)
             most == part \div (price * 1000)
             qty  == Snapped(most)
  <1>1. part \in Nat /\ part <= spend * 1000
    <2>1. FeePermille \in 0 .. 999
      BY BacktestAssumption
    <2>2. spend * FeePermille \in Nat
      BY <2>1
    <2>3. part = spend * 1000 - spend * FeePermille /\ 1000 - FeePermille \in Nat
      BY <2>1
    <2>4. QED
      BY <2>2, <2>3
  <1>2. most \in Nat /\ most * (price * 1000) <= part
    <2> DEFINE lot == price * 1000
    <2>1. lot \in Nat \ {0}
      OBVIOUS
    <2> HIDE DEF part, lot
    <2>2. part \div lot \in Nat /\ (part \div lot) * lot <= part
      BY <1>1, <2>1, Quotient
    <2>3. QED
      BY <2>2 DEF lot
  <1>3. qty \in Nat /\ qty <= most
    <2> HIDE DEF most
    <2>1. QED
      BY <1>2, Snap
  <1> HIDE DEF qty, most, part
  <1>4. most * price <= spend
    <2>1. most * (price * 1000) = (most * price) * 1000 /\ most * price \in Nat
      BY <1>2
    <2>2. QED
      BY <2>1, <1>1, <1>2
  <1>5. qty * price <= most * price
    BY <1>3, <1>2
  <1>6. QED
    BY <1>3, <1>4, <1>5, <1>2 DEF qty, most, part
-----------------------------------------------------------------------------
(* The account: what an order and a release leave of it.                      *)

Price == Nat \ {0}

\* The spawn point and the closes, as every step finds them.
LEMMA Given ==
  ASSUME spawn \in Spawns, closes \in Paths
  PROVE  /\ spawn.capital \in Nat \ {0} /\ spawn.reserve \in Nat /\ spawn.inject \in Nat
         /\ spawn.trigger \in Nat /\ spawn.ratio \in 0 .. 100
         /\ \A b \in 1 .. N : closes[b] \in Price /\ Months[b] \in Nat \ {0} /\ Days[b] \in Nat
         /\ N \in Nat \ {0}
  <1>1. spawn \in Spawn
    BY BacktestAssumption
  <1>2. closes \in [1 .. N -> Nat \ {0}]
    BY BacktestAssumption
  <1>3. N \in Nat \ {0} /\ \A b \in 1 .. N : Days[b] \in Nat
    BY BacktestAssumption DEF N
  <1>4. Months \in [1 .. N -> Nat \ {0}]
    BY BacktestAssumption
  <1>5. QED
    BY <1>1, <1>2, <1>3, <1>4 DEF Spawn, Price

\* A portfolio with two of its amounts replaced.
LEMMA Replaced ==
  ASSUME NEW pf \in Portfolio, NEW u \in Nat, NEW v \in Nat
  PROVE  /\ [pf EXCEPT !.usdt = u] \in Portfolio
         /\ [pf EXCEPT !.usdt = u, !.dead = v] \in Portfolio
         /\ [pf EXCEPT !.float = u, !.usdt = v] \in Portfolio
         /\ [pf EXCEPT !.dead = u, !.float = v] \in Portfolio
  <1>1. [pf EXCEPT !.usdt = u] \in Portfolio /\ [pf EXCEPT !.float = u] \in Portfolio
          /\ [pf EXCEPT !.dead = u] \in Portfolio
    BY DEF Portfolio
  <1>2. \A q \in Portfolio : /\ [q EXCEPT !.dead = v] \in Portfolio
                             /\ [q EXCEPT !.usdt = v] \in Portfolio
                             /\ [q EXCEPT !.float = v] \in Portfolio
    BY DEF Portfolio
  <1>3. QED
    BY <1>1, <1>2

\* Only what exceeds the reserve floor may be spent.
LEMMA Floor ==
  ASSUME NEW pf \in Portfolio, spawn.reserve \in Nat
  PROVE  /\ Spendable(pf) \in Nat /\ Spendable(pf) <= pf.usdt
         /\ Spendable(pf) > 0 => pf.usdt - Spendable(pf) = spawn.reserve
  BY DEF Portfolio, Spendable

LEMMA WorthType ==
  ASSUME NEW pf \in Portfolio, NEW price \in Price
  PROVE  Worth(pf, price) \in Nat
  BY DEF Worth, Portfolio, Price

\* A purchase keeps the floor, leaves the float stack alone and the worth as it is.
LEMMA BoughtWell ==
  ASSUME NEW pf \in Portfolio, NEW spend \in Nat, NEW price \in Price, spawn.reserve \in Nat
  PROVE  LET done == Bought(pf, spend, price)
         IN /\ done \in Portfolio /\ done.float = pf.float
            /\ done.usdt = pf.usdt \/ done.usdt >= spawn.reserve
            /\ done.dead >= pf.dead
            /\ Worth(done, price) = Worth(pf, price)
  <1> DEFINE qty == Snapped((spend * (1000 - FeePermille)) \div (price * 1000))
  <1>1. qty \in Nat /\ qty * price <= spend
    BY Affordable DEF Price
  <1> HIDE DEF qty
  <1>2. CASE spend <= Spendable(pf) /\ qty >= LotMin
    <2> DEFINE cost == qty * price
               done == [pf EXCEPT !.usdt = @ - cost, !.dead = @ + qty]
    <2>1. Bought(pf, spend, price) = done
      BY <1>2 DEF Bought, qty
    <2>2. cost \in Nat /\ cost <= Spendable(pf)
      BY <1>1, <1>2, Floor DEF Price
    <2>3. /\ done.usdt = pf.usdt - cost /\ done.dead = pf.dead + qty /\ done.float = pf.float
          /\ pf.usdt \in Nat /\ pf.dead \in Nat /\ pf.float \in Nat
      BY DEF Portfolio
    <2>4. done \in Portfolio
      <3>1. pf.usdt - cost \in Nat
        <4> HIDE DEF cost
        <4>1. QED
          BY <2>2, <2>3, Floor
      <3>2. QED
        <4>1. pf.dead + qty \in Nat
          BY <1>1, <2>3
        <4>2. QED
          BY <3>1, <4>1, Replaced
    <2>5. done.usdt = pf.usdt \/ done.usdt >= spawn.reserve
      <3> HIDE DEF cost, done
      <3>1. QED
        BY <2>2, <2>3, Floor
    <2>6. Worth(done, price) = Worth(pf, price)
      <3>1. (pf.dead + qty + pf.float) * price = (pf.dead + pf.float) * price + qty * price
        BY <2>3, <1>1 DEF Price
      <3>2. (pf.dead + pf.float) * price \in Nat
        BY <2>3 DEF Price
      <3> DEFINE held == (pf.dead + pf.float) * price
      <3>3. Worth(pf, price) = pf.usdt + held
        BY DEF Worth
      <3>4. Worth(done, price) = (pf.usdt - cost) + (held + cost)
        <4> HIDE DEF done
        <4>1. QED
          BY <2>3, <3>1 DEF Worth
      <3> HIDE DEF held, cost
      <3>5. QED
        BY <3>2, <3>3, <3>4, <2>2, <2>3 DEF held
    <2> HIDE DEF done
    <2>7. QED
      BY <2>1, <2>3, <2>4, <2>5, <2>6, <1>1
  <1>3. CASE ~ (spend <= Spendable(pf) /\ qty >= LotMin)
    <2>1. Bought(pf, spend, price) = pf
      BY <1>3 DEF Bought, qty
    <2>2. QED
      BY <2>1 DEF Portfolio
  <1>4. QED
    BY <1>2, <1>3

\* A sale costs its fee, and of the whole float stack leaves less than a lot.
LEMMA SoldWell ==
  ASSUME NEW pf \in Portfolio, NEW size \in Nat, NEW price \in Price
  PROVE  LET done == Sold(pf, size, price)
         IN /\ done \in Portfolio /\ done.dead = pf.dead /\ done.usdt >= pf.usdt
            /\ Worth(done, price) <= Worth(pf, price)
            /\ size = pf.float => ~ Sellable(done.float)
  <1> DEFINE qty == Snapped(size)
  <1>1. qty \in Nat /\ qty <= size /\ size < qty + LotStep
    BY Snap
  <1>2. /\ pf.usdt \in Nat /\ pf.dead \in Nat /\ pf.float \in Nat
        /\ LotMin \in Nat /\ LotStep \in Nat \ {0} /\ FeePermille \in 0 .. 999
    BY BacktestAssumption DEF Portfolio
  <1> HIDE DEF qty
  <1>3. CASE qty >= LotMin /\ qty <= pf.float
    <2> DEFINE cost == qty * price
               got  == (cost * (1000 - FeePermille)) \div 1000
               done == [pf EXCEPT !.float = @ - qty, !.usdt = @ + got]
    <2>1. Sold(pf, size, price) = done
      BY <1>3 DEF Sold, qty
    <2>2. cost \in Nat
      BY <1>1 DEF Price
    <2>3. got \in Nat /\ got <= cost
      <3>1. 1000 - FeePermille \in 0 .. 1000
        BY <1>2
      <3> HIDE DEF cost
      <3>2. QED
        BY <3>1, <2>2, Permille
    <2>4. /\ done.usdt = pf.usdt + got /\ done.dead = pf.dead /\ done.float = pf.float - qty
      BY DEF Portfolio
    <2>5. done \in Portfolio
      <3>1. pf.usdt + got \in Nat /\ pf.float - qty \in Nat
        <4> HIDE DEF got
        <4>1. QED
          BY <2>3, <1>1, <1>2, <1>3
      <3>2. QED
        <4> HIDE DEF got
        <4>1. QED
          BY <3>1, Replaced
    <2>6. Worth(done, price) <= Worth(pf, price)
      <3> DEFINE rest == (pf.dead + (pf.float - qty)) * price
      <3>1. (pf.dead + pf.float) * price = rest + cost /\ rest \in Int
        BY <1>1, <1>2 DEF Price
      <3>2. Worth(pf, price) = pf.usdt + (rest + cost)
        BY <3>1 DEF Worth
      <3>3. Worth(done, price) = (pf.usdt + got) + rest
        <4> HIDE DEF done
        <4>1. QED
          BY <2>4 DEF Worth
      <3> HIDE DEF rest, cost, got, done
      <3>4. QED
        BY <3>1, <3>2, <3>3, <2>2, <2>3, <1>2
    <2>7. size = pf.float => ~ Sellable(pf.float - qty)
      <3>1. SUFFICES ASSUME size = pf.float
                     PROVE  ~ Sellable(pf.float - qty)
        OBVIOUS
      <3>2. pf.float - qty \in Nat /\ pf.float - qty < LotStep
        BY <3>1, <1>1, <1>2, <1>3
      <3>3. Snapped(pf.float - qty) = 0
        BY <3>2, SnapLess
      <3>4. QED
        BY <3>3 DEF Sellable
    <2> HIDE DEF done, got
    <2>8. QED
      BY <2>1, <2>3, <2>4, <2>5, <2>6, <2>7, <1>2
  <1>4. CASE ~ (qty >= LotMin /\ qty <= pf.float)
    <2>1. Sold(pf, size, price) = pf
      BY <1>4 DEF Sold, qty
    <2>2. size = pf.float => ~ Sellable(pf.float)
      BY <1>4, <1>1, <1>2 DEF Sellable, qty
    <2>3. Worth(pf, price) \in Nat
      BY WorthType
    <2>4. QED
      BY <2>1, <2>2, <2>3, <1>2
  <1>5. QED
    BY <1>3, <1>4

\* A release moves units from one stack to the other.
LEMMA ReleasedWell ==
  ASSUME NEW pf \in Portfolio, NEW qty \in Nat, NEW price \in Price
  PROVE  LET done == Released(pf, qty)
         IN /\ done \in Portfolio /\ done.usdt = pf.usdt /\ done.float >= pf.float
            /\ Worth(done, price) = Worth(pf, price)
            /\ qty = 0 => done.float = pf.float
  <1>1. pf.usdt \in Nat /\ pf.dead \in Nat /\ pf.float \in Nat
    BY DEF Portfolio
  <1>2. CASE qty <= pf.dead
    <2> DEFINE done == [pf EXCEPT !.dead = @ - qty, !.float = @ + qty]
    <2>1. Released(pf, qty) = done
      BY <1>2 DEF Released
    <2>2. done.usdt = pf.usdt /\ done.dead = pf.dead - qty /\ done.float = pf.float + qty
      BY DEF Portfolio
    <2>3. done \in Portfolio
      <3>1. pf.dead - qty \in Nat /\ pf.float + qty \in Nat
        BY <1>1, <1>2
      <3>2. QED
        BY <3>1, Replaced
    <2>4. Worth(done, price) = Worth(pf, price)
      <3>1. (pf.dead - qty) + (pf.float + qty) = pf.dead + pf.float
        BY <1>1
      <3> HIDE DEF done
      <3>2. QED
        BY <3>1, <2>2 DEF Worth
    <2> HIDE DEF done
    <2>5. QED
      BY <2>1, <2>2, <2>3, <2>4, <1>1
  <1>3. CASE ~ (qty <= pf.dead)
    BY <1>1, <1>3 DEF Released
  <1>4. QED
    BY <1>2, <1>3
-----------------------------------------------------------------------------
(* The strategy: what a Step asks for.                                        *)

LEMMA LeastOf ==
  ASSUME NEW S \in SUBSET Nat, S # {}
  PROVE  Min(S) \in S /\ \A n \in S : Min(S) <= n
  BY LeastNatural DEF Min

LEMMA InMonthWell ==
  ASSUME NEW r \in Runtime, NEW m \in Nat, NEW price \in Price
  PROVE  LET in == InMonth(r, m, price)
         IN /\ in \in Runtime /\ in.stop = r.stop
            /\ AbstractRuntime(in) = D!InMonth(AbstractRuntime(r), m)
  <1> DEFINE in == InMonth(r, m, price)
  <1>1. r.month \in Nat /\ r.high \in Nat /\ r.tiers \in SUBSET Tiers /\ r.stop \in BOOLEAN
    BY DEF Runtime
  <1>2. Max({r.high, price}) \in Nat
    BY <1>1, MaxOfTwo DEF Price
  <1>3. CASE r.month # m
    <2>1. in = [month |-> m, high |-> price, tiers |-> {}, stop |-> r.stop]
      BY <1>3 DEF InMonth, Runtime
    <2> HIDE DEF in
    <2>2. in \in Runtime
      BY <2>1, <1>1 DEF Runtime, Price
    <2>3. AbstractRuntime(in) = [month |-> m, tiers |-> {}, stop |-> r.stop]
      BY <2>1 DEF AbstractRuntime
    <2>4. D!InMonth(AbstractRuntime(r), m) = [month |-> m, tiers |-> {}, stop |-> r.stop]
      <3> DEFINE art == [month |-> r.month, tiers |-> r.tiers, stop |-> r.stop]
      <3>1. D!InMonth(art, m) = [art EXCEPT !.month = m, !.tiers = {}]
        BY <1>3 DEF D!InMonth
      <3>2. [art EXCEPT !.month = m, !.tiers = {}] = [month |-> m, tiers |-> {}, stop |-> r.stop]
        <4>1. art \in D!RuntimeRow /\ art.stop = r.stop
          BY <1>1 DEF D!RuntimeRow, D!Tiers, Tiers
        <4> HIDE DEF art
        <4> DEFINE f == [art EXCEPT !.month = m, !.tiers = {}]
        <4>2. /\ f \in D!RuntimeRow
              /\ f.month = m /\ f.tiers = {} /\ f.stop = r.stop
          BY <4>1 DEF D!RuntimeRow
        <4> HIDE DEF f
        <4>3. f = [month |-> f.month, tiers |-> f.tiers, stop |-> f.stop]
          BY <4>2 DEF D!RuntimeRow
        <4>4. QED
          BY <4>2, <4>3 DEF f
      <3>3. QED
        BY <3>1, <3>2 DEF AbstractRuntime
    <2>5. in.stop = r.stop
      BY <2>1
    <2>6. QED
      BY <2>2, <2>3, <2>4, <2>5 DEF in
  <1>4. CASE r.month = m
    <2> DEFINE high == Max({r.high, price})
    <2>1. in = [r EXCEPT !.high = high]
      BY <1>4 DEF InMonth
    <2> HIDE DEF high, in
    <2>2. in = [month |-> r.month, high |-> high, tiers |-> r.tiers, stop |-> r.stop]
      BY <2>1 DEF Runtime
    <2>3. in \in Runtime
      BY <2>2, <1>1, <1>2 DEF Runtime, high
    <2>4. QED
      BY <2>2, <2>3, <1>4 DEF AbstractRuntime, D!InMonth, in
  <1>5. QED
    BY <1>3, <1>4

\* What the order and the runtime of an engine may be, and what they are for the
\* trading path.
SoundEngine(out, pf, r, m) ==
  /\ out.rt \in Runtime
  /\ out.order.action \in {"NONE", "BUY", "SELL"} /\ out.order.size \in Nat
  /\ r.stop => out.rt.stop /\ out.order.action # "SELL"
  /\ ~ r.stop /\ out.rt.stop =>
        IF pf.float = 0 THEN out.order.action = "NONE"
        ELSE out.order.action = "SELL" /\ out.order.size = pf.float

LEMMA MacroWell ==
  ASSUME NEW pf \in Portfolio, NEW r \in Runtime, NEW m \in Nat, NEW price \in Price,
         spawn.reserve \in Nat
  PROVE  LET out == Macro(pf, r, m, price)
         IN /\ SoundEngine(out, pf, r, m)
            /\ <<AbstractRuntime(out.rt), AbstractOrder(out.order, pf, m)>>
                 \in D!MacroDecisions(AbstractRow(pf), AbstractRuntime(r), m)
  <1> DEFINE in   == InMonth(r, m, price)
             left == Due(pf, in, price) \ in.tiers
             k    == Min(left)
             size == Amount(pf, k)
             next == [in EXCEPT !.tiers = @ \cup {k}]
             base == D!InMonth(AbstractRuntime(r), m)
  <1>1. in \in Runtime /\ in.stop = r.stop /\ AbstractRuntime(in) = base
    BY InMonthWell
  <1>2. r.stop \in BOOLEAN /\ in.tiers \in SUBSET Tiers
    BY <1>1 DEF Runtime
  <1> HIDE DEF in
  <1>3. CASE left = {}
    <2>1. Macro(pf, r, m, price) = [rt |-> in, order |-> NoIntent]
      BY <1>3 DEF Macro, in
    <2>2. SoundEngine([rt |-> in, order |-> NoIntent], pf, r, m)
      BY <1>1, <1>2 DEF SoundEngine, NoIntent
    <2>3. AbstractOrder(NoIntent, pf, m) = D!NoOrder
      BY DEF AbstractOrder, NoIntent
    <2>4. <<base, D!NoOrder>> \in D!MacroDecisions(AbstractRow(pf), AbstractRuntime(r), m)
      BY DEF D!MacroDecisions
    <2>5. QED
      BY <2>1, <2>2, <2>3, <2>4, <1>1
  <1>4. CASE left # {}
    <2>1. left \in SUBSET Nat
      BY DEF Due, Tiers
    <2>2. k \in left
      <3> HIDE DEF left
      <3>1. QED
        BY <2>1, <1>4, LeastOf
    <2>3. k \in Tiers /\ k \notin in.tiers /\ size >= MinOrder
      <3> HIDE DEF k
      <3>1. QED
        BY <2>2 DEF Due
    <2> HIDE DEF left, k
    <2>4. Macro(pf, r, m, price) = [rt |-> next, order |-> Buys(size, k)]
      BY <1>4 DEF Macro, in, left, k
    <2>5. next = [month |-> in.month, high |-> in.high, tiers |-> in.tiers \cup {k}, stop |-> in.stop]
      BY <1>1 DEF Runtime
    <2>6. next \in Runtime /\ next.stop = r.stop
      <3> HIDE DEF next
      <3>1. QED
        BY <2>5, <2>3, <1>1 DEF Runtime
    <2>7. SpendPct[k] \in 5 .. 15 /\ MinOrder \in Nat \ {0}
      BY <2>3, BacktestAssumption DEF Tiers, SpendPct
    <2>8. Spendable(pf) \in Nat
      BY Floor
    <2>9. size \in Nat /\ size <= Spendable(pf)
      <3>1. SpendPct[k] \in 0 .. 100
        BY <2>7
      <3>2. QED
        BY <3>1, <2>8, Share DEF Amount
    <2> HIDE DEF next, size
    <2>10. SoundEngine([rt |-> next, order |-> Buys(size, k)], pf, r, m)
      BY <2>6, <2>9, <1>2 DEF SoundEngine, Buys
    <2>11. AbstractOrder(Buys(size, k), pf, m) = D!Buy(m, k)
      BY DEF AbstractOrder, Buys
    <2>12. AbstractRuntime(next) = [base EXCEPT !.tiers = @ \cup {k}]
      <3>1. base = [month |-> in.month, tiers |-> in.tiers, stop |-> in.stop]
        BY <1>1 DEF AbstractRuntime
      <3>2. AbstractRuntime(next) = [month |-> in.month, tiers |-> in.tiers \cup {k}, stop |-> in.stop]
        BY <2>5 DEF AbstractRuntime
      <3> HIDE DEF base
      <3>3. QED
        BY <3>1, <3>2
    <2>13. k \notin base.tiers
      BY <2>3, <1>1 DEF AbstractRuntime
    <2>14. AbstractRow(pf).usdt > 0
      <3>1. Spendable(pf) >= 1
        BY <2>3, <2>7, <2>8, <2>9
      <3>2. Min({1, Spendable(pf)}) = 1
        BY <3>1, <2>8, MinOfTwo
      <3>3. QED
        BY <3>2 DEF AbstractRow
    <2>15. <<[base EXCEPT !.tiers = @ \cup {k}], D!Buy(m, k)>>
              \in D!MacroDecisions(AbstractRow(pf), AbstractRuntime(r), m)
      <3>1. k \in D!Tiers
        BY <2>3 DEF Tiers, D!Tiers
      <3> HIDE DEF base
      <3>2. k \in {j \in D!Tiers : AbstractRow(pf).usdt > 0 /\ j \notin base.tiers}
        BY <3>1, <2>13, <2>14
      <3>3. QED
        BY <3>2 DEF D!MacroDecisions, base
    <2>16. QED
      BY <2>4, <2>10, <2>11, <2>12, <2>15
  <1>5. QED
    BY <1>3, <1>4

LEMMA MicroWell ==
  ASSUME NEW pf \in Portfolio, NEW r \in Runtime, NEW m \in Nat, NEW price \in Price,
         NEW permille \in SellPermille
  PROVE  LET out == Micro(pf, r, price, permille)
         IN /\ SoundEngine(out, pf, r, m)
            /\ <<AbstractRuntime(out.rt), AbstractOrder(out.order, pf, m)>>
                 \in D!MicroDecisions(AbstractRow(pf), AbstractRuntime(r))
            /\ ~ r.stop /\ out.rt.stop => ~ ROIReaches(pf, price, -StopPct)
  <1> DEFINE arow  == AbstractRow(pf)
             art   == AbstractRuntime(r)
             share == (pf.float * permille) \div 1000
             next  == [r EXCEPT !.stop = TRUE]
             out   == Micro(pf, r, price, permille)
  <1>1. r.month \in Nat /\ r.high \in Nat /\ r.tiers \in SUBSET Tiers /\ r.stop \in BOOLEAN
    BY DEF Runtime
  <1>2. pf.float \in Nat
    BY DEF Portfolio
  <1>3. share \in Nat
    <2>1. permille \in 0 .. 1000
      BY BacktestAssumption
    <2>2. QED
      BY <1>2, <2>1, Permille
  <1>4. arow.float = IF pf.float = 0 THEN 0 ELSE 2
    BY DEF AbstractRow
  <1>5. art.stop = r.stop
    BY DEF AbstractRuntime
  <1>6. AbstractOrder(NoIntent, pf, m) = D!NoOrder
    BY DEF AbstractOrder, NoIntent
  <1>7. <<art, D!NoOrder>> \in D!MicroDecisions(arow, art)
    BY DEF D!MicroDecisions
  <1> HIDE DEF arow, share
  <1>8. CASE ~ r.stop /\ ~ ROIReaches(pf, price, -StopPct)
    <2> DEFINE order == IF pf.float > 0 THEN Sells(pf.float) ELSE NoIntent
    <2>1. out = [rt |-> next, order |-> order]
      BY <1>8 DEF Micro
    <2>2. next = [month |-> r.month, high |-> r.high, tiers |-> r.tiers, stop |-> TRUE]
      <3>1. \A v \in BOOLEAN : [r EXCEPT !.stop = v] =
               [month |-> r.month, high |-> r.high, tiers |-> r.tiers, stop |-> v]
        BY DEF Runtime
      <3>2. QED
        BY <3>1
    <2>3. next \in Runtime /\ next.stop
      <3> HIDE DEF next
      <3>1. QED
        BY <2>2, <1>1 DEF Runtime
    <2>4. AbstractRuntime(next) = [art EXCEPT !.stop = TRUE]
      <3>1. \A v \in BOOLEAN : [art EXCEPT !.stop = v] =
               [month |-> r.month, tiers |-> r.tiers, stop |-> v]
        BY DEF AbstractRuntime
      <3>2. [art EXCEPT !.stop = TRUE] = [month |-> r.month, tiers |-> r.tiers, stop |-> TRUE]
        BY <3>1
      <3> HIDE DEF next, art
      <3>3. AbstractRuntime(next) = [month |-> r.month, tiers |-> r.tiers, stop |-> TRUE]
        BY <2>2 DEF AbstractRuntime
      <3>4. QED
        BY <3>2, <3>3
    <2> HIDE DEF next, out
    <2>5. SoundEngine([rt |-> next, order |-> order], pf, r, m)
      BY <2>3, <1>8, <1>2 DEF SoundEngine, NoIntent, Sells
    <2>6. AbstractOrder(order, pf, m) = IF arow.float > 0 THEN D!Sell(arow.float) ELSE D!NoOrder
      BY <1>2, <1>4 DEF AbstractOrder, NoIntent, Sells, Part
    <2>7. <<[art EXCEPT !.stop = TRUE], IF arow.float > 0 THEN D!Sell(arow.float) ELSE D!NoOrder>>
             \in D!MicroDecisions(arow, art)
      <3> HIDE DEF art
      <3>1. QED
        BY <1>5, <1>8 DEF D!MicroDecisions
    <2> HIDE DEF order, art
    <2>8. out.rt = next /\ out.order = order
      BY <2>1
    <2>9. SoundEngine(out, pf, r, m)
      BY <2>1, <2>5
    <2>10. <<AbstractRuntime(out.rt), AbstractOrder(out.order, pf, m)>>
             \in D!MicroDecisions(arow, art)
      BY <2>4, <2>6, <2>7, <2>8
    <2>11. QED
      BY <2>9, <2>10, <1>8 DEF out, arow, art
  <1>9. CASE ~ (~ r.stop /\ ~ ROIReaches(pf, price, -StopPct))
    <2>1. CASE r.stop \/ pf.float = 0
      <3>1. out = [rt |-> r, order |-> NoIntent]
        BY <1>9, <2>1 DEF Micro
      <3>2. SoundEngine([rt |-> r, order |-> NoIntent], pf, r, m)
        BY <1>1 DEF SoundEngine, NoIntent
      <3> HIDE DEF out, art
      <3>3. QED
        BY <3>1, <3>2, <1>6, <1>7, <1>9 DEF out, arow, art
    <2>2. CASE ~ (r.stop \/ pf.float = 0)
      <3>1. out = [rt |-> r, order |-> Sells(share)]
        BY <1>9, <2>2 DEF Micro, share
      <3>2. SoundEngine([rt |-> r, order |-> Sells(share)], pf, r, m)
        BY <1>1, <1>3, <2>2 DEF SoundEngine, Sells
      <3>3. PICK q \in 1 .. arow.float : AbstractOrder(Sells(share), pf, m) = D!Sell(q)
        BY <1>4, <2>2 DEF AbstractOrder, Sells, Part
      <3>4. <<art, D!Sell(q)>> \in D!MicroDecisions(arow, art)
        <4> HIDE DEF art
        <4>1. QED
          BY <1>5, <2>2, <3>3 DEF D!MicroDecisions
      <3> HIDE DEF out, art
      <3>5. QED
        BY <3>1, <3>2, <3>3, <3>4, <1>9 DEF out, arow, art
    <2>3. QED
      BY <2>1, <2>2
  <1>10. QED
    BY <1>8, <1>9
\* A release needs a dead stack, and an ROI the stop-loss rules out.
LEMMA ReleaseWell ==
  ASSUME spawn \in Spawns, closes \in Paths, NEW pf \in Portfolio, NEW price \in Price
  PROVE  /\ Release(pf, price) \in Nat
         /\ Release(pf, price) # 0 => pf.dead > 0
         /\ ~ ROIReaches(pf, price, -StopPct) => Release(pf, price) = 0
  <1>1. /\ spawn.capital \in Nat \ {0} /\ spawn.trigger \in Nat /\ spawn.ratio \in 0 .. 100
        /\ StopPct \in 10 .. 30
    BY Given, BacktestAssumption
  <1>2. pf.dead \in Nat
    BY DEF Portfolio
  <1> DEFINE part == (pf.dead * spawn.ratio) \div 100
  <1>3. part \in Nat /\ part <= pf.dead
    BY <1>1, <1>2, Share
  <1>4. Release(pf, price) = IF ROIReaches(pf, price, spawn.trigger) THEN part ELSE 0
    BY DEF Release
  <1>5. ROIReaches(pf, price, spawn.trigger) => ROIReaches(pf, price, -StopPct)
    <2> DEFINE gain == (Worth(pf, price) - spawn.capital) * 100
    <2>1. gain \in Int
      BY <1>1, WorthType
    <2>2. spawn.trigger * spawn.capital >= 0 /\ spawn.trigger * spawn.capital \in Int
      BY <1>1
    <2>3. (-StopPct) * spawn.capital <= 0 /\ (-StopPct) * spawn.capital \in Int
      <3>1. StopPct * spawn.capital >= 0
        BY <1>1
      <3>2. (-StopPct) * spawn.capital = -(StopPct * spawn.capital)
        BY <1>1
      <3>3. QED
        BY <3>1, <3>2, <1>1
    <2> DEFINE least == spawn.trigger * spawn.capital
               loss  == (-StopPct) * spawn.capital
    <2>4. /\ ROIReaches(pf, price, spawn.trigger) <=> gain >= least
          /\ ROIReaches(pf, price, -StopPct) <=> gain >= loss
      BY DEF ROIReaches
    <2> HIDE DEF gain, least, loss
    <2>5. gain \in Int /\ least \in Int /\ loss \in Int /\ loss <= 0 /\ 0 <= least
      BY <2>1, <2>2, <2>3 DEF gain, least, loss
    <2>6. QED
      BY <2>4, <2>5
  <1> HIDE DEF part
  <1>6. QED
    BY <1>2, <1>3, <1>4, <1>5

SoundStep(out, pf, r, m) ==
  /\ SoundEngine(out, pf, r, m)
  /\ out.release \in Nat
  /\ ~ r.stop /\ out.rt.stop => out.release = 0
  /\ AbstractDecision(out, pf, m) \in D!Step(AbstractRow(pf), AbstractRuntime(r), m)

LEMMA StepWell ==
  ASSUME spawn \in Spawns, closes \in Paths, NEW state, NEW pf \in Portfolio, NEW r \in Runtime,
         NEW m \in Nat, NEW price \in Price, NEW permille \in SellPermille
  PROVE  SoundStep(Step(state, pf, r, m, price, permille), pf, r, m)
  <1> DEFINE engine == Engine(state, pf, r, m, price, permille)
             release == IF state \in {"SHORT", "QUIET"} THEN 0 ELSE Release(pf, price)
             out == Step(state, pf, r, m, price, permille)
             arow == AbstractRow(pf)
             art == AbstractRuntime(r)
             pair == <<AbstractRuntime(engine.rt), AbstractOrder(engine.order, pf, m)>>
  <1>1. out = [rt |-> engine.rt, order |-> engine.order, release |-> release]
    BY DEF Step
  <1>2. spawn.reserve \in Nat
    BY Given
  <1>3. r.stop \in BOOLEAN
    BY DEF Runtime
  <1>4. /\ release \in Nat
        /\ release # 0 => pf.dead > 0
        /\ ~ ROIReaches(pf, price, -StopPct) => release = 0
    BY ReleaseWell
  <1> HIDE DEF out, release
  <1>5. /\ SoundEngine(engine, pf, r, m)
        /\ pair \in D!MacroDecisions(arow, art, m) \cup D!MicroDecisions(arow, art)
        /\ ~ r.stop /\ engine.rt.stop => release = 0
    <2>1. CASE state = "BEAR"
      <3>1. engine = Macro(pf, r, m, price)
        BY <2>1 DEF Engine
      <3>2. /\ SoundEngine(engine, pf, r, m)
            /\ pair \in D!MacroDecisions(arow, art, m)
        <4> HIDE DEF arow, art, engine
        <4>1. QED
          BY <3>1, <1>2, MacroWell DEF arow, art
      <3>3. engine.rt.stop = r.stop
        <4> DEFINE in == InMonth(r, m, price)
        <4>1. in \in Runtime /\ in.stop = r.stop
          BY InMonthWell
        <4> HIDE DEF in
        <4>2. \A k : [in EXCEPT !.tiers = @ \cup {k}].stop = in.stop
          BY <4>1 DEF Runtime
        <4>3. engine.rt = in \/ \E k : engine.rt = [in EXCEPT !.tiers = @ \cup {k}]
          <5> HIDE DEF engine
          <5>1. QED
            BY <3>1 DEF Macro, in
        <4> HIDE DEF engine
        <4>4. QED
          BY <4>1, <4>2, <4>3
      <3>4. QED
        BY <3>2, <3>3
    <2>2. CASE state = "BULL"
      <3>1. engine = Micro(pf, r, price, permille)
        BY <2>2 DEF Engine
      <3> HIDE DEF engine
      <3>2. QED
        BY <3>1, <1>4, MicroWell
    <2>3. CASE state # "BEAR" /\ state # "BULL"
      <3>1. engine = [rt |-> r, order |-> NoIntent]
        BY <2>3 DEF Engine
      <3>2. SoundEngine([rt |-> r, order |-> NoIntent], pf, r, m)
        BY <1>3 DEF SoundEngine, NoIntent
      <3> HIDE DEF engine
      <3>3. engine.rt = r /\ engine.order = NoIntent
        BY <3>1
      <3>4. AbstractOrder(engine.order, pf, m) = D!NoOrder
        BY <3>3 DEF AbstractOrder, NoIntent
      <3>5. <<art, D!NoOrder>> \in D!MicroDecisions(arow, art)
        BY DEF D!MicroDecisions
      <3> HIDE DEF arow
      <3>6. QED
        BY <3>1, <3>2, <3>3, <3>4, <3>5
    <2>4. QED
      BY <2>1, <2>2, <2>3
  <1> HIDE DEF engine, arow, art
  <1>6. out.rt = engine.rt /\ out.order = engine.order /\ out.release = release
    BY <1>1
  <1>7. SoundEngine(out, pf, r, m)
    BY <1>5, <1>6 DEF SoundEngine
  <1>8. AbstractDecision(out, pf, m) \in D!Step(arow, art, m)
    <2> DEFINE one == IF release = 0 THEN 0 ELSE 1
    <2>1. one \in 0 .. D!Released(arow)
      <3>1. pf.dead \in Nat
        BY DEF Portfolio
      <3>2. arow.dead = Min({1, pf.dead})
        BY DEF arow, AbstractRow
      <3>3. arow.dead = IF pf.dead = 0 THEN 0 ELSE 1
        BY <3>1, <3>2, MinOfTwo
      <3>4. D!Released(arow) = IF pf.dead = 0 THEN 0 ELSE 1
        BY <3>3 DEF D!Released
      <3>5. one = 0 \/ (one = 1 /\ pf.dead # 0)
        BY <3>1, <1>4
      <3> HIDE DEF one
      <3>6. QED
        BY <3>4, <3>5
    <2>2. AbstractDecision(out, pf, m) = D!Decision(pair[1], pair[2], one)
      BY <1>6 DEF AbstractDecision
    <2> HIDE DEF pair, one
    <2>3. QED
      BY <2>1, <2>2, <1>5 DEF D!Step
  <1>9. ~ r.stop /\ out.rt.stop => out.release = 0
    BY <1>5, <1>6
  <1>10. out.release \in Nat
    BY <1>4, <1>6
  <1>11. SoundStep(out, pf, r, m)
    BY <1>7, <1>8, <1>9, <1>10 DEF SoundStep, arow, art
  <1>12. QED
    BY <1>11 DEF out
\* What becomes of the account when a sound decision is executed at the close.
SoundAccount(done, pf, out, r, price) ==
  /\ done \in Portfolio
  /\ done.usdt >= pf.usdt \/ done.usdt >= spawn.reserve
  /\ Worth(done, price) <= Worth(pf, price)
  /\ r.stop => done.float >= pf.float
  /\ ~ r.stop /\ out.rt.stop => ~ Sellable(done.float)

LEMMA AppliedWell ==
  ASSUME spawn \in Spawns, closes \in Paths, NEW pf \in Portfolio, NEW r \in Runtime, NEW m,
         NEW price \in Price, NEW out, SoundStep(out, pf, r, m)
  PROVE  SoundAccount(Applied(pf, out, price), pf, out, r, price)
  <1> DEFINE held == Ordered(pf, out.order, price)
             done == Applied(pf, out, price)
  <1>1. /\ SoundEngine(out, pf, r, m) /\ out.release \in Nat
        /\ ~ r.stop /\ out.rt.stop => out.release = 0
    BY DEF SoundStep
  <1>2. /\ out.order.action \in {"NONE", "BUY", "SELL"} /\ out.order.size \in Nat
        /\ r.stop => out.rt.stop /\ out.order.action # "SELL"
        /\ ~ r.stop /\ out.rt.stop =>
              IF pf.float = 0 THEN out.order.action = "NONE"
              ELSE out.order.action = "SELL" /\ out.order.size = pf.float
    BY <1>1 DEF SoundEngine
  <1>3. pf.usdt \in Nat /\ pf.float \in Nat /\ spawn.reserve \in Nat
    BY Given DEF Portfolio
  <1>4. Worth(pf, price) \in Nat
    BY WorthType
  <1>5. /\ held \in Portfolio
        /\ held.usdt >= pf.usdt \/ held.usdt >= spawn.reserve
        /\ Worth(held, price) <= Worth(pf, price)
        /\ r.stop => held.float >= pf.float
        /\ ~ r.stop /\ out.rt.stop => ~ Sellable(held.float)
    <2>1. CASE out.order.action = "BUY"
      <3>1. held = Bought(pf, out.order.size, price)
        BY <2>1 DEF Ordered
      <3> HIDE DEF held
      <3>2. /\ held \in Portfolio /\ held.float = pf.float
            /\ held.usdt = pf.usdt \/ held.usdt >= spawn.reserve
            /\ Worth(held, price) = Worth(pf, price)
        BY <3>1, <1>2, <1>3, BoughtWell
      <3>3. QED
        BY <3>2, <2>1, <1>2, <1>3, <1>4
    <2>2. CASE out.order.action = "SELL"
      <3>1. held = Sold(pf, out.order.size, price)
        BY <2>2 DEF Ordered
      <3> HIDE DEF held
      <3>2. /\ held \in Portfolio /\ held.usdt >= pf.usdt
            /\ Worth(held, price) <= Worth(pf, price)
            /\ out.order.size = pf.float => ~ Sellable(held.float)
        BY <3>1, <1>2, SoldWell
      <3>3. QED
        BY <3>2, <2>2, <1>2
    <2>3. CASE out.order.action = "NONE"
      <3>1. held = pf
        BY <2>3 DEF Ordered
      <3> HIDE DEF held
      <3>2. ~ Sellable(0)
        <4>1. Snapped(0) = 0
          BY SnapLess, BacktestAssumption
        <4>2. QED
          BY <4>1 DEF Sellable
      <3>3. QED
        BY <3>1, <3>2, <2>3, <1>2, <1>3, <1>4
    <2>4. QED
      BY <2>1, <2>2, <2>3, <1>2
  <1>6. done = Released(held, out.release)
    BY DEF Applied
  <1> HIDE DEF held, done
  <1>7. /\ done \in Portfolio /\ done.usdt = held.usdt /\ done.float >= held.float
        /\ Worth(done, price) = Worth(held, price)
        /\ out.release = 0 => done.float = held.float
    BY <1>1, <1>5, <1>6, ReleasedWell
  <1>8. held.float \in Nat /\ done.float \in Nat
    BY <1>5, <1>7 DEF Portfolio
  <1>9. SoundAccount(done, pf, out, r, price)
    BY <1>1, <1>3, <1>5, <1>7, <1>8 DEF SoundAccount
  <1>10. QED
    BY <1>9 DEF done

-----------------------------------------------------------------------------
(* The bars.  Besides the types, the evaluation has only begun on a bar that  *)
(* opened on its first day or later, for an injection is dated from there.    *)

BacktestInv ==
  /\ TypeOK
  /\ ReserveKept
  /\ inEval => bar \in 1 .. N /\ Days[bar] >= window.start

\* The bars are numbered in the order of their days.
LEMMA Ascending ==
  /\ N \in Nat \ {0}
  /\ \A i \in 1 .. N : Days[i] \in Nat
  /\ \A i, j \in 1 .. N : i <= j => Days[i] <= Days[j]
  <1>1. N \in Nat \ {0} /\ \A i \in 1 .. N : Days[i] \in Nat
    BY BacktestAssumption DEF N
  <1>2. \A i, j \in 1 .. N : i < j => Days[i] < Days[j]
    BY BacktestAssumption
  <1>3. QED
    BY <1>1, <1>2

LEMMA FirstIdxWell ==
  ASSUME NEW day \in Int, NEW b \in 1 .. N, Days[b] >= day
  PROVE  FirstIdx(day) \in 1 .. b /\ Days[FirstIdx(day)] >= day
  <1> DEFINE S == {N + 1} \cup {i \in 1 .. N : Days[i] >= day}
  <1>1. S \in SUBSET Nat /\ b \in S /\ b <= N
    BY Ascending
  <1>2. FirstIdx(day) = Min(S)
    BY DEF FirstIdx
  <1>3. Min(S) \in S /\ Min(S) <= b
    <2> HIDE DEF S
    <2>1. QED
      BY <1>1, LeastOf
  <1>4. QED
    BY <1>1, <1>2, <1>3, Ascending

\* A window begins on one of the bars, and its evaluation on a day.
LEMMA WindowWell ==
  ASSUME NEW w \in Windows
  PROVE  w.first \in 1 .. N /\ w.start \in Nat
  <1>1. PICK k \in DOMAIN Spans :
           w = [first |-> FirstIdx(EvalStart(Spans[k]) - WarmupDays), start |-> EvalStart(Spans[k])]
    BY DEF Windows
  <1>2. Spans[k] \in Nat /\ WarmupDays \in Nat
    BY BacktestAssumption
  <1>3. 1 \in 1 .. N /\ N \in 1 .. N /\ Days[1] \in Nat /\ Days[N] \in Nat /\ Days[1] <= Days[N]
    BY Ascending
  <1>4. EvalStart(Spans[k]) \in Nat /\ EvalStart(Spans[k]) <= Days[N]
    BY <1>2, <1>3 DEF EvalStart
  <1> DEFINE day == EvalStart(Spans[k]) - WarmupDays
  <1>5. day \in Int /\ Days[N] >= day
    BY <1>2, <1>3, <1>4
  <1> HIDE DEF day
  <1>6. FirstIdx(day) \in 1 .. N
    BY <1>3, <1>5, FirstIdxWell
  <1>7. QED
    BY <1>1, <1>4, <1>6 DEF day
\* One bar, with what Step saw and returned.
BarStep(b, begins, turns, pf, out, done, injection) ==
  /\ b = bar + 1 /\ b \in 1 .. N
  /\ begins = (~ inEval /\ Days[b] >= window.start)
  /\ turns => inEval \/ begins
  /\ pf \in Portfolio /\ done \in Portfolio
  /\ pf.usdt = (IF begins THEN spawn.capital ELSE portfolio.usdt) + (IF turns THEN spawn.inject ELSE 0)
  /\ pf.dead = portfolio.dead /\ pf.float = portfolio.float
  /\ SoundStep(out, pf, rt, Months[b])
  /\ IF inEval \/ begins THEN SoundAccount(done, pf, out, rt, closes[b]) ELSE done = pf
  /\ injection \in [day : Nat, amount : {spawn.inject}]
  /\ flows' = IF turns THEN Append(flows, injection) ELSE flows
  /\ nav' = IF inEval \/ begins THEN Append(nav, Worth(done, closes[b])) ELSE nav
  /\ rt' = out.rt /\ portfolio' = done /\ bar' = b /\ inEval' = (inEval \/ begins)
  /\ prevMonth' \in Nat /\ spawn' = spawn /\ closes' = closes /\ window' = window

LEMMA TickWell ==
  ASSUME BacktestInv, Tick
  PROVE  \E b, begins, turns, pf, out, done, injection :
           BarStep(b, begins, turns, pf, out, done, injection)
  <1> USE DEF BacktestInv
  <1> DEFINE b0      == bar + 1
             begins0 == ~ inEval /\ Days[b0] >= window.start
             eval0   == inEval \/ begins0
             turns0  == eval0 /\ Months[b0] # MonthBefore(begins0, b0) /\ spawn.inject > 0
             pf0     == Funded(begins0, turns0)
             added0  == [day |-> Days[b0] - Days[FirstIdx(window.start)], amount |-> spawn.inject]
  <1> DEFINE step(state, permille) == Step(state, pf0, rt, Months[b0], closes[b0], permille)
             done0(step0) == IF eval0 THEN Applied(pf0, step0, closes[b0]) ELSE pf0
  <1>0. PICK state \in MarketStates(b0), permille \in SellPermille :
           /\ rt' = step(state, permille).rt
           /\ portfolio' = done0(step(state, permille))
           /\ nav' = IF eval0 THEN Append(nav, Worth(done0(step(state, permille)), closes[b0])) ELSE nav
    BY Zenon DEF Tick, Begins, Turns
  <1>1. PICK out :
           /\ out = step(state, permille)
           /\ rt' = out.rt
           /\ portfolio' = done0(out)
           /\ nav' = IF eval0 THEN Append(nav, Worth(done0(out), closes[b0])) ELSE nav
    <2> HIDE DEF step, done0, eval0, b0
    <2>1. QED
      BY <1>0
  <1>2. /\ b0 <= N /\ bar' = b0 /\ inEval' = eval0
        /\ prevMonth' = IF turns0 THEN Months[b0] ELSE MonthBefore(begins0, b0)
        /\ flows' = IF turns0 THEN Append(flows, added0) ELSE flows
        /\ spawn' = spawn /\ closes' = closes /\ window' = window
    BY DEF Tick, Begins, Turns, given
  <1>3. PICK b : b = b0
    OBVIOUS
  <1>4. PICK begins : begins = begins0
    OBVIOUS
  <1>5. PICK turns : turns = turns0
    OBVIOUS
  <1>6. PICK eval : eval = eval0
    OBVIOUS
  <1>7. PICK pf : pf = pf0
    OBVIOUS
  <1>8. PICK injection : injection = added0
    OBVIOUS
  <1>9. PICK done : done = IF eval THEN Applied(pf, out, closes[b]) ELSE pf
    OBVIOUS
  <1>a. /\ b = bar + 1
        /\ begins = (~ inEval /\ Days[b] >= window.start)
        /\ eval = (inEval \/ begins)
        /\ injection = [day |-> Days[b] - Days[FirstIdx(window.start)], amount |-> spawn.inject]
        /\ turns => eval
    BY <1>3, <1>4, <1>5, <1>6, <1>8
  <1>b. pf = Funded(begins, turns)
    <2> HIDE DEF begins0, turns0
    <2>1. QED
      BY <1>4, <1>5, <1>7
  <1> HIDE DEF b0, begins0, eval0, turns0, pf0, added0
  <1>c. /\ out = Step(state, pf, rt, Months[b], closes[b], permille)
        /\ rt' = out.rt /\ portfolio' = done
        /\ nav' = IF eval THEN Append(nav, Worth(done, closes[b])) ELSE nav
    BY <1>1, <1>3, <1>6, <1>7, <1>9
  <1>d. /\ b <= N /\ bar' = b /\ inEval' = eval
        /\ prevMonth' = IF turns THEN Months[b] ELSE MonthBefore(begins, b)
        /\ flows' = IF turns THEN Append(flows, injection) ELSE flows
        /\ spawn' = spawn /\ closes' = closes /\ window' = window
    BY <1>2, <1>3, <1>4, <1>5, <1>6, <1>8
  <1>10. /\ spawn \in Spawns /\ closes \in Paths /\ portfolio \in Portfolio /\ rt \in Runtime
         /\ window.first \in 1 .. N /\ window.start \in Nat /\ inEval \in BOOLEAN
         /\ bar \in window.first - 1 .. N /\ prevMonth \in Nat
    BY DEF TypeOK
  <1>11. b \in 1 .. N
    BY <1>a, <1>d, <1>10, Ascending
  <1>12. /\ spawn.capital \in Nat /\ spawn.inject \in Nat
         /\ closes[b] \in Price /\ Months[b] \in Nat
    BY <1>10, <1>11, Given
  <1>13. /\ pf \in Portfolio
         /\ pf.usdt = (IF begins THEN spawn.capital ELSE portfolio.usdt)
                        + (IF turns THEN spawn.inject ELSE 0)
         /\ pf.dead = portfolio.dead /\ pf.float = portfolio.float
    <2> DEFINE more == (IF begins THEN spawn.capital ELSE portfolio.usdt)
                         + (IF turns THEN spawn.inject ELSE 0)
    <2>1. pf = [portfolio EXCEPT !.usdt = more]
      BY <1>b DEF Funded
    <2>2. more \in Nat
      BY <1>10, <1>12 DEF Portfolio
    <2> HIDE DEF more
    <2>3. [portfolio EXCEPT !.usdt = more] \in Portfolio
      BY <1>10, <2>2, Replaced
    <2>4. /\ [portfolio EXCEPT !.usdt = more].usdt = more
          /\ [portfolio EXCEPT !.usdt = more].dead = portfolio.dead
          /\ [portfolio EXCEPT !.usdt = more].float = portfolio.float
      BY <1>10 DEF Portfolio
    <2>5. QED
      BY <2>1, <2>3, <2>4 DEF more
  <1>14. SoundStep(out, pf, rt, Months[b])
    BY <1>c, <1>10, <1>12, <1>13, StepWell
  <1>15. SoundAccount(Applied(pf, out, closes[b]), pf, out, rt, closes[b])
    BY <1>10, <1>12, <1>13, <1>14, AppliedWell
  <1>16. /\ done \in Portfolio
         /\ IF eval THEN SoundAccount(done, pf, out, rt, closes[b]) ELSE done = pf
    BY <1>9, <1>13, <1>15 DEF SoundAccount
  <1>17. prevMonth' \in Nat
    BY <1>d, <1>10, <1>12 DEF MonthBefore
  <1>18. eval => Days[b] >= window.start
    <2>1. inEval => Days[bar] >= window.start /\ bar \in 1 .. N /\ Days[bar] <= Days[b]
      BY <1>a, <1>11, Ascending
    <2>2. QED
      BY <2>1, <1>a, <1>10, <1>11, Ascending
  <1>19. CASE eval
    <2>1. FirstIdx(window.start) \in 1 .. b
      BY <1>10, <1>11, <1>18, <1>19, FirstIdxWell
    <2>2. Days[b] - Days[FirstIdx(window.start)] \in Nat
      BY <2>1, <1>11, Ascending
    <2>3. injection \in [day : Nat, amount : {spawn.inject}]
      BY <1>a, <2>2
    <2>4. BarStep(b, begins, turns, pf, out, done, injection)
      BY <1>a, <1>c, <1>d, <1>11, <1>13, <1>14, <1>16, <1>17, <1>19, <2>3
      DEF BarStep
    <2>5. QED
      BY <2>4
  <1>20. CASE ~ eval
    <2> DEFINE none == [day |-> 0, amount |-> spawn.inject]
    <2>1. none \in [day : Nat, amount : {spawn.inject}]
      OBVIOUS
    <2>2. ~ turns
      BY <1>a, <1>20
    <2> HIDE DEF none
    <2>3. BarStep(b, begins, turns, pf, out, done, none)
      BY <1>a, <1>c, <1>d, <1>11, <1>13, <1>14, <1>16, <1>17, <1>20, <2>1, <2>2
      DEF BarStep
    <2>4. QED
      BY <2>3
  <1>21. QED
    BY <1>19, <1>20
LEMMA BacktestInit ==
  ASSUME Init
  PROVE  BacktestInv
  <1>1. spawn \in Spawns /\ closes \in Paths /\ window \in Windows /\ bar = window.first - 1
        /\ inEval = FALSE /\ prevMonth = 0 /\ flows = <<>> /\ nav = <<>>
    BY DEF Init
  <1>2. window.first \in 1 .. N /\ window.start \in Nat
    BY <1>1, WindowWell
  <1>3. bar \in window.first - 1 .. N
    BY <1>1, <1>2, Ascending
  <1>4. portfolio \in Portfolio /\ rt \in Runtime
    BY DEF Init, Portfolio, Runtime
  <1>5. flows \in Seq([day : Nat, amount : Nat]) /\ nav \in Seq(Nat)
    BY <1>1
  <1>6. TypeOK
    BY <1>1, <1>2, <1>3, <1>4, <1>5 DEF TypeOK
  <1>7. QED
    BY <1>1, <1>6 DEF BacktestInv, ReserveKept

LEMMA BacktestStep ==
  ASSUME BacktestInv, [Next]_vars
  PROVE  BacktestInv'
  <1> USE DEF BacktestInv
  <1>1. CASE Tick
    <2>1. PICK b, begins, turns, pf, out, done, injection :
             BarStep(b, begins, turns, pf, out, done, injection)
      BY <1>1, TickWell
    <2>2. /\ b = bar + 1 /\ b \in 1 .. N
          /\ begins = (~ inEval /\ Days[b] >= window.start)
          /\ pf \in Portfolio /\ done \in Portfolio
          /\ pf.usdt = (IF begins THEN spawn.capital ELSE portfolio.usdt)
                         + (IF turns THEN spawn.inject ELSE 0)
          /\ SoundStep(out, pf, rt, Months[b])
          /\ IF inEval \/ begins THEN SoundAccount(done, pf, out, rt, closes[b]) ELSE done = pf
          /\ injection \in [day : Nat, amount : {spawn.inject}]
          /\ flows' = IF turns THEN Append(flows, injection) ELSE flows
          /\ nav' = IF inEval \/ begins THEN Append(nav, Worth(done, closes[b])) ELSE nav
          /\ rt' = out.rt /\ portfolio' = done /\ bar' = b /\ inEval' = (inEval \/ begins)
          /\ prevMonth' \in Nat /\ spawn' = spawn /\ closes' = closes /\ window' = window
      BY <2>1 DEF BarStep
    <2>3. /\ spawn \in Spawns /\ closes \in Paths /\ portfolio \in Portfolio
          /\ window.first \in 1 .. N /\ window.start \in Nat /\ inEval \in BOOLEAN
          /\ bar \in window.first - 1 .. N
          /\ flows \in Seq([day : Nat, amount : Nat]) /\ nav \in Seq(Nat)
      BY DEF TypeOK
    <2>4. /\ spawn.capital \in Nat /\ spawn.inject \in Nat /\ spawn.reserve \in Nat
          /\ closes[b] \in Price
      BY <2>2, <2>3, Given
    <2>5. bar' \in window.first - 1 .. N
      BY <2>2, <2>3, Ascending
    <2>6. flows' \in Seq([day : Nat, amount : Nat])
      <3>1. injection \in [day : Nat, amount : Nat]
        BY <2>2, <2>4
      <3> DEFINE Funding == [day : Nat, amount : Nat]
      <3>2. flows \in Seq(Funding) /\ injection \in Funding
        BY <3>1, <2>3
      <3> HIDE DEF Funding
      <3>3. Append(flows, injection) \in Seq(Funding)
        BY <3>2
      <3>4. flows' \in Seq(Funding)
        BY <3>2, <3>3, <2>2
      <3>5. QED
        BY <3>4 DEF Funding
    <2>7. nav' \in Seq(Nat)
      BY <2>2, <2>3, <2>4, WorthType
    <2>8. rt' \in Runtime
      BY <2>2 DEF SoundStep, SoundEngine
    <2>9. inEval' \in BOOLEAN /\ inEval' = (inEval \/ begins)
      BY <2>2
    <2>10. TypeOK'
      BY <2>2, <2>3, <2>5, <2>6, <2>7, <2>8, <2>9 DEF TypeOK
    <2>11. ReserveKept'
      <3> DEFINE floor == Min({spawn.capital, spawn.reserve})
      <3>1. floor \in Nat /\ floor <= spawn.capital /\ floor <= spawn.reserve
        BY <2>4, MinOfTwo
      <3>2. portfolio.usdt \in Nat /\ pf.usdt \in Nat /\ done.usdt \in Nat
        BY <2>2, <2>3 DEF Portfolio
      <3>3. inEval => portfolio.usdt >= floor
        BY DEF ReserveKept
      <3> HIDE DEF floor
      <3>4. inEval \/ begins => pf.usdt >= floor
        <4>1. \/ pf.usdt = (IF begins THEN spawn.capital ELSE portfolio.usdt)
              \/ pf.usdt = (IF begins THEN spawn.capital ELSE portfolio.usdt) + spawn.inject
          BY <2>2, <2>4, <3>2
        <4>2. spawn.inject \in Nat /\ spawn.capital \in Nat
          BY <2>4
        <4>3. QED
          BY <3>1, <3>2, <3>3, <4>1, <4>2
      <3>5. inEval \/ begins => done.usdt >= pf.usdt \/ done.usdt >= spawn.reserve
        BY <2>2 DEF SoundAccount
      <3>6. inEval \/ begins => done.usdt >= floor
        BY <3>1, <3>2, <3>4, <3>5, <2>4
      <3>7. QED
        BY <3>6, <2>2 DEF ReserveKept, floor
    <2>12. inEval' => bar' \in 1 .. N /\ Days[bar'] >= window'.start
      <3>1. inEval => bar \in 1 .. N /\ Days[bar] >= window.start
        OBVIOUS
      <3>2. inEval => Days[bar] <= Days[b]
        BY <3>1, <2>2, Ascending
      <3>3. bar' = b /\ b \in 1 .. N /\ window'.start = window.start
            /\ inEval' = (inEval \/ (~ inEval /\ Days[b] >= window.start))
        BY <2>2
      <3>4. /\ Days[b] \in Nat /\ window.start \in Nat
            /\ \A d \in 1 .. N : Days[d] \in Nat
        BY <2>2, <2>3, Ascending
      <3>5. inEval => Days[b] >= window.start
        BY <3>1, <3>2, <3>4
      <3>6. QED
        BY <3>3, <3>5
    <2>13. QED
      BY <2>10, <2>11, <2>12
  <1>2. CASE Measure
    <2>1. UNCHANGED <<spawn, closes, window, bar, inEval, portfolio, rt, prevMonth, flows, nav>>
      BY <1>2 DEF Measure, given
    <2>2. QED
      BY <2>1 DEF TypeOK, ReserveKept
  <1>3. CASE UNCHANGED vars
    BY <1>3 DEF vars, given, TypeOK, ReserveKept
  <1>4. QED
    BY <1>1, <1>2, <1>3 DEF Next

LEMMA BacktestAlways == Spec => []BacktestInv
  <1>1. Init => BacktestInv
    BY BacktestInit
  <1>2. BacktestInv /\ [Next]_vars => BacktestInv'
    BY BacktestStep
  <1>3. QED
    BY <1>1, <1>2, PTL DEF Spec

\* Every account, runtime and injection of the loop has the type of its Go
\* counterpart, and no balance or stack is ever negative (adapter.go:47-140).
THEOREM BacktestTypeCorrect == Spec => []TypeOK
  <1>1. BacktestInv => TypeOK
    BY DEF BacktestInv
  <1>2. QED
    BY <1>1, BacktestAlways, PTL

\* No sequence of tiers, fees, roundings and injections spends the reserve floor,
\* whatever the closes (macro_engine.go:57-88, adapter.go:158-167).
THEOREM ReserveIsKept == Spec => []ReserveKept
  <1>1. BacktestInv => ReserveKept
    BY DEF BacktestInv
  <1>2. QED
    BY <1>1, BacktestAlways, PTL

\* The decisions computed from numbers are those the trading path was modelled
\* and proved with: a step refinement of the strategy (step.go:32-92).
THEOREM DecisionsAreImplemented == Spec => []ImplementsDecisions
  <1>1. BacktestInv => ImplementsDecisions
    <2> SUFFICES ASSUME BacktestInv, bar < N,
                        NEW b, b = bar + 1,
                        NEW pf, pf = Funded(Begins(b), Turns(b)),
                        NEW state \in MarketStates(b), NEW permille \in SellPermille
                 PROVE  AbstractDecision(Step(state, pf, rt, Months[b], closes[b], permille),
                                         pf, Months[b])
                          \in D!Step(AbstractRow(pf), AbstractRuntime(rt), Months[b])
      BY DEF ImplementsDecisions
    <2>1. /\ spawn \in Spawns /\ closes \in Paths /\ portfolio \in Portfolio /\ rt \in Runtime
          /\ window.first \in 1 .. N /\ bar \in window.first - 1 .. N
      BY DEF BacktestInv, TypeOK
    <2>2. b \in 1 .. N
      BY <2>1, Ascending
    <2>3. /\ closes[b] \in Price /\ Months[b] \in Nat
          /\ spawn.capital \in Nat /\ spawn.inject \in Nat
      BY <2>1, <2>2, Given
    <2>4. pf \in Portfolio
      <3>1. PICK begins, turns, more :
               /\ pf = Funded(begins, turns)
               /\ more = (IF begins THEN spawn.capital ELSE portfolio.usdt)
                           + (IF turns THEN spawn.inject ELSE 0)
        OBVIOUS
      <3>2. more \in Nat
        BY <2>1, <2>3, <3>1 DEF Portfolio
      <3>3. pf = [portfolio EXCEPT !.usdt = more]
        BY <3>1 DEF Funded
      <3>4. QED
        BY <2>1, <3>2, <3>3, Replaced
    <2>5. SoundStep(Step(state, pf, rt, Months[b], closes[b], permille), pf, rt, Months[b])
      BY <2>1, <2>3, <2>4, StepWell
    <2>6. QED
      BY <2>5 DEF SoundStep
  <1>2. QED
    BY <1>1, BacktestAlways, PTL

\* The stop-loss is final: from the bar it strikes, the stack it could sell is
\* gone and no order takes from what releases add to it (micro_engine.go:35-63).
THEOREM StopIsFinal == Spec => StopLossIsFinal
  <1> DEFINE Final ==
        /\ rt.stop => rt'.stop /\ portfolio'.float >= portfolio.float
        /\ inEval /\ ~ rt.stop /\ rt'.stop => ~ Sellable(portfolio'.float)
  <1>1. BacktestInv /\ [Next]_vars => [Final]_vars
    <2> SUFFICES ASSUME BacktestInv, Next
                 PROVE  Final
      OBVIOUS
    <2>1. portfolio.float \in Nat
      BY DEF BacktestInv, TypeOK, Portfolio
    <2>2. CASE Tick
      <3>1. PICK b, begins, turns, pf, out, done, injection :
               BarStep(b, begins, turns, pf, out, done, injection)
        BY <2>2, TickWell
      <3>2. /\ pf.float = portfolio.float /\ rt' = out.rt /\ portfolio' = done
            /\ SoundStep(out, pf, rt, Months[b])
            /\ IF inEval \/ begins THEN SoundAccount(done, pf, out, rt, closes[b]) ELSE done = pf
        BY <3>1 DEF BarStep
      <3>3. rt.stop => rt'.stop
        BY <3>2 DEF SoundStep, SoundEngine
      <3>4. QED
        BY <2>1, <3>2, <3>3 DEF SoundAccount
    <2>3. CASE Measure
      BY <2>1, <2>3 DEF Measure, given
    <2>4. QED
      BY <2>2, <2>3 DEF Next
  <1>2. QED
    BY <1>1, BacktestAlways, PTL DEF Spec, StopLossIsFinal
-----------------------------------------------------------------------------
(* The worth of the account.                                                  *)

Amounts(fs) == [i \in DOMAIN fs |-> fs[i].amount]

LEMMA InjectedMore ==
  ASSUME NEW fs \in Seq([day : Nat, amount : Nat]), NEW x \in [day : Nat, amount : Nat]
  PROVE  /\ Sum(Amounts(fs)) \in Int
         /\ Sum(Amounts(Append(fs, x))) = Sum(Amounts(fs)) + x.amount
  <1> DEFINE seq == Amounts(fs)
  <1>1. DOMAIN fs = 1 .. Len(fs) /\ Len(fs) \in Nat
    OBVIOUS
  <1>2. seq \in Seq(Int)
    <2>1. \A i \in 1 .. Len(fs) : fs[i].amount \in Int
      <3> DEFINE Funding == [day : Nat, amount : Nat]
      <3>1. fs \in Seq(Funding) /\ \A y \in Funding : y.amount \in Int
        OBVIOUS
      <3> HIDE DEF Funding
      <3>2. \A i \in 1 .. Len(fs) : fs[i] \in Funding
        BY <3>1
      <3>3. QED
        BY <3>1, <3>2
    <2>2. QED
      BY <1>1, <2>1 DEF Amounts
  <1>3. x.amount \in Int
    OBVIOUS
  <1>4. Amounts(Append(fs, x)) = Append(seq, x.amount)
    <2> DEFINE more == Append(fs, x)
               n    == Len(fs) + 1
    <2>1. /\ Len(more) = n /\ DOMAIN more = 1 .. n /\ more[n] = x
          /\ \A i \in 1 .. Len(fs) : more[i] = fs[i]
      OBVIOUS
    <2>2. /\ Len(seq) = Len(fs) /\ \A i \in 1 .. Len(fs) : seq[i] = fs[i].amount
      BY <1>1, <1>2 DEF Amounts
    <2> HIDE DEF seq
    <2>3. /\ Append(seq, x.amount) = [i \in 1 .. n |-> IF i = n THEN x.amount ELSE seq[i]]
      BY <1>2, <1>3, <2>2
    <2> HIDE DEF more
    <2>4. Amounts(more) = [i \in 1 .. n |-> more[i].amount]
      BY <2>1 DEF Amounts
    <2>5. \A i \in 1 .. n : more[i].amount = IF i = n THEN x.amount ELSE seq[i]
      BY <1>1, <2>1, <2>2
    <2>6. QED
      BY <2>3, <2>4, <2>5 DEF more
  <1> HIDE DEF seq
  <1>5. SumOfSeq(seq) \in Int /\ SumOfSeq(Append(seq, x.amount)) = SumOfSeq(seq) + x.amount
    BY <1>2, <1>3, SumOfSeqIsInt, SumOfAppended
  <1>6. \A s : Sum(s) = SumOfSeq(s)
    BY DEF Sum, SumOfSeq
  <1>7. QED
    BY <1>4, <1>5, <1>6 DEF seq

\* Trading at the close makes nobody richer, whatever the closes, the fee and the
\* lots: a bar adds to the account's worth at most what was paid in (adapter.go:153-194).
THEOREM NobodyRicher == Spec => NothingFromNothing
  <1> DEFINE paid == Sum(Amounts(flows')) - Sum(Amounts(flows))
             seed == IF inEval' /\ ~ inEval THEN spawn.capital ELSE 0
             Bounded == bar' # bar =>
               LET given0 == seed + Sum([i \in DOMAIN flows' |-> flows'[i].amount])
                               - Sum([i \in DOMAIN flows |-> flows[i].amount])
               IN Worth(portfolio', closes[bar']) <= Worth(portfolio, closes[bar']) + given0
  <1>1. BacktestInv /\ [Next]_vars => [Bounded]_vars
    <2> SUFFICES ASSUME BacktestInv, Next, bar' # bar
                 PROVE  LET given0 == seed + Sum(Amounts(flows')) - Sum(Amounts(flows))
                        IN Worth(portfolio', closes[bar']) <= Worth(portfolio, closes[bar']) + given0
      BY DEF Amounts
    <2>1. Tick
      BY DEF Next, Measure, given
    <2>2. PICK b, begins, turns, pf, out, done, injection :
             BarStep(b, begins, turns, pf, out, done, injection)
      BY <2>1, TickWell
    <2>3. /\ b \in 1 .. N
          /\ begins = (~ inEval /\ Days[b] >= window.start)
          /\ pf \in Portfolio /\ done \in Portfolio
          /\ pf.usdt = (IF begins THEN spawn.capital ELSE portfolio.usdt)
                         + (IF turns THEN spawn.inject ELSE 0)
          /\ pf.dead = portfolio.dead /\ pf.float = portfolio.float
          /\ IF inEval \/ begins THEN SoundAccount(done, pf, out, rt, closes[b]) ELSE done = pf
          /\ injection \in [day : Nat, amount : {spawn.inject}]
          /\ flows' = IF turns THEN Append(flows, injection) ELSE flows
          /\ portfolio' = done /\ bar' = b /\ inEval' = (inEval \/ begins)
      BY <2>2 DEF BarStep
    <2>4. /\ spawn \in Spawns /\ closes \in Paths /\ portfolio \in Portfolio /\ inEval \in BOOLEAN
          /\ flows \in Seq([day : Nat, amount : Nat])
      BY DEF BacktestInv, TypeOK
    <2>5. /\ spawn.capital \in Nat /\ spawn.inject \in Nat /\ closes[b] \in Price
      BY <2>3, <2>4, Given
    <2>6. injection \in [day : Nat, amount : Nat] /\ injection.amount = spawn.inject
      BY <2>3, <2>5
    <2>7. paid = IF turns THEN spawn.inject ELSE 0
      <3>1. PICK fs : fs = flows
        OBVIOUS
      <3>2. /\ Sum(Amounts(fs)) \in Int
            /\ Sum(Amounts(Append(fs, injection))) = Sum(Amounts(fs)) + injection.amount
        BY <3>1, <2>4, <2>6, InjectedMore
      <3>3. CASE turns
        BY <3>1, <3>2, <3>3, <2>3, <2>5, <2>6
      <3>4. CASE ~ turns
        BY <3>1, <3>2, <3>4, <2>3
      <3>5. QED
        BY <3>3, <3>4
    <2>8. seed = IF begins THEN spawn.capital ELSE 0
      BY <2>3, <2>4
    <2>9. seed + Sum(Amounts(flows')) - Sum(Amounts(flows)) = seed + paid
      <3>1. PICK fs, fs2 : fs = flows /\ fs2 = flows'
        OBVIOUS
      <3>2. fs2 \in Seq([day : Nat, amount : Nat]) /\ fs \in Seq([day : Nat, amount : Nat])
        <4> DEFINE Funding == [day : Nat, amount : Nat]
        <4>1. fs \in Seq(Funding) /\ injection \in Funding
          BY <3>1, <2>4, <2>6
        <4> HIDE DEF Funding
        <4>2. Append(fs, injection) \in Seq(Funding)
          BY <4>1
        <4>3. fs2 \in Seq(Funding)
          BY <3>1, <4>1, <4>2, <2>3
        <4>4. QED
          BY <4>1, <4>3 DEF Funding
      <3>3. Sum(Amounts(fs)) \in Int /\ Sum(Amounts(fs2)) \in Int
        BY <3>2, <2>6, InjectedMore
      <3>4. seed \in Int
        BY <2>5, <2>8
      <3> HIDE DEF seed
      <3>5. QED
        BY <3>1, <3>3, <3>4
    <2> HIDE DEF seed, paid
    <2>10. Worth(done, closes[b]) <= Worth(pf, closes[b])
      <3>1. Worth(pf, closes[b]) \in Nat
        BY <2>3, <2>5, WorthType
      <3>2. QED
        BY <3>1, <2>3 DEF SoundAccount
    <2>11. Worth(pf, closes[b]) <= Worth(portfolio, closes[b]) + (seed + paid)
      <3> DEFINE held == (portfolio.dead + portfolio.float) * closes[b]
      <3>1. held \in Int /\ portfolio.usdt \in Nat /\ pf.usdt \in Nat
        BY <2>3, <2>4, <2>5 DEF Portfolio, Price
      <3>2. Worth(pf, closes[b]) = pf.usdt + held /\ Worth(portfolio, closes[b]) = portfolio.usdt + held
        BY <2>3 DEF Worth
      <3> HIDE DEF held
      <3>3. pf.usdt <= portfolio.usdt + (seed + paid)
        BY <3>1, <2>3, <2>5, <2>7, <2>8
      <3>4. seed \in Int /\ paid \in Int
        BY <2>5, <2>7, <2>8
      <3>5. QED
        BY <3>1, <3>2, <3>3, <3>4
    <2>12. /\ Worth(done, closes[b]) \in Nat /\ Worth(pf, closes[b]) \in Nat
           /\ Worth(portfolio, closes[b]) \in Nat /\ seed \in Int /\ paid \in Int
      BY <2>3, <2>4, <2>5, <2>7, <2>8, WorthType
    <2>13. QED
      BY <2>3, <2>9, <2>10, <2>11, <2>12
  <1>2. QED
    BY <1>1, BacktestAlways, PTL DEF Spec, NothingFromNothing

-----------------------------------------------------------------------------
(* The drawdown.                                                              *)

\* A division rounds down, whatever the sign of the dividend.
LEMMA RoundsDown ==
  ASSUME NEW a \in Int, NEW d \in Nat \ {0}
  PROVE  /\ a \div d \in Int /\ (a \div d) * d <= a
         /\ \A k \in Int : k * d <= a => k <= a \div d
  <1> DEFINE q == a \div d
  <1>1. q \in Int /\ a = d * q + (a % d) /\ a % d \in 0 .. d - 1
    OBVIOUS
  <1> HIDE DEF q
  <1>2. q * d <= a /\ a < q * d + d
    BY <1>1
  <1>3. ASSUME NEW k \in Int, k * d <= a, k >= q + 1
        PROVE  FALSE
    <2>1. (k - q - 1) * d >= 0
      BY <1>1, <1>3
    <2>2. (k - q - 1) * d = k * d - q * d - d
      BY <1>1
    <2>3. QED
      BY <1>2, <1>3, <2>1, <2>2, <1>1
  <1>4. QED
    BY <1>1, <1>2, <1>3 DEF q

LEMMA FallIsInt ==
  ASSUME NEW from \in Nat \ {0}, NEW to \in Nat
  PROVE  Fall(from, to) \in Int
  BY RoundsDown DEF Fall

\* From a higher peak the fall is deeper.
LEMMA FallsFurther ==
  ASSUME NEW from \in Nat \ {0}, NEW peak \in Nat, NEW to \in Nat, from <= peak
  PROVE  Fall(from, to) <= Fall(peak, to)
  <1> DEFINE k == Fall(from, to)
  <1>1. k \in Int /\ k * from <= (from - to) * 1000
    BY RoundsDown DEF Fall
  <1> HIDE DEF k
  <1>2. 1000 * to <= (1000 - k) * from
    BY <1>1
  <1>3. k <= 1000
    <2> SUFFICES ASSUME k >= 1001
                 PROVE  FALSE
      BY <1>1
    <2>1. (k - 1001) * from >= 0
      BY <1>1
    <2>2. (k - 1001) * from = k * from - 1001 * from
      BY <1>1
    <2>3. QED
      BY <1>1, <2>1, <2>2
  <1>4. (1000 - k) * (peak - from) >= 0
    BY <1>1, <1>3
  <1>5. (1000 - k) * (peak - from) = (1000 - k) * peak - (1000 - k) * from
    BY <1>1
  <1>6. (1000 - k) * peak = 1000 * peak - k * peak
    BY <1>1
  <1>7. k * peak \in Int /\ (1000 - k) * from \in Int /\ (1000 - k) * peak \in Int
    BY <1>1
  <1>8. k * peak <= (peak - to) * 1000
    BY <1>1, <1>2, <1>4, <1>5, <1>6, <1>7
  <1>9. k <= Fall(peak, to)
    BY <1>1, <1>8, RoundsDown DEF Fall
  <1>10. QED
    BY <1>9 DEF k

Sunk == [peak : Nat, worst : Nat]

LEMMA DeeperWell ==
  ASSUME NEW a \in Sunk, NEW v \in Nat
  PROVE  /\ Deeper(a, v) \in Sunk
         /\ Deeper(a, v).peak \in {a.peak, v}
         /\ a.peak <= Deeper(a, v).peak /\ v <= Deeper(a, v).peak
         /\ a.worst <= Deeper(a, v).worst
         /\ Deeper(a, v).peak > 0 => Fall(Deeper(a, v).peak, v) <= Deeper(a, v).worst
         /\ \/ Deeper(a, v).worst = a.worst
            \/ /\ Deeper(a, v).peak > 0
               /\ Deeper(a, v).worst = Fall(Deeper(a, v).peak, v)
  <1> DEFINE peak  == Max({a.peak, v})
             worst == IF peak > 0 THEN Max({a.worst, Fall(peak, v)}) ELSE a.worst
  <1>1. a.peak \in Nat /\ a.worst \in Nat
    BY DEF Sunk
  <1>2. peak \in {a.peak, v} /\ a.peak <= peak /\ v <= peak
    BY <1>1, MaxOfTwo
  <1>3. Deeper(a, v) = [peak |-> peak, worst |-> worst]
    BY DEF Deeper, Fall
  <1> HIDE DEF peak
  <1>4. peak \in Nat
    BY <1>1, <1>2
  <1>5. peak > 0 => Fall(peak, v) \in Int
    BY <1>4, FallIsInt
  <1>6. /\ a.worst <= worst /\ worst \in Nat
        /\ peak > 0 => Fall(peak, v) <= worst
        /\ worst = a.worst \/ (peak > 0 /\ worst = Fall(peak, v))
    <2>1. CASE peak > 0
      <3>1. Fall(peak, v) \in Int /\ worst = Max({a.worst, Fall(peak, v)}) /\ a.worst \in Int
        BY <2>1, <1>1, <1>5
      <3>2. worst = IF a.worst >= Fall(peak, v) THEN a.worst ELSE Fall(peak, v)
        BY <3>1, MaxOfTwo
      <3> HIDE DEF worst
      <3>3. QED
        BY <3>1, <3>2, <2>1, <1>1
    <2>2. CASE ~ (peak > 0)
      BY <2>2, <1>1
    <2>3. QED
      BY <2>1, <2>2
  <1> HIDE DEF worst
  <1>7. QED
    BY <1>2, <1>3, <1>4, <1>6 DEF Sunk

\* What the loop has found after k values: the peak, and the worst pair of them.
FoundWorst(a, k, curve) ==
  /\ \E i \in {1} \cup 1 .. k : a.peak = curve[i]
  /\ \A i \in {1} \cup 1 .. k : curve[i] <= a.peak
  /\ \A i, j \in 1 .. k : i <= j /\ curve[i] > 0 => Fall(curve[i], curve[j]) <= a.worst
  /\ a.worst # 0 => \E i, j \in 1 .. k : i <= j /\ curve[i] > 0 /\ a.worst = Fall(curve[i], curve[j])

LEMMA FindsWorse ==
  ASSUME NEW curve \in Seq(Nat), NEW k \in 1 .. Len(curve), NEW a \in Sunk,
         FoundWorst(a, k - 1, curve)
  PROVE  FoundWorst(Deeper(a, curve[k]), k, curve)
  <1> DEFINE v == curve[k]
             d == Deeper(a, v)
  <1>1. /\ k \in Nat /\ v \in Nat /\ {1} \cup 1 .. k = 1 .. k
        /\ 1 .. k = ({1} \cup 1 .. (k - 1)) \cup {k} /\ {1} \cup 1 .. (k - 1) \subseteq 1 .. k
        /\ \A i \in 1 .. k : curve[i] \in Nat
    OBVIOUS
  <1>2. /\ d \in Sunk /\ d.peak \in {a.peak, v} /\ a.peak <= d.peak /\ v <= d.peak
        /\ a.worst <= d.worst
        /\ d.peak > 0 => Fall(d.peak, v) <= d.worst
        /\ d.worst = a.worst \/ (d.peak > 0 /\ d.worst = Fall(d.peak, v))
    BY <1>1, DeeperWell
  <1>3. a.peak \in Nat /\ a.worst \in Nat /\ d.peak \in Nat /\ d.worst \in Nat
    BY <1>2 DEF Sunk
  <1> HIDE DEF v, d
  <1>4. PICK p \in 1 .. k : d.peak = curve[p]
    BY <1>1, <1>2 DEF FoundWorst, v
  <1>5. \A i \in 1 .. k : curve[i] <= d.peak
    <2>1. \A i \in {1} \cup 1 .. (k - 1) : curve[i] <= a.peak /\ curve[i] \in Nat
      BY <1>1 DEF FoundWorst
    <2>2. \A i \in {1} \cup 1 .. (k - 1) : curve[i] <= d.peak
      BY <2>1, <1>2, <1>3
    <2>3. curve[k] <= d.peak
      BY <1>2 DEF v
    <2>4. QED
      BY <2>2, <2>3, <1>1
  <1>6. ASSUME NEW i \in 1 .. k, NEW j \in 1 .. k, i <= j, curve[i] > 0
        PROVE  Fall(curve[i], curve[j]) <= d.worst
    <2>1. /\ curve[i] \in Nat \ {0} /\ curve[j] \in Nat /\ curve[i] <= d.peak
          /\ d.peak \in Nat \ {0}
      BY <1>1, <1>3, <1>5, <1>6
    <2>2. Fall(curve[i], curve[j]) \in Int /\ Fall(d.peak, v) \in Int
      BY <2>1, <1>1, FallIsInt
    <2>3. CASE j = k
      <3>1. Fall(curve[i], v) <= Fall(d.peak, v)
        BY <2>1, <1>1, FallsFurther
      <3>2. Fall(d.peak, v) <= d.worst
        BY <1>2, <2>1
      <3>3. Fall(curve[i], v) <= d.worst
        BY <3>1, <3>2, <2>2, <2>3, <1>3 DEF v
      <3>4. QED
        BY <3>3, <2>3 DEF v
    <2>4. CASE j # k
      <3>1. i \in 1 .. (k - 1) /\ j \in 1 .. (k - 1)
        BY <1>6, <2>4
      <3>2. Fall(curve[i], curve[j]) <= a.worst
        BY <3>1, <1>6 DEF FoundWorst
      <3>3. QED
        BY <3>2, <2>2, <1>2, <1>3
    <2>5. QED
      BY <2>3, <2>4
  <1>7. ASSUME d.worst # 0
        PROVE  \E i, j \in 1 .. k : i <= j /\ curve[i] > 0 /\ d.worst = Fall(curve[i], curve[j])
    <2>1. CASE d.worst = a.worst
      <3>1. PICK i, j \in 1 .. (k - 1) : i <= j /\ curve[i] > 0 /\ a.worst = Fall(curve[i], curve[j])
        BY <1>7, <2>1 DEF FoundWorst
      <3>2. i \in 1 .. k /\ j \in 1 .. k
        BY <1>1
      <3>3. QED
        BY <3>1, <3>2, <2>1
    <2>2. CASE d.peak > 0 /\ d.worst = Fall(d.peak, v)
      <3>1. p <= k /\ k \in 1 .. k
        BY <1>1
      <3>2. QED
        BY <2>2, <3>1, <1>4 DEF v
    <2>3. QED
      BY <2>1, <2>2, <1>2
  <1>8. FoundWorst(d, k, curve)
    BY <1>1, <1>4, <1>5, <1>6, <1>7 DEF FoundWorst
  <1>9. QED
    BY <1>8 DEF d, v

\* MaxDrawdown, as the loop that FoldLeft is.
LEMMA DrawdownLoop ==
  ASSUME NEW curve \in Seq(Nat), curve # <<>>
  PROVE  \E a : /\ a[0] = [peak |-> Head(curve), worst |-> 0]
                /\ \A k \in 1 .. Len(curve) : a[k] = Deeper(a[k - 1], curve[k])
                /\ MaxDrawdown(curve) = a[Len(curve)].worst
  <1> DEFINE n    == Len(curve)
             S    == DOMAIN curve
             base == [peak |-> Head(curve), worst |-> 0]
             F    == [p \in Sunk \X Nat |-> Deeper(p[1], p[2])]
             Raw(g) == g = [t \in SUBSET S |->
                              IF t = {} THEN base ELSE Deeper(g[t \ {Max(t)}], curve[Max(t)])]
             G == CHOOSE g : Raw(g)
  <1>1. MaxDrawdown(curve) = G[S].worst
    BY DEF MaxDrawdown, FoldLeft, MapThenFoldSet
  <1>2. base \in Sunk /\ n \in Nat /\ S = 1 .. n /\ \A k \in S : curve[k] \in Nat
    BY DEF Sunk
  <1>3. F \in [Sunk \X Nat -> Sunk]
    BY DeeperWell
  <1> HIDE DEF base
  <1>4. PICK g : FoldsLeft(g, base, F, curve) /\ \A t \in SUBSET S : g[t] \in Sunk
    <2> HIDE DEF F
    <2>1. QED
      BY <1>2, <1>3, FoldRuns
  <1>5. ASSUME NEW t \in SUBSET S, t # {}
        PROVE  F[<<g[t \ {Max(t)}], curve[Max(t)]>>] = Deeper(g[t \ {Max(t)}], curve[Max(t)])
    <2>1. Max(t) \in S
      BY <1>2, <1>5, MaxOfRange
    <2>2. g[t \ {Max(t)}] \in Sunk /\ curve[Max(t)] \in Nat
      BY <1>2, <1>4, <2>1
    <2> HIDE DEF S
    <2>3. QED
      BY <2>2
  <1>6. Raw(g)
    <2> HIDE DEF F
    <2>1. QED
      BY <1>4, <1>5 DEF FoldsLeft
  <1>7. Raw(G)
    <2> HIDE DEF Raw
    <2>1. QED
      BY <1>6
  <1> HIDE DEF G, F
  <1> DEFINE a == [k \in 0 .. n |-> G[1 .. k]]
  <1>8. a[0] = base
    <2>1. 1 .. 0 = {} /\ G[{}] = base
      BY <1>7
    <2>2. QED
      BY <2>1, <1>2
  <1>9. ASSUME NEW k \in 1 .. n
        PROVE  a[k] = Deeper(a[k - 1], curve[k])
    <2>1. /\ 1 .. k \in SUBSET S /\ 1 .. k # {}
          /\ Max(1 .. k) = k /\ (1 .. k) \ {k} = 1 .. (k - 1)
      BY <1>2, LastOfPrefix
    <2>2. G[1 .. k] = Deeper(G[1 .. (k - 1)], curve[k])
      <3> HIDE DEF S
      <3>1. QED
        BY <1>7, <2>1
    <2>3. QED
      BY <2>2, <1>2
  <1>10. MaxDrawdown(curve) = a[n].worst
    BY <1>1, <1>2
  <1> HIDE DEF a, n
  <1>11. QED
    BY <1>8, <1>9, <1>10 DEF base, n

\* The one pass finds the worst pair.
LEMMA OnePassSuffices ==
  ASSUME NEW curve \in Seq(Nat), curve # <<>>
  PROVE  MaxDrawdown(curve) \in Nat /\ MaxDrawdown(curve) = WorstPair(curve)
  <1> DEFINE n == Len(curve)
  <1>1. n \in Nat \ {0} /\ Head(curve) = curve[1] /\ \A i \in 1 .. n : curve[i] \in Nat
    OBVIOUS
  <1>2. PICK a : /\ a[0] = [peak |-> Head(curve), worst |-> 0]
                 /\ \A k \in 1 .. n : a[k] = Deeper(a[k - 1], curve[k])
                 /\ MaxDrawdown(curve) = a[n].worst
    BY DrawdownLoop
  <1> DEFINE P == {k \in 0 .. n : a[k] \in Sunk /\ FoundWorst(a[k], k, curve)}
  <1>3. 0 \in P
    <2>1. 1 \in {1} \cup 1 .. 0 /\ 1 .. 0 = {} /\ 1 \in 1 .. n /\ curve[1] \in Nat /\ 0 \in 0 .. n
      BY <1>1
    <2>2. a[0] \in Sunk /\ a[0].peak = curve[1] /\ a[0].worst = 0
      BY <1>1, <1>2, <2>1 DEF Sunk
    <2>3. FoundWorst(a[0], 0, curve)
      BY <2>1, <2>2 DEF FoundWorst
    <2>4. QED
      BY <2>1, <2>2, <2>3
  <1>4. ASSUME NEW k \in 1 .. n, k - 1 \in P
        PROVE  k \in P
    <2>1. k \in 0 .. n /\ curve[k] \in Nat
      BY <1>1
    <2>2. a[k - 1] \in Sunk /\ FoundWorst(a[k - 1], k - 1, curve)
      BY <1>4
    <2>3. a[k] = Deeper(a[k - 1], curve[k])
      BY <1>2
    <2>4. a[k] \in Sunk /\ FoundWorst(a[k], k, curve)
      BY <2>1, <2>2, <2>3, DeeperWell, FindsWorse
    <2>5. QED
      BY <2>1, <2>4
  <1>5. n \in P
    <2>1. 0 .. n \subseteq P
      <3> HIDE DEF P
      <3>1. QED
        BY <1>1, <1>3, <1>4, StepByStep
    <2>2. QED
      BY <1>1, <2>1
  <1>6. a[n] \in Sunk /\ FoundWorst(a[n], n, curve)
    BY <1>5
  <1> DEFINE T == {0} \cup {Fall(curve[p[1]], curve[p[2]]) :
                            p \in {q \in (1 .. n) \X (1 .. n) : q[1] <= q[2] /\ curve[q[1]] > 0}}
             w == a[n].worst
  <1>7. w \in Nat
    BY <1>6 DEF Sunk
  <1>8. w \in T
    <2>1. ASSUME NEW i \in 1 .. n, NEW j \in 1 .. n, i <= j, curve[i] > 0
          PROVE  Fall(curve[i], curve[j]) \in T
      <3>1. <<i, j>> \in {q \in (1 .. n) \X (1 .. n) : q[1] <= q[2] /\ curve[q[1]] > 0}
        BY <2>1
      <3>2. QED
        BY <3>1
    <2> HIDE DEF T, w
    <2>2. 0 \in T
      BY DEF T
    <2>3. QED
      BY <2>1, <2>2, <1>6 DEF FoundWorst, w
  <1>9. \A x \in T : x \in Int /\ x <= w
    <2>1. ASSUME NEW p \in (1 .. n) \X (1 .. n), p[1] <= p[2], curve[p[1]] > 0
          PROVE  Fall(curve[p[1]], curve[p[2]]) \in Int /\ Fall(curve[p[1]], curve[p[2]]) <= w
      <3>1. p[1] \in 1 .. n /\ p[2] \in 1 .. n
        OBVIOUS
      <3>2. curve[p[1]] \in Nat \ {0} /\ curve[p[2]] \in Nat
        BY <3>1, <2>1, <1>1
      <3>3. Fall(curve[p[1]], curve[p[2]]) \in Int
        BY <3>2, FallIsInt
      <3>4. QED
        BY <3>1, <3>3, <2>1, <1>6 DEF FoundWorst, w
    <2>2. 0 \in Int /\ 0 <= w
      BY <1>7
    <2> HIDE DEF w, n
    <2>3. QED
      BY <2>1, <2>2
  <1> HIDE DEF T, w
  <1>10. Max(T) = w
    <2>1. \A x \in T : w >= x
      BY <1>7, <1>9
    <2>2. PICK m : m = Max(T)
      OBVIOUS
    <2>3. m \in T /\ \A x \in T : m >= x
      BY <2>1, <2>2, <1>8 DEF Max
    <2>4. m \in Int /\ m <= w /\ m >= w
      BY <2>3, <1>8, <1>9
    <2>5. QED
      BY <2>2, <2>4, <1>7
  <1>11. WorstPair(curve) = Max(T)
    BY DEF WorstPair, T
  <1>12. QED
    BY <1>2, <1>7, <1>10, <1>11 DEF w

-----------------------------------------------------------------------------
(* The baseline, as the loop that FoldLeft is.                                *)

First   == FirstIdx(window.start)
Funding == [day : Nat, amount : Nat]

GhostAccount == [units : Nat, month : Nat, flows : Seq(Funding), nav : Seq(Nat) \ {<<>>}]

GhostStart ==
  [units |-> spawn.capital \div closes[First], month |-> Months[First], flows |-> <<>>,
   nav   |-> <<(spawn.capital \div closes[First]) * closes[First]>>]

IsGhost(a) ==
  /\ a[0] = GhostStart
  /\ \A k \in 1 .. N - First : a[k] = GhostBar(a[k - 1], First + k)

LEMMA GhostBarWell ==
  ASSUME spawn \in Spawns, closes \in Paths, First \in 1 .. N,
         NEW g \in GhostAccount, NEW b \in First .. N
  PROVE  GhostBar(g, b) \in GhostAccount
  <1> DEFINE turns == Months[b] # g.month /\ spawn.inject > 0
             units == g.units + (IF turns THEN spawn.inject \div closes[b] ELSE 0)
             day   == Days[b] - Days[First]
             month == IF turns THEN Months[b] ELSE g.month
             fs    == IF turns THEN Append(g.flows, [day |-> day, amount |-> spawn.inject]) ELSE g.flows
             curve == Append(g.nav, units * closes[b])
  <1>1. b \in 1 .. N /\ First <= b
    BY Ascending
  <1>2. spawn.inject \in Nat /\ closes[b] \in Nat \ {0} /\ Months[b] \in Nat
    BY <1>1, Given DEF Price
  <1>3. day \in Nat
    BY <1>1, Ascending
  <1>4. g.units \in Nat /\ g.month \in Nat /\ g.flows \in Seq(Funding) /\ g.nav \in Seq(Nat)
    BY DEF GhostAccount
  <1>5. units \in Nat
    <2>1. spawn.inject \div closes[b] \in Nat
      BY <1>2, Quotient
    <2>2. QED
      BY <2>1, <1>4
  <1>6. month \in Nat
    BY <1>2, <1>4
  <1>7. fs \in Seq(Funding)
    <2>1. [day |-> day, amount |-> spawn.inject] \in Funding
      BY <1>2, <1>3 DEF Funding
    <2> HIDE DEF day, turns
    <2>2. QED
      BY <2>1, <1>4
  <1>8. curve \in Seq(Nat) \ {<<>>}
    <2>1. units * closes[b] \in Nat
      <3> HIDE DEF units
      <3>1. QED
        BY <1>2, <1>5
    <2>2. \A v \in Nat : Append(g.nav, v) \in Seq(Nat) \ {<<>>}
      BY <1>4
    <2> HIDE DEF units
    <2>3. QED
      BY <2>1, <2>2
  <1>9. GhostBar(g, b) = [units |-> units, month |-> month, flows |-> fs, nav |-> curve]
    BY DEF GhostBar, First
  <1> HIDE DEF units, month, fs, curve
  <1>10. QED
    BY <1>5, <1>6, <1>7, <1>8, <1>9 DEF GhostAccount

LEMMA GhostLoop ==
  ASSUME spawn \in Spawns, closes \in Paths, First \in 1 .. N
  PROVE  \E a : IsGhost(a) /\ a[N - First] \in GhostAccount /\ Ghost = a[N - First]
  <1> DEFINE n   == N - First
             seq == [i \in 1 .. n |-> First + i]
             S   == DOMAIN seq
             F   == [p \in GhostAccount \X (First .. N) |-> GhostBar(p[1], p[2])]
             Raw(g) == g = [t \in SUBSET S |->
                              IF t = {} THEN GhostStart ELSE GhostBar(g[t \ {Max(t)}], seq[Max(t)])]
             G == CHOOSE g : Raw(g)
  <1>1. Ghost = G[S]
    BY DEF Ghost, GhostStart, First, FoldLeft, MapThenFoldSet
  <1>2. /\ First \in Nat /\ N \in Nat /\ n \in Nat /\ First + n = N
        /\ \A k \in 1 .. n : First + k \in First .. N
    BY Ascending
  <1>3. /\ seq \in Seq(First .. N) /\ Len(seq) = n /\ S = 1 .. n
        /\ \A k \in 1 .. n : seq[k] = First + k
    <2> HIDE DEF n
    <2>1. QED
      BY <1>2
  <1>4. GhostStart \in GhostAccount
    <2>1. spawn.capital \in Nat /\ closes[First] \in Nat \ {0} /\ Months[First] \in Nat
      BY Given DEF Price
    <2>2. spawn.capital \div closes[First] \in Nat
      BY <2>1, Quotient
    <2>3. <<(spawn.capital \div closes[First]) * closes[First]>> \in Seq(Nat) \ {<<>>}
      BY <2>1, <2>2
    <2>4. QED
      BY <2>1, <2>2, <2>3 DEF GhostStart, GhostAccount
  <1>5. F \in [GhostAccount \X (First .. N) -> GhostAccount]
    BY GhostBarWell
  <1>6. PICK g : FoldsLeft(g, GhostStart, F, seq) /\ \A t \in SUBSET S : g[t] \in GhostAccount
    <2> HIDE DEF F, seq
    <2>1. QED
      BY <1>3, <1>4, <1>5, FoldRuns
  <1>7. ASSUME NEW t \in SUBSET S, t # {}
        PROVE  F[<<g[t \ {Max(t)}], seq[Max(t)]>>] = GhostBar(g[t \ {Max(t)}], seq[Max(t)])
    <2> HIDE DEF seq
    <2>1. Max(t) \in S
      BY <1>2, <1>3, <1>7, MaxOfRange
    <2>2. g[t \ {Max(t)}] \in GhostAccount /\ seq[Max(t)] \in First .. N
      BY <1>2, <1>3, <1>6, <2>1
    <2> HIDE DEF S
    <2>3. QED
      BY <2>2
  <1>8. Raw(g)
    <2> HIDE DEF F
    <2>1. QED
      BY <1>6, <1>7 DEF FoldsLeft
  <1>9. Raw(G)
    <2> HIDE DEF Raw
    <2>1. QED
      BY <1>8
  <1> HIDE DEF seq, n
  <1> DEFINE a == [k \in 0 .. n |-> G[1 .. k]]
  <1>10. a[0] = GhostStart
    <2> HIDE DEF G, S
    <2>1. 1 .. 0 = {} /\ G[{}] = GhostStart
      BY <1>9
    <2>2. QED
      BY <2>1, <1>2
  <1>11. ASSUME NEW k \in 1 .. n
        PROVE  a[k] = GhostBar(a[k - 1], First + k)
    <2>1. /\ 1 .. k \in SUBSET S /\ 1 .. k # {}
          /\ Max(1 .. k) = k /\ (1 .. k) \ {k} = 1 .. (k - 1)
      BY <1>2, <1>3, LastOfPrefix
    <2>2. G[1 .. k] = GhostBar(G[1 .. (k - 1)], seq[k])
      <3> HIDE DEF S, G
      <3>1. QED
        BY <1>9, <2>1
    <2> HIDE DEF G
    <2>3. QED
      BY <2>2, <1>2, <1>3
  <1>12. Ghost = a[n]
    BY <1>1, <1>2, <1>3
  <1>13. IsGhost(a)
    <2> HIDE DEF a
    <2>1. QED
      BY <1>10, <1>11 DEF IsGhost, n
  <1>14. a[n] \in GhostAccount
    <2> DEFINE P == {k \in 0 .. n : a[k] \in GhostAccount}
    <2> HIDE DEF a
    <2>1. 0 \in P
      BY <1>2, <1>4, <1>10
    <2>2. ASSUME NEW k \in 1 .. n, k - 1 \in P
          PROVE  k \in P
      <3>1. a[k] = GhostBar(a[k - 1], First + k) /\ a[k - 1] \in GhostAccount /\ k \in 0 .. n
            /\ First + k \in First .. N
        BY <1>2, <1>11, <2>2
      <3>2. QED
        BY <3>1, GhostBarWell
    <2> HIDE DEF P
    <2>3. n \in P
      BY <1>2, <2>1, <2>2, StepByStep
    <2>4. QED
      BY <2>3 DEF P
  <1>15. QED
    BY <1>12, <1>13, <1>14 DEF n

-----------------------------------------------------------------------------
(* The return on what was paid in grows with the equity.                      *)

LEMMA RicherReturns ==
  ASSUME spawn.capital \in Nat \ {0}, NEW fs \in Seq(Funding), NEW days \in Nat,
         \A i \in 1 .. Len(fs) : fs[i].day <= days,
         NEW poor \in Nat, NEW rich \in Nat, poor <= rich
  PROVE  /\ ROI(poor, fs, days) \in Int /\ ROI(rich, fs, days) \in Int
         /\ ROI(poor, fs, days) <= ROI(rich, fs, days)
  <1> DEFINE span   == Max({days, 1})
             shares == [i \in DOMAIN fs |->
                          fs[i].amount * (IF days > 0 THEN days - fs[i].day ELSE 1)]
             base   == Base(fs, days)
  <1>1. span \in Nat /\ span >= 1
    BY MaxOfTwo
  <1>2. Sum(Amounts(fs)) \in Int
    <2>1. [day |-> 0, amount |-> 0] \in [day : Nat, amount : Nat]
      OBVIOUS
    <2>2. QED
      BY <2>1, InjectedMore DEF Funding
  <1>3. base \in Nat \ {0}
    <2>1. ASSUME NEW i \in 1 .. Len(fs)
          PROVE  shares[i] \in Nat
      <3>1. i \in DOMAIN fs /\ fs[i] \in Funding
        OBVIOUS
      <3>2. fs[i].amount \in Nat /\ fs[i].day \in Nat /\ fs[i].day <= days
        BY <3>1 DEF Funding
      <3> DEFINE left == IF days > 0 THEN days - fs[i].day ELSE 1
      <3>3. left \in Nat
        BY <3>2
      <3>4. shares[i] = fs[i].amount * left
        BY <3>1
      <3> HIDE DEF left, shares
      <3>5. QED
        BY <3>2, <3>3, <3>4
    <2>2. shares \in Seq(Int) /\ DOMAIN shares = 1 .. Len(fs) /\ IsFiniteSet(1 .. Len(fs))
      <3>1. DOMAIN fs = 1 .. Len(fs) /\ Len(fs) \in Nat
        OBVIOUS
      <3>2. DOMAIN shares = 1 .. Len(fs) /\ shares = [i \in 1 .. Len(fs) |-> shares[i]]
        BY <3>1
      <3> HIDE DEF shares
      <3>3. shares \in Seq(Int)
        BY <2>1, <3>1, <3>2
      <3>4. IsFiniteSet(1 .. Len(fs))
        BY <3>1, FS_Interval
      <3>5. QED
        BY <3>2, <3>3, <3>4
    <2>3. Sum(shares) \in Nat
      <3> HIDE DEF shares
      <3>1. SumOf(shares, 1 .. Len(fs)) \in Nat
        BY <2>1, <2>2, SumOfSubset
      <3>2. QED
        BY <3>1, <2>2, SumOfSeqIsSumOf DEF Sum, SumOfSeq
    <2>4. base = Sum(shares) + spawn.capital * span
      BY DEF Base
    <2> HIDE DEF span, shares, base
    <2>5. spawn.capital * span \in Nat /\ spawn.capital * span >= spawn.capital
      <3>1. spawn.capital * (span - 1) >= 0
        BY <1>1
      <3>2. spawn.capital * (span - 1) = spawn.capital * span - spawn.capital
        BY <1>1
      <3>3. QED
        BY <3>1, <3>2, <1>1
    <2>6. QED
      BY <2>3, <2>4, <2>5
  <1>4. \A e \in Nat : Gain(e, fs) = e - spawn.capital - Sum(Amounts(fs))
    BY DEF Gain, Amounts
  <1>5. \A e \in Nat : ROI(e, fs, days) = (Gain(e, fs) * span * 1000) \div base
    BY DEF ROI
  <1> HIDE DEF span, base
  <1>6. Gain(poor, fs) \in Int /\ Gain(rich, fs) \in Int /\ Gain(poor, fs) <= Gain(rich, fs)
    <2> DEFINE paid == Sum(Amounts(fs))
    <2>1. Gain(poor, fs) = poor - spawn.capital - paid /\ Gain(rich, fs) = rich - spawn.capital - paid
      BY <1>4
    <2>2. paid \in Int /\ spawn.capital \in Int
      BY <1>2
    <2> HIDE DEF paid
    <2>3. QED
      BY <2>1, <2>2
  <1> DEFINE a == Gain(poor, fs) * span * 1000
             b == Gain(rich, fs) * span * 1000
  <1>7. a \in Int /\ b \in Int /\ a <= b
    <2>1. (Gain(rich, fs) - Gain(poor, fs)) * span >= 0
      BY <1>1, <1>6
    <2>2. (Gain(rich, fs) - Gain(poor, fs)) * span = Gain(rich, fs) * span - Gain(poor, fs) * span
      BY <1>1, <1>6
    <2>3. Gain(rich, fs) * span \in Int /\ Gain(poor, fs) * span \in Int
      BY <1>1, <1>6
    <2>4. QED
      BY <2>1, <2>2, <2>3
  <1>8. ROI(poor, fs, days) = a \div base /\ ROI(rich, fs, days) = b \div base
    BY <1>5
  <1> HIDE DEF a, b
  <1>9. /\ a \div base \in Int /\ b \div base \in Int /\ (a \div base) * base <= a
        /\ \A k \in Int : k * base <= b => k <= b \div base
    BY <1>3, <1>7, RoundsDown
  <1>10. (a \div base) * base \in Int
    BY <1>3, <1>9
  <1>11. QED
    BY <1>7, <1>8, <1>9, <1>10

\* A score above zero, against a baseline that was paid the same.
LEMMA ScoresRicher ==
  ASSUME spawn.capital \in Nat \ {0}, NEW fs \in Seq(Funding), NEW days \in Nat,
         \A i \in 1 .. Len(fs) : fs[i].day <= days,
         NEW equity \in Nat, NEW ghost \in Nat, NEW drawdown \in Nat, NEW fall \in Nat,
         Score(ROI(equity, fs, days), drawdown, ROI(ghost, fs, days), fall) > 0
  PROVE  equity > ghost
  <1> DEFINE roi     == ROI(equity, fs, days)
             base    == ROI(ghost, fs, days)
             more    == Max({0, drawdown - fall})
             penalty == (3 * more) \div 2
  <1> SUFFICES ASSUME equity <= ghost
               PROVE  FALSE
    OBVIOUS
  <1>1. roi \in Int /\ base \in Int /\ roi <= base
    BY RicherReturns
  <1>2. more \in Nat
    BY MaxOfTwo
  <1>3. penalty \in Nat
    <2> HIDE DEF more
    <2>1. QED
      BY <1>2
  <1>4. Score(roi, drawdown, base, fall) =
          IF drawdown >= MaxDDFatal THEN FatalScore ELSE roi - base - penalty
    BY DEF Score
  <1>5. FatalScore \in Int /\ FatalScore < 0
    BY DEF FatalScore
  <1>6. Score(roi, drawdown, base, fall) > 0
    OBVIOUS
  <1> HIDE DEF roi, base, penalty
  <1>7. QED
    BY <1>1, <1>3, <1>4, <1>5, <1>6

-----------------------------------------------------------------------------
(* The evaluation begins on the first bar of the baseline and injects as it    *)
(* does: after each bar the loop has the flows and the month that the baseline *)
(* has after that bar.                                                         *)

Dated(fs, b) == \A i \in 1 .. Len(fs) : fs[i].day <= Days[b] - Days[First]

Follows(a) ==
  flows = a[bar - First].flows /\ prevMonth = a[bar - First].month

EvalInv ==
  /\ First \in 1 .. N /\ Days[First] >= window.start
  /\ ~ inEval => flows = <<>> /\ \A i \in 1 .. bar : Days[i] < window.start
  /\ inEval => First <= bar /\ nav # <<>> /\ Dated(flows, bar)
  /\ inEval => \A a : IsGhost(a) => Follows(a)
  /\ metrics # {} => bar = N
  /\ DrawdownIsWorstPair
  /\ \A x \in metrics : x.score > 0 => x.equity > x.ghost

\* What a bar does to the flows.
LEMMA FlowsMove ==
  ASSUME BacktestInv, EvalInv, Tick
  PROVE  \E b, begins, turns :
           /\ b = bar + 1 /\ b \in 1 .. N /\ bar' = b
           /\ begins = (~ inEval /\ Days[b] >= window.start)
           /\ turns = ((inEval \/ begins) /\ Months[b] # MonthBefore(begins, b) /\ spawn.inject > 0)
           /\ inEval' = (inEval \/ begins)
           /\ prevMonth' = IF turns THEN Months[b] ELSE MonthBefore(begins, b)
           /\ flows' = IF turns THEN Append(flows, [day |-> Days[b] - Days[First],
                                                   amount |-> spawn.inject]) ELSE flows
           /\ inEval' => nav' # <<>>
           /\ UNCHANGED <<spawn, closes, window, metrics>>
  <1> DEFINE b0      == bar + 1
             begins0 == ~ inEval /\ Days[b0] >= window.start
             turns0  == (inEval \/ begins0) /\ Months[b0] # MonthBefore(begins0, b0) /\ spawn.inject > 0
  <1>1. /\ bar' = b0
        /\ inEval' = (inEval \/ begins0)
        /\ prevMonth' = IF turns0 THEN Months[b0] ELSE MonthBefore(begins0, b0)
        /\ flows' = IF turns0 THEN Append(flows, [day |-> Days[b0] - Days[First],
                                                 amount |-> spawn.inject]) ELSE flows
        /\ UNCHANGED <<spawn, closes, window, metrics>>
    BY DEF Tick, Begins, Turns, given, First
  <1>2. b0 \in 1 .. N /\ (inEval' => nav' # <<>>)
    <2>1. PICK b, begins, turns, pf, out, done, injection :
             BarStep(b, begins, turns, pf, out, done, injection)
      BY TickWell
    <2>2. /\ b = bar + 1 /\ b \in 1 .. N /\ inEval' = (inEval \/ begins)
          /\ nav' = IF inEval \/ begins THEN Append(nav, Worth(done, closes[b])) ELSE nav
      BY <2>1 DEF BarStep
    <2>3. nav \in Seq(Nat)
      BY DEF BacktestInv, TypeOK
    <2>4. ASSUME NEW w
          PROVE  Append(nav, w) # <<>>
      <3>1. nav \in Seq(Nat \cup {w}) /\ w \in Nat \cup {w}
        BY <2>3
      <3>2. Len(Append(nav, w)) = Len(nav) + 1 /\ Len(nav) \in Nat
        BY <3>1, AppendProperties
      <3>3. QED
        BY <3>2
    <2>5. QED
      BY <2>2, <2>4
  <1> HIDE DEF b0
  <1>3. PICK begins : begins = begins0
    OBVIOUS
  <1>4. PICK turns : turns = turns0
    OBVIOUS
  <1> HIDE DEF begins0, turns0
  <1>5. begins = (~ inEval /\ Days[b0] >= window.start)
    BY <1>3 DEF begins0
  <1>6. turns = ((inEval \/ begins) /\ Months[b0] # MonthBefore(begins, b0) /\ spawn.inject > 0)
    BY <1>3, <1>4 DEF turns0
  <1>7. b0 = bar + 1
    BY DEF b0
  <1>8. /\ inEval' = (inEval \/ begins)
        /\ prevMonth' = IF turns THEN Months[b0] ELSE MonthBefore(begins, b0)
        /\ flows' = IF turns THEN Append(flows, [day |-> Days[b0] - Days[First],
                                                amount |-> spawn.inject]) ELSE flows
    BY <1>1, <1>3, <1>4
  <1>9. PICK b : b = b0
    OBVIOUS
  <1>10. QED
    BY <1>1, <1>2, <1>5, <1>6, <1>7, <1>8, <1>9

\* No bar before the first of a window opened on its first day or later.
LEMMA FirstIdxLeast ==
  ASSUME NEW day \in Int, NEW i \in 1 .. N, i < FirstIdx(day)
  PROVE  Days[i] < day
  <1> DEFINE S == {N + 1} \cup {j \in 1 .. N : Days[j] >= day}
  <1>1. S \in SUBSET Nat /\ S # {}
    BY Ascending
  <1>2. FirstIdx(day) = Min(S)
    BY DEF FirstIdx
  <1>3. Min(S) \in Nat /\ \A n \in S : Min(S) <= n
    <2> HIDE DEF S
    <2>1. QED
      BY <1>1, LeastOf
  <1>4. SUFFICES ASSUME Days[i] >= day
                 PROVE  FALSE
    BY Ascending
  <1>5. i \in S
    BY <1>4
  <1>6. QED
    BY <1>2, <1>3, <1>5

\* The evaluation of a window has a first bar, after those of its warmup.
LEMMA EvalBegins ==
  ASSUME NEW w \in Windows
  PROVE  /\ FirstIdx(w.start) \in 1 .. N /\ Days[FirstIdx(w.start)] >= w.start
         /\ \A i \in 1 .. w.first - 1 : Days[i] < w.start
  <1>1. PICK k \in DOMAIN Spans :
           w = [first |-> FirstIdx(EvalStart(Spans[k]) - WarmupDays), start |-> EvalStart(Spans[k])]
    BY DEF Windows
  <1>2. Spans[k] \in Nat /\ WarmupDays \in Nat
    BY BacktestAssumption
  <1>3. 1 \in 1 .. N /\ N \in 1 .. N /\ Days[1] \in Nat /\ Days[N] \in Nat /\ Days[1] <= Days[N]
    BY Ascending
  <1>4. w.start \in Nat /\ w.start <= Days[N] /\ w.first = FirstIdx(w.start - WarmupDays)
    BY <1>1, <1>2, <1>3 DEF EvalStart
  <1>5. FirstIdx(w.start) \in 1 .. N /\ Days[FirstIdx(w.start)] >= w.start
    BY <1>3, <1>4, FirstIdxWell
  <1>6. ASSUME NEW i \in 1 .. w.first - 1
        PROVE  Days[i] < w.start
    <2>1. w.first \in 1 .. N
      BY WindowWell
    <2>2. i \in 1 .. N /\ i < w.first /\ w.start - WarmupDays \in Int
      BY <1>2, <1>4, <2>1, Ascending
    <2>3. Days[i] < w.start - WarmupDays
      BY <1>4, <2>2, FirstIdxLeast
    <2>4. QED
      BY <1>2, <1>4, <2>2, <2>3, Ascending
  <1>7. QED
    BY <1>5, <1>6

LEMMA EvalInit ==
  ASSUME Init
  PROVE  EvalInv
  <1>1. window \in Windows /\ bar = window.first - 1 /\ inEval = FALSE /\ flows = <<>> /\ metrics = {}
    BY DEF Init
  <1>2. /\ First \in 1 .. N /\ Days[First] >= window.start
        /\ \A i \in 1 .. bar : Days[i] < window.start
    BY <1>1, EvalBegins DEF First
  <1>3. QED
    BY <1>1, <1>2 DEF EvalInv, DrawdownIsWorstPair

\* One bar of the baseline, on the flows and the month only.
LEMMA GhostFlows ==
  ASSUME NEW g, NEW b, NEW turns, turns = (Months[b] # g.month /\ spawn.inject > 0)
  PROVE  /\ GhostBar(g, b).month = IF turns THEN Months[b] ELSE g.month
         /\ GhostBar(g, b).flows = IF turns THEN Append(g.flows, [day    |-> Days[b] - Days[First],
                                                                 amount |-> spawn.inject])
                                            ELSE g.flows
  BY DEF GhostBar, First

\* Injections are dated no later than the bar they are paid on.
LEMMA DatedAppend ==
  ASSUME First \in 1 .. N, NEW fs \in Seq(Funding), NEW c \in 1 .. N, NEW b \in c .. N,
         Dated(fs, c), NEW amount \in Nat, First <= b
  PROVE  Dated(fs, b) /\ Dated(Append(fs, [day |-> Days[b] - Days[First], amount |-> amount]), b)
  <1> DEFINE day == Days[b] - Days[First]
             add == [day |-> day, amount |-> amount]
             all == Append(fs, add)
  <1>1. b \in 1 .. N /\ day \in Nat /\ Days[c] <= Days[b]
          /\ Days[b] \in Nat /\ Days[c] \in Nat /\ Days[First] \in Nat
    BY Ascending
  <1>2. ASSUME NEW i \in 1 .. Len(fs)
        PROVE  fs[i].day <= day
    <2>1. fs[i].day <= Days[c] - Days[First]
      BY DEF Dated
    <2>2. fs[i] \in Funding
      OBVIOUS
    <2>3. fs[i].day \in Nat
      BY <2>2 DEF Funding
    <2>4. QED
      BY <1>1, <2>1, <2>3
  <1>3. add \in Funding /\ add.day = day
    BY <1>1 DEF Funding
  <1> HIDE DEF day, add
  <1>4. ASSUME NEW i \in 1 .. Len(all)
        PROVE  all[i].day <= day
    <2>1. Len(all) = Len(fs) + 1 /\ Len(fs) \in Nat
      BY <1>3
    <2>2. CASE i <= Len(fs)
      <3>1. all[i] = fs[i] /\ i \in 1 .. Len(fs)
        BY <1>3, <2>1, <2>2
      <3>2. QED
        BY <1>2, <3>1
    <2>3. CASE i = Len(fs) + 1
      <3>1. all[i] = add
        BY <1>3, <2>1, <2>3
      <3>2. QED
        BY <1>1, <1>3, <3>1
    <2>4. QED
      BY <2>1, <2>2, <2>3
  <1>5. QED
    BY <1>2, <1>4 DEF Dated, day, add

\* The first evaluated bar turns no month and is the first of the baseline; each
\* later one turns a month when the baseline's does.
LEMMA FollowsOn ==
  ASSUME BacktestInv, EvalInv, NEW a, IsGhost(a),
         NEW b \in 1 .. N, NEW begins, NEW turns, b = bar + 1,
         begins = (~ inEval /\ Days[b] >= window.start),
         turns = ((inEval \/ begins) /\ Months[b] # MonthBefore(begins, b) /\ spawn.inject > 0),
         inEval \/ begins
  PROVE  /\ (IF turns THEN Months[b] ELSE MonthBefore(begins, b)) = a[b - First].month
         /\ (IF turns THEN Append(flows, [day |-> Days[b] - Days[First], amount |-> spawn.inject])
                      ELSE flows) = a[b - First].flows
         /\ First <= b
         /\ begins => b = First /\ ~ turns
  <1>1. First \in 1 .. N /\ Days[First] >= window.start /\ window.start \in Nat
          /\ inEval \in BOOLEAN /\ bar \in Int
    BY DEF EvalInv, BacktestInv, TypeOK
  <1>2. CASE begins
    <2>1. First <= b
      <3>1. Days[b] >= window.start
        BY <1>2, Zenon
      <3>2. FirstIdx(window.start) \in 1 .. b
        BY <1>1, <3>1, FirstIdxWell
      <3>3. QED
        BY <3>2 DEF First
    <2>2. b <= First
      <3>1. \A i \in 1 .. bar : Days[i] < window.start
        BY <1>2 DEF EvalInv
      <3>2. CASE First <= bar
        <4>1. Days[First] < window.start /\ Days[First] \in Nat
          BY <1>1, <3>1, <3>2, Ascending
        <4>2. QED
          BY <1>1, <4>1
      <3>3. QED
        BY <1>1, <3>2
    <2>3. b = First /\ b - First = 0
      BY <1>1, <2>1, <2>2
    <2>4. MonthBefore(begins, b) = Months[b] /\ ~ turns
      BY <1>2 DEF MonthBefore
    <2>5. a[0].month = Months[First] /\ a[0].flows = <<>>
      BY DEF IsGhost, GhostStart
    <2>6. flows = <<>>
      BY <1>2 DEF EvalInv
    <2>7. QED
      BY <2>1, <2>3, <2>4, <2>5, <2>6
  <1>3. CASE inEval
    <2> DEFINE k == b - First
    <2>1. First <= bar /\ Follows(a)
      BY <1>3 DEF EvalInv
    <2>2. k \in 1 .. N - First /\ First + k = b /\ k - 1 = bar - First /\ First <= b
      BY <1>1, <2>1, Ascending
    <2>3. a[k] = GhostBar(a[k - 1], b)
      BY <2>2 DEF IsGhost
    <2>4. flows = a[k - 1].flows /\ prevMonth = a[k - 1].month
      BY <2>1, <2>2 DEF Follows
    <2>5. ~ begins /\ MonthBefore(begins, b) = prevMonth
      BY <1>3 DEF MonthBefore
    <2>6. turns = (Months[b] # a[k - 1].month /\ spawn.inject > 0)
      BY <1>3, <2>4, <2>5
    <2> HIDE DEF k
    <2>7. /\ a[k].month = IF turns THEN Months[b] ELSE a[k - 1].month
          /\ a[k].flows = IF turns THEN Append(a[k - 1].flows, [day    |-> Days[b] - Days[First],
                                                               amount |-> spawn.inject])
                                   ELSE a[k - 1].flows
      <3>1. PICK g : g = a[k - 1]
        OBVIOUS
      <3>2. a[k] = GhostBar(g, b) /\ turns = (Months[b] # g.month /\ spawn.inject > 0)
        BY <2>3, <2>6, <3>1
      <3>3. /\ GhostBar(g, b).month = IF turns THEN Months[b] ELSE g.month
            /\ GhostBar(g, b).flows = IF turns THEN Append(g.flows, [day    |-> Days[b] - Days[First],
                                                                    amount |-> spawn.inject])
                                               ELSE g.flows
        BY <3>2, GhostFlows
      <3>4. QED
        BY <3>1, <3>2, <3>3
    <2>8. QED
      BY <2>2, <2>4, <2>5, <2>7, Zenon DEF k
  <1>4. QED
    BY <1>2, <1>3, <1>1

\* On the last bar the evaluation has begun, and was paid what the baseline was.
LEMMA SameFlows ==
  ASSUME BacktestInv, EvalInv, bar = N
  PROVE  inEval /\ Ghost \in GhostAccount /\ flows = Ghost.flows
  <1>1. /\ First \in 1 .. N /\ N \in Nat \ {0}
        /\ spawn \in Spawns /\ closes \in Paths /\ window.start \in Nat /\ inEval \in BOOLEAN
    BY Ascending DEF EvalInv, BacktestInv, TypeOK
  <1>2. inEval
    <2>1. Days[First] >= window.start /\ (~ inEval => \A i \in 1 .. bar : Days[i] < window.start)
      BY DEF EvalInv
    <2>2. Days[First] \in Nat
      BY <1>1, Ascending
    <2>3. QED
      BY <1>1, <2>1, <2>2
  <1>3. PICK a : IsGhost(a) /\ a[N - First] \in GhostAccount /\ Ghost = a[N - First]
    BY <1>1, GhostLoop
  <1>4. QED
    BY <1>2, <1>3 DEF EvalInv, Follows

\* Measuring: one pass finds the worst pair, and a score is earned.
LEMMA MeasureWell ==
  ASSUME BacktestInv, EvalInv, Measure
  PROVE  \A x \in metrics' : /\ x.drawdown = WorstPair(nav)
                             /\ x.score > 0 => x.equity > x.ghost
  <1>1. /\ First \in 1 .. N /\ N \in Nat \ {0} /\ bar = N
        /\ spawn \in Spawns /\ closes \in Paths
        /\ flows \in Seq(Funding) /\ nav \in Seq(Nat)
    BY Ascending DEF EvalInv, BacktestInv, TypeOK, Measure, Funding
  <1>2. inEval /\ Ghost \in GhostAccount /\ flows = Ghost.flows
    BY <1>1, SameFlows
  <1>5. nav # <<>> /\ Dated(flows, N)
    BY <1>1, <1>2 DEF EvalInv
  <1> DEFINE days     == Days[N] - Days[First]
             equity   == Last(nav)
             ghost    == Last(Ghost.nav)
             drawdown == MaxDrawdown(nav)
             fall     == MaxDrawdown(Ghost.nav)
             score    == Score(ROI(equity, flows, days), drawdown, ROI(ghost, flows, days), fall)
  <1>6. days \in Nat /\ spawn.capital \in Nat \ {0}
    BY <1>1, Ascending, Given
  <1>7. Ghost.nav \in Seq(Nat) /\ Ghost.nav # <<>>
    BY <1>2 DEF GhostAccount
  <1>8. \A curve \in Seq(Nat) : curve # <<>> => Last(curve) \in Nat
    BY DEF Last
  <1>9. /\ equity \in Nat /\ ghost \in Nat /\ drawdown \in Nat /\ fall \in Nat
        /\ drawdown = WorstPair(nav)
    BY <1>1, <1>5, <1>7, <1>8, OnePassSuffices
  <1>10. \A i \in 1 .. Len(flows) : flows[i].day <= days
    BY <1>5 DEF Dated
  <1>11. metrics' = {[equity |-> equity, ghost |-> ghost, drawdown |-> drawdown, score |-> score]}
    <2>1. metrics' = {[equity |-> equity, ghost |-> ghost, drawdown |-> drawdown,
                       score  |-> Score(ROI(equity, flows, days), drawdown,
                                        ROI(ghost, Ghost.flows, days), fall)]}
      BY DEF Measure, First
    <2>2. QED
      BY <2>1, <1>2
  <1> HIDE DEF days, equity, ghost, drawdown, fall
  <1>12. score > 0 => equity > ghost
    BY <1>1, <1>6, <1>9, <1>10, ScoresRicher
  <1> HIDE DEF score
  <1>13. QED
    BY <1>9, <1>11, <1>12

LEMMA EvalStep ==
  ASSUME BacktestInv, EvalInv, [Next]_vars
  PROVE  EvalInv'
  <1>1. CASE Tick
    <2>1. PICK b, begins, turns :
           /\ b = bar + 1 /\ b \in 1 .. N /\ bar' = b
           /\ begins = (~ inEval /\ Days[b] >= window.start)
           /\ turns = ((inEval \/ begins) /\ Months[b] # MonthBefore(begins, b) /\ spawn.inject > 0)
           /\ inEval' = (inEval \/ begins)
           /\ prevMonth' = IF turns THEN Months[b] ELSE MonthBefore(begins, b)
           /\ flows' = IF turns THEN Append(flows, [day |-> Days[b] - Days[First],
                                                   amount |-> spawn.inject]) ELSE flows
           /\ inEval' => nav' # <<>>
           /\ UNCHANGED <<spawn, closes, window, metrics>>
      BY <1>1, FlowsMove
    <2>2. /\ First \in 1 .. N /\ Days[First] >= window.start /\ window.start \in Nat
          /\ inEval \in BOOLEAN /\ bar \in Int /\ flows \in Seq(Funding) /\ spawn \in Spawns
          /\ closes \in Paths /\ N \in Nat
      BY Ascending DEF EvalInv, BacktestInv, TypeOK, Funding
    <2>3. First' = First
      BY <2>1 DEF First
    <2>4. metrics = {} /\ metrics' = {}
      BY <2>1, <2>2 DEF EvalInv
    <2>5. ASSUME NEW a, IsGhost(a)'
          PROVE  IsGhost(a)
      BY <2>1, <2>3, <2>5 DEF IsGhost, GhostStart, GhostBar, First
    <2>6. ASSUME ~ inEval'
          PROVE  flows' = <<>> /\ \A i \in 1 .. bar' : Days[i] < window'.start
      <3>1. ~ inEval /\ ~ begins /\ ~ turns
        BY <2>1, <2>6, Zenon
      <3>2. flows = <<>> /\ \A i \in 1 .. bar : Days[i] < window.start
        BY <3>1 DEF EvalInv
      <3>3. ~ (Days[b] >= window.start)
        BY <2>1, <3>1, Zenon
      <3>4. Days[b] < window.start
        BY <2>1, <2>2, <3>3, Ascending
      <3>5. QED
        BY <2>1, <2>2, <3>1, <3>2, <3>4
    <2>7. ASSUME inEval'
          PROVE  First <= b /\ Dated(flows', b) /\ \A a : IsGhost(a) => Follows(a)'
      <3>1. inEval \/ begins
        BY <2>1, <2>7, Zenon
      <3>2. PICK c : IsGhost(c)
        BY <2>2, GhostLoop
      <3>3. ASSUME NEW a, IsGhost(a)
            PROVE  /\ prevMonth' = a[b - First].month /\ flows' = a[b - First].flows
                   /\ First <= b /\ (begins => b = First /\ ~ turns)
        BY <2>1, <3>1, <3>3, FollowsOn
      <3>4. First <= b /\ (begins => ~ turns)
        BY <3>2, <3>3
      <3>5. Dated(flows', b)
        <4>1. CASE begins
          <5>1. ~ inEval /\ ~ turns
            BY <2>1, <4>1, <3>4, Zenon
          <5>2. flows' = <<>>
            BY <2>1, <5>1 DEF EvalInv
          <5>3. QED
            BY <5>2 DEF Dated
        <4>2. CASE inEval
          <5>1. Dated(flows, bar) /\ bar \in 1 .. N /\ b \in bar .. N
            BY <2>1, <2>2, <4>2 DEF EvalInv
          <5>2. spawn.inject \in Nat
            BY <2>2, Given
          <5>3. /\ Dated(flows, b)
                /\ Dated(Append(flows, [day |-> Days[b] - Days[First], amount |-> spawn.inject]), b)
            BY <2>2, <3>4, <5>1, <5>2, DatedAppend
          <5>4. QED
            BY <2>1, <5>3
        <4>3. QED
          BY <3>1, <4>1, <4>2
      <3>6. ASSUME NEW a, IsGhost(a)
            PROVE  Follows(a)'
        BY <2>1, <2>3, <3>3, <3>6 DEF Follows
      <3>7. QED
        BY <3>4, <3>5, <3>6
    <2>8. /\ (First \in 1 .. N)' /\ (Days[First] >= window.start)'
          /\ DrawdownIsWorstPair'
      BY <2>1, <2>2, <2>3, <2>4 DEF DrawdownIsWorstPair
    <2>9. (inEval => First <= bar /\ nav # <<>> /\ Dated(flows, bar))'
      BY <2>1, <2>3, <2>7 DEF Dated
    <2>10. (inEval => \A a : IsGhost(a) => Follows(a))'
      BY <2>5, <2>7
    <2>11. (~ inEval => flows = <<>> /\ \A i \in 1 .. bar : Days[i] < window.start)'
      BY <2>6
    <2>12. QED
      BY <2>4, <2>8, <2>9, <2>10, <2>11 DEF EvalInv
  <1>2. CASE Measure
    <2>1. /\ UNCHANGED <<spawn, closes, window, bar, inEval, prevMonth, flows, nav>>
          /\ bar = N
      BY <1>2 DEF Measure, given
    <2>2. \A x \in metrics' : /\ x.drawdown = WorstPair(nav)
                              /\ x.score > 0 => x.equity > x.ghost
      BY <1>2, MeasureWell
    <2>3. First' = First /\ \A a : IsGhost(a)' <=> IsGhost(a)
      BY <2>1 DEF IsGhost, GhostStart, GhostBar, First
    <2>4. \A a : Follows(a)' <=> Follows(a)
      BY <2>1, <2>3 DEF Follows
    <2>5. Dated(flows, bar)' <=> Dated(flows, bar)
      BY <2>1, <2>3 DEF Dated
    <2>6. QED
      BY <2>1, <2>2, <2>3, <2>4, <2>5 DEF EvalInv, DrawdownIsWorstPair
  <1>3. CASE UNCHANGED vars
    <2>1. UNCHANGED <<spawn, closes, window, bar, inEval, prevMonth, flows, nav, metrics>>
      BY <1>3 DEF vars, given
    <2>2. First' = First /\ \A a : IsGhost(a)' <=> IsGhost(a)
      BY <2>1 DEF IsGhost, GhostStart, GhostBar, First
    <2>3. \A a : Follows(a)' <=> Follows(a)
      BY <2>1, <2>2 DEF Follows
    <2>4. Dated(flows, bar)' <=> Dated(flows, bar)
      BY <2>1, <2>2 DEF Dated
    <2>5. QED
      BY <2>1, <2>2, <2>3, <2>4 DEF EvalInv, DrawdownIsWorstPair
  <1>4. QED
    BY <1>1, <1>2, <1>3 DEF Next

LEMMA EvalAlways == Spec => [](BacktestInv /\ EvalInv)
  <1>1. Init => BacktestInv /\ EvalInv
    BY BacktestInit, EvalInit
  <1>2. BacktestInv /\ EvalInv /\ [Next]_vars => (BacktestInv /\ EvalInv)'
    BY BacktestStep, EvalStep
  <1>3. QED
    BY <1>1, <1>2, PTL DEF Spec

\* The drawdown that a run returns is the deepest fall between two bars of its
\* curve, in whatever order peaks and troughs come, although MaxDrawdown walks
\* the curve once with the highest value so far (ghost_dca.go:104-124).
THEOREM DrawdownIsWorst == Spec => []DrawdownIsWorstPair
  <1>1. EvalInv => DrawdownIsWorstPair
    BY DEF EvalInv
  <1>2. QED
    BY <1>1, EvalAlways, PTL

\* The strategy and the baseline are paid the same amounts on the same days in
\* every window, wherever its months turn, and with a score above zero the
\* strategy has ended richer than the baseline
\* (adapter.go:79-99, ghost_dca.go:53-72, sigmoid_dca_evolvable.go:148-151).
THEOREM MoneyIsTheSame == Spec => []SameMoney
  <1>1. ASSUME BacktestInv, EvalInv, NEW x \in metrics
        PROVE  flows = Ghost.flows /\ (x.score > 0 => x.equity > x.ghost)
    <2>1. bar = N /\ (x.score > 0 => x.equity > x.ghost)
      BY <1>1 DEF EvalInv
    <2>2. QED
      BY <1>1, <2>1, SameFlows
  <1>2. BacktestInv /\ EvalInv => SameMoney
    BY <1>1 DEF SameMoney
  <1>3. QED
    BY <1>2, EvalAlways, PTL
=============================================================================
