--------------------------- MODULE OrdersPoolProofs ---------------------------
(***************************************************************************)
(* Proofs about OrdersPool: pools of both codes, calling each other and    *)
(* being migrated, behave as HopersPool.                                   *)
(*                                                                         *)
(* The invariant CodeInv says that a pool that runs hopers-swap_orders has *)
(* no burn fee in force.  Under it the two contracts charge the same, send *)
(* the same transfers and pull the same allowance: the lemmas take the     *)
(* arithmetic first, then the messages.  Every transaction of the mixture  *)
(* is therefore one of HopersPool, and its theorems carry over.            *)
(***************************************************************************)
EXTENDS OrdersPool, HopersPoolProofs

(* The code of each pool; the orders code knows no burn fee.               *)
CodeInv ==
    /\ code \in [Pools -> Code]
    /\ \A p \in Pools : code[p] = "orders" => burnFee[p] = 0

-----------------------------------------------------------------------------
(* The arithmetic.                                                         *)

(* The two formulas of get_input_price agree where nothing is burned.      *)
LEMMA PriceAgrees ==
    ASSUME NEW n \in Nat, NEW x \in Nat, NEW y \in Nat, NEW num \in Nat, NEW den \in Nat,
           NEW side \in Side
    PROVE  /\ get_input_price(n, x, y, num, den, 0, side) = OrdersInputPrice(n, x, y, num, den)
           /\ OrdersInputPrice_ok(n, x, y, num, den)
                => get_input_price_ok(n, x, y, num, den, 0, side)
<1>1. InputFee(num, 0, side) = num
  BY DEF InputFee
<1> QED
  BY <1>1 DEF get_input_price, get_input_price_ok, OrdersInputPrice, OrdersInputPrice_ok

(* What the price is, and that all of it can be taken as a percentage.     *)
LEMMA OrdersPriceFacts ==
    ASSUME NEW n \in Nat, NEW x \in Nat, NEW y \in Nat, NEW num \in Nat, NEW den \in Nat,
           den > 0, OrdersInputPrice_ok(n, x, y, num, den)
    PROVE  LET w == n * (den - num)
               price == OrdersInputPrice(n, x, y, num, den)
           IN  /\ x > 0 /\ y > 0 /\ num <= den
               /\ w \in Nat /\ price \in Nat
               /\ (x * den + w) * price <= w * y
               /\ Fits(price * den)
               /\ (price * den) \div den = price
<1> DEFINE w == n * (den - num)
           price == OrdersInputPrice(n, x, y, num, den)
<1>1. 1 \in Side /\ InputFee(num, 0, 1) = num
  BY SideFacts DEF InputFee
<1>2. /\ get_input_price_ok(n, x, y, num, den, 0, 1)
      /\ get_input_price(n, x, y, num, den, 0, 1) = price
  BY <1>1, PriceAgrees
<1>3. /\ x > 0 /\ y > 0 /\ num <= den
      /\ w \in Nat /\ price \in Nat
      /\ (x * den + w) * price <= w * y
  <2> DEFINE cut == InputFee(num, 0, 1)
             first == get_input_price(n, x, y, num, den, 0, 1)
  <2>1. /\ x > 0 /\ y > 0 /\ cut <= den
        /\ n * (den - cut) \in Nat /\ first \in Nat
        /\ (x * den + n * (den - cut)) * first <= n * (den - cut) * y
    BY <1>1, <1>2, PriceBound, 0 \in Nat, Zenon
  <2>2. cut = num /\ first = price
    BY <1>1, <1>2
  <2> HIDE DEF price, cut, first
  <2> QED
    BY <2>1, <2>2
<1>4. Fits(w * y)
  BY DEF OrdersInputPrice_ok
<1> HIDE DEF price, w
<1>5. /\ x * den \in Nat /\ w * y \in Nat /\ price * den \in Nat
      /\ x * den + w \in Nat
  BY <1>3, SMT
<1>6. 1 * den <= x * den
  BY <1>3, MulMono
<1>7. den * price <= (x * den + w) * price
  BY <1>3, <1>5, <1>6, MulMono
<1>8. den * price = price * den /\ (x * den + w) * price \in Nat
  BY <1>3, <1>5, SMT
<1>9. Fits(price * den)
  BY <1>3, <1>4, <1>5, <1>7, <1>8, PoolMathAssumption DEF Fits
<1>10. (price * den) \div den = price
  BY <1>3, SMT
<1> QED
  BY <1>3, <1>9, <1>10 DEF w, price

(* A swap the orders code does not refuse: nothing is burned, and as in    *)
(* hopers-swap_hopers the product of the reserves does not fall.           *)
LEMMA OrdersChargesBound ==
    ASSUME TypeOK, FeesSound, NEW res \in Reserves, NEW p \in Pools,
           NEW side \in Side, NEW n \in Nat, OrdersCharges_ok(res, p, side, n)
    PROVE  LET c == OrdersCharges(res, p, side, n)
               x == res[p][side]
               y == res[p][Other(side)]
           IN  /\ c \in ChargesType
               /\ c.amount = n /\ c.burn = 0
               /\ c.net + c.fee = n
               /\ c.out < y
               /\ x * y <= (x + c.net) * (y - c.out)
<1> DEFINE num == fees[p].num
           den == fees[p].den
           x == res[p][side]
           y == res[p][Other(side)]
           price == OrdersInputPrice(n, x, y, num, den)
           fee == get_percent_amount(n, num, den)
           w == n * (den - num)
           c == OrdersCharges(res, p, side, n)
<1>1. /\ num \in Nat /\ den \in Nat /\ den > 0 /\ x \in Nat /\ y \in Nat
  BY SideFacts DEF TypeOK, FeesSound, Reserves
<1>2. OrdersInputPrice_ok(n, x, y, num, den)
  BY DEF OrdersCharges_ok
<1>3. /\ x > 0 /\ y > 0 /\ num <= den /\ w \in Nat /\ price \in Nat
      /\ (x * den + w) * price <= w * y
  <2> HIDE DEF num, den, x, y
  <2> QED
    BY <1>1, <1>2, OrdersPriceFacts
<1>4. c = [amount |-> n, fee |-> fee, burn |-> 0, net |-> n - fee, out |-> price]
  BY DEF OrdersCharges, get_protocol_fee_amount, get_percent_amount
<1>5. fee \in Nat /\ n - fee \in Nat /\ w <= den * (n - fee)
  <2>1. get_percent_amount(n, 0, den) = 0 /\ num + 0 = num
    BY <1>1 DEF get_percent_amount
  <2>2. fee \in Nat
    <3> HIDE DEF num, den
    <3> QED
      BY <1>1, <1>3, PercentBound
  <2>3. n - fee - 0 \in Nat /\ n * (den - (num + 0)) <= den * (n - fee - 0)
    <3> HIDE DEF num, den
    <3> QED
      BY <1>1, <1>3, <2>1, NetBound
  <2> HIDE DEF fee
  <2> QED
    BY <2>1, <2>2, <2>3
<1>6. price < y /\ x * y <= (x + (n - fee)) * (y - price)
  <2> HIDE DEF num, den, x, y, price, w, fee
  <2> QED
    BY <1>1, <1>3, <1>5, CurveKeepsProduct
<1> HIDE DEF num, den, x, y, price, w, fee, c
<1>7. /\ c.amount = n /\ c.fee = fee /\ c.burn = 0 /\ c.net = n - fee /\ c.out = price
  BY <1>4
<1>8. c \in ChargesType
  BY <1>3, <1>4, <1>5 DEF ChargesType
<1>9. c.net + c.fee = n
  BY <1>5, <1>7
<1> QED
  BY <1>6, <1>7, <1>8, <1>9 DEF c, x, y

(* Without a burn fee the two codes charge the same, and what the orders   *)
(* code accepts the hopers code accepts too.                               *)
LEMMA ChargesAgree ==
    ASSUME TypeOK, FeesSound, NEW res \in Reserves, NEW p \in Pools,
           NEW side \in Side, NEW n \in Nat, burnFee[p] = 0,
           OrdersCharges_ok(res, p, side, n)
    PROVE  /\ Charges(res, p, side, n) = OrdersCharges(res, p, side, n)
           /\ Charges_ok(res, p, side, n)
<1> DEFINE num == fees[p].num
           den == fees[p].den
           x == res[p][side]
           y == res[p][Other(side)]
           price == OrdersInputPrice(n, x, y, num, den)
           fee == get_percent_amount(n, num, den)
           c == OrdersCharges(res, p, side, n)
<1>1. /\ num \in Nat /\ den \in Nat /\ den > 0 /\ x \in Nat /\ y \in Nat
  BY SideFacts DEF TypeOK, FeesSound, Reserves
<1>2. OrdersInputPrice_ok(n, x, y, num, den)
  BY DEF OrdersCharges_ok
<1>3. /\ price \in Nat /\ Fits(price * den) /\ (price * den) \div den = price
  <2> HIDE DEF num, den, x, y
  <2> QED
    BY <1>1, <1>2, OrdersPriceFacts
<1>4. /\ get_input_price(n, x, y, num, den, 0, side) = price
      /\ get_input_price_ok(n, x, y, num, den, 0, side)
  <2> HIDE DEF num, den, x, y
  <2> QED
    BY <1>1, <1>2, PriceAgrees
<1>5. /\ c = [amount |-> n, fee |-> fee, burn |-> 0, net |-> n - fee, out |-> price]
      /\ get_percent_amount_ok(n, num, den)
      /\ c.net >= 0 /\ Fits(x + c.net) /\ c.out <= y
  BY DEF OrdersCharges_ok, OrdersCharges, get_protocol_fee_amount, get_percent_amount,
         get_protocol_fee_amount_ok, get_percent_amount_ok
<1>6. n - fee \in Nat
  BY <1>5, OrdersChargesBound DEF ChargesType
<1>7. \A m : get_percent_amount(m, 0, den) = 0 /\ get_percent_amount_ok(m, 0, den)
  BY DEF get_percent_amount, get_percent_amount_ok
<1>8. /\ den - 0 = den /\ 0 <= den
      /\ get_percent_amount(price, den, den) = price
      /\ get_percent_amount_ok(price, den, den)
  <2> HIDE DEF num, den, price
  <2> QED
    BY <1>1, <1>3 DEF get_percent_amount, get_percent_amount_ok
<1>9. Charges(res, p, side, n)
        = [amount |-> n, fee |-> fee, burn |-> 0,
           net |-> IF side = 1 THEN n - fee - 0 ELSE n - fee,
           out |-> IF side = 1 THEN price ELSE price]
  BY <1>4, <1>7, <1>8 DEF Charges
<1>10. n - fee - 0 = n - fee
  <2> HIDE DEF fee
  <2> QED
    BY <1>6, SMT
<1>11. Charges(res, p, side, n) = c
  <2> HIDE DEF fee, price, c
  <2> QED
    BY <1>5, <1>9, <1>10
<1>12. Charges_ok(res, p, side, n)
  <2> DEFINE d == Charges(res, p, side, n)
  <2>1. d.net >= 0 /\ Fits(x + d.net) /\ d.out <= y
    BY <1>5, <1>11
  <2> HIDE DEF d, c
  <2> QED
    BY <1>4, <1>5, <1>7, <1>8, <2>1 DEF Charges_ok, d
<1> QED
  BY <1>11, <1>12

-----------------------------------------------------------------------------
(* The messages.                                                           *)

(* A burn of nothing leaves every balance as it is.                        *)
LEMMA NothingDestroyed ==
    ASSUME NEW b \in Balances, NEW t \in Tokens, NEW a \in Account
    PROVE  Destroy(b, t, a, 0) = b /\ b[t][a] >= 0
<1>1. b[t] \in [Account -> Nat] /\ b[t][a] \in Nat /\ b[t][a] - 0 = b[t][a]
  BY DEF Balances
<1>2. [b[t] EXCEPT ![a] = b[t][a] - 0] = b[t]
  BY <1>1
<1> QED
  BY <1>1, <1>2 DEF Destroy, Balances

(* Where nothing is burned both codes send the same transfers.             *)
LEMMA CollectAgrees ==
    ASSUME NEW b \in Balances, NEW p \in Pools, NEW side \in Side, NEW payer \in Account,
           NEW c \in ChargesType, c.burn = 0, OrdersCollect(b, p, side, payer, c).ok
    PROVE  /\ Collect(b, p, side, payer, c).ok
           /\ Collect(b, p, side, payer, c).bal = OrdersCollect(b, p, side, payer, c).bal
<1> DEFINE token == Denom[p][side]
           main == Denom[p][1]
           pulled == token \in Cw20
           incoming == IF pulled THEN c.net ELSE c.amount
           feePayer == IF pulled THEN payer ELSE p
           burner == IF side = 1 THEN payer ELSE p
           b1 == Send(b, token, payer, p, incoming)
           b2 == Destroy(b1, main, burner, BurnDue(p, c))
<1>1. /\ token \in Tokens /\ main \in Tokens /\ p \in Account /\ burner \in Account
      /\ incoming \in Nat
  BY SideFacts, HopersPoolAssumption DEF Account, ChargesType
<1>2. BurnDue(p, c) = 0
  BY DEF BurnDue
<1>3. b[token][payer] >= incoming
  BY DEF OrdersCollect
<1>4. b1 \in Balances
  <2> HIDE DEF token, incoming
  <2> QED
    BY <1>1, <1>3, SendEffect
<1>5. b2 = b1 /\ b1[main][burner] >= BurnDue(p, c)
  <2> HIDE DEF b1, main, burner
  <2> QED
    BY <1>1, <1>2, <1>4, NothingDestroyed
<1> QED
  BY <1>5 DEF Collect, OrdersCollect

(* The legs of a swap, by either code, are legs of hopers-swap_hopers.     *)
LEMMA ChargesOfAgree ==
    ASSUME TypeOK, FeesSound, CodeInv, NEW res \in Reserves, NEW p \in Pools,
           NEW side \in Side, NEW n \in Nat, ChargesOf_ok(res, p, side, n)
    PROVE  LET c == ChargesOf(res, p, side, n)
           IN  /\ c = Charges(res, p, side, n)
               /\ Charges_ok(res, p, side, n)
               /\ c \in ChargesType
               /\ code[p] = "orders" => c.burn = 0
<1>1. CASE code[p] = "orders"
  <2>1. /\ burnFee[p] = 0 /\ OrdersCharges_ok(res, p, side, n)
        /\ ChargesOf(res, p, side, n) = OrdersCharges(res, p, side, n)
    BY <1>1 DEF CodeInv, ChargesOf, ChargesOf_ok
  <2> QED
    BY <2>1, ChargesAgree, OrdersChargesBound
<1>2. CASE code[p] # "orders"
  BY <1>2, ChargesBound DEF ChargesOf, ChargesOf_ok
<1> QED
  BY <1>1, <1>2

LEMMA MessagesAgree ==
    ASSUME TypeOK, FeesSound, NEW b \in Balances, NEW p \in Pools, NEW side \in Side,
           NEW payer \in Account, NEW c \in ChargesType,
           code[p] = "orders" => c.burn = 0,
           CollectOf(b, p, side, payer, c).ok
    PROVE  /\ Collect(b, p, side, payer, c).ok
           /\ Collect(b, p, side, payer, c).bal = CollectOf(b, p, side, payer, c).bal
           /\ PulledBy(p, side, c) = Pulled(p, side, c)
           /\ BurnedBy(p, side, c) = BurnedFromPool(p, side, c)
<1>1. CASE code[p] = "orders"
  <2>1. /\ Collect(b, p, side, payer, c).ok
        /\ Collect(b, p, side, payer, c).bal = CollectOf(b, p, side, payer, c).bal
    BY <1>1, CollectAgrees DEF CollectOf
  <2>2. BurnDue(p, c) = 0
    BY <1>1 DEF BurnDue
  <2>3. Share(p, c, 1) \in Nat /\ Share(p, c, 2) \in Nat /\ c.net \in Nat
    <3>1. /\ fees[p].wallets[1].ratio \in Nat /\ fees[p].wallets[2].ratio \in Nat
          /\ fees[p].wallets[1].ratio + fees[p].wallets[2].ratio = DecOne
          /\ c.fee \in Nat /\ c.net \in Nat
      BY DEF TypeOK, FeesSound, Wallet, MaxWallets, ChargesType
    <3>2. DecOne \in Nat \ {0}
      BY PoolMathAssumption
    <3> QED
      BY <3>1, <3>2, SharesNearlyAll DEF Share
  <2>4. PulledBy(p, side, c) = Pulled(p, side, c)
    BY <1>1, <2>2, <2>3 DEF PulledBy, Pulled
  <2>5. BurnedBy(p, side, c) = BurnedFromPool(p, side, c)
    BY <1>1, <2>2 DEF BurnedBy, BurnedFromPool
  <2> QED
    BY <2>1, <2>4, <2>5
<1>2. CASE code[p] # "orders"
  BY <1>2 DEF CollectOf, PulledBy, BurnedBy
<1> QED
  BY <1>1, <1>2

-----------------------------------------------------------------------------
(* The transactions.                                                       *)

LEMMA OrdersSwapIsSwap ==
    ASSUME TypeOK, FeesSound, CodeInv, NEW u \in Users, NEW p \in Pools, NEW side \in Side,
           NEW n \in Nat, NEW min, NEW recipient \in Account, NEW expiration,
           OrdersSwap(u, p, side, n, min, recipient, expiration)
    PROVE  Swap(u, p, side, n, min, recipient, expiration)
<1> DEFINE c == OrdersCharges(reserve, p, side, n)
<1>1. reserve \in Reserves /\ bal \in Balances /\ u \in Account
  BY DEF TypeOK, Reserves, Balances, Account
<1>2. /\ code[p] = "orders" /\ burnFee[p] = 0 /\ OrdersCharges_ok(reserve, p, side, n)
      /\ OrdersCollect(bal, p, side, u, c).ok
  BY DEF OrdersSwap, CodeInv
<1>3. /\ Charges(reserve, p, side, n) = c /\ Charges_ok(reserve, p, side, n)
      /\ c \in ChargesType /\ c.burn = 0
  BY <1>1, <1>2, ChargesAgree, OrdersChargesBound
<1>4. /\ Collect(bal, p, side, u, c).ok
      /\ Collect(bal, p, side, u, c).bal = OrdersCollect(bal, p, side, u, c).bal
  <2> HIDE DEF c
  <2> QED
    BY <1>1, <1>2, <1>3, CollectAgrees
<1>5. poolBurned' = [poolBurned EXCEPT ![p] = poolBurned[p] + BurnedFromPool(p, side, c)]
  <2>1. poolBurned' = poolBurned /\ poolBurned \in [Pools -> Nat]
    BY DEF OrdersSwap, TypeOK
  <2>2. BurnedFromPool(p, side, c) = 0
    BY <1>3 DEF BurnedFromPool, BurnDue
  <2>3. poolBurned[p] + 0 = poolBurned[p]
    BY <2>1
  <2> QED
    BY <2>1, <2>2, <2>3
<1>6. /\ ~Expired(expiration) /\ c.out >= min
      /\ Pay_ok(OrdersCollect(bal, p, side, u, c).bal, p, side, c)
      /\ reserve' = ReservesAfter(reserve, p, side, c)
      /\ bal' = Pay(OrdersCollect(bal, p, side, u, c).bal, p, side, recipient, c)
      /\ UNCHANGED <<fees, burnFee, owner, lp, lpSupply, grant, height>>
  BY DEF OrdersSwap
<1> HIDE DEF c
<1> QED
  BY <1>3, <1>4, <1>5, <1>6 DEF Swap

LEMMA MixedPassThroughIsPassThrough ==
    ASSUME TypeOK, FeesSound, CodeInv, NEW u \in Users, NEW p \in Pools, NEW q \in Pools,
           NEW side \in Side, NEW n \in Nat, NEW min, NEW expiration,
           MixedPassThroughSwap(u, p, q, side, n, min, expiration)
    PROVE  PassThroughSwap(u, p, q, side, n, min, expiration)
<1> DEFINE token == Denom[p][Other(side)]
           c1 == ChargesOf(reserve, p, side, n)
           b1 == CollectOf(bal, p, side, u, c1).bal
           between == ReservesAfter(reserve, p, side, c1)
           side2 == InputSideOf(q, token)
           c2 == ChargesOf(between, q, side2, c1.out)
           second == CollectOf(b1, q, side2, p, c2)
<1>1. reserve \in Reserves /\ bal \in Balances /\ u \in Account /\ p \in Account
  BY DEF TypeOK, Reserves, Balances, Account
<1>2. /\ ChargesOf_ok(reserve, p, side, n)
      /\ CollectOf(bal, p, side, u, c1).ok
      /\ ChargesOf_ok(between, q, side2, c1.out)
      /\ second.ok
      /\ token \in {Denom[q][1], Denom[q][2]}
  BY DEF MixedPassThroughSwap
<1>3. side2 \in Side
  BY SideFacts DEF InputSideOf
<1>4. /\ c1 = Charges(reserve, p, side, n) /\ Charges_ok(reserve, p, side, n)
      /\ c1 \in ChargesType /\ (code[p] = "orders" => c1.burn = 0)
  BY <1>1, <1>2, ChargesOfAgree
<1>5. /\ c1.net + c1.fee + (IF side = 1 THEN c1.burn ELSE 0) = c1.amount
      /\ between \in Reserves /\ c1.out \in Nat
  <2>1. /\ c1.net + c1.fee + (IF side = 1 THEN c1.burn ELSE 0) = n /\ c1.amount = n
    BY <1>1, <1>4, ChargesBound
  <2>2. between \in Reserves
    BY <1>1, <1>4, LegKeepsProduct
  <2> HIDE DEF c1
  <2> QED
    BY <1>4, <2>1, <2>2 DEF ChargesType
<1> HIDE DEF c1
<1>6. /\ Collect(bal, p, side, u, c1).ok
      /\ Collect(bal, p, side, u, c1).bal = b1
      /\ BurnedBy(p, side, c1) = BurnedFromPool(p, side, c1)
  BY <1>1, <1>2, <1>4, MessagesAgree
<1>7. b1 \in Balances
  BY <1>1, <1>4, <1>5, <1>6, CollectEffect
<1> HIDE DEF between, b1
<1>8. /\ c2 = Charges(between, q, side2, c1.out) /\ Charges_ok(between, q, side2, c1.out)
      /\ c2 \in ChargesType /\ (code[q] = "orders" => c2.burn = 0)
  BY <1>2, <1>3, <1>5, ChargesOfAgree
<1> HIDE DEF c2
<1>9. /\ Collect(b1, q, side2, p, c2).ok
      /\ Collect(b1, q, side2, p, c2).bal = second.bal
      /\ PulledBy(q, side2, c2) = Pulled(q, side2, c2)
      /\ BurnedBy(q, side2, c2) = BurnedFromPool(q, side2, c2)
  BY <1>1, <1>2, <1>3, <1>7, <1>8, MessagesAgree
<1>10. /\ ~Expired(expiration)
       /\ token \in Cw20 => p # q
       /\ token \in Cw20 => Fits(grant[<<p, q, token>>].amount + c1.out)
       /\ c2.out >= min
       /\ token \in Cw20 => PulledBy(q, side2, c2) <= grant[<<p, q, token>>].amount + c1.out
       /\ Pay_ok(second.bal, q, side2, c2)
       /\ reserve' = ReservesAfter(between, q, side2, c2)
       /\ bal' = Pay(second.bal, q, side2, u, c2)
  BY DEF MixedPassThroughSwap, c1, c2, between, b1
<1>11. /\ grant' = IF token \in Cw20
                  THEN [grant EXCEPT ![<<p, q, token>>] =
                           [amount |-> grant[<<p, q, token>>].amount + c1.out
                                         - PulledBy(q, side2, c2),
                            expires |-> AllowanceExpiry]]
                  ELSE grant
       /\ poolBurned' = LET once == [poolBurned EXCEPT ![p] =
                                        poolBurned[p] + BurnedBy(p, side, c1)]
                        IN  [once EXCEPT ![q] = once[q] + BurnedBy(q, side2, c2)]
       /\ UNCHANGED <<fees, burnFee, owner, lp, lpSupply, height>>
  BY DEF MixedPassThroughSwap, c1, c2, between, b1
<1> HIDE DEF second
<1>12. /\ Collect(bal, p, side, u, Charges(reserve, p, side, n)).ok
       /\ Collect(bal, p, side, u, Charges(reserve, p, side, n)).bal = b1
       /\ ReservesAfter(reserve, p, side, Charges(reserve, p, side, n)) = between
  BY <1>4, <1>6 DEF between
<1> QED
  BY <1>2, <1>4, <1>8, <1>9, <1>6, <1>10, <1>11, <1>12 DEF PassThroughSwap

LEMMA MixedInitOK == MixedInit => Init /\ CodeInv
BY OrdersPoolAssumption DEF MixedInit, CodeInv

(* Every transaction of the mixture is one of HopersPool, and a pool that  *)
(* runs the orders code burns nothing.                                     *)
LEMMA MixedStep ==
    ASSUME IInv, CodeInv, [MixedNext]_mixedVars
    PROVE  /\ [Next]_vars
           /\ CodeInv'
           /\ \A r \in Pools : code[r] = "orders" => poolBurned'[r] = poolBurned[r]
<1>1. /\ Amounts \subseteq Nat /\ burnFee \in [Pools -> Nat] /\ poolBurned \in [Pools -> Nat]
      /\ 0 \in BurnFees
  BY HopersPoolAssumption, OrdersPoolAssumption DEF IInv, TypeOK
<1>2. TypeOK /\ FeesSound
  BY DEF IInv
<1>3. ASSUME UNCHANGED <<code, burnFee>>
      PROVE  CodeInv'
  BY <1>3 DEF CodeInv
<1> DEFINE Unburned == \A r \in Pools : code[r] = "orders" => poolBurned'[r] = poolBurned[r]
<1>4. ASSUME NEW u \in Users, NEW p \in Pools, NEW side \in Side, NEW n \in Amounts,
             NEW min \in Minimums, NEW expiration \in Expirations,
             NEW recipient \in Account,
             OrdersSwap(u, p, side, n, min, recipient, expiration)
      PROVE  Next /\ CodeInv' /\ Unburned
  <2>1. UNCHANGED <<code, burnFee, poolBurned>>
    BY <1>4 DEF OrdersSwap
  <2>2. Swap(u, p, side, n, min, recipient, expiration)
    BY <1>1, <1>2, <1>4, OrdersSwapIsSwap
  <2> QED
    BY <1>3, <2>1, <2>2 DEF Next, SwapStep
<1>5. ASSUME NEW u \in Users, NEW p \in Pools, NEW side \in Side, NEW n \in Amounts,
             NEW min \in Minimums, NEW expiration \in Expirations, NEW q \in Pools,
             MixedPassThroughSwap(u, p, q, side, n, min, expiration)
      PROVE  Next /\ CodeInv' /\ Unburned
  <2>1. UNCHANGED <<code, burnFee>>
    BY <1>5 DEF MixedPassThroughSwap
  <2>2. PassThroughSwap(u, p, q, side, n, min, expiration)
    BY <1>1, <1>2, <1>5, MixedPassThroughIsPassThrough
  <2>3. Unburned
    <3> DEFINE c1 == ChargesOf(reserve, p, side, n)
               side2 == InputSideOf(q, Denom[p][Other(side)])
               c2 == ChargesOf(ReservesAfter(reserve, p, side, c1), q, side2, c1.out)
               d1 == BurnedBy(p, side, c1)
               d2 == BurnedBy(q, side2, c2)
               once == [poolBurned EXCEPT ![p] = poolBurned[p] + d1]
    <3>1. poolBurned' = [once EXCEPT ![q] = once[q] + d2]
      BY <1>5 DEF MixedPassThroughSwap
    <3>2. (code[p] = "orders" => d1 = 0) /\ (code[q] = "orders" => d2 = 0)
      BY DEF BurnedBy
    <3> SUFFICES ASSUME NEW r \in Pools, code[r] = "orders"
                 PROVE  poolBurned'[r] = poolBurned[r]
      OBVIOUS
    <3> HIDE DEF d1, d2
    <3>3. once[r] = poolBurned[r] /\ DOMAIN once = Pools
      BY <1>1, <3>2
    <3> HIDE DEF once
    <3>4. poolBurned'[r] = IF r = q THEN once[r] + d2 ELSE once[r]
      BY <3>1, <3>3
    <3> QED
      BY <1>1, <3>2, <3>3, <3>4
  <2> QED
    BY <1>3, <2>1, <2>2, <2>3 DEF Next, SwapStep
<1>6. CASE OrdersSwapStep
  BY <1>4, <1>5, <1>6 DEF OrdersSwapStep
<1>7. CASE HopersSwapStep /\ UNCHANGED code
  <2> PICK u \in Users, p \in Pools, side \in Side, amount \in Amounts,
           min \in Minimums, expiration \in Expirations :
           /\ code[p] = "hopers"
           /\ \/ \E recipient \in Account :
                    Swap(u, p, side, amount, min, recipient, expiration)
              \/ \E q \in Pools :
                    /\ code[q] = "hopers"
                    /\ PassThroughSwap(u, p, q, side, amount, min, expiration)
    BY <1>7 DEF HopersSwapStep
  <2>1. ASSUME NEW recipient \in Account,
               Swap(u, p, side, amount, min, recipient, expiration)
        PROVE  Next /\ CodeInv' /\ Unburned
    <3>1. burnFee' = burnFee
      BY <2>1 DEF Swap
    <3>2. poolBurned' = [poolBurned EXCEPT ![p] = poolBurned[p]
             + BurnedFromPool(p, side, Charges(reserve, p, side, amount))]
      BY <2>1 DEF Swap
    <3>3. Unburned
      BY <1>1, <3>2
    <3> QED
      BY <1>3, <1>7, <2>1, <3>1, <3>3 DEF Next, SwapStep
  <2>2. ASSUME NEW q \in Pools, code[q] = "hopers",
               PassThroughSwap(u, p, q, side, amount, min, expiration)
        PROVE  Next /\ CodeInv' /\ Unburned
    <3> DEFINE c1 == Charges(reserve, p, side, amount)
               side2 == InputSideOf(q, Denom[p][Other(side)])
               c2 == Charges(ReservesAfter(reserve, p, side, c1), q, side2, c1.out)
               d1 == BurnedFromPool(p, side, c1)
               d2 == BurnedFromPool(q, side2, c2)
               once == [poolBurned EXCEPT ![p] = poolBurned[p] + d1]
    <3>1. burnFee' = burnFee
      BY <2>2 DEF PassThroughSwap
    <3>2. poolBurned' = [once EXCEPT ![q] = once[q] + d2]
      BY <2>2 DEF PassThroughSwap
    <3>3. Unburned
      <4> HIDE DEF d1, d2
      <4> QED
        BY <1>1, <2>2, <3>2
    <3> QED
      BY <1>3, <1>7, <2>2, <3>1, <3>3 DEF Next, SwapStep
  <2> QED
    BY <2>1, <2>2
<1>8. CASE MixedAdminStep
  <2>1. ASSUME NEW p \in Pools, NEW u \in Users, NEW new_owner \in Users \cup {NoOwner},
               NEW config \in Configs, config.burn = 0,
               OrdersUpdateConfig(u, p, new_owner, config)
        PROVE  Next /\ CodeInv' /\ Unburned
    <3>1. burnFee[p] = 0
      BY <2>1 DEF OrdersUpdateConfig, CodeInv
    <3>2. [burnFee EXCEPT ![p] = config.burn] = burnFee
      BY <1>1, <2>1, <3>1
    <3>3. UpdateConfig(u, p, new_owner, config)
      BY <2>1, <3>2 DEF OrdersUpdateConfig, UpdateConfig, IsOwner
    <3>4. UNCHANGED <<code, burnFee, poolBurned>>
      BY <2>1 DEF OrdersUpdateConfig
    <3> QED
      BY <1>3, <3>3, <3>4 DEF Next, AdminStep
  <2>2. ASSUME NEW p \in Pools, NEW u \in Users, NEW new_owner \in Users \cup {NoOwner},
               NEW config \in Configs, code[p] = "hopers",
               UpdateConfig(u, p, new_owner, config), UNCHANGED code
        PROVE  Next /\ CodeInv' /\ Unburned
    <3>1. poolBurned' = poolBurned /\ burnFee' = [burnFee EXCEPT ![p] = config.burn]
      BY <2>2 DEF UpdateConfig
    <3>2. CodeInv'
      BY <1>1, <2>2, <3>1 DEF CodeInv
    <3> QED
      BY <2>2, <3>1, <3>2 DEF Next, AdminStep
  <2>3. ASSUME NEW p \in Pools, NEW burn \in BurnFees, MigrateToHopers(p, burn)
        PROVE  Next /\ CodeInv' /\ Unburned
    <3>1. /\ poolBurned' = poolBurned /\ burnFee' = [burnFee EXCEPT ![p] = burn]
          /\ code' = [code EXCEPT ![p] = "hopers"] /\ Migrate(p, burn)
      BY <2>3 DEF MigrateToHopers, Migrate
    <3>2. CodeInv'
      BY <1>1, <3>1 DEF CodeInv, Code
    <3> QED
      BY <3>1, <3>2 DEF Next, AdminStep
  <2>4. ASSUME NEW p \in Pools, MigrateToOrders(p)
        PROVE  Next /\ CodeInv' /\ Unburned
    <3>1. /\ poolBurned' = poolBurned /\ burnFee' = [burnFee EXCEPT ![p] = 0]
          /\ code' = [code EXCEPT ![p] = "orders"] /\ Migrate(p, 0)
      BY <2>4 DEF MigrateToOrders, Migrate
    <3>2. CodeInv'
      BY <1>1, <3>1 DEF CodeInv, Code
    <3> QED
      BY <1>1, <3>1, <3>2 DEF Next, AdminStep
  <2> QED
    BY <1>8, <2>1, <2>2, <2>3, <2>4 DEF MixedAdminStep
<1>9. CASE (LiquidityStep \/ TokenStep \/ NextBlock) /\ UNCHANGED code
  <2>1. UNCHANGED <<burnFee, poolBurned>>
    BY <1>9 DEF LiquidityStep, AddLiquidity, RemoveLiquidity, TokenStep, LpTransfer, LpBurn,
                Transfer, NextBlock, contract, ledger
  <2> QED
    BY <1>3, <1>9, <2>1 DEF Next
<1>10. CASE UNCHANGED mixedVars
  <2>1. UNCHANGED vars /\ UNCHANGED <<code, burnFee, poolBurned>>
    BY <1>10 DEF mixedVars, vars
  <2> QED
    BY <1>3, <2>1
<1> QED
  BY <1>6, <1>7, <1>8, <1>9, <1>10 DEF MixedNext

-----------------------------------------------------------------------------
(* The theorems.                                                           *)

(* Pools of the two codes, calling each other and migrated between them,   *)
(* behave as pools of hopers-swap_hopers alone.                            *)
THEOREM MixtureImplements == MixedSpec => ImplementsHopersPool
<1>1. MixedInit => Init /\ IInv /\ CodeInv
  BY MixedInitOK, InitIInv
<1>2. IInv /\ CodeInv /\ [MixedNext]_mixedVars => [Next]_vars /\ IInv' /\ CodeInv'
  BY MixedStep, NextOK DEF StepOK
<1> QED
  BY <1>1, <1>2, PTL DEF MixedSpec, ImplementsHopersPool, Spec

(* So whatever is proved of HopersPool is true of the mixture: its         *)
(* reserves are backed up to burns, nobody is diluted, and what is left of *)
(* an allowance between pools of different codes dies one block later.     *)
THEOREM MixtureSound ==
    MixedSpec => /\ []BackedUpToBurns
                 /\ []SeededWhileShared
                 /\ []LeftoverGrantExpires
                 /\ SurplusNeverShrinks
                 /\ LiquidityNeverDiluted
                 /\ AllowanceNearlySpent
                 /\ OwnerlessPoolFrozen
<1>1. MixedSpec => Spec
  BY MixtureImplements DEF ImplementsHopersPool
<1> QED
  BY <1>1, Backed, Seeded, GrantExpires, SurplusKept, NeverDiluted, GrantNearlySpent,
     OwnerlessFrozen

(* The type of the code and the burn fee of pools of the orders code.      *)
THEOREM MixtureTyped == MixedSpec => [](IInv /\ CodeInv)
<1>1. MixedInit => IInv /\ CodeInv
  BY MixedInitOK, InitIInv
<1>2. IInv /\ CodeInv /\ [MixedNext]_mixedVars => IInv' /\ CodeInv'
  BY MixedStep, NextOK DEF StepOK
<1> QED
  BY <1>1, <1>2, PTL DEF MixedSpec

(* A pool never loses cover for its reserves while it runs the orders      *)
(* code: not by its own swaps, not as the payer of a second leg in a pool  *)
(* that burns (contract.rs:829), and not by a migration.                   *)
THEOREM OrdersNeverLeak == MixedSpec => OrdersNeverLeaks
<1> DEFINE Kept(p, side) ==
               code[p] = "orders" =>
                   bal'[Denom[p][side]][p] - reserve'[p][side]
                       >= bal[Denom[p][side]][p] - reserve[p][side]
<1>1. IInv /\ CodeInv /\ [MixedNext]_mixedVars =>
         [\A p \in Pools, side \in Side : Kept(p, side)]_mixedVars
  <2> SUFFICES ASSUME IInv, CodeInv, [MixedNext]_mixedVars, NEW p \in Pools,
                      NEW side \in Side, code[p] = "orders"
               PROVE  bal'[Denom[p][side]][p] - reserve'[p][side]
                          >= bal[Denom[p][side]][p] - reserve[p][side]
    OBVIOUS
  <2>1. /\ Gap(bal', reserve', poolBurned', p, side) >= Gap(bal, reserve, poolBurned, p, side)
        /\ IInv'
    BY MixedStep, NextOK DEF StepOK
  <2>2. poolBurned'[p] = poolBurned[p]
    BY MixedStep
  <2>3. Denom[p][side] \in Tokens /\ p \in Account
    BY HopersPoolAssumption DEF Account
  <2>4. /\ bal'[Denom[p][side]][p] \in Nat /\ bal[Denom[p][side]][p] \in Nat
        /\ reserve'[p][side] \in Nat /\ reserve[p][side] \in Nat /\ poolBurned[p] \in Nat
    BY <2>1, <2>3 DEF IInv, TypeOK
  <2> QED
    BY <2>1, <2>2, <2>4 DEF Gap
<1> QED
  BY MixtureTyped, <1>1, PTL DEF MixedSpec, OrdersNeverLeaks

(* The arithmetic of a round trip: two swaps that keep the product of the  *)
(* reserves and take in no more than what the first one paid out.          *)
LEMMA RoundTripBound ==
    ASSUME NEW n \in Nat, NEW x \in Nat, NEW y \in Nat, NEW net \in Nat, NEW out \in Nat,
           NEW net2 \in Nat, NEW out2 \in Nat,
           net <= n, out < y, x * y <= (x + net) * (y - out),
           net2 <= out, out2 < x + net,
           (y - out) * (x + net) <= ((y - out) + net2) * ((x + net) - out2)
    PROVE  out2 <= n
<1> DEFINE x1 == x + net
           y1 == y - out
<1>1. /\ x1 \in Nat /\ y1 \in Nat /\ x1 - out2 \in Nat
      /\ y1 + net2 \in Nat /\ y1 + net2 <= y
  OBVIOUS
<1>2. x * y <= x1 * y1 /\ y1 * x1 <= (y1 + net2) * (x1 - out2)
  OBVIOUS
<1>3. out2 <= n \/ ~(x <= x1 - out2)
  OBVIOUS
<1> HIDE DEF x1, y1
<1>4. (y1 + net2) * (x1 - out2) <= y * (x1 - out2)
  BY <1>1, MulMono
<1>5. /\ x * y = y * x /\ x1 * y1 = y1 * x1
      /\ x * y \in Nat /\ x1 * y1 \in Nat /\ y * (x1 - out2) \in Nat
      /\ (y1 + net2) * (x1 - out2) \in Nat
  BY <1>1, SMT
<1>6. y * x <= y * (x1 - out2)
  BY <1>2, <1>4, <1>5
<1>7. x <= x1 - out2
  BY <1>1, <1>6, MulCancel
<1> QED
  BY <1>3, <1>7

(* Both charges satisfy what the round trip needs.                         *)
Sound(res, p, side, n, c) ==
    /\ c \in ChargesType /\ c.net <= n
    /\ c.out < res[p][Other(side)]
    /\ res[p][side] * res[p][Other(side)]
          <= (res[p][side] + c.net) * (res[p][Other(side)] - c.out)

LEMMA ChargesSound ==
    ASSUME TypeOK, FeesSound, NEW res \in Reserves, NEW p \in Pools,
           NEW side \in Side, NEW n \in Nat
    PROVE  /\ Charges_ok(res, p, side, n) => Sound(res, p, side, n, Charges(res, p, side, n))
           /\ OrdersCharges_ok(res, p, side, n)
                => Sound(res, p, side, n, OrdersCharges(res, p, side, n))
<1>1. ASSUME NEW c \in ChargesType, c.net + c.fee + (IF side = 1 THEN c.burn ELSE 0) = n
      PROVE  c.net <= n
  BY <1>1 DEF ChargesType
<1>2. ASSUME NEW c \in ChargesType, c.net + c.fee = n
      PROVE  c.net <= n
  BY <1>2 DEF ChargesType
<1>3. ASSUME Charges_ok(res, p, side, n)
      PROVE  Sound(res, p, side, n, Charges(res, p, side, n))
  BY <1>1, <1>3, ChargesBound DEF Sound
<1>4. ASSUME OrdersCharges_ok(res, p, side, n)
      PROVE  Sound(res, p, side, n, OrdersCharges(res, p, side, n))
  BY <1>2, <1>4, OrdersChargesBound DEF Sound
<1> QED
  BY <1>3, <1>4

LEMMA RoundTripSound ==
    ASSUME NEW p \in Pools, NEW side \in Side, NEW n \in Nat, reserve \in Reserves,
           NEW c, Sound(reserve, p, side, n, c),
           NEW c2, Sound(ReservesAfter(reserve, p, side, c), p, Other(side), c.out, c2)
    PROVE  c2.out <= n
<1> DEFINE after == ReservesAfter(reserve, p, side, c)
           x == reserve[p][side]
           y == reserve[p][Other(side)]
           x1 == after[p][side]
           y1 == after[p][Other(side)]
<1>1. /\ Other(side) \in Side /\ Other(side) # side /\ Other(Other(side)) = side
  BY SideFacts
<1>2. x \in Nat /\ y \in Nat
  BY <1>1 DEF Reserves
<1>3. x1 = x + c.net /\ y1 = y - c.out
  BY <1>1 DEF ReservesAfter, Reserves
<1>4. /\ c.net \in Nat /\ c.out \in Nat /\ c2.net \in Nat /\ c2.out \in Nat
  BY DEF Sound, ChargesType
<1>5. /\ c.net <= n /\ c.out < y /\ x * y <= (x + c.net) * (y - c.out)
  BY DEF Sound
<1>6. /\ c2.net <= c.out /\ c2.out < x1 /\ y1 * x1 <= (y1 + c2.net) * (x1 - c2.out)
  BY <1>1 DEF Sound
<1> HIDE DEF x, y, x1, y1
<1> QED
  BY <1>2, <1>3, <1>4, <1>5, <1>6, RoundTripBound

(* Selling at once what a swap bought never returns more than was paid,    *)
(* whichever code runs at each of the two swaps (contract.rs:660 and       *)
(* hopers-swap_hopers/src/contract.rs:700).                                *)
THEOREM MigratedRoundTripLoses == MixedSpec => []NoMigratedRoundTripProfit
<1>1. IInv => NoMigratedRoundTripProfit
  <2> SUFFICES ASSUME IInv, NEW p \in Pools, NEW side \in Side, NEW n \in Amounts,
                      ChargesOf_ok(reserve, p, side, n)
               PROVE  LET c == ChargesOf(reserve, p, side, n)
                          after == ReservesAfter(reserve, p, side, c)
                          back == Other(side)
                      IN  /\ OrdersCharges_ok(after, p, back, c.out) =>
                                 OrdersCharges(after, p, back, c.out).out <= n
                          /\ Charges_ok(after, p, back, c.out) =>
                                 Charges(after, p, back, c.out).out <= n
    BY DEF NoMigratedRoundTripProfit
  <2> DEFINE c == ChargesOf(reserve, p, side, n)
             after == ReservesAfter(reserve, p, side, c)
             back == Other(side)
  <2>1. /\ TypeOK /\ FeesSound /\ n \in Nat /\ reserve \in Reserves /\ back \in Side
    BY SideFacts, HopersPoolAssumption DEF IInv, TypeOK, Reserves
  <2>2. Sound(reserve, p, side, n, c)
    BY <2>1, ChargesSound DEF ChargesOf, ChargesOf_ok
  <2>3. after \in Reserves
    <3>1. /\ c.net \in Nat /\ c.out \in Nat /\ c.out < reserve[p][back]
      BY <2>2 DEF Sound, ChargesType
    <3>2. \A k \in Side : reserve[p][k] \in Nat /\ (k # side => k = back)
      BY <2>1 DEF Reserves, Side, Other
    <3>3. [k \in Side |-> IF k = side THEN reserve[p][k] + c.net
                                     ELSE reserve[p][k] - c.out] \in [Side -> Nat]
      BY <3>1, <3>2
    <3> QED
      BY <2>1, <3>3 DEF ReservesAfter, Reserves
  <2>4. c.out \in Nat
    BY <2>2 DEF Sound, ChargesType
  <2> HIDE DEF c, after, back
  <2>5. ASSUME OrdersCharges_ok(after, p, back, c.out)
        PROVE  OrdersCharges(after, p, back, c.out).out <= n
    <3>1. Sound(after, p, back, c.out, OrdersCharges(after, p, back, c.out))
      BY <2>1, <2>3, <2>4, <2>5, ChargesSound
    <3> QED
      BY <2>1, <2>2, <3>1, RoundTripSound DEF after, back
  <2>6. ASSUME Charges_ok(after, p, back, c.out)
        PROVE  Charges(after, p, back, c.out).out <= n
    <3>1. Sound(after, p, back, c.out, Charges(after, p, back, c.out))
      BY <2>1, <2>3, <2>4, <2>6, ChargesSound
    <3> QED
      BY <2>1, <2>2, <3>1, RoundTripSound DEF after, back
  <2> QED
    BY <2>5, <2>6 DEF c, after, back
<1> QED
  BY MixtureTyped, <1>1, PTL
=============================================================================
