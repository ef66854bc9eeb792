-------------------------- MODULE HopersPoolProofs --------------------------
(***************************************************************************)
(* Proofs about HopersPool, for any pools, tokens, fees and amounts.       *)
(*                                                                         *)
(* The argument has three layers.  ChargesBound says what one pool's       *)
(* arithmetic guarantees (fees and net input add up to the input; the      *)
(* product of the reserves does not fall).  LegKeepsSurplus says what one  *)
(* leg of a swap does to every pool's holdings relative to its reserves: a *)
(* swap is one leg and a payment, a pass through two legs, the first pool  *)
(* paying for the second.  The theorems add the other actions.             *)
(***************************************************************************)
EXTENDS HopersPool, PoolMathProofs, SumProofs

(* The facts about the fees that every handler relies on.                  *)
FeesSound ==
    \A p \in Pools :
        /\ fees[p].den > 0
        /\ fees[p].wallets[1].ratio + fees[p].wallets[2].ratio = DecOne

ChargesType == [amount : Nat, fee : Nat, burn : Nat, net : Nat, out : Nat]
Reserves == [Pools -> [Side -> Nat]]
Balances == [Tokens -> [Account -> Nat]]

LEMMA SideFacts ==
    /\ 1 \in Side /\ 2 \in Side
    /\ \A side \in Side : /\ side \in {1, 2} /\ Other(side) \in Side
                          /\ Other(side) # side /\ Other(Other(side)) = side
BY DEF Side, Other

(* The arithmetic of a swap whose price could be computed.                 *)
LEMMA PricedBound ==
    ASSUME TypeOK, FeesSound, NEW res \in Reserves, NEW p \in Pools,
           NEW side \in Side, NEW n \in Nat, Priced(res, p, side, n)
    PROVE  LET c == Charges(res, p, side, n)
               x == res[p][side]
               y == res[p][Other(side)]
           IN  /\ c \in ChargesType
               /\ c.amount = n
               /\ c.net + c.fee + (IF side = 1 THEN c.burn ELSE 0) = n
               /\ c.out < y
               /\ x * y <= (x + c.net) * (y - c.out)
<1> DEFINE num == fees[p].num
           den == fees[p].den
           burn == burnFee[p]
           x == res[p][side]
           y == res[p][Other(side)]
           price == get_input_price(n, x, y, num, den, burn, side)
           w == n * (den - InputFee(num, burn, side))
           c == Charges(res, p, side, n)
<1> SUFFICES /\ c \in ChargesType
             /\ c.amount = n
             /\ c.net + c.fee + (IF side = 1 THEN c.burn ELSE 0) = n
             /\ c.out < y
             /\ x * y <= (x + c.net) * (y - c.out)
  OBVIOUS
<1>1. /\ num \in Nat /\ den \in Nat /\ den > 0 /\ burn \in Nat
      /\ x \in Nat /\ y \in Nat
  BY SideFacts DEF TypeOK, FeesSound, Reserves
<1>2. get_input_price_ok(n, x, y, num, den, burn, side)
  BY DEF Priced
<1>3. /\ x > 0 /\ y > 0 /\ InputFee(num, burn, side) <= den
      /\ w \in Nat /\ price \in Nat
      /\ (x * den + w) * price <= w * y
  <2> HIDE DEF num, den, burn, x, y
  <2> QED
    BY <1>1, <1>2, PriceBound
<1>4. CASE side = 1
  <2> DEFINE fee == get_percent_amount(n, num, den)
             b == get_percent_amount(n, burn, den)
             net == n - fee - b
  <2>1. /\ c.amount = n /\ c.fee = fee /\ c.burn = b /\ c.net = net /\ c.out = price
        /\ c = [amount |-> n, fee |-> fee, burn |-> b, net |-> net, out |-> price]
    BY <1>4 DEF Charges
  <2>2. num + burn <= den /\ w = n * (den - (num + burn))
    BY <1>3, <1>4 DEF InputFee
  <2>3. fee \in Nat /\ b \in Nat
    <3>1. num <= den /\ burn <= den
      BY <1>1, <2>2, SMT
    <3> HIDE DEF num, den, burn
    <3> QED
      BY <1>1, <3>1, PercentBound
  <2>4. net \in Nat /\ w <= den * net
    <3> HIDE DEF num, den, burn
    <3> QED
      BY <1>1, <2>2, NetBound
  <2>5. price < y /\ x * y <= (x + net) * (y - price)
    <3> HIDE DEF num, den, burn, x, y, price, w, net
    <3> QED
      BY <1>1, <1>3, <2>4, CurveKeepsProduct
  <2>6. net + fee + b = n
    <3> HIDE DEF fee, b
    <3> QED
      BY <2>3, <2>4
  <2>7. c \in ChargesType
    <3> HIDE DEF fee, b, net, price, c
    <3> QED
      BY <1>3, <2>1, <2>3, <2>4 DEF ChargesType
  <2> HIDE DEF c, fee, b, net, price, x, y
  <2> QED
    BY <1>4, <2>1, <2>5, <2>6, <2>7
<1>5. CASE side = 2
  <2> DEFINE fee == get_percent_amount(n, num, den)
             net == n - fee
             b == get_percent_amount(price, burn, den)
             out == get_percent_amount(price, den - burn, den)
  <2>1. /\ c.amount = n /\ c.fee = fee /\ c.burn = b /\ c.net = net /\ c.out = out
        /\ c = [amount |-> n, fee |-> fee, burn |-> b, net |-> net, out |-> out]
    BY <1>5 DEF Charges
  <2>2. num <= den /\ w = n * (den - num)
    BY <1>3, <1>5 DEF InputFee
  <2>3. burn <= den
    BY <1>5 DEF Priced
  <2>4. fee \in Nat /\ b \in Nat /\ out \in Nat /\ out <= price
    <3>1. den - burn \in Nat /\ den - burn <= den
      BY <1>1, <2>3, SMT
    <3> HIDE DEF num, den, burn, price
    <3> QED
      BY <1>1, <1>3, <2>2, <2>3, <3>1, PercentBound
  <2>5. net \in Nat /\ w <= den * net
    <3>1. get_percent_amount(n, 0, den) = 0
      BY DEF get_percent_amount
    <3>2. num + 0 = num
      BY <1>1
    <3>3. /\ n - fee - 0 \in Nat
          /\ n * (den - (num + 0)) <= den * (n - fee - 0)
      <4> HIDE DEF num, den
      <4> QED
        BY <1>1, <2>2, <3>1, <3>2, NetBound
    <3> HIDE DEF fee
    <3> QED
      BY <2>2, <2>4, <3>2, <3>3
  <2>6. out < y /\ x * y <= (x + net) * (y - out)
    <3>1. (x * den + w) * out <= w * y
      <4> DEFINE D == x * den + w
      <4>1. D \in Nat /\ w * y \in Nat
        BY <1>1, <1>3, SMT
      <4>2. D * out <= D * price
        BY <1>3, <2>4, <4>1, MulMono
      <4>3. D * out \in Nat /\ D * price \in Nat /\ D * price <= w * y
        BY <1>3, <2>4, <4>1, SMT
      <4> HIDE DEF D, out, price, w, y
      <4> QED
        BY <4>1, <4>2, <4>3 DEF D
    <3> HIDE DEF num, den, burn, x, y, price, w, net, out
    <3> QED
      BY <1>1, <1>3, <2>4, <2>5, <3>1, CurveKeepsProduct
  <2>7. c \in ChargesType
    <3> HIDE DEF fee, b, net, out, c
    <3> QED
      BY <2>1, <2>4, <2>5 DEF ChargesType
  <2>8. net + fee = n
    <3> HIDE DEF fee
    <3> QED
      BY <2>4, <2>5
  <2> HIDE DEF c, fee, b, net, out, x, y
  <2> QED
    BY <1>5, <2>1, <2>4, <2>5, <2>6, <2>7, <2>8
<1> QED
  BY <1>4, <1>5, SideFacts

(* The arithmetic of a swap that the handler does not refuse.              *)
LEMMA ChargesBound ==
    ASSUME TypeOK, FeesSound, NEW res \in Reserves, NEW p \in Pools,
           NEW side \in Side, NEW n \in Nat, Charges_ok(res, p, side, n)
    PROVE  LET c == Charges(res, p, side, n)
               x == res[p][side]
               y == res[p][Other(side)]
           IN  /\ c \in ChargesType
               /\ c.amount = n
               /\ c.net + c.fee + (IF side = 1 THEN c.burn ELSE 0) = n
               /\ c.out < y
               /\ x * y <= (x + c.net) * (y - c.out)
<1>1. Priced(res, p, side, n)
  BY DEF Charges_ok, Priced
<1> QED
  BY <1>1, PricedBound

-----------------------------------------------------------------------------
(* The ledgers.                                                            *)

(* Added to account a's balance of t2 when n of t reach the account to.    *)
Credit(t2, a, t, to, n) == IF t2 = t /\ a = to THEN n ELSE 0

LEMMA SendEffect ==
    ASSUME NEW b \in Balances, NEW t \in Tokens, NEW from \in Account,
           NEW to \in Account, NEW n \in Nat, b[t][from] >= n
    PROVE  /\ Send(b, t, from, to, n) \in Balances
           /\ \A t2 \in Tokens, a \in Account :
                 Send(b, t, from, to, n)[t2][a]
                    = b[t2][a] + Credit(t2, a, t, to, n) - Credit(t2, a, t, from, n)
<1> DEFINE f == b[t]
           taken == [f EXCEPT ![from] = f[from] - n]
           g == [taken EXCEPT ![to] = taken[to] + n]
<1>1. f \in [Account -> Nat] /\ f[from] - n \in Nat
  BY DEF Balances
<1>2. taken \in [Account -> Nat]
  BY <1>1
<1>3. taken[to] + n \in Nat
  BY <1>2
<1>4. g \in [Account -> Nat]
  BY <1>2, <1>3
<1>5. \A a \in Account :
         g[a] = f[a] + (IF a = to THEN n ELSE 0) - (IF a = from THEN n ELSE 0)
  BY <1>1, <1>2
<1>6. Send(b, t, from, to, n) = [b EXCEPT ![t] = g]
  BY DEF Send, Moved
<1> HIDE DEF g
<1>7. Send(b, t, from, to, n) \in Balances
  BY <1>4, <1>6 DEF Balances
<1>8. ASSUME NEW t2 \in Tokens, NEW a \in Account
      PROVE  Send(b, t, from, to, n)[t2][a]
                = b[t2][a] + Credit(t2, a, t, to, n) - Credit(t2, a, t, from, n)
  <2>1. b[t2][a] \in Nat
    BY DEF Balances
  <2>2. CASE t2 = t
    BY <1>5, <1>6, <2>1, <2>2 DEF Balances, Credit
  <2>3. CASE t2 # t
    BY <1>6, <2>1, <2>3 DEF Balances, Credit
  <2> QED
    BY <2>2, <2>3
<1> QED
  BY <1>7, <1>8

LEMMA DestroyEffect ==
    ASSUME NEW b \in Balances, NEW t \in Tokens, NEW from \in Account,
           NEW n \in Nat, b[t][from] >= n
    PROVE  /\ Destroy(b, t, from, n) \in Balances
           /\ \A t2 \in Tokens, a \in Account :
                 Destroy(b, t, from, n)[t2][a] = b[t2][a] - Credit(t2, a, t, from, n)
<1> DEFINE f == b[t]
           g == [f EXCEPT ![from] = f[from] - n]
<1>1. f \in [Account -> Nat] /\ f[from] - n \in Nat
  BY DEF Balances
<1>2. g \in [Account -> Nat]
  BY <1>1
<1>3. \A a \in Account : g[a] = f[a] - (IF a = from THEN n ELSE 0)
  BY <1>1
<1>4. Destroy(b, t, from, n) = [b EXCEPT ![t] = g]
  BY DEF Destroy
<1> HIDE DEF g
<1>5. Destroy(b, t, from, n) \in Balances
  BY <1>2, <1>4 DEF Balances
<1>6. ASSUME NEW t2 \in Tokens, NEW a \in Account
      PROVE  Destroy(b, t, from, n)[t2][a] = b[t2][a] - Credit(t2, a, t, from, n)
  <2>1. b[t2][a] \in Nat
    BY DEF Balances
  <2>2. CASE t2 = t
    BY <1>3, <1>4, <2>1, <2>2 DEF Balances, Credit
  <2>3. CASE t2 # t
    BY <1>4, <2>1, <2>3 DEF Balances, Credit
  <2> QED
    BY <2>2, <2>3
<1> QED
  BY <1>5, <1>6

(* What the collecting messages of one leg do to every account: pool p     *)
(* gains at least the net input, the payer pays at most the whole input,   *)
(* pool p loses what it burns, and nobody else loses anything.             *)
LEMMA CollectEffect ==
    ASSUME TypeOK, FeesSound, NEW b \in Balances, NEW p \in Pools, NEW side \in Side,
           NEW payer \in Account, NEW c \in ChargesType,
           c.net + c.fee + (IF side = 1 THEN c.burn ELSE 0) = c.amount,
           Collect(b, p, side, payer, c).ok
    PROVE  LET b4 == Collect(b, p, side, payer, c).bal
               token == Denom[p][side]
           IN  /\ b4 \in Balances
               /\ \A t \in Tokens, a \in Account :
                     b4[t][a] >= b[t][a] + Credit(t, a, token, p, c.net)
                                         - Credit(t, a, token, payer, c.amount)
                                         - Credit(t, a, Denom[p][1], p,
                                                  BurnedFromPool(p, side, c))
<1> DEFINE token == Denom[p][side]
           main == Denom[p][1]
           pulled == token \in Cw20
           incoming == IF pulled THEN c.net ELSE c.amount
           feePayer == IF pulled THEN payer ELSE p
           burner == IF side = 1 THEN payer ELSE p
           due == BurnDue(p, c)
           w1 == fees[p].wallets[1].address
           w2 == fees[p].wallets[2].address
           s1 == Share(p, c, 1)
           s2 == Share(p, c, 2)
           b1 == Send(b, token, payer, p, incoming)
           b2 == Destroy(b1, main, burner, due)
           b3 == Send(b2, token, feePayer, w1, s1)
           b4 == Send(b3, token, feePayer, w2, s2)
<1>1. /\ c.amount \in Nat /\ c.fee \in Nat /\ c.burn \in Nat /\ c.net \in Nat
      /\ token \in Tokens /\ main \in Tokens /\ p \in Account
      /\ incoming \in Nat /\ feePayer \in Account /\ burner \in Account
      /\ due \in Nat /\ due <= c.burn
  BY SideFacts, HopersPoolAssumption DEF ChargesType, Account, BurnDue
<1>2. /\ w1 \in Account /\ w2 \in Account
      /\ fees[p].wallets[1].ratio \in Nat /\ fees[p].wallets[2].ratio \in Nat
  BY DEF TypeOK, Wallet, MaxWallets
<1>3. s1 \in Nat /\ s2 \in Nat /\ s1 + s2 <= c.fee
  <2>1. fees[p].wallets[1].ratio + fees[p].wallets[2].ratio = DecOne
    BY DEF FeesSound
  <2>2. DecOne \in Nat \ {0}
    BY PoolMathAssumption
  <2> QED
    BY <1>1, <1>2, <2>1, <2>2, SharesNearlyAll DEF Share
<1>4. Collect(b, p, side, payer, c).bal = b4
  BY DEF Collect
<1>10. b[token][payer] >= incoming
  BY DEF Collect
<1>11. b1[main][burner] >= due
  BY DEF Collect
<1>12. b2[token][feePayer] >= s1
  BY DEF Collect
<1>13. b3[token][feePayer] >= s2
  BY DEF Collect
<1> SUFFICES /\ b4 \in Balances
             /\ \A t \in Tokens, a \in Account :
                   b4[t][a] >= b[t][a] + Credit(t, a, token, p, c.net)
                                       - Credit(t, a, token, payer, c.amount)
                                       - Credit(t, a, main, p, BurnedFromPool(p, side, c))
  BY <1>4
<1> HIDE DEF token, main, incoming, feePayer, burner, due, w1, w2, s1, s2, b1, b2, b3, b4
<1>5. /\ b1 \in Balances
      /\ \A t \in Tokens, a \in Account :
            b1[t][a] = b[t][a] + Credit(t, a, token, p, incoming)
                               - Credit(t, a, token, payer, incoming)
  BY <1>1, <1>10, SendEffect DEF b1
<1>6. /\ b2 \in Balances
      /\ \A t \in Tokens, a \in Account :
            b2[t][a] = b1[t][a] - Credit(t, a, main, burner, due)
  BY <1>1, <1>11, <1>5, DestroyEffect DEF b2
<1>7. /\ b3 \in Balances
      /\ \A t \in Tokens, a \in Account :
            b3[t][a] = b2[t][a] + Credit(t, a, token, w1, s1)
                                - Credit(t, a, token, feePayer, s1)
  BY <1>1, <1>2, <1>3, <1>12, <1>6, SendEffect DEF b3
<1>8. /\ b4 \in Balances
      /\ \A t \in Tokens, a \in Account :
            b4[t][a] = b3[t][a] + Credit(t, a, token, w2, s2)
                                - Credit(t, a, token, feePayer, s2)
  BY <1>1, <1>2, <1>3, <1>13, <1>7, SendEffect DEF b4
<1>9. ASSUME NEW t \in Tokens, NEW a \in Account
      PROVE  b4[t][a] >= b[t][a] + Credit(t, a, token, p, c.net)
                                 - Credit(t, a, token, payer, c.amount)
                                 - Credit(t, a, main, p, BurnedFromPool(p, side, c))
  <2>1. /\ b[t][a] \in Nat /\ b1[t][a] \in Nat /\ b2[t][a] \in Nat
        /\ b3[t][a] \in Nat /\ b4[t][a] \in Nat
    BY <1>5, <1>6, <1>7, <1>8 DEF Balances
  <2>2. b4[t][a] >= b[t][a] + Credit(t, a, token, p, incoming)
                            - Credit(t, a, token, payer, incoming)
                            - Credit(t, a, main, burner, due)
                            - Credit(t, a, token, feePayer, s1 + s2)
    <3>1. /\ Credit(t, a, token, p, incoming) \in Nat
          /\ Credit(t, a, token, payer, incoming) \in Nat
          /\ Credit(t, a, main, burner, due) \in Nat
          /\ Credit(t, a, token, w1, s1) \in Nat
          /\ Credit(t, a, token, w2, s2) \in Nat
          /\ Credit(t, a, token, feePayer, s1) \in Nat
          /\ Credit(t, a, token, feePayer, s2) \in Nat
          /\ Credit(t, a, token, feePayer, s1 + s2)
                = Credit(t, a, token, feePayer, s1) + Credit(t, a, token, feePayer, s2)
      BY <1>1, <1>3 DEF Credit
    <3> QED
      BY <1>5, <1>6, <1>7, <1>8, <2>1, <3>1
  <2>3. side = 2 => main # token
    BY HopersPoolAssumption DEF main, token
  <2>4. side = 1 => main = token
    BY DEF main, token
  <2>5. BurnedFromPool(p, side, c) = IF side = 2 THEN due ELSE 0
    BY DEF BurnedFromPool, due
  <2>6. side \in {1, 2}
    BY SideFacts
  <2>7. /\ Credit(t, a, token, p, c.net) \in Nat
        /\ Credit(t, a, token, payer, c.net) \in Nat
        /\ Credit(t, a, token, p, c.amount) \in Nat
        /\ Credit(t, a, token, payer, c.amount) \in Nat
        /\ Credit(t, a, main, payer, due) \in Nat
        /\ Credit(t, a, main, p, due) \in Nat
        /\ Credit(t, a, token, p, s1 + s2) \in Nat
        /\ Credit(t, a, token, payer, s1 + s2) \in Nat
        /\ Credit(t, a, main, p, 0) = 0
    BY <1>1, <1>3 DEF Credit
  <2>8. CASE token \in Cw20
    <3>1. incoming = c.net /\ feePayer = payer
      BY <2>8 DEF incoming, feePayer
    <3>2. CASE side = 1
      <4>1. burner = payer /\ main = token /\ BurnedFromPool(p, side, c) = 0
        BY <2>4, <2>5, <3>2 DEF burner
      <4>2. c.net + due + (s1 + s2) <= c.amount
        BY <1>1, <1>3, <3>2
      <4>3. Credit(t, a, token, payer, c.net + due + (s1 + s2))
              = Credit(t, a, token, payer, c.net) + Credit(t, a, token, payer, due)
                  + Credit(t, a, token, payer, s1 + s2)
        BY <1>1, <1>3 DEF Credit
      <4>4. Credit(t, a, token, payer, c.net + due + (s1 + s2))
              <= Credit(t, a, token, payer, c.amount)
        BY <1>1, <1>3, <4>2 DEF Credit
      <4> QED
        BY <2>1, <2>2, <2>7, <3>1, <4>1, <4>3, <4>4
    <3>3. CASE side = 2
      <4>1. burner = p /\ BurnedFromPool(p, side, c) = due
        BY <2>5, <3>3 DEF burner
      <4>2. c.net + (s1 + s2) <= c.amount
        BY <1>1, <1>3, <3>3
      <4>3. Credit(t, a, token, payer, c.net + (s1 + s2))
              = Credit(t, a, token, payer, c.net) + Credit(t, a, token, payer, s1 + s2)
        BY <1>1, <1>3 DEF Credit
      <4>4. Credit(t, a, token, payer, c.net + (s1 + s2))
              <= Credit(t, a, token, payer, c.amount)
        BY <1>1, <1>3, <4>2 DEF Credit
      <4> QED
        BY <2>1, <2>2, <2>7, <3>1, <4>1, <4>3, <4>4
    <3> QED
      BY <2>6, <3>2, <3>3
  <2>9. CASE token \notin Cw20
    <3>1. incoming = c.amount /\ feePayer = p
      BY <2>9 DEF incoming, feePayer
    <3>2. c.net + (s1 + s2) <= c.amount
      BY <1>1, <1>3, <2>6
    <3>3. Credit(t, a, token, p, c.net + (s1 + s2))
            = Credit(t, a, token, p, c.net) + Credit(t, a, token, p, s1 + s2)
      BY <1>1, <1>3 DEF Credit
    <3>4. Credit(t, a, token, p, c.net + (s1 + s2)) <= Credit(t, a, token, p, c.amount)
      BY <1>1, <1>3, <3>2 DEF Credit
    <3>5. Credit(t, a, main, burner, due) <= Credit(t, a, main, p, BurnedFromPool(p, side, c))
      <4>1. CASE side = 1
        <5>1. due = 0
          BY <2>4, <2>9, <4>1 DEF due, BurnDue, main
        <5> QED
          BY <2>5, <2>7, <4>1, <5>1 DEF Credit
      <4>2. CASE side = 2
        BY <2>5, <2>7, <4>2 DEF burner
      <4> QED
        BY <2>6, <4>1, <4>2
    <3>6. /\ Credit(t, a, main, burner, due) \in Nat
          /\ Credit(t, a, main, p, BurnedFromPool(p, side, c)) \in Nat
      BY <1>1, <2>5 DEF Credit
    <3> QED
      BY <2>1, <2>2, <2>7, <3>1, <3>3, <3>4, <3>5, <3>6
  <2> QED
    BY <2>8, <2>9
<1> QED
  BY <1>8, <1>9

-----------------------------------------------------------------------------
(* One leg of a swap: the collecting messages and the saved reserves.      *)

(* Surplus, of given holdings, reserves and burns.                         *)
Gap(b, res, burned, p, side) ==
    b[Denom[p][side]][p] + (IF side = 1 THEN burned[p] ELSE 0) - res[p][side]

BurnedAfter(burned, p, side, c) ==
    [burned EXCEPT ![p] = burned[p] + BurnedFromPool(p, side, c)]

(* After a leg pool p is ahead by the output it owes, the pool that paid   *)
(* for the leg, if it was one, is behind by the input, and no other pool   *)
(* has lost anything.                                                      *)
LEMMA LegKeepsSurplus ==
    ASSUME TypeOK, FeesSound, NEW b \in Balances, NEW res \in Reserves,
           NEW burned \in [Pools -> Nat], NEW p \in Pools, NEW side \in Side,
           NEW payer \in Account, NEW c \in ChargesType,
           c.net + c.fee + (IF side = 1 THEN c.burn ELSE 0) = c.amount,
           c.out < res[p][Other(side)],
           Collect(b, p, side, payer, c).ok
    PROVE  LET b4 == Collect(b, p, side, payer, c).bal
               after == ReservesAfter(res, p, side, c)
               now == BurnedAfter(burned, p, side, c)
           IN  /\ b4 \in Balances /\ after \in Reserves /\ now \in [Pools -> Nat]
               /\ \A r \in Pools, s \in Side :
                     Gap(b4, after, now, r, s)
                        >= Gap(b, res, burned, r, s)
                             + (IF r = p /\ s = Other(side) THEN c.out ELSE 0)
                             - (IF r = payer /\ Denom[r][s] = Denom[p][side]
                                THEN c.amount ELSE 0)
<1> DEFINE b4 == Collect(b, p, side, payer, c).bal
           after == ReservesAfter(res, p, side, c)
           now == BurnedAfter(burned, p, side, c)
           token == Denom[p][side]
           main == Denom[p][1]
           due == BurnedFromPool(p, side, c)
<1>1. /\ c.amount \in Nat /\ c.net \in Nat /\ c.out \in Nat /\ due \in Nat
      /\ (side = 1 => due = 0)
      /\ token \in Tokens /\ main \in Tokens /\ p \in Account
  BY SideFacts, HopersPoolAssumption
     DEF ChargesType, Account, BurnDue, BurnedFromPool
<1>2. /\ b4 \in Balances
      /\ \A t \in Tokens, a \in Account :
            b4[t][a] >= b[t][a] + Credit(t, a, token, p, c.net)
                                - Credit(t, a, token, payer, c.amount)
                                - Credit(t, a, main, p, due)
  BY CollectEffect
<1>3. \A k \in Side : /\ res[p][k] \in Nat
                      /\ k # side => k = Other(side) /\ res[p][k] - c.out \in Nat
                      /\ k = side => res[p][k] + c.net \in Nat
  BY <1>1, SideFacts DEF Reserves, Side, Other
<1>4. /\ after \in Reserves
      /\ \A r \in Pools, s \in Side :
            after[r][s] = IF r = p THEN IF s = side THEN res[r][s] + c.net
                                                    ELSE res[r][s] - c.out
                                   ELSE res[r][s]
  <2> DEFINE new == [k \in Side |-> IF k = side THEN res[p][k] + c.net
                                                ELSE res[p][k] - c.out]
  <2>1. new \in [Side -> Nat]
    BY <1>3
  <2>2. after = [res EXCEPT ![p] = new]
    BY DEF ReservesAfter
  <2>3. \A s \in Side : new[s] = IF s = side THEN res[p][s] + c.net ELSE res[p][s] - c.out
    OBVIOUS
  <2> HIDE DEF new, after
  <2> QED
    BY <2>1, <2>2, <2>3 DEF Reserves
<1>5. /\ now \in [Pools -> Nat]
      /\ \A r \in Pools : now[r] = IF r = p THEN burned[r] + due ELSE burned[r]
  BY <1>1 DEF BurnedAfter
<1> HIDE DEF b4, after, now, due
<1>6. ASSUME NEW r \in Pools, NEW s \in Side
      PROVE  Gap(b4, after, now, r, s)
               >= Gap(b, res, burned, r, s)
                    + (IF r = p /\ s = Other(side) THEN c.out ELSE 0)
                    - (IF r = payer /\ Denom[r][s] = token THEN c.amount ELSE 0)
  <2> DEFINE t == Denom[r][s]
  <2>1. /\ t \in Tokens /\ r \in Account
        /\ b4[t][r] \in Nat /\ b[t][r] \in Nat
        /\ burned[r] \in Nat /\ now[r] \in Nat
        /\ res[r][s] \in Nat /\ after[r][s] \in Nat
        /\ Denom[r][1] # Denom[r][2] /\ s \in {1, 2} /\ side \in {1, 2}
    <3>1. t \in Tokens /\ r \in Account
      BY HopersPoolAssumption DEF Account
    <3>2. b4[t][r] \in Nat /\ b[t][r] \in Nat
      BY <1>2, <3>1 DEF Balances
    <3>3. res[r][s] \in Nat /\ after[r][s] \in Nat
      BY <1>4 DEF Reserves
    <3> QED
      BY <1>5, <3>1, <3>2, <3>3, HopersPoolAssumption, SideFacts
  <2>2. b4[t][r] >= b[t][r] + Credit(t, r, token, p, c.net)
                            - Credit(t, r, token, payer, c.amount)
                            - Credit(t, r, main, p, due)
    BY <1>2, <2>1
  <2>3. CASE r # p
    <3>1. after[r][s] = res[r][s] /\ now[r] = burned[r]
      BY <1>4, <1>5, <2>3
    <3>2. b4[t][r] >= b[t][r] - (IF r = payer /\ t = token THEN c.amount ELSE 0)
      BY <1>1, <2>1, <2>2, <2>3 DEF Credit
    <3> QED
      BY <1>1, <2>1, <2>3, <3>1, <3>2 DEF Gap
  <2>4. CASE r = p /\ s = side
    <3>1. t = token /\ s # Other(side) /\ after[r][s] = res[r][s] + c.net
      BY <1>4, <2>4, SideFacts
    <3>2. now[r] = burned[r] + due
      BY <1>5, <2>4
    <3>3. Credit(t, r, main, p, due) = 0
      <4>1. CASE side = 1
        BY <1>1, <4>1 DEF Credit
      <4>2. CASE side = 2
        BY <2>1, <2>4, <4>2 DEF Credit
      <4> QED
        BY <2>1, <4>1, <4>2
    <3>4. b4[t][r] >= b[t][r] + c.net - (IF r = payer THEN c.amount ELSE 0)
      BY <1>1, <2>1, <2>2, <2>4, <3>1, <3>3 DEF Credit
    <3> QED
      BY <1>1, <2>1, <2>4, <3>1, <3>2, <3>4 DEF Gap
  <2>5. CASE r = p /\ s # side
    <3>1. s = Other(side) /\ t # token /\ after[r][s] = res[r][s] - c.out
      BY <1>3, <1>4, <2>1, <2>5
    <3>2. now[r] = burned[r] + due
      BY <1>5, <2>5
    <3>3. b4[t][r] >= b[t][r] - (IF s = 1 THEN due ELSE 0)
      <4>1. CASE side = 1
        BY <1>1, <2>1, <2>2, <2>5, <3>1, <4>1 DEF Credit
      <4>2. CASE side = 2
        <5>1. s = 1
          BY <2>1, <2>5, <4>2
        <5> QED
          BY <1>1, <2>1, <2>2, <2>5, <3>1, <4>2, <5>1 DEF Credit
      <4> QED
        BY <2>1, <4>1, <4>2
    <3> QED
      BY <1>1, <2>1, <2>5, <3>1, <3>2, <3>3 DEF Gap
  <2> QED
    BY <2>3, <2>4, <2>5
<1> QED
  BY <1>2, <1>4, <1>5, <1>6 DEF b4, after, now

(* A leg never lets the product of a pool's reserves fall, nor empties one *)
(* of them.                                                                *)
LEMMA LegKeepsProduct ==
    ASSUME TypeOK, FeesSound, NEW res \in Reserves, NEW p \in Pools,
           NEW side \in Side, NEW n \in Nat, Charges_ok(res, p, side, n)
    PROVE  LET after == ReservesAfter(res, p, side, Charges(res, p, side, n))
           IN  /\ after \in Reserves
               /\ \A r \in Pools :
                     /\ res[r][1] * res[r][2] <= after[r][1] * after[r][2]
                     /\ res[r][1] > 0 => after[r][1] > 0
<1> DEFINE c == Charges(res, p, side, n)
           after == ReservesAfter(res, p, side, c)
           x == res[p][side]
           y == res[p][Other(side)]
           new == [k \in Side |-> IF k = side THEN res[p][k] + c.net ELSE res[p][k] - c.out]
<1>1. /\ c \in ChargesType /\ c.out < y /\ x * y <= (x + c.net) * (y - c.out)
  BY ChargesBound
<1> HIDE DEF c
<1>2. c.net \in Nat /\ c.out \in Nat /\ x \in Nat /\ y \in Nat
  BY <1>1, SideFacts DEF ChargesType, Reserves
<1>3. \A k \in Side : k # side => k = Other(side)
  BY DEF Side, Other
<1>4. new[side] = x + c.net /\ new[Other(side)] = y - c.out
  BY SideFacts
<1>5. new \in [Side -> Nat]
  <2>1. \A k \in Side : /\ k = side => res[p][k] = x
                        /\ k # side => res[p][k] = y
    BY <1>3
  <2> HIDE DEF x, y
  <2> QED
    BY <1>1, <1>2, <2>1
<1>6. after = [res EXCEPT ![p] = new]
  BY DEF ReservesAfter
<1> HIDE DEF new, after
<1>7. after \in Reserves
  BY <1>5, <1>6 DEF Reserves
<1>8. ASSUME NEW r \in Pools
      PROVE  /\ res[r][1] * res[r][2] <= after[r][1] * after[r][2]
             /\ res[r][1] > 0 => after[r][1] > 0
  <2>1. CASE r # p
    <3>1. after[r] = res[r]
      BY <1>6, <2>1 DEF Reserves
    <3>2. res[r][1] \in Nat /\ res[r][2] \in Nat
      BY SideFacts DEF Reserves
    <3>3. res[r][1] * res[r][2] \in Nat
      BY <3>2, SMT
    <3> QED
      BY <3>1, <3>3
  <2>2. CASE r = p
    <3>1. after[r] = new
      BY <1>6, <2>2 DEF Reserves
    <3>2. CASE side = 1
      <4>1. Other(side) = 2
        BY <3>2 DEF Other
      <4>2. after[r][1] = x + c.net /\ after[r][2] = y - c.out /\ res[r][1] = x /\ res[r][2] = y
        BY <1>4, <2>2, <3>1, <3>2, <4>1
      <4> HIDE DEF x, y
      <4> QED
        BY <1>1, <1>2, <4>2
    <3>3. CASE side = 2
      <4>1. Other(side) = 1
        BY <3>3 DEF Other
      <4>2. after[r][2] = x + c.net /\ after[r][1] = y - c.out /\ res[r][2] = x /\ res[r][1] = y
        BY <1>4, <2>2, <3>1, <3>3, <4>1
      <4>3. x * y = y * x /\ (x + c.net) * (y - c.out) = (y - c.out) * (x + c.net)
        BY <1>1, <1>2, SMT
      <4> HIDE DEF x, y
      <4> QED
        BY <1>1, <1>2, <4>2, <4>3
    <3> QED
      BY <3>2, <3>3, SideFacts
  <2> QED
    BY <2>1, <2>2
<1> QED
  BY <1>7, <1>8 DEF after, c

(* Paying the output a pool owes costs it no more than that.               *)
LEMMA PayEffect ==
    ASSUME NEW b \in Balances, NEW p \in Pools, NEW side \in Side,
           NEW recipient \in Account, NEW c \in ChargesType, Pay_ok(b, p, side, c)
    PROVE  /\ Pay(b, p, side, recipient, c) \in Balances
           /\ \A r \in Pools, s \in Side :
                 Pay(b, p, side, recipient, c)[Denom[r][s]][r]
                    >= b[Denom[r][s]][r]
                         - (IF r = p /\ s = Other(side) THEN c.out ELSE 0)
<1> DEFINE t == Denom[p][Other(side)]
           b2 == Pay(b, p, side, recipient, c)
<1>1. t \in Tokens /\ p \in Account /\ c.out \in Nat /\ b[t][p] >= c.out
  BY SideFacts, HopersPoolAssumption DEF Account, ChargesType, Pay_ok
<1>2. b2 = Send(b, t, p, recipient, c.out)
  BY DEF Pay
<1> HIDE DEF b2, t
<1>3. /\ b2 \in Balances
      /\ \A t2 \in Tokens, a \in Account :
            b2[t2][a] = b[t2][a] + Credit(t2, a, t, recipient, c.out)
                                 - Credit(t2, a, t, p, c.out)
  BY <1>1, <1>2, SendEffect
<1>4. ASSUME NEW r \in Pools, NEW s \in Side
      PROVE  b2[Denom[r][s]][r]
               >= b[Denom[r][s]][r] - (IF r = p /\ s = Other(side) THEN c.out ELSE 0)
  <2> DEFINE t2 == Denom[r][s]
  <2>1. t2 \in Tokens /\ r \in Account
    BY HopersPoolAssumption DEF Account
  <2>2. b[t2][r] \in Nat /\ b2[t2][r] \in Nat
    BY <1>3, <2>1 DEF Balances
  <2>3. (r = p /\ t2 = t) => s = Other(side)
    <3>1. Denom[p][1] # Denom[p][2] /\ s \in {1, 2} /\ Other(side) \in {1, 2}
      BY HopersPoolAssumption, SideFacts
    <3> QED
      BY <3>1 DEF t
  <2>4. b2[t2][r] = b[t2][r] + Credit(t2, r, t, recipient, c.out)
                             - Credit(t2, r, t, p, c.out)
    BY <1>3, <2>1
  <2> HIDE DEF t2
  <2>5. b2[t2][r] >= b[t2][r] - (IF r = p /\ s = Other(side) THEN c.out ELSE 0)
    BY <1>1, <2>2, <2>3, <2>4 DEF Credit
  <2> QED
    BY <2>5 DEF t2
<1> QED
  BY <1>3, <1>4 DEF b2

-----------------------------------------------------------------------------
(* The two swap transactions.                                              *)

(* What the rest of the proofs need of a swap transaction.                 *)
SwapEffect ==
    /\ reserve' \in Reserves
    /\ bal' \in Balances
    /\ poolBurned' \in [Pools -> Nat]
    /\ \A r \in Pools, s \in Side :
          Gap(bal', reserve', poolBurned', r, s) >= Gap(bal, reserve, poolBurned, r, s)
    /\ \A r \in Pools :
          /\ reserve[r][1] * reserve[r][2] <= reserve'[r][1] * reserve'[r][2]
          /\ reserve[r][1] > 0 => reserve'[r][1] > 0

LEMMA GapIsInt ==
    ASSUME NEW b \in Balances, NEW res \in Reserves, NEW burned \in [Pools -> Nat],
           NEW p \in Pools, NEW side \in Side
    PROVE  Gap(b, res, burned, p, side) \in Int
<1>1. /\ Denom[p][side] \in Tokens /\ p \in Account
  BY HopersPoolAssumption DEF Account
<1>2. b[Denom[p][side]][p] \in Nat /\ res[p][side] \in Nat /\ burned[p] \in Nat
  BY <1>1 DEF Balances, Reserves
<1> QED
  BY <1>2 DEF Gap

LEMMA SwapKeeps ==
    ASSUME TypeOK, FeesSound, NEW u \in Users, NEW p \in Pools, NEW side \in Side,
           NEW n \in Nat, NEW min \in Nat, NEW recipient \in Account,
           NEW expiration, Swap(u, p, side, n, min, recipient, expiration)
    PROVE  SwapEffect
<1> DEFINE c == Charges(reserve, p, side, n)
           b4 == Collect(bal, p, side, u, c).bal
           after == ReservesAfter(reserve, p, side, c)
           now == BurnedAfter(poolBurned, p, side, c)
<1>1. reserve \in Reserves /\ bal \in Balances /\ poolBurned \in [Pools -> Nat]
  BY DEF TypeOK, Reserves, Balances
<1>2. /\ Charges_ok(reserve, p, side, n)
      /\ Collect(bal, p, side, u, c).ok
      /\ Pay_ok(b4, p, side, c)
      /\ reserve' = after /\ bal' = Pay(b4, p, side, recipient, c) /\ poolBurned' = now
  BY DEF Swap, BurnedAfter
<1>3. /\ c \in ChargesType /\ c.amount = n
      /\ c.net + c.fee + (IF side = 1 THEN c.burn ELSE 0) = n
      /\ c.out < reserve[p][Other(side)]
  BY <1>1, <1>2, ChargesBound
<1>4. u \in Account /\ u \notin Pools
  BY HopersPoolAssumption DEF Account
<1>5. \A r \in Pools :
         /\ reserve[r][1] * reserve[r][2] <= after[r][1] * after[r][2]
         /\ reserve[r][1] > 0 => after[r][1] > 0
  BY <1>1, <1>2, LegKeepsProduct
<1> HIDE DEF c
<1>6. /\ b4 \in Balances /\ after \in Reserves /\ now \in [Pools -> Nat]
      /\ \A r \in Pools, s \in Side :
            Gap(b4, after, now, r, s)
               >= Gap(bal, reserve, poolBurned, r, s)
                    + (IF r = p /\ s = Other(side) THEN c.out ELSE 0)
                    - (IF r = u /\ Denom[r][s] = Denom[p][side] THEN c.amount ELSE 0)
  BY <1>1, <1>2, <1>3, <1>4, LegKeepsSurplus
<1> HIDE DEF b4, after, now
<1>7. /\ bal' \in Balances
      /\ \A r \in Pools, s \in Side :
            bal'[Denom[r][s]][r] >= b4[Denom[r][s]][r]
                                      - (IF r = p /\ s = Other(side) THEN c.out ELSE 0)
  BY <1>2, <1>3, <1>6, PayEffect
<1>8. ASSUME NEW r \in Pools, NEW s \in Side
      PROVE  Gap(bal', reserve', poolBurned', r, s) >= Gap(bal, reserve, poolBurned, r, s)
  <2>1. /\ bal'[Denom[r][s]][r] \in Nat /\ b4[Denom[r][s]][r] \in Nat
        /\ after[r][s] \in Nat /\ now[r] \in Nat /\ c.out \in Nat
    <3>1. Denom[r][s] \in Tokens /\ r \in Account
      BY HopersPoolAssumption DEF Account
    <3> QED
      BY <1>3, <1>6, <1>7, <3>1 DEF Balances, Reserves, ChargesType
  <2>2. Gap(bal', after, now, r, s)
          >= Gap(b4, after, now, r, s) - (IF r = p /\ s = Other(side) THEN c.out ELSE 0)
    BY <1>7, <2>1 DEF Gap
  <2>3. Gap(b4, after, now, r, s)
          >= Gap(bal, reserve, poolBurned, r, s)
               + (IF r = p /\ s = Other(side) THEN c.out ELSE 0)
    <3>1. r # u
      BY <1>4
    <3> QED
      BY <1>1, <1>6, <2>1, <3>1, GapIsInt
  <2>4. /\ Gap(bal', after, now, r, s) \in Int /\ Gap(b4, after, now, r, s) \in Int
        /\ Gap(bal, reserve, poolBurned, r, s) \in Int
    BY <1>1, <1>6, <1>7, GapIsInt
  <2>5. Gap(bal', after, now, r, s) >= Gap(bal, reserve, poolBurned, r, s)
    BY <2>1, <2>2, <2>3, <2>4
  <2> QED
    BY <1>2, <2>5
<1> QED
  BY <1>2, <1>5, <1>6, <1>7, <1>8 DEF SwapEffect

(* The second leg of a pass through is paid for by the first pool out of   *)
(* what the first leg took off its reserve, and it takes back what the     *)
(* first leg left it ahead.                                                *)
LEMMA PassThroughKeeps ==
    ASSUME TypeOK, FeesSound, NEW u \in Users, NEW p \in Pools, NEW q \in Pools,
           NEW side \in Side, NEW n \in Nat, NEW min \in Nat, NEW expiration,
           PassThroughSwap(u, p, q, side, n, min, expiration)
    PROVE  SwapEffect
<1> DEFINE token == Denom[p][Other(side)]
           c1 == Charges(reserve, p, side, n)
           b1 == Collect(bal, p, side, u, c1).bal
           between == ReservesAfter(reserve, p, side, c1)
           now1 == BurnedAfter(poolBurned, p, side, c1)
           side2 == InputSideOf(q, token)
           c2 == Charges(between, q, side2, c1.out)
           b2 == Collect(b1, q, side2, p, c2).bal
           after == ReservesAfter(between, q, side2, c2)
           now2 == BurnedAfter(now1, q, side2, c2)
<1>1. reserve \in Reserves /\ bal \in Balances /\ poolBurned \in [Pools -> Nat]
  BY DEF TypeOK, Reserves, Balances
<1>2. /\ Charges_ok(reserve, p, side, n)
      /\ Collect(bal, p, side, u, c1).ok
  BY DEF PassThroughSwap
<1>3. /\ Charges_ok(between, q, side2, c1.out)
      /\ Collect(b1, q, side2, p, c2).ok
      /\ Pay_ok(b2, q, side2, c2)
  BY DEF PassThroughSwap
<1>4. reserve' = after /\ bal' = Pay(b2, q, side2, u, c2)
  BY DEF PassThroughSwap
<1>5. poolBurned' = now2
  BY DEF PassThroughSwap, BurnedAfter
<1>6. side2 \in Side /\ Denom[q][side2] = token
  <2>1. token \in {Denom[q][1], Denom[q][2]}
    BY DEF PassThroughSwap
  <2> QED
    BY <2>1, SideFacts DEF InputSideOf
<1>7. u \in Account /\ u \notin Pools /\ p \in Account
  BY HopersPoolAssumption DEF Account
<1>8. /\ c1 \in ChargesType /\ c1.amount = n
      /\ c1.net + c1.fee + (IF side = 1 THEN c1.burn ELSE 0) = n
      /\ c1.out < reserve[p][Other(side)]
  BY <1>1, <1>2, ChargesBound
<1>9. /\ between \in Reserves
      /\ \A r \in Pools :
            /\ reserve[r][1] * reserve[r][2] <= between[r][1] * between[r][2]
            /\ reserve[r][1] > 0 => between[r][1] > 0
  BY <1>1, <1>2, LegKeepsProduct
<1> HIDE DEF c1
<1>10. /\ b1 \in Balances /\ now1 \in [Pools -> Nat]
       /\ \A r \in Pools, s \in Side :
             Gap(b1, between, now1, r, s)
                >= Gap(bal, reserve, poolBurned, r, s)
                     + (IF r = p /\ s = Other(side) THEN c1.out ELSE 0)
                     - (IF r = u /\ Denom[r][s] = Denom[p][side] THEN c1.amount ELSE 0)
  BY <1>1, <1>2, <1>7, <1>8, LegKeepsSurplus
<1> HIDE DEF b1, between, now1, side2
<1>11. c1.out \in Nat
  BY <1>8 DEF ChargesType
<1>12. /\ c2 \in ChargesType /\ c2.amount = c1.out
       /\ c2.net + c2.fee + (IF side2 = 1 THEN c2.burn ELSE 0) = c1.out
       /\ c2.out < between[q][Other(side2)]
  BY <1>3, <1>6, <1>9, <1>11, ChargesBound
<1>13. /\ after \in Reserves
       /\ \A r \in Pools :
             /\ between[r][1] * between[r][2] <= after[r][1] * after[r][2]
             /\ between[r][1] > 0 => after[r][1] > 0
  BY <1>3, <1>6, <1>9, <1>11, LegKeepsProduct
<1> HIDE DEF c2
<1>14. /\ b2 \in Balances /\ now2 \in [Pools -> Nat]
       /\ \A r \in Pools, s \in Side :
             Gap(b2, after, now2, r, s)
                >= Gap(b1, between, now1, r, s)
                     + (IF r = q /\ s = Other(side2) THEN c2.out ELSE 0)
                     - (IF r = p /\ Denom[r][s] = Denom[q][side2] THEN c2.amount ELSE 0)
  BY <1>3, <1>6, <1>7, <1>9, <1>10, <1>12, LegKeepsSurplus
<1> HIDE DEF b2, after, now2
<1>15. /\ bal' \in Balances
       /\ \A r \in Pools, s \in Side :
             bal'[Denom[r][s]][r] >= b2[Denom[r][s]][r]
                                       - (IF r = q /\ s = Other(side2) THEN c2.out ELSE 0)
  BY <1>3, <1>4, <1>6, <1>7, <1>12, <1>14, PayEffect
<1>16. ASSUME NEW r \in Pools, NEW s \in Side
       PROVE  Gap(bal', reserve', poolBurned', r, s) >= Gap(bal, reserve, poolBurned, r, s)
  <2>1. /\ bal'[Denom[r][s]][r] \in Nat /\ b2[Denom[r][s]][r] \in Nat
        /\ after[r][s] \in Nat /\ now2[r] \in Nat /\ c2.out \in Nat
    <3>1. Denom[r][s] \in Tokens /\ r \in Account
      BY HopersPoolAssumption DEF Account
    <3> QED
      BY <1>12, <1>13, <1>14, <1>15, <3>1 DEF Balances, Reserves, ChargesType
  <2>2. Gap(bal', after, now2, r, s)
          >= Gap(b2, after, now2, r, s) - (IF r = q /\ s = Other(side2) THEN c2.out ELSE 0)
    BY <1>15, <2>1 DEF Gap
  <2>3. (r = p /\ Denom[r][s] = token) <=> (r = p /\ s = Other(side))
    <3>1. Denom[r][1] # Denom[r][2] /\ s \in {1, 2} /\ Other(side) \in {1, 2}
      BY HopersPoolAssumption, SideFacts
    <3> QED
      BY <3>1
  <2> DEFINE owed == IF r = p /\ s = Other(side) THEN c1.out ELSE 0
             owed2 == IF r = q /\ s = Other(side2) THEN c2.out ELSE 0
  <2>4. Gap(b1, between, now1, r, s) >= Gap(bal, reserve, poolBurned, r, s) + owed - 0
    BY <1>7, <1>10
  <2>5. Gap(b2, after, now2, r, s) >= Gap(b1, between, now1, r, s) + owed2 - owed
    BY <1>6, <1>12, <1>14, <2>3
  <2>6. owed \in Nat /\ owed2 \in Nat
    BY <1>11, <2>1
  <2>7. /\ Gap(bal', after, now2, r, s) \in Int /\ Gap(b2, after, now2, r, s) \in Int
        /\ Gap(b1, between, now1, r, s) \in Int
        /\ Gap(bal, reserve, poolBurned, r, s) \in Int
    BY <1>1, <1>9, <1>10, <1>13, <1>14, <1>15, GapIsInt
  <2>8. Gap(bal', after, now2, r, s) >= Gap(b2, after, now2, r, s) - owed2
    BY <2>2
  <2> HIDE DEF owed, owed2
  <2>9. Gap(bal', after, now2, r, s) >= Gap(bal, reserve, poolBurned, r, s)
    BY <2>4, <2>5, <2>6, <2>7, <2>8
  <2> QED
    BY <1>4, <1>5, <2>9
<1>17. ASSUME NEW r \in Pools
       PROVE  /\ reserve[r][1] * reserve[r][2] <= reserve'[r][1] * reserve'[r][2]
              /\ reserve[r][1] > 0 => reserve'[r][1] > 0
  <2>1. /\ reserve[r][1] * reserve[r][2] \in Nat /\ between[r][1] * between[r][2] \in Nat
        /\ after[r][1] * after[r][2] \in Nat
    <3>1. /\ reserve[r][1] \in Nat /\ reserve[r][2] \in Nat
          /\ between[r][1] \in Nat /\ between[r][2] \in Nat
          /\ after[r][1] \in Nat /\ after[r][2] \in Nat
      BY <1>1, <1>9, <1>13, SideFacts DEF Reserves
    <3> QED
      BY <3>1, SMT
  <2> QED
    BY <1>4, <1>9, <1>13, <2>1
<1> QED
  BY <1>4, <1>5, <1>13, <1>14, <1>15, <1>16, <1>17 DEF SwapEffect

-----------------------------------------------------------------------------
(* What every transaction does.                                            *)

(* The inductive invariant of the state itself.                            *)
IInv == TypeOK /\ FeesSound

GrantType ==
    [Pools \X Pools \X Tokens -> [amount : Nat, expires : Nat \cup {NoExpiration}]]

Undiluted(r) ==
    lpSupply[r] > 0 /\ lpSupply'[r] > 0 =>
        reserve'[r][1] * reserve'[r][2] * lpSupply[r] * lpSupply[r]
            >= reserve[r][1] * reserve[r][2] * lpSupply'[r] * lpSupply'[r]

StaysSeeded(r) ==
    (lpSupply[r] > 0 => reserve[r][1] > 0) => (lpSupply'[r] > 0 => reserve'[r][1] > 0)

StepOK ==
    /\ IInv'
    /\ \A r \in Pools, s \in Side :
          Gap(bal', reserve', poolBurned', r, s) >= Gap(bal, reserve, poolBurned, r, s)
    /\ \A r \in Pools : Undiluted(r) /\ StaysSeeded(r)

(* Reserves and LP supply of a pool that keep the product per squared LP   *)
(* token: both reserves grow, or shrink, no worse than the supply.         *)
LEMMA RatioKeepsProduct ==
    ASSUME NEW x \in Nat, NEW y \in Nat, NEW s \in Nat,
           NEW x2 \in Nat, NEW y2 \in Nat, NEW s2 \in Nat,
           x * s2 <= x2 * s, y * s2 <= y2 * s
    PROVE  x * y * s2 * s2 <= x2 * y2 * s * s
<1>1. /\ x * s2 \in Nat /\ y * s2 \in Nat /\ x2 * s \in Nat /\ y2 * s \in Nat
  BY SMT
<1>2. (x * s2) * (y * s2) <= (x2 * s) * (y * s2)
  BY <1>1, MulMono
<1>3. (x2 * s) * (y * s2) <= (x2 * s) * (y2 * s)
  BY <1>1, MulMono
<1>4. /\ (x * s2) * (y * s2) = x * y * s2 * s2
      /\ (x2 * s) * (y2 * s) = x2 * y2 * s * s
  BY SMT
<1>5. /\ (x * s2) * (y * s2) \in Nat /\ (x2 * s) * (y * s2) \in Nat
      /\ (x2 * s) * (y2 * s) \in Nat
  BY <1>1, SMT
<1> QED
  BY <1>2, <1>3, <1>4, <1>5

(* The same when the supply does not change.                               *)
LEMMA SameSupplyKeepsProduct ==
    ASSUME NEW k \in Nat, NEW k2 \in Nat, NEW s \in Nat, NEW s2 \in Nat,
           k <= k2, s2 <= s
    PROVE  k * s2 * s2 <= k2 * s * s
<1>1. k * s2 <= k2 * s
  <2>1. k * s2 <= k2 * s2
    BY MulMono
  <2>2. k2 * s2 <= k2 * s
    BY MulMono
  <2>3. k * s2 \in Nat /\ k2 * s2 \in Nat /\ k2 * s \in Nat
    BY SMT
  <2> QED
    BY <2>1, <2>2, <2>3
<1>2. k * s2 \in Nat /\ k2 * s \in Nat
  BY SMT
<1>3. (k * s2) * s2 <= (k2 * s) * s2
  BY <1>1, <1>2, MulMono
<1>4. (k2 * s) * s2 <= (k2 * s) * s
  BY <1>2, MulMono
<1>5. (k * s2) * s2 \in Nat /\ (k2 * s) * s2 \in Nat /\ (k2 * s) * s \in Nat
  BY <1>2, SMT
<1> QED
  BY <1>3, <1>4, <1>5

LEMMA ReserveFacts ==
    ASSUME TypeOK, NEW r \in Pools
    PROVE  /\ reserve[r][1] \in Nat /\ reserve[r][2] \in Nat /\ lpSupply[r] \in Nat
           /\ reserve[r][1] * reserve[r][2] \in Nat
<1>1. reserve[r][1] \in Nat /\ reserve[r][2] \in Nat /\ lpSupply[r] \in Nat
  BY SideFacts DEF TypeOK
<1> QED
  BY <1>1, SMT

(* A step that leaves reserves and holdings alone, and mints no LP tokens. *)
LEMMA QuietStep ==
    ASSUME TypeOK, IInv', UNCHANGED <<reserve, bal, poolBurned>>,
           \A r \in Pools : lpSupply'[r] <= lpSupply[r]
    PROVE  StepOK
<1>1. ASSUME NEW r \in Pools, NEW s \in Side
      PROVE  Gap(bal', reserve', poolBurned', r, s) >= Gap(bal, reserve, poolBurned, r, s)
  <2>1. Gap(bal, reserve, poolBurned, r, s) \in Int
    BY GapIsInt DEF TypeOK, Balances, Reserves
  <2> QED
    BY <2>1
<1>2. ASSUME NEW r \in Pools
      PROVE  Undiluted(r) /\ StaysSeeded(r)
  <2>1. /\ reserve[r][1] * reserve[r][2] \in Nat
        /\ lpSupply[r] \in Nat /\ lpSupply'[r] \in Nat /\ lpSupply'[r] <= lpSupply[r]
    BY ReserveFacts DEF IInv, TypeOK
  <2> DEFINE k == reserve[r][1] * reserve[r][2]
  <2>2. k * lpSupply'[r] * lpSupply'[r] <= k * lpSupply[r] * lpSupply[r]
    <3> HIDE DEF k
    <3> QED
      BY <2>1, SameSupplyKeepsProduct DEF k
  <2>3. reserve' = reserve
    OBVIOUS
  <2>4. Undiluted(r)
    <3>1. k * lpSupply'[r] * lpSupply'[r] \in Nat /\ k * lpSupply[r] * lpSupply[r] \in Nat
      <4> HIDE DEF k
      <4> QED
        BY <2>1, SMT DEF k
    <3> QED
      BY <2>2, <2>3, <3>1 DEF Undiluted
  <2>5. StaysSeeded(r)
    BY <2>1, <2>3 DEF StaysSeeded
  <2> QED
    BY <2>4, <2>5
<1> QED
  BY <1>1, <1>2 DEF StepOK

(* A swap transaction, whatever it does to the allowances.                 *)
LEMMA SwapEffectStep ==
    ASSUME IInv, SwapEffect, UNCHANGED <<fees, burnFee, owner, lp, lpSupply, height>>,
           grant' \in GrantType
    PROVE  StepOK
<1>1. TypeOK'
  BY DEF IInv, TypeOK, SwapEffect, Reserves, Balances, GrantType
<1>2. FeesSound'
  BY DEF IInv, FeesSound
<1>3. ASSUME NEW r \in Pools
      PROVE  Undiluted(r) /\ StaysSeeded(r)
  <2> DEFINE k == reserve[r][1] * reserve[r][2]
             k2 == reserve'[r][1] * reserve'[r][2]
  <2>1. /\ k \in Nat /\ lpSupply[r] \in Nat
    BY ReserveFacts DEF IInv
  <2>2. k2 \in Nat
    <3>1. reserve'[r][1] \in Nat /\ reserve'[r][2] \in Nat
      BY SideFacts DEF SwapEffect, Reserves
    <3> QED
      BY <3>1, SMT
  <2>3. k <= k2 /\ (reserve[r][1] > 0 => reserve'[r][1] > 0) /\ lpSupply' = lpSupply
    BY DEF SwapEffect
  <2> HIDE DEF k, k2
  <2>4. k * lpSupply[r] * lpSupply[r] <= k2 * lpSupply[r] * lpSupply[r]
    BY <2>1, <2>2, <2>3, SameSupplyKeepsProduct
  <2>5. k * lpSupply[r] * lpSupply[r] \in Nat /\ k2 * lpSupply[r] * lpSupply[r] \in Nat
    BY <2>1, <2>2, SMT
  <2> QED
    BY <2>3, <2>4, <2>5 DEF Undiluted, StaysSeeded, k, k2
<1> QED
  BY <1>1, <1>2, <1>3 DEF StepOK, IInv, SwapEffect

LEMMA SwapStepOK ==
    ASSUME IInv, NEW u \in Users, NEW p \in Pools, NEW side \in Side,
           NEW n \in Nat, NEW min \in Nat, NEW recipient \in Account,
           NEW expiration, Swap(u, p, side, n, min, recipient, expiration)
    PROVE  StepOK
<1>1. SwapEffect
  BY SwapKeeps DEF IInv
<1>2. UNCHANGED <<fees, burnFee, owner, lp, lpSupply, height>> /\ grant' \in GrantType
  BY DEF Swap, IInv, TypeOK, GrantType
<1> QED
  BY <1>1, <1>2, SwapEffectStep

(* The allowance of a pass through is spent but for less than one unit per *)
(* dev wallet, and what is left of it expires in the next block.           *)
LEMMA GrantSpent ==
    ASSUME IInv, NEW u \in Users, NEW p \in Pools, NEW q \in Pools,
           NEW side \in Side, NEW n \in Nat, NEW min \in Nat, NEW expiration,
           PassThroughSwap(u, p, q, side, n, min, expiration)
    PROVE  /\ grant' \in GrantType
           /\ \A g \in Pools \X Pools \X Tokens :
                 \/ grant'[g] = grant[g]
                 \/ /\ grant'[g].amount - grant[g].amount \in 0 .. 1
                    /\ grant'[g].expires = height + 1
<1> DEFINE token == Denom[p][Other(side)]
           c1 == Charges(reserve, p, side, n)
           between == ReservesAfter(reserve, p, side, c1)
           side2 == InputSideOf(q, token)
           c2 == Charges(between, q, side2, c1.out)
           g0 == <<p, q, token>>
           left == grant[g0].amount + c1.out - Pulled(q, side2, c2)
           spent == [amount |-> left, expires |-> height + 1]
<1>1. CASE token \notin Cw20
  <2>1. grant' = grant
    BY <1>1 DEF PassThroughSwap
  <2> QED
    BY <2>1 DEF IInv, TypeOK, GrantType
<1>2. CASE token \in Cw20
  <2>1. grant' = [grant EXCEPT ![g0] = spent]
    BY <1>2 DEF PassThroughSwap, AllowanceExpiry
  <2>2. side2 \in Side /\ Denom[q][side2] = token
    <3>1. token \in {Denom[q][1], Denom[q][2]}
      BY DEF PassThroughSwap
    <3> QED
      BY <3>1, SideFacts DEF InputSideOf
  <2>3. reserve \in Reserves /\ height \in Nat
    BY DEF IInv, TypeOK, Reserves
  <2>4. Charges_ok(reserve, p, side, n) /\ Charges_ok(between, q, side2, c1.out)
    BY DEF PassThroughSwap
  <2>5. c1 \in ChargesType /\ c1.out \in Nat
    <3>1. c1 \in ChargesType
      BY <2>3, <2>4, ChargesBound DEF IInv
    <3> HIDE DEF c1
    <3> QED
      BY <3>1 DEF ChargesType
  <2>6. between \in Reserves
    BY <2>3, <2>4, LegKeepsProduct DEF IInv
  <2> HIDE DEF c1, between, side2
  <2>7. /\ c2 \in ChargesType
        /\ c2.net + c2.fee + (IF side2 = 1 THEN c2.burn ELSE 0) = c1.out
    BY <2>2, <2>4, <2>5, <2>6, ChargesBound DEF IInv
  <2> HIDE DEF c2
  <2>8. c2.net \in Nat /\ c2.fee \in Nat /\ c2.burn \in Nat
    BY <2>7 DEF ChargesType
  <2>9. /\ Share(q, c2, 1) \in Nat /\ Share(q, c2, 2) \in Nat
        /\ Share(q, c2, 1) + Share(q, c2, 2) <= c2.fee
        /\ c2.fee <= Share(q, c2, 1) + Share(q, c2, 2) + 1
    <3>1. /\ fees[q].wallets[1].ratio \in Nat /\ fees[q].wallets[2].ratio \in Nat
          /\ fees[q].wallets[1].ratio + fees[q].wallets[2].ratio = DecOne
      BY DEF IInv, TypeOK, FeesSound, Wallet, MaxWallets
    <3>2. DecOne \in Nat \ {0}
      BY PoolMathAssumption
    <3> QED
      BY <2>8, <3>1, <3>2, SharesNearlyAll DEF Share
  <2>10. side2 = 1 => BurnDue(q, c2) = c2.burn
    BY <1>2, <2>2 DEF BurnDue
  <2>11. Pulled(q, side2, c2) \in Nat /\ c1.out - Pulled(q, side2, c2) \in 0 .. 1
    BY <2>5, <2>7, <2>8, <2>9, <2>10, SideFacts, <2>2 DEF Pulled
  <2>12. g0 \in Pools \X Pools \X Tokens
    BY SideFacts, HopersPoolAssumption
  <2>13. grant[g0].amount \in Nat
    BY <2>12 DEF IInv, TypeOK
  <2>14. left \in Nat /\ left - grant[g0].amount \in 0 .. 1
    BY <2>5, <2>11, <2>13
  <2>15. spent \in [amount : Nat, expires : Nat \cup {NoExpiration}]
    BY <2>3, <2>14
  <2> HIDE DEF g0, left
  <2>16. grant' \in GrantType
    BY <2>1, <2>15 DEF IInv, TypeOK, GrantType
  <2>17. ASSUME NEW g \in Pools \X Pools \X Tokens
         PROVE  \/ grant'[g] = grant[g]
                \/ /\ grant'[g].amount - grant[g].amount \in 0 .. 1
                   /\ grant'[g].expires = height + 1
    <3>1. grant'[g] = IF g = g0 THEN spent ELSE grant[g]
      BY <2>1 DEF IInv, TypeOK
    <3>2. CASE g = g0
      BY <2>14, <3>1, <3>2
    <3>3. CASE g # g0
      BY <3>1, <3>3
    <3> QED
      BY <3>2, <3>3
  <2> QED
    BY <2>16, <2>17
<1> QED
  BY <1>1, <1>2

LEMMA PassThroughStepOK ==
    ASSUME IInv, NEW u \in Users, NEW p \in Pools, NEW q \in Pools,
           NEW side \in Side, NEW n \in Nat, NEW min \in Nat, NEW expiration,
           PassThroughSwap(u, p, q, side, n, min, expiration)
    PROVE  StepOK
<1>1. SwapEffect
  BY PassThroughKeeps DEF IInv
<1>2. UNCHANGED <<fees, burnFee, owner, lp, lpSupply, height>>
  BY DEF PassThroughSwap
<1> QED
  BY <1>1, <1>2, GrantSpent, SwapEffectStep

-----------------------------------------------------------------------------
(* Deposits and withdrawals.                                               *)

(* The two transfers of a deposit credit the pool and no other pool.       *)
LEMMA DepositEffect ==
    ASSUME TypeOK, NEW u \in Users, NEW p \in Pools, NEW n1 \in Nat, NEW n2 \in Nat,
           bal[Denom[p][1]][u] >= n1, bal[Denom[p][2]][u] >= n2
    PROVE  LET b2 == Send(Send(bal, Denom[p][1], u, p, n1), Denom[p][2], u, p, n2)
           IN  /\ b2 \in Balances
               /\ \A r \in Pools, s \in Side :
                     b2[Denom[r][s]][r] = bal[Denom[r][s]][r]
                         + (IF r = p THEN IF s = 1 THEN n1 ELSE n2 ELSE 0)
<1> DEFINE t1 == Denom[p][1]
           t2 == Denom[p][2]
           b1 == Send(bal, t1, u, p, n1)
           b2 == Send(b1, t2, u, p, n2)
<1>1. /\ t1 \in Tokens /\ t2 \in Tokens /\ t1 # t2
      /\ u \in Account /\ p \in Account /\ u \notin Pools
  BY SideFacts, HopersPoolAssumption DEF Account
<1>2. bal \in Balances /\ bal[t1][u] >= n1 /\ bal[t2][u] >= n2
  BY DEF TypeOK, Balances
<1> SUFFICES /\ b2 \in Balances
             /\ \A r \in Pools, s \in Side :
                   b2[Denom[r][s]][r] = bal[Denom[r][s]][r]
                       + (IF r = p THEN IF s = 1 THEN n1 ELSE n2 ELSE 0)
  OBVIOUS
<1>3. \A r \in Pools, s \in Side :
         /\ Denom[r][s] \in Tokens /\ r \in Account /\ r # u
         /\ r = p => Denom[r][s] = IF s = 1 THEN t1 ELSE t2
  <2> TAKE r \in Pools, s \in Side
  <2>1. Denom[r][s] \in Tokens /\ r \in Account /\ r # u
    BY <1>1, HopersPoolAssumption DEF Account
  <2>2. CASE s = 1
    BY <2>1, <2>2
  <2>3. CASE s = 2
    BY <2>1, <2>3
  <2> QED
    BY <2>2, <2>3, SideFacts
<1> HIDE DEF t1, t2, b1, b2
<1>4. /\ b1 \in Balances
      /\ \A t \in Tokens, a \in Account :
            b1[t][a] = bal[t][a] + Credit(t, a, t1, p, n1) - Credit(t, a, t1, u, n1)
  BY <1>1, <1>2, SendEffect DEF b1
<1>5. b1[t2][u] >= n2
  <2>1. b1[t2][u] = bal[t2][u] + Credit(t2, u, t1, p, n1) - Credit(t2, u, t1, u, n1)
    BY <1>1, <1>4
  <2>2. bal[t2][u] \in Nat
    BY <1>1, <1>2 DEF Balances
  <2> QED
    BY <1>1, <1>2, <2>1, <2>2 DEF Credit
<1>6. /\ b2 \in Balances
      /\ \A t \in Tokens, a \in Account :
            b2[t][a] = b1[t][a] + Credit(t, a, t2, p, n2) - Credit(t, a, t2, u, n2)
  BY <1>1, <1>4, <1>5, SendEffect DEF b2
<1>7. ASSUME NEW r \in Pools, NEW s \in Side
      PROVE  b2[Denom[r][s]][r] = bal[Denom[r][s]][r]
                 + (IF r = p THEN IF s = 1 THEN n1 ELSE n2 ELSE 0)
  <2> DEFINE t == Denom[r][s]
  <2>1. t \in Tokens /\ r \in Account /\ r # u /\ (r = p => t = IF s = 1 THEN t1 ELSE t2)
    BY <1>3
  <2> HIDE DEF t
  <2>2. bal[t][r] \in Nat
    BY <1>2, <2>1 DEF Balances
  <2>3. b2[t][r] = bal[t][r] + Credit(t, r, t1, p, n1) + Credit(t, r, t2, p, n2)
    BY <1>4, <1>6, <2>1, <2>2 DEF Credit
  <2>4. s \in {1, 2}
    BY SideFacts
  <2>5. b2[t][r] = bal[t][r] + (IF r = p THEN IF s = 1 THEN n1 ELSE n2 ELSE 0)
    BY <1>1, <2>1, <2>2, <2>3, <2>4 DEF Credit
  <2> QED
    BY <2>5 DEF t
<1> QED
  BY <1>6, <1>7

(* The two transfers of a withdrawal debit the pool and no other pool.     *)
LEMMA WithdrawEffect ==
    ASSUME TypeOK, NEW u \in Users, NEW p \in Pools, NEW n1 \in Nat, NEW n2 \in Nat,
           bal[Denom[p][1]][p] >= n1, bal[Denom[p][2]][p] >= n2
    PROVE  LET b2 == Send(Send(bal, Denom[p][1], p, u, n1), Denom[p][2], p, u, n2)
           IN  /\ b2 \in Balances
               /\ \A r \in Pools, s \in Side :
                     b2[Denom[r][s]][r] = bal[Denom[r][s]][r]
                         - (IF r = p THEN IF s = 1 THEN n1 ELSE n2 ELSE 0)
<1> DEFINE t1 == Denom[p][1]
           t2 == Denom[p][2]
           b1 == Send(bal, t1, p, u, n1)
           b2 == Send(b1, t2, p, u, n2)
<1>1. /\ t1 \in Tokens /\ t2 \in Tokens /\ t1 # t2
      /\ u \in Account /\ p \in Account /\ u \notin Pools
  BY SideFacts, HopersPoolAssumption DEF Account
<1>2. bal \in Balances /\ bal[t1][p] >= n1 /\ bal[t2][p] >= n2
  BY DEF TypeOK, Balances
<1> SUFFICES /\ b2 \in Balances
             /\ \A r \in Pools, s \in Side :
                   b2[Denom[r][s]][r] = bal[Denom[r][s]][r]
                       - (IF r = p THEN IF s = 1 THEN n1 ELSE n2 ELSE 0)
  OBVIOUS
<1>3. \A r \in Pools, s \in Side :
         /\ Denom[r][s] \in Tokens /\ r \in Account /\ r # u
         /\ r = p => Denom[r][s] = IF s = 1 THEN t1 ELSE t2
  <2> TAKE r \in Pools, s \in Side
  <2>1. Denom[r][s] \in Tokens /\ r \in Account /\ r # u
    BY <1>1, HopersPoolAssumption DEF Account
  <2>2. CASE s = 1
    BY <2>1, <2>2
  <2>3. CASE s = 2
    BY <2>1, <2>3
  <2> QED
    BY <2>2, <2>3, SideFacts
<1> HIDE DEF t1, t2, b1, b2
<1>4. /\ b1 \in Balances
      /\ \A t \in Tokens, a \in Account :
            b1[t][a] = bal[t][a] + Credit(t, a, t1, u, n1) - Credit(t, a, t1, p, n1)
  BY <1>1, <1>2, SendEffect DEF b1
<1>5. b1[t2][p] >= n2
  <2>1. b1[t2][p] = bal[t2][p] + Credit(t2, p, t1, u, n1) - Credit(t2, p, t1, p, n1)
    BY <1>1, <1>4
  <2>2. bal[t2][p] \in Nat
    BY <1>1, <1>2 DEF Balances
  <2> QED
    BY <1>1, <1>2, <2>1, <2>2 DEF Credit
<1>6. /\ b2 \in Balances
      /\ \A t \in Tokens, a \in Account :
            b2[t][a] = b1[t][a] + Credit(t, a, t2, u, n2) - Credit(t, a, t2, p, n2)
  BY <1>1, <1>4, <1>5, SendEffect DEF b2
<1>7. ASSUME NEW r \in Pools, NEW s \in Side
      PROVE  b2[Denom[r][s]][r] = bal[Denom[r][s]][r]
                 - (IF r = p THEN IF s = 1 THEN n1 ELSE n2 ELSE 0)
  <2> DEFINE t == Denom[r][s]
  <2>1. t \in Tokens /\ r \in Account /\ r # u /\ (r = p => t = IF s = 1 THEN t1 ELSE t2)
    BY <1>3
  <2> HIDE DEF t
  <2>2. bal[t][r] \in Nat
    BY <1>2, <2>1 DEF Balances
  <2>3. b2[t][r] = bal[t][r] - Credit(t, r, t1, p, n1) - Credit(t, r, t2, p, n2)
    BY <1>4, <1>6, <2>1, <2>2 DEF Credit
  <2>4. s \in {1, 2}
    BY SideFacts
  <2>5. b2[t][r] = bal[t][r] - (IF r = p THEN IF s = 1 THEN n1 ELSE n2 ELSE 0)
    BY <1>1, <2>1, <2>2, <2>3, <2>4 DEF Credit
  <2> QED
    BY <2>5 DEF t
<1> QED
  BY <1>6, <1>7

(* Shares bought: the LP tokens minted for n1 of Token1 and the Token2     *)
(* asked for, against the reserves x and y and the supply s.               *)
LEMMA MintFair ==
    ASSUME NEW x \in Nat, NEW y \in Nat, NEW s \in Nat, NEW n1 \in Nat, x > 0
    PROVE  LET liquidity == (n1 * s) \div x
               n2 == (n1 * y) \div x + 1
           IN  /\ liquidity \in Nat /\ n2 \in Nat
               /\ x * (s + liquidity) <= (x + n1) * s
               /\ y * (s + liquidity) <= (y + n2) * s
<1> DEFINE liquidity == (n1 * s) \div x
           d == (n1 * y) \div x
           n2 == d + 1
<1>1. n1 * s \in Nat /\ n1 * y \in Nat
  BY SMT
<1>2. liquidity \in Nat /\ x * liquidity <= n1 * s
  BY <1>1, DivFloor
<1>3. d \in Nat /\ n1 * y < x * d + x
  BY <1>1, DivFloor
<1> HIDE DEF liquidity, d
<1>4. n2 \in Nat /\ n1 * y <= x * n2
  <2>1. x * n2 = x * d + x
    BY <1>3, SMT
  <2>2. x * d \in Nat /\ n2 \in Nat
    BY <1>3, SMT
  <2> QED
    BY <1>1, <1>3, <2>1, <2>2
<1> HIDE DEF n2
<1>5. x * (s + liquidity) <= (x + n1) * s
  <2>1. /\ x * (s + liquidity) = x * s + x * liquidity
        /\ (x + n1) * s = x * s + n1 * s
    BY <1>2, SMT
  <2>2. x * s \in Nat /\ x * liquidity \in Nat
    BY <1>2, SMT
  <2> QED
    BY <1>1, <1>2, <2>1, <2>2
<1>6. y * liquidity <= n2 * s
  <2>1. /\ y * liquidity \in Nat /\ n2 * s \in Nat /\ x * liquidity \in Nat
        /\ x * n2 \in Nat
    BY <1>2, <1>4, SMT
  <2>2. (x * liquidity) * y <= (n1 * s) * y
    BY <1>1, <1>2, <2>1, MulMono
  <2>3. (n1 * y) * s <= (x * n2) * s
    BY <1>1, <1>4, <2>1, MulMono
  <2>4. /\ (x * liquidity) * y = x * (y * liquidity)
        /\ (n1 * s) * y = (n1 * y) * s
        /\ (x * n2) * s = x * (n2 * s)
    BY <1>2, <1>4, SMT
  <2>5. /\ x * (y * liquidity) \in Nat /\ (n1 * y) * s \in Nat /\ x * (n2 * s) \in Nat
    BY <1>1, <2>1, SMT
  <2>6. x * (y * liquidity) <= x * (n2 * s)
    BY <2>2, <2>3, <2>4, <2>5
  <2> QED
    BY <2>1, <2>6, MulCancel
<1>7. y * (s + liquidity) <= (y + n2) * s
  <2>1. /\ y * (s + liquidity) = y * s + y * liquidity
        /\ (y + n2) * s = y * s + n2 * s
    BY <1>2, <1>4, SMT
  <2>2. y * s \in Nat /\ y * liquidity \in Nat /\ n2 * s \in Nat
    BY <1>2, <1>4, SMT
  <2> QED
    BY <1>6, <2>1, <2>2
<1> QED
  BY <1>2, <1>4, <1>5, <1>7 DEF liquidity, n2, d

(* Shares sold: what n LP tokens of a supply s redeem of a reserve x.      *)
LEMMA PayoutFair ==
    ASSUME NEW x \in Nat, NEW s \in Nat, NEW n \in Nat, s > 0, n <= s,
           payout(n, x, s) <= x
    PROVE  /\ payout(n, x, s) \in Nat
           /\ x - payout(n, x, s) \in Nat
           /\ x * (s - n) <= (x - payout(n, x, s)) * s
<1> DEFINE out == payout(n, x, s)
<1>1. n * x \in Nat
  BY SMT
<1>2. out \in Nat /\ s * out <= n * x
  BY <1>1, DivFloor DEF payout
<1> HIDE DEF out
<1>3. s - n \in Nat /\ x - out \in Nat
  BY <1>2 DEF out
<1>4. /\ x * (s - n) = x * s - n * x
      /\ (x - out) * s = x * s - s * out
  BY <1>2, <1>3, SMT
<1>5. x * s \in Nat /\ s * out \in Nat
  BY <1>2, SMT
<1>6. x * (s - n) <= (x - out) * s
  BY <1>1, <1>2, <1>4, <1>5
<1> QED
  BY <1>2, <1>3, <1>6 DEF out

(* A transaction of pool p that changes reserves and holdings by the same  *)
(* amounts, and the LP supply no faster than the reserves.                 *)
LEMMA LiquidityStepOK ==
    ASSUME IInv, NEW p \in Pools,
           reserve' \in Reserves, bal' \in Balances, lpSupply' \in [Pools -> Nat],
           lp' \in [Pools -> [Account -> Nat]],
           UNCHANGED <<fees, burnFee, owner, grant, height, poolBurned>>,
           \A r \in Pools, s \in Side :
               bal'[Denom[r][s]][r] - bal[Denom[r][s]][r] = reserve'[r][s] - reserve[r][s],
           \A r \in Pools : r # p => reserve'[r] = reserve[r] /\ lpSupply'[r] = lpSupply[r],
           lpSupply[p] > 0 =>
               /\ reserve[p][1] * lpSupply'[p] <= reserve'[p][1] * lpSupply[p]
               /\ reserve[p][2] * lpSupply'[p] <= reserve'[p][2] * lpSupply[p],
           (lpSupply[p] > 0 => reserve[p][1] > 0) =>
               (lpSupply'[p] > 0 => reserve'[p][1] > 0)
    PROVE  StepOK
<1>1. IInv'
  BY DEF IInv, TypeOK, FeesSound, Reserves, Balances
<1>2. ASSUME NEW r \in Pools, NEW s \in Side
      PROVE  Gap(bal', reserve', poolBurned', r, s) >= Gap(bal, reserve, poolBurned, r, s)
  <2> DEFINE t == Denom[r][s]
  <2>1. t \in Tokens /\ r \in Account
    BY HopersPoolAssumption DEF Account
  <2>2. /\ bal[t][r] \in Nat /\ bal'[t][r] \in Nat
        /\ reserve[r][s] \in Nat /\ reserve'[r][s] \in Nat /\ poolBurned[r] \in Nat
    <3>1. bal \in Balances /\ reserve \in Reserves /\ poolBurned[r] \in Nat
      BY DEF IInv, TypeOK, Reserves, Balances
    <3> HIDE DEF t
    <3>2. bal[t][r] \in Nat /\ bal'[t][r] \in Nat
      BY <2>1, <3>1, Zenon DEF Balances
    <3>3. reserve[r][s] \in Nat /\ reserve'[r][s] \in Nat
      BY <3>1, Zenon DEF Reserves
    <3> QED
      BY <3>1, <3>2, <3>3
  <2>3. bal'[t][r] - bal[t][r] = reserve'[r][s] - reserve[r][s]
    OBVIOUS
  <2>4. poolBurned' = poolBurned
    OBVIOUS
  <2> HIDE DEF t
  <2>5. CASE s = 1
    BY <2>2, <2>3, <2>4, <2>5 DEF Gap, t
  <2>6. CASE s # 1
    BY <2>2, <2>3, <2>4, <2>6 DEF Gap, t
  <2> QED
    BY <2>5, <2>6
<1>3. ASSUME NEW r \in Pools
      PROVE  Undiluted(r) /\ StaysSeeded(r)
  <2>1. /\ reserve[r][1] \in Nat /\ reserve[r][2] \in Nat /\ lpSupply[r] \in Nat
        /\ reserve'[r][1] \in Nat /\ reserve'[r][2] \in Nat /\ lpSupply'[r] \in Nat
    BY SideFacts DEF IInv, TypeOK, Reserves
  <2>2. CASE r = p
    <3>1. ASSUME lpSupply[p] > 0
          PROVE  Undiluted(p)
      <4>1. reserve[p][1] * reserve[p][2] * lpSupply'[p] * lpSupply'[p]
              <= reserve'[p][1] * reserve'[p][2] * lpSupply[p] * lpSupply[p]
        BY <2>1, <2>2, <3>1, RatioKeepsProduct
      <4>2. /\ reserve[p][1] * reserve[p][2] * lpSupply'[p] * lpSupply'[p] \in Nat
            /\ reserve'[p][1] * reserve'[p][2] * lpSupply[p] * lpSupply[p] \in Nat
        BY <2>1, <2>2, SMT
      <4> QED
        BY <4>1, <4>2 DEF Undiluted
    <3>2. Undiluted(p)
      BY <3>1 DEF Undiluted
    <3>3. StaysSeeded(p)
      BY DEF StaysSeeded
    <3> QED
      BY <2>2, <3>2, <3>3
  <2>3. CASE r # p
    <3>1. reserve'[r] = reserve[r] /\ lpSupply'[r] = lpSupply[r]
      BY <2>3
    <3>2. reserve[r][1] * reserve[r][2] * lpSupply[r] * lpSupply[r] \in Nat
      BY <2>1, SMT
    <3> QED
      BY <3>1, <3>2 DEF Undiluted, StaysSeeded
  <2> QED
    BY <2>2, <2>3
<1> QED
  BY <1>1, <1>2, <1>3 DEF StepOK

LEMMA LpBalanceSet ==
    ASSUME TypeOK, NEW p \in Pools, NEW u \in Users, NEW n \in Nat
    PROVE  [lp EXCEPT ![p] = [lp[p] EXCEPT ![u] = n]] \in [Pools -> [Account -> Nat]]
<1>1. lp \in [Pools -> [Account -> Nat]]
  BY DEF TypeOK
<1>2. [lp[p] EXCEPT ![u] = n] \in [Account -> Nat]
  BY <1>1
<1> QED
  BY <1>1, <1>2

LEMMA AddLiquidityStepOK ==
    ASSUME IInv, NEW u \in Users, NEW p \in Pools, NEW n1 \in Nat, NEW min \in Nat,
           NEW max2 \in Nat, NEW expiration,
           AddLiquidity(u, p, n1, min, max2, expiration)
    PROVE  StepOK
<1> DEFINE x == reserve[p][1]
           y == reserve[p][2]
           s == lpSupply[p]
           liquidity == get_lp_token_amount_to_mint(n1, s, x)
           n2 == get_token2_amount_required(max2, n1, s, y, x)
           new == [k \in Side |-> reserve[p][k] + (IF k = 1 THEN n1 ELSE n2)]
<1>1. x \in Nat /\ y \in Nat /\ s \in Nat /\ reserve \in Reserves /\ bal \in Balances
  BY ReserveFacts DEF IInv, TypeOK, Reserves, Balances
<1>2. /\ s > 0 => x > 0
      /\ n2 <= max2
      /\ bal[Denom[p][1]][u] >= n1
      /\ liquidity > 0
      /\ UNCHANGED <<fees, burnFee, owner, grant, height, poolBurned>>
  BY <1>1 DEF AddLiquidity, get_lp_token_amount_to_mint_ok
<1>3. bal[Denom[p][2]][u] >= IF Denom[p][2] \in Cw20 THEN n2 ELSE max2
  BY DEF AddLiquidity
<1>4. /\ reserve' = [reserve EXCEPT ![p] = new]
      /\ bal' = Send(Send(bal, Denom[p][1], u, p, n1), Denom[p][2], u, p, n2)
      /\ lp' = [lp EXCEPT ![p] = [lp[p] EXCEPT ![u] = lp[p][u] + liquidity]]
      /\ lpSupply' = [lpSupply EXCEPT ![p] = s + liquidity]
  BY DEF AddLiquidity
<1>5. /\ liquidity \in Nat /\ n2 \in Nat
      /\ s = 0 => liquidity = n1
      /\ s > 0 => /\ x * (s + liquidity) <= (x + n1) * s
                  /\ y * (s + liquidity) <= (y + n2) * s
  <2>1. CASE s = 0
    BY <2>1 DEF get_lp_token_amount_to_mint, get_token2_amount_required
  <2>2. CASE s > 0
    <3>1. liquidity = (n1 * s) \div x /\ n2 = (n1 * y) \div x + 1
      BY <1>1, <2>2 DEF get_lp_token_amount_to_mint, get_token2_amount_required
    <3> HIDE DEF x, y, s, liquidity, n2
    <3> QED
      BY <1>1, <1>2, <2>2, <3>1, MintFair
  <2> QED
    BY <1>1, <2>1, <2>2
<1> HIDE DEF liquidity, n2
<1>6. new \in [Side -> Nat] /\ new[1] = x + n1 /\ new[2] = y + n2
  BY <1>1, <1>5, SideFacts DEF Reserves
<1>7. /\ reserve' \in Reserves /\ reserve'[p] = new
      /\ \A r \in Pools : r # p => reserve'[r] = reserve[r]
  <2> HIDE DEF new
  <2> QED
    BY <1>1, <1>4, <1>6 DEF Reserves
<1>8. /\ lpSupply' \in [Pools -> Nat] /\ lpSupply'[p] = s + liquidity
      /\ \A r \in Pools : r # p => lpSupply'[r] = lpSupply[r]
  BY <1>1, <1>4, <1>5 DEF IInv, TypeOK
<1>9. lp' \in [Pools -> [Account -> Nat]]
  <2>1. lp[p][u] + liquidity \in Nat
    BY <1>5 DEF IInv, TypeOK, Account
  <2> QED
    BY <1>4, <2>1, LpBalanceSet DEF IInv
<1>10. bal[Denom[p][2]][u] >= n2
  <2>1. bal[Denom[p][2]][u] \in Nat
    BY <1>1, SideFacts, HopersPoolAssumption DEF Balances, Account
  <2> QED
    BY <1>2, <1>3, <1>5, <2>1
<1>11. /\ bal' \in Balances
       /\ \A r \in Pools, k \in Side :
             bal'[Denom[r][k]][r] = bal[Denom[r][k]][r]
                 + (IF r = p THEN IF k = 1 THEN n1 ELSE n2 ELSE 0)
  BY <1>2, <1>4, <1>5, <1>10, DepositEffect DEF IInv
<1>12. ASSUME NEW r \in Pools, NEW k \in Side
       PROVE  bal'[Denom[r][k]][r] - bal[Denom[r][k]][r] = reserve'[r][k] - reserve[r][k]
  <2>1. bal[Denom[r][k]][r] \in Nat
    BY <1>1, HopersPoolAssumption DEF Balances, Account
  <2>2. reserve[r][k] \in Nat
    BY <1>1, Zenon DEF Reserves
  <2>3. bal'[Denom[r][k]][r] = bal[Denom[r][k]][r]
            + (IF r = p THEN IF k = 1 THEN n1 ELSE n2 ELSE 0)
    BY <1>11
  <2>4. r = p => reserve'[r][k] = reserve[r][k] + (IF k = 1 THEN n1 ELSE n2)
    BY <1>7
  <2>5. r # p => reserve'[r][k] = reserve[r][k]
    BY <1>7
  <2> QED
    BY <1>5, <2>1, <2>2, <2>3, <2>4, <2>5
<1>13. (s > 0 => x > 0) => (s + liquidity > 0 => x + n1 > 0)
  BY <1>1, <1>2, <1>5
<1> HIDE DEF new
<1> QED
  BY <1>2, <1>5, <1>6, <1>7, <1>8, <1>9, <1>11, <1>12, <1>13, LiquidityStepOK

LEMMA RemoveLiquidityStepOK ==
    ASSUME IInv, NEW u \in Users, NEW p \in Pools, NEW n \in Nat, NEW min1 \in Nat,
           NEW min2 \in Nat, NEW expiration,
           RemoveLiquidity(u, p, n, min1, min2, expiration)
    PROVE  StepOK
<1> DEFINE x == reserve[p][1]
           y == reserve[p][2]
           s == lpSupply[p]
           n1 == payout(n, x, s)
           n2 == payout(n, y, s)
           new == [k \in Side |-> reserve[p][k] - (IF k = 1 THEN n1 ELSE n2)]
<1>1. x \in Nat /\ y \in Nat /\ s \in Nat /\ reserve \in Reserves /\ bal \in Balances
  BY ReserveFacts DEF IInv, TypeOK, Reserves, Balances
<1>2. /\ s > 0 /\ n <= s /\ n1 <= x /\ n2 <= y /\ n <= lp[p][u]
      /\ bal[Denom[p][1]][p] >= n1 /\ bal[Denom[p][2]][p] >= n2
      /\ UNCHANGED <<fees, burnFee, owner, grant, height, poolBurned>>
  BY <1>1 DEF RemoveLiquidity, payout_ok
<1>3. /\ reserve' = [reserve EXCEPT ![p] = new]
      /\ bal' = Send(Send(bal, Denom[p][1], p, u, n1), Denom[p][2], p, u, n2)
      /\ lp' = [lp EXCEPT ![p] = [lp[p] EXCEPT ![u] = lp[p][u] - n]]
      /\ lpSupply' = [lpSupply EXCEPT ![p] = s - n]
  BY DEF RemoveLiquidity
<1>4. /\ n1 \in Nat /\ x - n1 \in Nat /\ x * (s - n) <= (x - n1) * s
      /\ n2 \in Nat /\ y - n2 \in Nat /\ y * (s - n) <= (y - n2) * s
  <2> HIDE DEF x, y, s
  <2> QED
    BY <1>1, <1>2, PayoutFair
<1> HIDE DEF n1, n2
<1>5. new \in [Side -> Nat] /\ new[1] = x - n1 /\ new[2] = y - n2
  BY <1>1, <1>4, SideFacts DEF Reserves, Side
<1>6. /\ reserve' \in Reserves /\ reserve'[p] = new
      /\ \A r \in Pools : r # p => reserve'[r] = reserve[r]
  <2> HIDE DEF new
  <2> QED
    BY <1>1, <1>3, <1>5 DEF Reserves
<1>7. s - n \in Nat
  BY <1>1, <1>2
<1>8. /\ lpSupply' \in [Pools -> Nat] /\ lpSupply'[p] = s - n
      /\ \A r \in Pools : r # p => lpSupply'[r] = lpSupply[r]
  BY <1>3, <1>7 DEF IInv, TypeOK
<1>9. lp' \in [Pools -> [Account -> Nat]]
  <2>1. lp[p][u] - n \in Nat
    BY <1>2 DEF IInv, TypeOK, Account
  <2> QED
    BY <1>3, <2>1, LpBalanceSet DEF IInv
<1>10. /\ bal' \in Balances
       /\ \A r \in Pools, k \in Side :
             bal'[Denom[r][k]][r] = bal[Denom[r][k]][r]
                 - (IF r = p THEN IF k = 1 THEN n1 ELSE n2 ELSE 0)
  BY <1>2, <1>3, <1>4, WithdrawEffect DEF IInv
<1>11. ASSUME NEW r \in Pools, NEW k \in Side
       PROVE  bal'[Denom[r][k]][r] - bal[Denom[r][k]][r] = reserve'[r][k] - reserve[r][k]
  <2>1. bal[Denom[r][k]][r] \in Nat
    BY <1>1, HopersPoolAssumption DEF Balances, Account
  <2>2. reserve[r][k] \in Nat
    BY <1>1, Zenon DEF Reserves
  <2>3. bal'[Denom[r][k]][r] = bal[Denom[r][k]][r]
            - (IF r = p THEN IF k = 1 THEN n1 ELSE n2 ELSE 0)
    BY <1>10
  <2>4. r = p => reserve'[r][k] = reserve[r][k] - (IF k = 1 THEN n1 ELSE n2)
    BY <1>6
  <2>5. r # p => reserve'[r][k] = reserve[r][k]
    BY <1>6
  <2> QED
    BY <1>4, <2>1, <2>2, <2>3, <2>4, <2>5
<1>12. ASSUME x > 0, s - n > 0
       PROVE  x - n1 > 0
  <2> HIDE DEF x, s
  <2>1. x * (s - n) > 0
    BY <1>1, <1>7, <1>12, SMT
  <2>2. x - n1 = 0 => (x - n1) * s = 0
    BY <1>1, SMT
  <2>3. x * (s - n) \in Nat
    BY <1>1, <1>7, SMT
  <2> QED
    BY <1>4, <2>1, <2>2, <2>3
<1> HIDE DEF new
<1> QED
  BY <1>2, <1>4, <1>5, <1>6, <1>8, <1>9, <1>10, <1>11, <1>12, LiquidityStepOK

-----------------------------------------------------------------------------
(* The transactions that leave the reserves alone.                         *)

LEMMA UpdateConfigStepOK ==
    ASSUME IInv, NEW u \in Users, NEW p \in Pools,
           NEW new_owner \in Users \cup {NoOwner}, NEW config \in Config,
           UpdateConfig(u, p, new_owner, config)
    PROVE  StepOK
<1> DEFINE new == [num |-> config.num, den |-> config.den, wallets |-> config.wallets]
<1>1. /\ UNCHANGED <<reserve, lp, lpSupply, bal, grant, height, poolBurned>>
      /\ owner' = [owner EXCEPT ![p] = new_owner]
      /\ fees' = [fees EXCEPT ![p] = new]
      /\ burnFee' = [burnFee EXCEPT ![p] = config.burn]
  BY DEF UpdateConfig
<1>2. new \in [num : Nat, den : Nat, wallets : [1..MaxWallets -> Wallet]]
  BY DEF Config
<1>3. /\ new.den > 0
      /\ new.wallets[1].ratio + new.wallets[2].ratio = DecOne
  BY DEF UpdateConfig, FeeWithinMax
<1> HIDE DEF new
<1>4. fees' \in [Pools -> [num : Nat, den : Nat, wallets : [1..MaxWallets -> Wallet]]]
  BY <1>1, <1>2 DEF IInv, TypeOK
<1>5. owner' \in [Pools -> Users \cup {NoOwner}] /\ burnFee' \in [Pools -> Nat]
  BY <1>1 DEF IInv, TypeOK, Config
<1>6. FeesSound'
  <2> SUFFICES ASSUME NEW r \in Pools
               PROVE  /\ fees'[r].den > 0
                      /\ fees'[r].wallets[1].ratio + fees'[r].wallets[2].ratio = DecOne
    BY DEF FeesSound
  <2>1. fees'[r] = IF r = p THEN new ELSE fees[r]
    BY <1>1 DEF IInv, TypeOK
  <2> QED
    BY <1>3, <2>1 DEF IInv, FeesSound
<1>7. TypeOK'
  BY <1>1, <1>4, <1>5 DEF IInv, TypeOK
<1>8. lpSupply \in [Pools -> Nat]
  BY DEF IInv, TypeOK
<1> QED
  BY <1>1, <1>6, <1>7, <1>8, QuietStep DEF IInv

LEMMA MigrateStepOK ==
    ASSUME IInv, NEW p \in Pools, NEW burn \in Nat, Migrate(p, burn)
    PROVE  StepOK
<1>1. TypeOK' /\ FeesSound'
  BY DEF Migrate, IInv, TypeOK, FeesSound
<1>2. lpSupply \in [Pools -> Nat]
  BY DEF IInv, TypeOK
<1> QED
  BY <1>1, <1>2, QuietStep DEF Migrate, IInv

LEMMA LpTransferStepOK ==
    ASSUME IInv, NEW u \in Users, NEW p \in Pools, NEW to \in Account, NEW n \in Nat,
           LpTransfer(u, p, to, n)
    PROVE  StepOK
<1> DEFINE f == lp[p]
           taken == [f EXCEPT ![u] = f[u] - n]
           g == [taken EXCEPT ![to] = taken[to] + n]
<1>1. /\ f \in [Account -> Nat] /\ u \in Account /\ f[u] >= n
      /\ lp' = [lp EXCEPT ![p] = g]
      /\ UNCHANGED <<reserve, fees, burnFee, owner, lpSupply, bal, grant, poolBurned, height>>
  BY DEF IInv, TypeOK, Account, LpTransfer, Moved, contract, ledger
<1>2. taken \in [Account -> Nat]
  BY <1>1
<1>3. g \in [Account -> Nat]
  BY <1>2
<1> HIDE DEF g
<1>4. TypeOK' /\ FeesSound'
  BY <1>1, <1>3 DEF IInv, TypeOK, FeesSound
<1>5. lpSupply \in [Pools -> Nat]
  BY DEF IInv, TypeOK
<1> QED
  BY <1>1, <1>4, <1>5, QuietStep DEF IInv

LEMMA LpBurnStepOK ==
    ASSUME IInv, NEW u \in Users, NEW p \in Pools, NEW n \in Nat, LpBurn(u, p, n)
    PROVE  StepOK
<1>1. /\ lp' = [lp EXCEPT ![p] = [lp[p] EXCEPT ![u] = lp[p][u] - n]]
      /\ lpSupply' = [lpSupply EXCEPT ![p] = lpSupply[p] - n]
      /\ lp[p][u] >= n /\ lpSupply[p] >= n
      /\ UNCHANGED <<reserve, fees, burnFee, owner, bal, grant, poolBurned, height>>
  BY DEF LpBurn, contract, ledger
<1>2. lp[p][u] - n \in Nat /\ lpSupply[p] - n \in Nat
  BY <1>1 DEF IInv, TypeOK, Account
<1>3. lp' \in [Pools -> [Account -> Nat]]
  BY <1>1, <1>2, LpBalanceSet DEF IInv
<1>4. /\ lpSupply' \in [Pools -> Nat]
      /\ \A r \in Pools : lpSupply'[r] <= lpSupply[r]
  <2> DEFINE left == lpSupply[p] - n
  <2>1. /\ lpSupply \in [Pools -> Nat] /\ left \in Nat /\ left <= lpSupply[p]
        /\ lpSupply' = [lpSupply EXCEPT ![p] = left]
    BY <1>1, <1>2 DEF IInv, TypeOK
  <2> HIDE DEF left
  <2> QED
    BY <2>1
<1>5. TypeOK' /\ FeesSound'
  BY <1>1, <1>3, <1>4 DEF IInv, TypeOK, FeesSound
<1> QED
  BY <1>1, <1>4, <1>5, QuietStep DEF IInv

LEMMA NextBlockStepOK ==
    ASSUME IInv, NextBlock
    PROVE  StepOK
<1>1. TypeOK' /\ FeesSound'
  BY DEF NextBlock, contract, lpToken, ledger, IInv, TypeOK, FeesSound
<1>2. lpSupply \in [Pools -> Nat]
  BY DEF IInv, TypeOK
<1> QED
  BY <1>1, <1>2, QuietStep DEF NextBlock, contract, lpToken, ledger, IInv

(* A user's transfer takes nothing from a pool.                            *)
LEMMA TransferStepOK ==
    ASSUME IInv, NEW u \in Users, NEW t \in Tokens, NEW to \in Account, NEW n \in Nat,
           Transfer(u, t, to, n)
    PROVE  StepOK
<1>1. /\ bal' = Send(bal, t, u, to, n) /\ bal[t][u] >= n
      /\ UNCHANGED <<fees, burnFee, owner, lp, lpSupply, height>>
      /\ UNCHANGED <<reserve, grant, poolBurned>>
  BY DEF Transfer, contract, lpToken
<1>2. u \in Account /\ u \notin Pools
  BY HopersPoolAssumption DEF Account
<1>3. reserve \in Reserves /\ bal \in Balances /\ poolBurned \in [Pools -> Nat]
  BY DEF IInv, TypeOK, Reserves, Balances
<1>4. /\ bal' \in Balances
      /\ \A t2 \in Tokens, a \in Account :
            bal'[t2][a] = bal[t2][a] + Credit(t2, a, t, to, n) - Credit(t2, a, t, u, n)
  BY <1>1, <1>2, <1>3, SendEffect
<1>5. ASSUME NEW r \in Pools, NEW s \in Side
      PROVE  Gap(bal', reserve', poolBurned', r, s) >= Gap(bal, reserve, poolBurned, r, s)
  <2> DEFINE t2 == Denom[r][s]
  <2>1. t2 \in Tokens /\ r \in Account /\ r # u
    BY <1>2, HopersPoolAssumption DEF Account
  <2> HIDE DEF t2
  <2>2. bal[t2][r] \in Nat /\ reserve[r][s] \in Nat /\ poolBurned[r] \in Nat
    BY <1>3, <2>1 DEF Balances, Reserves
  <2>3. bal'[t2][r] \in Nat /\ bal'[t2][r] >= bal[t2][r]
    BY <1>4, <2>1, <2>2 DEF Credit
  <2> QED
    BY <1>1, <2>2, <2>3 DEF Gap, t2
<1>6. ASSUME NEW r \in Pools
      PROVE  /\ reserve[r][1] * reserve[r][2] <= reserve'[r][1] * reserve'[r][2]
             /\ reserve[r][1] > 0 => reserve'[r][1] > 0
  <2>1. reserve[r][1] * reserve[r][2] \in Nat
    BY ReserveFacts DEF IInv
  <2> QED
    BY <1>1, <2>1
<1>7. grant' \in GrantType
  BY <1>1 DEF IInv, TypeOK, GrantType
<1>8. SwapEffect
  BY <1>1, <1>3, <1>4, <1>5, <1>6 DEF SwapEffect
<1> QED
  BY <1>1, <1>7, <1>8, SwapEffectStep

-----------------------------------------------------------------------------
(* Any step.                                                               *)

LEMMA InitIInv == Init => IInv
<1> SUFFICES ASSUME Init PROVE IInv
  OBVIOUS
<1>1. PICK config \in InitialConfigs :
         /\ \A p \in Pools :
               /\ FeeWithinMax(config[p].num, config[p].den)
               /\ config[p].wallets[1].ratio + config[p].wallets[2].ratio = DecOne
         /\ fees = [p \in Pools |-> [num |-> config[p].num, den |-> config[p].den,
                                     wallets |-> config[p].wallets]]
         /\ burnFee = [p \in Pools |-> config[p].burn]
  BY DEF Init
<1>2. config \in [Pools -> Config]
  BY HopersPoolAssumption
<1>3. /\ fees \in [Pools -> [num : Nat, den : Nat, wallets : [1..MaxWallets -> Wallet]]]
      /\ burnFee \in [Pools -> Nat]
  BY <1>1, <1>2 DEF Config
<1>4. FeesSound
  BY <1>1, <1>2 DEF FeesSound, FeeWithinMax
<1>5. bal \in [Tokens -> [Account -> Nat]]
  <2>1. InitialBalance \in [Tokens -> [Users -> Nat]]
    BY HopersPoolAssumption
  <2> QED
    BY <2>1 DEF Init
<1>6. grant \in [Pools \X Pools \X Tokens ->
                   [amount : Nat, expires : Nat \cup {NoExpiration}]]
  BY DEF Init
<1>7. /\ reserve \in [Pools -> [Side -> Nat]] /\ lp \in [Pools -> [Account -> Nat]]
      /\ lpSupply \in [Pools -> Nat] /\ poolBurned \in [Pools -> Nat]
      /\ height \in Nat /\ owner \in [Pools -> Users \cup {NoOwner}]
  BY DEF Init
<1> QED
  BY <1>3, <1>4, <1>5, <1>6, <1>7 DEF IInv, TypeOK

(* What a transaction does to the allowances between pools.                *)
GrantEffect ==
    \A g \in Pools \X Pools \X Tokens :
        \/ grant'[g] = grant[g] /\ height' >= height
        \/ /\ grant'[g].amount - grant[g].amount \in 0 .. 1
           /\ grant'[g].expires = height + 1
           /\ height' = height

LEMMA NextOK ==
    ASSUME IInv, [Next]_vars
    PROVE  StepOK /\ GrantEffect
<1>0. /\ Amounts \subseteq Nat /\ LpAmounts \subseteq Nat /\ LpMoves \subseteq Nat
      /\ Gifts \subseteq Nat /\ Minimums \subseteq Nat /\ BurnFees \subseteq Nat
      /\ Configs \subseteq Config
  BY HopersPoolAssumption
<1>7. height \in Nat
  BY DEF IInv, TypeOK
<1>1. CASE LiquidityStep
  <2> PICK u \in Users, p \in Pools, expiration \in Expirations :
           \/ \E amount1, max2 \in Amounts, min \in Minimums :
                 AddLiquidity(u, p, amount1, min, max2, expiration)
           \/ \E amount \in LpAmounts, min1, min2 \in Minimums :
                 RemoveLiquidity(u, p, amount, min1, min2, expiration)
    BY <1>1 DEF LiquidityStep
  <2>1. CASE \E amount1, max2 \in Amounts, min \in Minimums :
                AddLiquidity(u, p, amount1, min, max2, expiration)
    <3> PICK amount1 \in Amounts, max2 \in Amounts, min \in Minimums :
             AddLiquidity(u, p, amount1, min, max2, expiration)
      BY <2>1
    <3>1. UNCHANGED <<grant, height>>
      BY DEF AddLiquidity
    <3> QED
      BY <1>0, <1>7, <3>1, AddLiquidityStepOK DEF GrantEffect
  <2>2. CASE \E amount \in LpAmounts, min1, min2 \in Minimums :
                RemoveLiquidity(u, p, amount, min1, min2, expiration)
    <3> PICK amount \in LpAmounts, min1 \in Minimums, min2 \in Minimums :
             RemoveLiquidity(u, p, amount, min1, min2, expiration)
      BY <2>2
    <3>1. UNCHANGED <<grant, height>>
      BY DEF RemoveLiquidity
    <3>2. amount \in Nat /\ min1 \in Nat /\ min2 \in Nat
      BY <1>0
    <3>3. StepOK
      BY <3>2, RemoveLiquidityStepOK
    <3> QED
      BY <1>7, <3>1, <3>3 DEF GrantEffect
  <2> QED
    BY <2>1, <2>2
<1>2. CASE SwapStep
  <2> PICK u \in Users, p \in Pools, side \in Side, amount \in Amounts,
           min \in Minimums, expiration \in Expirations :
           \/ \E recipient \in Account :
                 Swap(u, p, side, amount, min, recipient, expiration)
           \/ \E q \in Pools : PassThroughSwap(u, p, q, side, amount, min, expiration)
    BY <1>2 DEF SwapStep
  <2>1. CASE \E recipient \in Account :
                Swap(u, p, side, amount, min, recipient, expiration)
    <3> PICK recipient \in Account : Swap(u, p, side, amount, min, recipient, expiration)
      BY <2>1
    <3>1. UNCHANGED <<grant, height>>
      BY DEF Swap
    <3> QED
      BY <1>0, <1>7, <3>1, SwapStepOK DEF GrantEffect
  <2>2. CASE \E q \in Pools : PassThroughSwap(u, p, q, side, amount, min, expiration)
    <3> PICK q \in Pools : PassThroughSwap(u, p, q, side, amount, min, expiration)
      BY <2>2
    <3>1. UNCHANGED height
      BY DEF PassThroughSwap
    <3>2. StepOK
      BY <1>0, PassThroughStepOK
    <3>3. \A g \in Pools \X Pools \X Tokens :
             \/ grant'[g] = grant[g]
             \/ /\ grant'[g].amount - grant[g].amount \in 0 .. 1
                /\ grant'[g].expires = height + 1
      BY <1>0, GrantSpent
    <3> QED
      BY <1>7, <3>1, <3>2, <3>3 DEF GrantEffect
  <2> QED
    BY <2>1, <2>2
<1>3. CASE AdminStep
  <2> PICK p \in Pools :
           \/ \E u \in Users, new_owner \in Users \cup {NoOwner}, config \in Configs :
                 UpdateConfig(u, p, new_owner, config)
           \/ \E burn \in BurnFees : Migrate(p, burn)
    BY <1>3 DEF AdminStep
  <2>1. CASE \E u \in Users, new_owner \in Users \cup {NoOwner}, config \in Configs :
                UpdateConfig(u, p, new_owner, config)
    <3> PICK u \in Users, new_owner \in Users \cup {NoOwner}, config \in Configs :
             UpdateConfig(u, p, new_owner, config)
      BY <2>1
    <3>1. UNCHANGED <<grant, height>>
      BY DEF UpdateConfig
    <3> QED
      BY <1>0, <1>7, <3>1, UpdateConfigStepOK DEF GrantEffect
  <2>2. CASE \E burn \in BurnFees : Migrate(p, burn)
    <3> PICK burn \in BurnFees : Migrate(p, burn)
      BY <2>2
    <3>1. UNCHANGED <<grant, height>>
      BY DEF Migrate
    <3> QED
      BY <1>0, <1>7, <3>1, MigrateStepOK DEF GrantEffect
  <2> QED
    BY <2>1, <2>2
<1>4. CASE TokenStep
  <2> PICK u \in Users :
           \/ \E p \in Pools, amount \in LpMoves :
                 \/ \E to \in Account : LpTransfer(u, p, to, amount)
                 \/ LpBurn(u, p, amount)
           \/ \E t \in Tokens, to \in Account, amount \in Gifts : Transfer(u, t, to, amount)
    BY <1>4 DEF TokenStep
  <2>1. ASSUME NEW p \in Pools, NEW amount \in LpMoves, NEW to \in Account,
               LpTransfer(u, p, to, amount)
        PROVE  StepOK /\ GrantEffect
    <3>1. UNCHANGED <<grant, height>>
      BY <2>1 DEF LpTransfer, ledger
    <3> QED
      BY <1>0, <1>7, <2>1, <3>1, LpTransferStepOK DEF GrantEffect
  <2>2. ASSUME NEW p \in Pools, NEW amount \in LpMoves, LpBurn(u, p, amount)
        PROVE  StepOK /\ GrantEffect
    <3>1. UNCHANGED <<grant, height>>
      BY <2>2 DEF LpBurn, ledger
    <3> QED
      BY <1>0, <1>7, <2>2, <3>1, LpBurnStepOK DEF GrantEffect
  <2>3. ASSUME NEW t \in Tokens, NEW to \in Account, NEW amount \in Gifts,
               Transfer(u, t, to, amount)
        PROVE  StepOK /\ GrantEffect
    <3>1. UNCHANGED <<grant, height>>
      BY <2>3 DEF Transfer
    <3> QED
      BY <1>0, <1>7, <2>3, <3>1, TransferStepOK DEF GrantEffect
  <2> QED
    BY <2>1, <2>2, <2>3
<1>5. CASE NextBlock
  <2>1. grant' = grant /\ height' = height + 1
    BY <1>5 DEF NextBlock, ledger
  <2> QED
    BY <1>5, <1>7, <2>1, NextBlockStepOK DEF GrantEffect
<1>6. CASE UNCHANGED vars
  <2>1. UNCHANGED <<reserve, fees, burnFee, owner, lp, lpSupply, bal, grant, height, poolBurned>>
    BY <1>6 DEF vars
  <2>2. TypeOK' /\ FeesSound'
    BY <2>1 DEF IInv, TypeOK, FeesSound
  <2>3. lpSupply \in [Pools -> Nat]
    BY DEF IInv, TypeOK
  <2>4. StepOK
    BY <2>1, <2>2, <2>3, QuietStep DEF IInv
  <2> QED
    BY <1>7, <2>1, <2>4 DEF GrantEffect
<1> QED
  BY <1>1, <1>2, <1>3, <1>4, <1>5, <1>6 DEF Next

-----------------------------------------------------------------------------
(* The theorems.                                                           *)

(* The inductive invariant: types, denominators that are not zero and dev  *)
(* wallet ratios that add up to one (contract.rs:33, 485).                 *)
THEOREM InductiveInvariant == Spec => []IInv
<1>1. IInv /\ [Next]_vars => IInv'
  BY NextOK DEF StepOK
<1> QED
  BY InitIInv, <1>1, PTL DEF Spec

(* The state always has its types: no subtraction of the code, on any      *)
(* path of any transaction, goes below zero.                               *)
THEOREM TypeCorrect == Spec => []TypeOK
<1>1. IInv => TypeOK
  BY DEF IInv
<1> QED
  BY InductiveInvariant, <1>1, PTL

(* No transaction, with every rounding of fees and wallet shares and as    *)
(* the payer of a second leg, takes more out of a pool than it takes off   *)
(* its reserves.                                                           *)
THEOREM SurplusKept == Spec => SurplusNeverShrinks
<1>1. IInv /\ [Next]_vars =>
         [\A p \in Pools, side \in Side : Surplus(p, side)' >= Surplus(p, side)]_vars
  <2> SUFFICES ASSUME IInv, [Next]_vars
               PROVE  \A p \in Pools, side \in Side : Surplus(p, side)' >= Surplus(p, side)
    OBVIOUS
  <2>1. \A p \in Pools, side \in Side :
           Gap(bal', reserve', poolBurned', p, side) >= Gap(bal, reserve, poolBurned, p, side)
    BY NextOK DEF StepOK
  <2> QED
    BY <2>1 DEF Gap, Surplus
<1> QED
  BY InductiveInvariant, <1>1, PTL DEF Spec, SurplusNeverShrinks

(* A pool's Token2 reserve is always covered by what the pool holds, and   *)
(* its Token1 reserve misses at most what swaps burned out of its holdings *)
(* (contract.rs:896).                                                      *)
THEOREM Backed == Spec => []BackedUpToBurns
<1> DEFINE Inv == \A p \in Pools, side \in Side : Gap(bal, reserve, poolBurned, p, side) >= 0
<1>1. Init => Inv
  <2> SUFFICES ASSUME Init, NEW p \in Pools, NEW side \in Side
               PROVE  Gap(bal, reserve, poolBurned, p, side) >= 0
    OBVIOUS
  <2>1. /\ bal \in Balances /\ reserve \in Reserves /\ poolBurned \in [Pools -> Nat]
    BY InitIInv DEF IInv, TypeOK, Balances, Reserves
  <2>2. Denom[p][side] \in Tokens /\ p \in Account
    BY HopersPoolAssumption DEF Account
  <2>3. reserve[p][side] = 0
    BY DEF Init
  <2>4. bal[Denom[p][side]][p] \in Nat /\ poolBurned[p] \in Nat
    BY <2>1, <2>2 DEF Balances
  <2> QED
    BY <2>3, <2>4 DEF Gap
<1>2. IInv /\ Inv /\ [Next]_vars => Inv'
  <2> SUFFICES ASSUME IInv, Inv, [Next]_vars, NEW p \in Pools, NEW side \in Side
               PROVE  Gap(bal', reserve', poolBurned', p, side) >= 0
    BY DEF Gap
  <2>1. Gap(bal', reserve', poolBurned', p, side) >= Gap(bal, reserve, poolBurned, p, side)
    BY NextOK DEF StepOK
  <2>2. /\ bal \in Balances /\ reserve \in Reserves /\ poolBurned \in [Pools -> Nat]
        /\ bal' \in Balances /\ reserve' \in Reserves /\ poolBurned' \in [Pools -> Nat]
    BY NextOK DEF StepOK, IInv, TypeOK, Balances, Reserves
  <2>3. /\ Gap(bal, reserve, poolBurned, p, side) \in Int
        /\ Gap(bal', reserve', poolBurned', p, side) \in Int
    BY <2>2, GapIsInt
  <2> QED
    BY <2>1, <2>3
<1>3. IInv /\ Inv => BackedUpToBurns
  <2> SUFFICES ASSUME IInv, Inv, NEW p \in Pools
               PROVE  /\ reserve[p][1] <= bal[Denom[p][1]][p] + poolBurned[p]
                      /\ reserve[p][2] <= bal[Denom[p][2]][p]
    BY DEF BackedUpToBurns
  <2>1. bal \in Balances /\ reserve \in Reserves /\ poolBurned[p] \in Nat
    BY DEF IInv, TypeOK, Balances, Reserves
  <2>2. /\ Denom[p][1] \in Tokens /\ Denom[p][2] \in Tokens /\ p \in Account
    BY SideFacts, HopersPoolAssumption DEF Account
  <2>3. /\ reserve[p][1] \in Nat /\ reserve[p][2] \in Nat
        /\ bal[Denom[p][1]][p] \in Nat /\ bal[Denom[p][2]][p] \in Nat
    BY <2>1, <2>2, SideFacts DEF Balances, Reserves
  <2>4. Gap(bal, reserve, poolBurned, p, 1) >= 0 /\ Gap(bal, reserve, poolBurned, p, 2) >= 0
    BY SideFacts
  <2> QED
    BY <2>1, <2>3, <2>4 DEF Gap
<1> QED
  BY <1>1, <1>2, <1>3, InductiveInvariant, PTL DEF Spec

(* Where the hopers token is a native one, nothing is burned, and every    *)
(* pool really holds its reserves (contract.rs:900: a native burn sends no *)
(* message).                                                               *)
THEOREM NativePoolsBacked ==
    ASSUME \A p \in Pools : Denom[p][1] \notin Cw20
    PROVE  Spec => []ReservesBacked
<1> DEFINE Inv == \A p \in Pools : poolBurned[p] = 0
<1>1. Init => Inv
  BY DEF Init
<1>2. IInv /\ Inv /\ [Next]_vars => Inv'
  <2> SUFFICES ASSUME IInv, Inv, [Next]_vars
               PROVE  poolBurned' = poolBurned
    OBVIOUS
  <2>1. poolBurned \in [Pools -> Nat]
    BY DEF IInv, TypeOK
  <2>2. \A p \in Pools : \A side, c : BurnedFromPool(p, side, c) = 0
    BY DEF BurnedFromPool, BurnDue
  <2>3. \A p \in Pools : \A side, c : [poolBurned EXCEPT ![p] =
             poolBurned[p] + BurnedFromPool(p, side, c)] = poolBurned
    BY <2>1, <2>2
  <2>4. CASE LiquidityStep
    BY <2>4 DEF LiquidityStep, AddLiquidity, RemoveLiquidity
  <2>5. CASE SwapStep
    <3>1. ASSUME NEW u \in Users, NEW p \in Pools, NEW side \in Side, NEW amount \in Amounts,
                 NEW min \in Minimums, NEW expiration \in Expirations,
                 NEW recipient \in Account,
                 Swap(u, p, side, amount, min, recipient, expiration)
          PROVE  poolBurned' = poolBurned
      BY <2>3, <3>1 DEF Swap
    <3>2. ASSUME NEW u \in Users, NEW p \in Pools, NEW side \in Side, NEW amount \in Amounts,
                 NEW min \in Minimums, NEW expiration \in Expirations, NEW q \in Pools,
                 PassThroughSwap(u, p, q, side, amount, min, expiration)
          PROVE  poolBurned' = poolBurned
      <4> DEFINE c1 == Charges(reserve, p, side, amount)
                 side2 == InputSideOf(q, Denom[p][Other(side)])
                 c2 == Charges(ReservesAfter(reserve, p, side, c1), q, side2, c1.out)
                 once == [poolBurned EXCEPT ![p] =
                            poolBurned[p] + BurnedFromPool(p, side, c1)]
      <4>1. poolBurned' = [once EXCEPT ![q] = once[q] + BurnedFromPool(q, side2, c2)]
        BY <3>2 DEF PassThroughSwap
      <4> HIDE DEF c1, side2, c2
      <4>2. once = poolBurned
        BY <2>3
      <4> QED
        BY <2>3, <4>1, <4>2
    <3> QED
      BY <2>5, <3>1, <3>2 DEF SwapStep
  <2>6. CASE AdminStep
    BY <2>6 DEF AdminStep, UpdateConfig, Migrate
  <2>7. CASE TokenStep
    BY <2>7 DEF TokenStep, LpTransfer, LpBurn, Transfer, ledger
  <2>8. CASE NextBlock
    BY <2>8 DEF NextBlock, ledger
  <2>9. CASE UNCHANGED vars
    BY <2>9 DEF vars
  <2> QED
    BY <2>4, <2>5, <2>6, <2>7, <2>8, <2>9 DEF Next
<1>3. IInv /\ Inv /\ BackedUpToBurns => ReservesBacked
  <2> SUFFICES ASSUME IInv, Inv, BackedUpToBurns, NEW p \in Pools, NEW side \in Side
               PROVE  reserve[p][side] <= bal[Denom[p][side]][p]
    BY DEF ReservesBacked
  <2>1. Denom[p][1] \in Tokens /\ p \in Account
    BY SideFacts, HopersPoolAssumption DEF Account
  <2>2. bal[Denom[p][1]][p] \in Nat
    BY <2>1 DEF IInv, TypeOK
  <2>3. /\ reserve[p][1] <= bal[Denom[p][1]][p] + poolBurned[p]
        /\ reserve[p][2] <= bal[Denom[p][2]][p]
        /\ poolBurned[p] = 0
    BY DEF BackedUpToBurns
  <2> QED
    BY <2>2, <2>3, SideFacts
<1> QED
  BY <1>1, <1>2, <1>3, Backed, InductiveInvariant, PTL DEF Spec

(* While LP tokens are out the Token1 reserve is positive, so adding       *)
(* liquidity never divides by zero (contract.rs:232, 250).                 *)
THEOREM Seeded == Spec => []SeededWhileShared
<1>1. Init => SeededWhileShared
  BY DEF Init, SeededWhileShared
<1>2. IInv /\ SeededWhileShared /\ [Next]_vars => SeededWhileShared'
  <2> SUFFICES ASSUME IInv, SeededWhileShared, [Next]_vars, NEW r \in Pools
               PROVE  lpSupply'[r] > 0 => reserve'[r][1] > 0
    BY DEF SeededWhileShared
  <2>1. StaysSeeded(r)
    BY NextOK DEF StepOK
  <2> QED
    BY <2>1 DEF StaysSeeded, SeededWhileShared
<1> QED
  BY <1>1, <1>2, InductiveInvariant, PTL DEF Spec

(* Whatever is done to a pool, and however its divisions round, the        *)
(* product of the reserves per squared LP token does not fall.             *)
THEOREM NeverDiluted == Spec => LiquidityNeverDiluted
<1> DEFINE NotDiluted(p) ==
               lpSupply[p] > 0 /\ lpSupply'[p] > 0 =>
                   reserve'[p][1] * reserve'[p][2] * lpSupply[p] * lpSupply[p]
                       >= reserve[p][1] * reserve[p][2] * lpSupply'[p] * lpSupply'[p]
<1>1. IInv /\ [Next]_vars => [\A p \in Pools : NotDiluted(p)]_vars
  <2> SUFFICES ASSUME IInv, [Next]_vars
               PROVE  \A p \in Pools : NotDiluted(p)
    OBVIOUS
  <2> QED
    BY NextOK DEF StepOK, Undiluted
<1> QED
  BY InductiveInvariant, <1>1, PTL DEF Spec, LiquidityNeverDiluted

(* What a pass through leaves of the allowance it gave (contract.rs:1102)  *)
(* is dead one block later.                                                *)
THEOREM GrantExpires == Spec => []LeftoverGrantExpires
<1>1. Init => LeftoverGrantExpires
  BY DEF Init, LeftoverGrantExpires
<1>2. IInv /\ LeftoverGrantExpires /\ [Next]_vars => LeftoverGrantExpires'
  <2> SUFFICES ASSUME IInv, LeftoverGrantExpires, [Next]_vars,
                      NEW g \in Pools \X Pools \X Tokens, grant'[g].amount > 0
               PROVE  grant'[g].expires # NoExpiration /\ grant'[g].expires <= height' + 1
    BY DEF LeftoverGrantExpires
  <2>1. /\ height \in Nat /\ height' \in Nat
        /\ grant[g].expires \in Nat \cup {NoExpiration}
    BY NextOK DEF StepOK, IInv, TypeOK
  <2>2. CASE grant'[g] = grant[g] /\ height' >= height
    BY <2>1, <2>2 DEF LeftoverGrantExpires
  <2>3. CASE grant'[g].expires = height + 1 /\ height' = height
    BY <2>1, <2>3, HopersPoolAssumption
  <2> QED
    BY <2>2, <2>3, NextOK DEF GrantEffect
<1> QED
  BY <1>1, <1>2, InductiveInvariant, PTL DEF Spec

(* A pass through spends the allowance it gives but for less than one unit *)
(* per dev wallet.                                                         *)
THEOREM GrantNearlySpent == Spec => AllowanceNearlySpent
<1>1. IInv /\ [Next]_vars =>
         [\A g \in Pools \X Pools \X Tokens :
             grant'[g].amount - grant[g].amount \in 0 .. MaxWallets - 1]_vars
  <2> SUFFICES ASSUME IInv, [Next]_vars, NEW g \in Pools \X Pools \X Tokens
               PROVE  grant'[g].amount - grant[g].amount \in 0 .. MaxWallets - 1
    OBVIOUS
  <2>1. grant[g].amount \in Nat
    BY DEF IInv, TypeOK
  <2>2. MaxWallets - 1 = 1
    BY DEF MaxWallets
  <2>3. CASE grant'[g] = grant[g]
    BY <2>1, <2>2, <2>3
  <2>4. CASE grant'[g].amount - grant[g].amount \in 0 .. 1
    BY <2>2, <2>4
  <2> QED
    BY <2>3, <2>4, NextOK DEF GrantEffect
<1> QED
  BY InductiveInvariant, <1>1, PTL DEF Spec, AllowanceNearlySpent

(* A pool whose owner was set to None keeps its protocol fee and its dev   *)
(* wallets for ever (contract.rs:485).                                     *)
THEOREM OwnerlessFrozen == Spec => OwnerlessPoolFrozen
<1>1. IInv /\ [Next]_vars =>
         [\A p \in Pools :
             owner[p] = NoOwner => owner'[p] = NoOwner /\ fees'[p] = fees[p]]_vars
  <2> SUFFICES ASSUME IInv, [Next]_vars, NEW r \in Pools, owner[r] = NoOwner
               PROVE  owner'[r] = owner[r] /\ fees'[r] = fees[r]
    OBVIOUS
  <2>1. CASE LiquidityStep
    BY <2>1 DEF LiquidityStep, AddLiquidity, RemoveLiquidity
  <2>2. CASE SwapStep
    <3>1. ASSUME NEW u \in Users, NEW p \in Pools, NEW side \in Side, NEW amount \in Amounts,
                 NEW min \in Minimums, NEW expiration \in Expirations,
                 NEW recipient \in Account,
                 Swap(u, p, side, amount, min, recipient, expiration)
          PROVE  UNCHANGED <<owner, fees>>
      BY <3>1 DEF Swap
    <3>2. ASSUME NEW u \in Users, NEW p \in Pools, NEW side \in Side, NEW amount \in Amounts,
                 NEW min \in Minimums, NEW expiration \in Expirations, NEW q \in Pools,
                 PassThroughSwap(u, p, q, side, amount, min, expiration)
          PROVE  UNCHANGED <<owner, fees>>
      BY <3>2 DEF PassThroughSwap
    <3> QED
      BY <2>2, <3>1, <3>2 DEF SwapStep
  <2>3. CASE AdminStep
    <3>1. ASSUME NEW p \in Pools, NEW u \in Users, NEW new_owner \in Users \cup {NoOwner},
                 NEW config \in Configs, UpdateConfig(u, p, new_owner, config)
          PROVE  owner'[r] = owner[r] /\ fees'[r] = fees[r]
      <4>1. p # r
        BY <3>1, HopersPoolAssumption DEF UpdateConfig, IsOwner
      <4>2. UNCHANGED <<owner[r], fees[r]>>
        BY <3>1, <4>1 DEF UpdateConfig, IInv, TypeOK
      <4> QED
        BY <4>2
    <3>2. ASSUME NEW p \in Pools, NEW burn \in BurnFees, Migrate(p, burn)
          PROVE  owner'[r] = owner[r] /\ fees'[r] = fees[r]
      BY <3>2 DEF Migrate
    <3> QED
      BY <2>3, <3>1, <3>2 DEF AdminStep
  <2>4. CASE TokenStep
    BY <2>4 DEF TokenStep, LpTransfer, LpBurn, Transfer, contract
  <2>5. CASE NextBlock
    BY <2>5 DEF NextBlock, contract
  <2>6. CASE UNCHANGED vars
    BY <2>6 DEF vars
  <2> QED
    BY <2>1, <2>2, <2>3, <2>4, <2>5, <2>6 DEF Next
<1> QED
  BY InductiveInvariant, <1>1, PTL DEF Spec, OwnerlessPoolFrozen

(* Selling what a swap bought at once never returns more than was paid,    *)
(* whatever the fees and however the divisions round (get_input_price,     *)
(* contract.rs:700).                                                       *)
THEOREM RoundTripLoses == Spec => []NoRoundTripProfit
<1>1. IInv => NoRoundTripProfit
  <2> SUFFICES ASSUME IInv, NEW p \in Pools, NEW side \in Side, NEW n \in Amounts,
                      Charges_ok(reserve, p, side, n),
                      Charges_ok(ReservesAfter(reserve, p, side, Charges(reserve, p, side, n)),
                                 p, Other(side), Charges(reserve, p, side, n).out)
               PROVE  Charges(ReservesAfter(reserve, p, side, Charges(reserve, p, side, n)),
                              p, Other(side), Charges(reserve, p, side, n).out).out <= n
    BY DEF NoRoundTripProfit
  <2> DEFINE c == Charges(reserve, p, side, n)
             after == ReservesAfter(reserve, p, side, c)
             c2 == Charges(after, p, Other(side), c.out)
             x == reserve[p][side]
             y == reserve[p][Other(side)]
             x1 == after[p][side]
             y1 == after[p][Other(side)]
  <2>1. /\ n \in Nat /\ reserve \in Reserves /\ Other(side) \in Side
        /\ Other(side) # side /\ Other(Other(side)) = side
    BY SideFacts, HopersPoolAssumption DEF IInv, TypeOK, Reserves
  <2>2. x \in Nat /\ y \in Nat
    BY <2>1 DEF Reserves
  <2>3. /\ c \in ChargesType /\ c.out < y
        /\ c.net + c.fee + (IF side = 1 THEN c.burn ELSE 0) = n
        /\ x * y <= (x + c.net) * (y - c.out)
    BY <2>1, ChargesBound DEF IInv
  <2>4. after \in Reserves
    BY <2>1, LegKeepsProduct DEF IInv
  <2>5. x1 = x + c.net /\ y1 = y - c.out
    BY <2>1 DEF ReservesAfter, Reserves
  <2>6. Charges_ok(after, p, Other(side), c.out)
    OBVIOUS
  <2> HIDE DEF c
  <2>7. c.out \in Nat /\ c.net \in Nat /\ c.net <= n
    BY <2>1, <2>3 DEF ChargesType
  <2> HIDE DEF after
  <2>8. /\ c2 \in ChargesType /\ c2.out < x1
        /\ c2.net + c2.fee + (IF Other(side) = 1 THEN c2.burn ELSE 0) = c.out
        /\ y1 * x1 <= (y1 + c2.net) * (x1 - c2.out)
    BY <2>1, <2>4, <2>6, <2>7, ChargesBound DEF IInv
  <2> HIDE DEF c2, x, y, x1, y1
  <2>9. c2.out \in Nat /\ c2.net \in Nat /\ c2.net <= c.out
    BY <2>7, <2>8 DEF ChargesType
  <2>10. /\ x1 \in Nat /\ y1 \in Nat /\ x1 - c2.out \in Nat
         /\ y1 + c2.net <= y /\ y1 + c2.net \in Nat
    BY <2>2, <2>3, <2>5, <2>7, <2>8, <2>9
  <2>11. (y1 + c2.net) * (x1 - c2.out) <= y * (x1 - c2.out)
    BY <2>2, <2>10, MulMono
  <2>12. y * x <= y * (x1 - c2.out)
    <3>1. /\ x * y = y * x /\ x1 * y1 = y1 * x1
          /\ x * y \in Nat /\ x1 * y1 \in Nat /\ y * (x1 - c2.out) \in Nat
          /\ (y1 + c2.net) * (x1 - c2.out) \in Nat
      BY <2>2, <2>10, SMT
    <3>2. x * y <= x1 * y1
      BY <2>3, <2>5
    <3> QED
      BY <2>8, <2>11, <3>1, <3>2
  <2>13. x <= x1 - c2.out
    BY <2>2, <2>3, <2>7, <2>10, <2>12, MulCancel
  <2>14. c2.out <= n
    BY <2>1, <2>2, <2>5, <2>7, <2>9, <2>10, <2>13
  <2> QED
    BY <2>14 DEF c2, after, c
<1> QED
  BY InductiveInvariant, <1>1, PTL

(* Once the price of a swap was computed neither its fees nor its output   *)
(* can fail it (contract.rs:718, 838, 938), whatever the fees are.         *)
THEOREM PricedSwapsSucceed == Spec => []PricedSwapsGoThrough
<1>1. IInv => PricedSwapsGoThrough
  <2> SUFFICES ASSUME IInv, NEW p \in Pools, NEW side \in Side, NEW n \in Amounts,
                      Priced(reserve, p, side, n)
               PROVE  LET c == Charges(reserve, p, side, n)
                      IN  /\ c.net >= 0
                          /\ c.net + c.fee + (IF side = 1 THEN c.burn ELSE 0) = n
                          /\ c.out < reserve[p][Other(side)]
    BY DEF PricedSwapsGoThrough
  <2> DEFINE c == Charges(reserve, p, side, n)
  <2>1. n \in Nat /\ reserve \in Reserves
    BY HopersPoolAssumption DEF IInv, TypeOK, Reserves
  <2>2. /\ c \in ChargesType
        /\ c.net + c.fee + (IF side = 1 THEN c.burn ELSE 0) = n
        /\ c.out < reserve[p][Other(side)]
    BY <2>1, PricedBound DEF IInv
  <2> HIDE DEF c
  <2>3. c.net >= 0
    BY <2>2 DEF ChargesType
  <2> QED
    BY <2>2, <2>3 DEF c
<1> QED
  BY InductiveInvariant, <1>1, PTL

-----------------------------------------------------------------------------
(* What the holders of LP tokens hold together, by the lemmas of SumProofs.*)

Held(holders) == SumFunctionOnSet(holders, Account)

(* The supply a pool divides by is what its LP tokens' holders hold.       *)
SharesCounted == \A p \in Pools : lpSupply[p] = Held(lp[p])

LEMMA HeldType ==
    ASSUME NEW f \in [Account -> Nat]
    PROVE  Held(f) \in Nat
<1>1. IsFiniteSet(Account) /\ \A a \in Account : f[a] \in Nat
  BY HopersPoolAssumption
<1> QED
  BY <1>1, SumNat DEF Held

LEMMA HeldChange ==
    ASSUME NEW f \in [Account -> Nat], NEW u \in Account, NEW n \in Nat
    PROVE  Held([f EXCEPT ![u] = n]) = Held(f) + (n - f[u])
<1> DEFINE g == [f EXCEPT ![u] = n]
<1>1. IsFiniteSet(Account) /\ g[u] = n
  BY HopersPoolAssumption
<1>2. \A v \in Account : f[v] \in Int /\ g[v] \in Int
  OBVIOUS
<1>3. \A v \in Account \ {u} : g[v] = f[v]
  OBVIOUS
<1> HIDE DEF g
<1>4. SumFunctionOnSet(g, Account) = SumFunctionOnSet(f, Account) + (g[u] - f[u])
  BY ONLY <1>1, <1>2, <1>3, SumChange, u \in Account
<1> QED
  BY <1>1, <1>4 DEF g, Held

LEMMA HeldMoved ==
    ASSUME NEW f \in [Account -> Nat], NEW u \in Account, NEW to \in Account,
           NEW n \in Nat, n <= f[u]
    PROVE  Held(Moved(f, u, to, n)) = Held(f)
<1> DEFINE taken == [f EXCEPT ![u] = f[u] - n]
           given == [taken EXCEPT ![to] = taken[to] + n]
<1>1. f[u] \in Nat /\ f[u] - n \in Nat /\ taken \in [Account -> Nat]
  OBVIOUS
<1>2. Held(taken) = Held(f) + ((f[u] - n) - f[u])
  BY <1>1, HeldChange
<1> HIDE DEF taken
<1>3. taken[to] \in Nat /\ taken[to] + n \in Nat
  BY <1>1
<1>4. Held(given) = Held(taken) + ((taken[to] + n) - taken[to])
  BY <1>1, <1>3, HeldChange
<1>5. Held(f) \in Nat /\ Held(taken) \in Nat
  BY <1>1, HeldType
<1> HIDE DEF given
<1>6. Held(given) = Held(f)
  BY <1>1, <1>2, <1>3, <1>4, <1>5
<1> QED
  BY <1>6 DEF Moved, given, taken

(* A step that sets one balance of one pool's LP token, and changes the    *)
(* supply by the difference, keeps the count.                              *)
LEMMA SharesSet ==
    ASSUME IInv, SharesCounted, NEW p \in Pools, NEW u \in Users, NEW n \in Nat, NEW s,
           lp' = [lp EXCEPT ![p] = [lp[p] EXCEPT ![u] = n]],
           lpSupply' = [lpSupply EXCEPT ![p] = s],
           s = lpSupply[p] + (n - lp[p][u])
    PROVE  SharesCounted'
<1>1. lp \in [Pools -> [Account -> Nat]] /\ lpSupply \in [Pools -> Nat] /\ u \in Account
  BY DEF IInv, TypeOK, Account
<1> SUFFICES ASSUME NEW r \in Pools
             PROVE  lpSupply'[r] = Held(lp'[r])
  BY DEF SharesCounted
<1>2. CASE r # p
  BY <1>1, <1>2 DEF SharesCounted
<1>3. CASE r = p
  <2>1. lp'[p] = [lp[p] EXCEPT ![u] = n] /\ lpSupply'[p] = s
    BY <1>1
  <2>2. Held(lp'[p]) = Held(lp[p]) + (n - lp[p][u])
    BY <1>1, <2>1, HeldChange
  <2> QED
    BY <1>3, <2>1, <2>2 DEF SharesCounted
<1> QED
  BY <1>2, <1>3

LEMMA SharesAdded ==
    ASSUME IInv, SharesCounted, NEW u \in Users, NEW p \in Pools, NEW n1 \in Nat,
           NEW min, NEW max2, NEW expiration, AddLiquidity(u, p, n1, min, max2, expiration)
    PROVE  SharesCounted'
<1> DEFINE minted == get_lp_token_amount_to_mint(n1, lpSupply[p], reserve[p][1])
<1>1. /\ lpSupply[p] \in Nat /\ lp[p][u] \in Nat /\ reserve[p][1] \in Nat
  BY SideFacts DEF IInv, TypeOK, Account
<1>2. minted \in Nat
  <2>1. lpSupply[p] > 0 => reserve[p][1] > 0
    BY DEF AddLiquidity, get_lp_token_amount_to_mint_ok
  <2>2. CASE lpSupply[p] = 0
    BY <2>2 DEF get_lp_token_amount_to_mint
  <2>3. CASE lpSupply[p] > 0
    <3>1. minted = (n1 * lpSupply[p]) \div reserve[p][1]
      BY <1>1, <2>3 DEF get_lp_token_amount_to_mint
    <3>2. n1 * lpSupply[p] \in Nat
      BY <1>1, SMT
    <3> HIDE DEF minted
    <3> QED
      BY <1>1, <2>1, <2>3, <3>1, <3>2, DivFloor
  <2> QED
    BY <1>1, <2>2, <2>3
<1>3. /\ lp' = [lp EXCEPT ![p] = [lp[p] EXCEPT ![u] = lp[p][u] + minted]]
      /\ lpSupply' = [lpSupply EXCEPT ![p] = lpSupply[p] + minted]
  BY DEF AddLiquidity
<1> HIDE DEF minted
<1>4. /\ lp[p][u] + minted \in Nat
      /\ lpSupply[p] + minted = lpSupply[p] + ((lp[p][u] + minted) - lp[p][u])
  BY <1>1, <1>2
<1> QED
  BY <1>3, <1>4, SharesSet

(* LP tokens that are redeemed, or burned by their holder.                 *)
LEMMA SharesRemoved ==
    ASSUME IInv, SharesCounted, NEW u \in Users, NEW p \in Pools, NEW n \in Nat,
           n <= lp[p][u],
           lp' = [lp EXCEPT ![p] = [lp[p] EXCEPT ![u] = lp[p][u] - n]],
           lpSupply' = [lpSupply EXCEPT ![p] = lpSupply[p] - n]
    PROVE  SharesCounted'
<1>1. lpSupply[p] \in Nat /\ lp[p][u] \in Nat
  BY DEF IInv, TypeOK, Account
<1>2. /\ lp[p][u] - n \in Nat
      /\ lpSupply[p] - n = lpSupply[p] + ((lp[p][u] - n) - lp[p][u])
  BY <1>1
<1> QED
  BY <1>2, SharesSet

LEMMA SharesTransferred ==
    ASSUME IInv, SharesCounted, NEW u \in Users, NEW p \in Pools, NEW to \in Account,
           NEW n \in Nat, LpTransfer(u, p, to, n)
    PROVE  SharesCounted'
<1>1. /\ lp \in [Pools -> [Account -> Nat]] /\ u \in Account /\ n <= lp[p][u]
      /\ lp' = [lp EXCEPT ![p] = Moved(lp[p], u, to, n)] /\ lpSupply' = lpSupply
  BY DEF IInv, TypeOK, Account, LpTransfer
<1> SUFFICES ASSUME NEW r \in Pools
             PROVE  lpSupply'[r] = Held(lp'[r])
  BY DEF SharesCounted
<1>2. CASE r # p
  BY <1>1, <1>2 DEF SharesCounted
<1>3. CASE r = p
  <2>1. lp'[p] = Moved(lp[p], u, to, n) /\ lp[p] \in [Account -> Nat]
    BY <1>1
  <2>2. Held(lp'[p]) = Held(lp[p])
    BY <1>1, <2>1, HeldMoved
  <2> QED
    BY <1>1, <1>3, <2>2 DEF SharesCounted
<1> QED
  BY <1>2, <1>3

LEMMA SharesCountedStep ==
    ASSUME IInv, SharesCounted, [Next]_vars
    PROVE  SharesCounted'
<1>1. CASE UNCHANGED <<lp, lpSupply>>
  BY <1>1 DEF SharesCounted
<1>2. CASE LiquidityStep
  <2>1. PICK u \in Users, p \in Pools, expiration \in Expirations :
           \/ \E amount1, max2 \in Amounts, min \in Minimums :
                 AddLiquidity(u, p, amount1, min, max2, expiration)
           \/ \E amount \in LpAmounts, min1, min2 \in Minimums :
                 RemoveLiquidity(u, p, amount, min1, min2, expiration)
    BY <1>2 DEF LiquidityStep
  <2>2. ASSUME NEW amount1 \in Amounts, NEW max2 \in Amounts, NEW min \in Minimums,
               AddLiquidity(u, p, amount1, min, max2, expiration)
        PROVE  SharesCounted'
    BY <2>2, SharesAdded, HopersPoolAssumption
  <2>3. ASSUME NEW amount \in LpAmounts, NEW min1 \in Minimums, NEW min2 \in Minimums,
               RemoveLiquidity(u, p, amount, min1, min2, expiration)
        PROVE  SharesCounted'
    <3>1. /\ amount \in Nat /\ amount <= lp[p][u]
          /\ lp' = [lp EXCEPT ![p] = [lp[p] EXCEPT ![u] = lp[p][u] - amount]]
          /\ lpSupply' = [lpSupply EXCEPT ![p] = lpSupply[p] - amount]
      BY <2>3, HopersPoolAssumption DEF RemoveLiquidity
    <3> QED
      BY <3>1, SharesRemoved
  <2> QED
    BY <2>1, <2>2, <2>3
<1>3. CASE SwapStep
  <2>1. ASSUME NEW u \in Users, NEW p \in Pools, NEW side \in Side, NEW amount \in Amounts,
               NEW min \in Minimums, NEW expiration \in Expirations,
               NEW recipient \in Account,
               Swap(u, p, side, amount, min, recipient, expiration)
        PROVE  UNCHANGED <<lp, lpSupply>>
    BY <2>1 DEF Swap
  <2>2. ASSUME NEW u \in Users, NEW p \in Pools, NEW side \in Side, NEW amount \in Amounts,
               NEW min \in Minimums, NEW expiration \in Expirations, NEW q \in Pools,
               PassThroughSwap(u, p, q, side, amount, min, expiration)
        PROVE  UNCHANGED <<lp, lpSupply>>
    BY <2>2 DEF PassThroughSwap
  <2> QED
    BY <1>1, <1>3, <2>1, <2>2 DEF SwapStep
<1>4. CASE AdminStep
  BY <1>1, <1>4 DEF AdminStep, UpdateConfig, Migrate
<1>5. CASE TokenStep
  <2>1. ASSUME NEW u \in Users, NEW p \in Pools, NEW amount \in LpMoves,
               NEW to \in Account, LpTransfer(u, p, to, amount)
        PROVE  SharesCounted'
    BY <2>1, SharesTransferred, HopersPoolAssumption
  <2>2. ASSUME NEW u \in Users, NEW p \in Pools, NEW amount \in LpMoves, LpBurn(u, p, amount)
        PROVE  SharesCounted'
    <3>1. /\ amount \in Nat /\ amount <= lp[p][u]
          /\ lp' = [lp EXCEPT ![p] = [lp[p] EXCEPT ![u] = lp[p][u] - amount]]
          /\ lpSupply' = [lpSupply EXCEPT ![p] = lpSupply[p] - amount]
      <4>1. amount \in Nat /\ lp[p][u] \in Nat
        BY HopersPoolAssumption DEF IInv, TypeOK, Account
      <4> QED
        BY <2>2, <4>1 DEF LpBurn
    <3> QED
      BY <3>1, SharesRemoved
  <2>3. ASSUME NEW u \in Users, NEW t \in Tokens, NEW to \in Account, NEW amount \in Gifts,
               Transfer(u, t, to, amount)
        PROVE  SharesCounted'
    BY <1>1, <2>3 DEF Transfer, lpToken
  <2> QED
    BY <1>5, <2>1, <2>2, <2>3 DEF TokenStep
<1>6. CASE NextBlock
  BY <1>1, <1>6 DEF NextBlock, lpToken
<1>7. CASE UNCHANGED vars
  BY <1>1, <1>7 DEF vars
<1> QED
  BY <1>2, <1>3, <1>4, <1>5, <1>6, <1>7 DEF Next

(* However many redeem, each payout rounded down, what they are paid stays *)
(* within the reserve: the sum over all of supply * payout is at most that *)
(* of shares * reserve, which is supply * reserve.                         *)
LEMMA PayoutsWithinReserve ==
    ASSUME NEW f \in [Account -> Nat], NEW x \in Nat, NEW s \in Nat, s > 0, s = Held(f)
    PROVE  SumFunctionOnSet([a \in Account |-> payout(f[a], x, s)], Account) <= x
<1> DEFINE paid == [a \in Account |-> payout(f[a], x, s)]
           total == SumFunctionOnSet(paid, Account)
<1>1. IsFiniteSet(Account)
  BY HopersPoolAssumption
<1>2. ASSUME NEW a \in Account
      PROVE  f[a] \in Int /\ paid[a] \in Nat /\ s * paid[a] <= x * f[a]
  <2> DEFINE n == f[a]
  <2>1. n \in Nat /\ n * x \in Nat /\ n * x = x * n
    BY SMT
  <2>2. paid[a] = (n * x) \div s
    BY DEF payout
  <2> HIDE DEF n, paid
  <2>3. paid[a] \in Nat /\ paid[a] * s <= n * x
    BY <2>1, <2>2, DivFloor
  <2>4. s * paid[a] = paid[a] * s
    BY <2>3, SMT
  <2> QED
    BY <2>1, <2>3, <2>4 DEF n
<1> HIDE DEF paid
<1>3. \A a \in Account : paid[a] \in Int /\ f[a] \in Int /\ s * paid[a] <= x * f[a]
  BY <1>2
<1>4. total \in Nat
  BY <1>1, <1>2, SumNat
<1>5. s * total <= x * SumFunctionOnSet(f, Account)
  BY ONLY <1>1, <1>3, SumScaled, s \in Int, x \in Int
<1> HIDE DEF total
<1>6. s * total <= s * x
  <2>1. x * s = s * x
    BY SMT
  <2> QED
    BY <1>5, <2>1 DEF Held
<1> QED
  BY <1>4, <1>6, MulCancel DEF total, paid

(* The LP supply a pool divides by is what the holders hold, so however    *)
(* many of them redeem the payouts stay within the reserves                *)
(* (contract.rs:571, 583).                                                 *)
THEOREM SharesStayRedeemable == Spec => []SharesRedeemable
<1>1. Init => SharesCounted
  <2> SUFFICES ASSUME Init, NEW p \in Pools
               PROVE  lpSupply[p] = Held(lp[p])
    BY DEF SharesCounted
  <2>1. IsFiniteSet(Account) /\ lpSupply[p] = 0 /\ \A a \in Account : lp[p][a] = 0
    BY HopersPoolAssumption DEF Init
  <2> QED
    BY <2>1, SumZero DEF Held
<1>2. ASSUME IInv, SharesCounted
      PROVE  SharesRedeemable
  <2> SUFFICES ASSUME NEW p \in Pools
               PROVE  /\ lpSupply[p] = SumFunctionOnSet(lp[p], Account)
                      /\ lpSupply[p] > 0 =>
                            \A side \in Side :
                               SumFunctionOnSet([a \in Account |->
                                   payout(lp[p][a], reserve[p][side], lpSupply[p])],
                                   Account) <= reserve[p][side]
    BY DEF SharesRedeemable
  <2>1. lp[p] \in [Account -> Nat] /\ lpSupply[p] \in Nat
    BY <1>2 DEF IInv, TypeOK
  <2>2. \A side \in Side : reserve[p][side] \in Nat
    BY <1>2 DEF IInv, TypeOK
  <2>3. lpSupply[p] = Held(lp[p])
    BY <1>2 DEF SharesCounted
  <2>4. ASSUME NEW side \in Side, lpSupply[p] > 0
        PROVE  SumFunctionOnSet([a \in Account |->
                   payout(lp[p][a], reserve[p][side], lpSupply[p])], Account)
                   <= reserve[p][side]
    BY <2>1, <2>2, <2>3, <2>4, PayoutsWithinReserve
  <2> QED
    BY <2>3, <2>4 DEF Held
<1> QED
  BY <1>1, <1>2, SharesCountedStep, InductiveInvariant, PTL DEF Spec
=============================================================================
