--------------------------- MODULE PoolMathProofs ---------------------------
(* Facts about the arithmetic of a pool, for every amount, reserve and fee.*)
EXTENDS PoolMath, TLAPS

(* Division rounds down.                                                   *)
LEMMA DivFloor ==
    ASSUME NEW a \in Nat, NEW b \in Nat, b > 0
    PROVE  /\ a \div b \in Nat
           /\ b * (a \div b) <= a
           /\ a < b * (a \div b) + b
BY SMT

(* Products are monotone.                                                  *)
LEMMA MulMono ==
    ASSUME NEW a \in Nat, NEW b \in Nat, NEW c \in Nat, a <= b
    PROVE  /\ a * c \in Nat
           /\ a * c <= b * c
           /\ c * a <= c * b
BY SMT

LEMMA MulCancel ==
    ASSUME NEW a \in Nat, NEW b \in Nat, NEW c \in Nat, c > 0, c * a <= c * b
    PROVE  a <= b
<1> SUFFICES ASSUME b + 1 <= a PROVE FALSE
  BY SMT
<1>1. c * (b + 1) <= c * a
  BY MulMono, SMT
<1>2. c * (b + 1) = c * b + c
  BY SMT
<1> QED
  BY <1>1, <1>2, SMT

(* A percentage (get_percent_amount, contract.rs:743) of an amount rounds  *)
(* down and is no more than the amount.                                    *)
LEMMA PercentBound ==
    ASSUME NEW n \in Nat, NEW num \in Nat, NEW den \in Nat, den > 0, num <= den
    PROVE  /\ get_percent_amount(n, num, den) \in Nat
           /\ den * get_percent_amount(n, num, den) <= n * num
           /\ get_percent_amount(n, num, den) <= n
<1> DEFINE d == (n * num) \div den
<1>1. n * num \in Nat /\ n * num <= n * den
  BY SMT
<1>2. d \in Nat /\ den * d <= n * num
  BY <1>1, DivFloor
<1>3. d <= n
  <2>1. den * d <= den * n
    BY <1>1, <1>2, SMT
  <2> QED
    BY <1>2, <2>1, MulCancel
<1> QED
  BY <1>2, <1>3 DEF get_percent_amount

(* The shares of two dev wallets whose ratios add up to one (the loop at   *)
(* contract.rs:905) leave less than two units of the fee behind.           *)
LEMMA SharesNearlyAll ==
    ASSUME NEW fee \in Nat, NEW r1 \in Nat, NEW r2 \in Nat, r1 + r2 = DecOne,
           DecOne \in Nat \ {0}
    PROVE  /\ WalletShare(fee, r1) \in Nat
           /\ WalletShare(fee, r2) \in Nat
           /\ WalletShare(fee, r1) + WalletShare(fee, r2) <= fee
           /\ fee <= WalletShare(fee, r1) + WalletShare(fee, r2) + 1
<1> DEFINE s1 == (fee * r1) \div DecOne
           s2 == (fee * r2) \div DecOne
<1>1. fee * r1 \in Nat /\ fee * r2 \in Nat /\ fee * r1 + fee * r2 = fee * DecOne
  BY SMT
<1>2. /\ s1 \in Nat /\ DecOne * s1 <= fee * r1 /\ fee * r1 < DecOne * s1 + DecOne
      /\ s2 \in Nat /\ DecOne * s2 <= fee * r2 /\ fee * r2 < DecOne * s2 + DecOne
  BY <1>1, DivFloor
<1> HIDE DEF s1, s2
<1>3. DecOne * (s1 + s2) = DecOne * s1 + DecOne * s2 /\ DecOne * fee = fee * DecOne
  BY <1>2, SMT
<1>4. DecOne * (s1 + s2) <= DecOne * fee
  BY <1>1, <1>2, <1>3, SMT
<1>5. s1 + s2 <= fee
  BY <1>2, <1>4, MulCancel, SMT
<1>6. fee <= s1 + s2 + 1
  <2> SUFFICES ASSUME s1 + s2 + 2 <= fee PROVE FALSE
    BY <1>2, SMT
  <2>1. DecOne * (s1 + s2 + 2) <= DecOne * fee
    BY <1>2, MulMono, SMT
  <2>2. DecOne * (s1 + s2 + 2) = DecOne * s1 + DecOne * s2 + 2 * DecOne
    BY <1>2, SMT
  <2>3. DecOne * s1 \in Nat /\ DecOne * s2 \in Nat
    BY <1>2, SMT
  <2> QED
    BY <1>1, <1>2, <1>3, <2>1, <2>2, <2>3, SMT
<1> QED
  BY <1>2, <1>5, <1>6 DEF WalletShare, s1, s2

(* The constant-product curve: with a of every den units of the input      *)
(* counted, an output of at most the floored price leaves the product of   *)
(* the reserves no smaller, and never empties the output reserve.          *)
LEMMA CurveKeepsProduct ==
    ASSUME NEW x \in Nat, NEW y \in Nat, NEW w \in Nat, NEW den \in Nat,
           NEW net \in Nat, NEW out \in Nat,
           x > 0, y > 0, den > 0, w <= den * net,
           (x * den + w) * out <= w * y
    PROVE  /\ out < y
           /\ x * y <= (x + net) * (y - out)
<1> DEFINE D == x * den + w
<1>1. x * den \in Nat /\ x * den > 0 /\ w * y \in Nat
  BY SMT
<1>2. D \in Nat /\ D > w /\ D > 0
  BY <1>1, SMT
<1>3. out < y
  <2> SUFFICES ASSUME y <= out PROVE FALSE
    BY SMT
  <2>1. D * y <= D * out
    BY <1>2, MulMono
  <2>2. D * y = (x * den) * y + w * y
    BY <1>1, SMT
  <2>3. (x * den) * y > 0
    BY <1>1, SMT
  <2>4. D * out <= w * y /\ D * out \in Nat /\ D * y \in Nat
    BY <1>2, SMT
  <2> QED
    BY <1>1, <2>1, <2>2, <2>3, <2>4, SMT
<1> DEFINE z == y - out
<1>4. z \in Nat
  BY <1>3, SMT
<1>5. D <= den * (x + net)
  <2>1. den * (x + net) = x * den + den * net
    BY SMT
  <2> QED
    BY <1>1, <2>1, SMT
<1>6. D * z <= (den * (x + net)) * z
  BY <1>2, <1>4, <1>5, MulMono, SMT
<1>7. D * z = (x * den) * y + w * y - D * out
  BY <1>1, <1>2, SMT
<1>8. (x * den) * y <= D * z
  <2>1. D * out <= w * y /\ D * out \in Nat /\ (x * den) * y \in Nat
    BY <1>1, <1>2, SMT
  <2> QED
    BY <1>1, <1>7, <2>1, SMT
<1>9. den * (x * y) = (x * den) * y /\ (den * (x + net)) * z = den * ((x + net) * z)
  BY <1>4, SMT
<1>10. den * (x * y) <= den * ((x + net) * z)
  <2>1. (x * den) * y \in Nat /\ D * z \in Nat /\ (den * (x + net)) * z \in Nat
    BY <1>1, <1>2, <1>4, SMT
  <2> QED
    BY <1>6, <1>8, <1>9, <2>1, SMT
<1>11. x * y \in Nat /\ (x + net) * z \in Nat
  BY <1>4, SMT
<1>12. x * y <= (x + net) * z
  BY <1>10, <1>11, MulCancel
<1> QED
  BY <1>3, <1>12

(* get_input_price (contract.rs:700): the floored price of the curve.      *)
LEMMA PriceBound ==
    ASSUME NEW n \in Nat, NEW x \in Nat, NEW y \in Nat, NEW num \in Nat,
           NEW den \in Nat, NEW burn \in Nat, NEW side \in Side, den > 0,
           get_input_price_ok(n, x, y, num, den, burn, side)
    PROVE  LET w == n * (den - InputFee(num, burn, side))
               price == get_input_price(n, x, y, num, den, burn, side)
           IN  /\ x > 0 /\ y > 0 /\ InputFee(num, burn, side) <= den
               /\ w \in Nat
               /\ price \in Nat
               /\ (x * den + w) * price <= w * y
<1> DEFINE cut == InputFee(num, burn, side)
           w == n * (den - cut)
           D == x * den + w
<1>1. x > 0 /\ y > 0 /\ cut \in Nat /\ cut <= den
  BY DEF get_input_price_ok, InputFee, Side
<1>2. w \in Nat
  <2>1. den - cut \in Nat
    BY <1>1, SMT
  <2> QED
    BY <2>1, SMT
<1>3. D \in Nat /\ D > 0 /\ w * y \in Nat
  <2>1. x * den > 0 /\ x * den \in Nat
    BY <1>1, SMT
  <2> QED
    BY <1>2, <2>1, SMT
<1>4. (w * y) \div D \in Nat /\ D * ((w * y) \div D) <= w * y
  <2> HIDE DEF D, w
  <2> QED
    BY <1>3, DivFloor
<1>5. get_input_price(n, x, y, num, den, burn, side) = (w * y) \div D
  BY DEF get_input_price
<1> QED
  BY <1>1, <1>2, <1>4, <1>5

(* What a swap of the hopers token keeps of its input after the protocol   *)
(* and burn fees is at least what the curve counts.                        *)
LEMMA NetBound ==
    ASSUME NEW n \in Nat, NEW num \in Nat, NEW burn \in Nat, NEW den \in Nat,
           den > 0, num + burn <= den
    PROVE  LET net == n - get_percent_amount(n, num, den) - get_percent_amount(n, burn, den)
           IN  /\ net \in Nat
               /\ n * (den - (num + burn)) <= den * net
<1> DEFINE f == get_percent_amount(n, num, den)
           g == get_percent_amount(n, burn, den)
<1>1. f \in Nat /\ den * f <= n * num /\ g \in Nat /\ den * g <= n * burn
  <2>1. num <= den /\ burn <= den
    BY SMT
  <2> QED
    BY <2>1, PercentBound
<1> HIDE DEF f, g
<1>2. /\ n * num \in Nat /\ n * burn \in Nat /\ n * den \in Nat
      /\ n * (num + burn) = n * num + n * burn
      /\ n * (den - (num + burn)) = n * den - n * num - n * burn
      /\ n * (num + burn) <= n * den
  <2>1. /\ n * num \in Nat /\ n * burn \in Nat /\ n * den \in Nat
        /\ n * (num + burn) = n * num + n * burn
        /\ n * (den - (num + burn)) = n * den - n * num - n * burn
    BY SMT
  <2>2. n * (num + burn) <= n * den
    BY MulMono, SMT
  <2> QED
    BY <2>1, <2>2
<1>3. den * (f + g) = den * f + den * g /\ den * n = n * den
  BY <1>1, SMT
<1>4. den * (f + g) <= den * n
  BY <1>1, <1>2, <1>3, SMT
<1>5. f + g <= n
  BY <1>1, <1>4, MulCancel, SMT
<1>6. den * (n - f - g) = den * n - den * f - den * g
  BY <1>1, SMT
<1>7. n - f - g \in Nat
  BY <1>1, <1>5, SMT
<1>8. n * (den - (num + burn)) <= den * (n - f - g)
  <2>1. den * f \in Nat /\ den * g \in Nat
    BY <1>1, SMT
  <2> QED
    BY <1>1, <1>2, <1>3, <1>6, <2>1, SMT
<1> QED
  BY <1>7, <1>8 DEF f, g
=============================================================================
