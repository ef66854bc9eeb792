------------------------------ MODULE PoolMath ------------------------------
(***************************************************************************)
(* The arithmetic of a hopers pool (hopers-swap_hopers/src/contract.rs).   *)
(*                                                                         *)
(* Amounts are Uint128: every product and sum the contract takes is        *)
(* checked, and a value above MaxUint, a subtraction below zero or a       *)
(* division by zero aborts the transaction.  Each partial function is      *)
(* therefore a pair: the value, and the predicate under which the contract *)
(* obtains it, named with the suffix _ok.                                  *)
(***************************************************************************)
EXTENDS Naturals

CONSTANTS
    MaxUint,    \* the largest Uint128 (2^128 - 1 in the code)
    DecOne      \* Decimal::one() in atomics (10^18 in the code)

ASSUME PoolMathAssumption ==
    /\ MaxUint \in Nat
    /\ DecOne \in 1..MaxUint

(* The two tokens of a pool; Token1 is "always hopers token".              *)
Side == {1, 2}
Other(side) == 3 - side

(* What a checked Uint128 operation can return.                            *)
Fits(n) == n <= MaxUint

-----------------------------------------------------------------------------
(* Liquidity.                                                              *)

(* LP tokens minted for a deposit of token1_amount.                        *)
get_lp_token_amount_to_mint(token1_amount, liquidity_supply, token1_reserve) ==
    IF liquidity_supply = 0
    THEN token1_amount
    ELSE (token1_amount * liquidity_supply) \div token1_reserve

get_lp_token_amount_to_mint_ok(token1_amount, liquidity_supply, token1_reserve) ==
    liquidity_supply > 0 =>
        /\ Fits(token1_amount * liquidity_supply)
        /\ token1_reserve > 0

(* Mutant: rounded down.                                                   *)
token2_amount_rounded_down(max_token, token1_amount, supply, reserve2, reserve1) ==
    IF supply = 0
    THEN max_token
    ELSE (token1_amount * reserve2) \div reserve1

(* Token2 a deposit must bring along: the pool's ratio, rounded up.        *)
get_token2_amount_required(max_token, token1_amount, supply, reserve2, reserve1) ==
    IF supply = 0
    THEN max_token
    ELSE (token1_amount * reserve2) \div reserve1 + 1

get_token2_amount_required_ok(token1_amount, supply, reserve2, reserve1) ==
    supply > 0 =>
        /\ Fits(token1_amount * reserve2)
        /\ reserve1 > 0
        /\ Fits((token1_amount * reserve2) \div reserve1 + 1)

(* Mutant: rounded up.                                                     *)
payout_rounded_up(amount, reserve, lp_token_supply) ==
    (amount * reserve + lp_token_supply - 1) \div lp_token_supply

(* One token's part of an LP amount being redeemed.                        *)
payout(amount, reserve, lp_token_supply) ==
    (amount * reserve) \div lp_token_supply

payout_ok(amount, reserve, lp_token_supply) ==
    /\ Fits(amount * reserve)
    /\ lp_token_supply > 0
    /\ payout(amount, reserve, lp_token_supply) <= reserve

-----------------------------------------------------------------------------
(* Swaps.                                                                  *)

(* The percentage points of the input that never reach the curve: the burn *)
(* fee is taken from the input only when the input is the hopers token.    *)
InputFee(num, burn, side) == IF side = 1 THEN num + burn ELSE num

(* Mutant: the input is left out of the denominator.                       *)
price_at_the_margin(input_amount, input_reserve, output_reserve, num, den, burn, side) ==
    LET with_fee == input_amount * (den - InputFee(num, burn, side))
    IN  (with_fee * output_reserve) \div (input_reserve * den)

(* The constant-product price of input_amount, after the input fees.       *)
get_input_price(input_amount, input_reserve, output_reserve, num, den, burn, side) ==
    LET with_fee == input_amount * (den - InputFee(num, burn, side))
    IN  (with_fee * output_reserve) \div (input_reserve * den + with_fee)

get_input_price_ok(input_amount, input_reserve, output_reserve, num, den, burn, side) ==
    LET with_fee == input_amount * (den - InputFee(num, burn, side))
    IN  /\ input_reserve > 0
        /\ output_reserve > 0
        /\ InputFee(num, burn, side) <= den
        /\ Fits(with_fee)
        /\ Fits(with_fee * output_reserve)
        /\ Fits(input_reserve * den + with_fee)

(* Mutant: rounded up.                                                     *)
percent_amount_rounded_up(input_amount, num, den) ==
    IF num = 0 THEN 0 ELSE (input_amount * num + den - 1) \div den

(* A percentage of an amount, rounded down.                                *)
get_percent_amount(input_amount, num, den) ==
    IF num = 0 THEN 0 ELSE (input_amount * num) \div den

get_percent_amount_ok(input_amount, num, den) ==
    num > 0 => Fits(input_amount * num) /\ den > 0

-----------------------------------------------------------------------------
(* Fee configuration.                                                      *)

(* The test instantiate and UpdateConfig apply to a fee: the ratio as an   *)
(* 18-digit Decimal, rounded down, is at most one.  The burn fee is no     *)
(* part of it.                                                             *)
FeeWithinMax(num, den) ==
    /\ den > 0
    /\ (num * DecOne) \div den <= DecOne

(* A dev wallet's share of a protocol fee: Uint128 * Decimal.              *)
WalletShare(fee, ratio) == (fee * ratio) \div DecOne
=============================================================================
