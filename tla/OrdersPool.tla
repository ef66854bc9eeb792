----------------------------- MODULE OrdersPool -----------------------------
(***************************************************************************)
(* Pools of two codes side by side.  hopers-swap_orders is a pool contract *)
(* of its own with the storage and the messages of hopers-swap_hopers, but *)
(* no burn fee.  Both codes carry the same contract name and version, so   *)
(* the chain's admin can migrate a pool from either to the other, and a    *)
(* pass through may go from a pool of one code to a pool of the other.     *)
(*                                                                         *)
(* instantiate but for the burn fee, the liquidity handlers and the        *)
(* messages to tokens are the same text in both contracts: AddLiquidity    *)
(* and RemoveLiquidity of HopersPool stand for both.  The swaps and        *)
(* UpdateConfig of hopers-swap_orders are translated here.                 *)
(*                                                                         *)
(* burnFee is the burn fee in force.  hopers-swap_orders never reads nor   *)
(* writes BURN_FEE_INFO, and a migration to hopers-swap_hopers overwrites  *)
(* whatever is left of it, so 0 stands for it in an orders pool.           *)
(***************************************************************************)
EXTENDS HopersPool

CONSTANTS
    StartCodes,     \* the codes the pools may be instantiated with
    Recoded         \* bound: the pools that the chain's admin migrates

Code == {"hopers", "orders"}

ASSUME OrdersPoolAssumption ==
    /\ StartCodes \subseteq [Pools -> Code]
    /\ Recoded \subseteq Pools
    /\ 0 \in BurnFees

VARIABLE code           \* the code each pool runs

mixedVars == <<vars, code>>

-----------------------------------------------------------------------------
(* The arithmetic of hopers-swap_orders.                                   *)

(* Mutant: the input is left out of the denominator.                       *)
OrdersPriceAtTheMargin(input_amount, input_reserve, output_reserve, num, den) ==
    (input_amount * (den - num) * output_reserve) \div (input_reserve * den)

(* get_input_price.                                                        *)
OrdersInputPrice(input_amount, input_reserve, output_reserve, num, den) ==
    LET with_fee == input_amount * (den - num)
    IN  (with_fee * output_reserve) \div (input_reserve * den + with_fee)

OrdersInputPrice_ok(input_amount, input_reserve, output_reserve, num, den) ==
    LET with_fee == input_amount * (den - num)
    IN  /\ input_reserve > 0
        /\ output_reserve > 0
        /\ num <= den
        /\ Fits(with_fee)
        /\ Fits(with_fee * output_reserve)
        /\ Fits(input_reserve * den + with_fee)

(* Mutant: rounded up.                                                     *)
ProtocolFeeRoundedUp(input_amount, num, den) ==
    (input_amount * num + den - 1) \div den

get_protocol_fee_amount(input_amount, num, den) ==
    IF num = 0 THEN 0 ELSE (input_amount * num) \div den

get_protocol_fee_amount_ok(input_amount, num, den) ==
    num > 0 => Fits(input_amount * num) /\ den > 0

-----------------------------------------------------------------------------
(* A swap, for one pool of either code.                                    *)

(* The amounts of a swap of n against the reserves res: nothing is burned, *)
(* on either side.                                                         *)
OrdersCharges(res, p, side, n) ==
    LET fee == get_protocol_fee_amount(n, fees[p].num, fees[p].den)
    IN  [amount |-> n,
         fee |-> fee,
         burn |-> 0,
         net |-> n - fee,
         out |-> OrdersInputPrice(n, res[p][side], res[p][Other(side)],
                                  fees[p].num, fees[p].den)]

OrdersCharges_ok(res, p, side, n) ==
    LET c == OrdersCharges(res, p, side, n)
    IN  /\ OrdersInputPrice_ok(n, res[p][side], res[p][Other(side)],
                               fees[p].num, fees[p].den)
        /\ get_protocol_fee_amount_ok(n, fees[p].num, fees[p].den)
        /\ c.net >= 0
        /\ Fits(res[p][side] + c.net)
        /\ c.out <= res[p][Other(side)]

(* Mutant: the dev wallets are paid by the pool.                           *)
OrdersCollectFromPool(b, p, side, payer, c) ==
    LET token == Denom[p][side]
        b1 == Send(b, token, payer, p, IF token \in Cw20 THEN c.net ELSE c.amount)
        b2 == Send(b1, token, p, fees[p].wallets[1].address, Share(p, c, 1))
        b3 == Send(b2, token, p, fees[p].wallets[2].address, Share(p, c, 2))
    IN  [ok |-> /\ b[token][payer] >= c.net
                /\ b1[token][p] >= Share(p, c, 1)
                /\ b2[token][p] >= Share(p, c, 2),
         bal |-> b3]

(* The messages that collect the input and pay the dev wallets.            *)
OrdersCollect(b, p, side, payer, c) ==
    LET token == Denom[p][side]
        pulled == token \in Cw20
        incoming == IF pulled THEN c.net ELSE c.amount
        feePayer == IF pulled THEN payer ELSE p
        wallet(i) == fees[p].wallets[i].address
        b1 == Send(b, token, payer, p, incoming)
        b2 == Send(b1, token, feePayer, wallet(1), Share(p, c, 1))
        b3 == Send(b2, token, feePayer, wallet(2), Share(p, c, 2))
    IN  [ok |-> /\ b[token][payer] >= incoming
                /\ b1[token][feePayer] >= Share(p, c, 1)
                /\ b2[token][feePayer] >= Share(p, c, 2),
         bal |-> b3]

(* Each of them by the code the pool runs.                                 *)
ChargesOf(res, p, side, n) ==
    IF code[p] = "orders" THEN OrdersCharges(res, p, side, n)
                          ELSE Charges(res, p, side, n)

ChargesOf_ok(res, p, side, n) ==
    IF code[p] = "orders" THEN OrdersCharges_ok(res, p, side, n)
                          ELSE Charges_ok(res, p, side, n)

CollectOf(b, p, side, payer, c) ==
    IF code[p] = "orders" THEN OrdersCollect(b, p, side, payer, c)
                          ELSE Collect(b, p, side, payer, c)

PulledBy(q, side, c) ==
    IF code[q] = "orders" THEN c.net + Share(q, c, 1) + Share(q, c, 2)
                          ELSE Pulled(q, side, c)

BurnedBy(p, side, c) == IF code[p] = "orders" THEN 0 ELSE BurnedFromPool(p, side, c)

-----------------------------------------------------------------------------
(* The transactions.                                                       *)

MixedInit ==
    /\ Init
    /\ code \in StartCodes
    /\ \A p \in Pools : code[p] = "orders" => burnFee[p] = 0

OrdersSwap(u, p, side, input_amount, min_token, recipient, expiration) ==
    LET c == OrdersCharges(reserve, p, side, input_amount)
        collected == OrdersCollect(bal, p, side, u, c)
    IN  /\ code[p] = "orders"
        /\ ~Expired(expiration)
        /\ OrdersCharges_ok(reserve, p, side, input_amount)
        /\ c.out >= min_token
        /\ collected.ok
        /\ Pay_ok(collected.bal, p, side, c)
        /\ reserve' = ReservesAfter(reserve, p, side, c)
        /\ bal' = Pay(collected.bal, p, side, recipient, c)
        /\ UNCHANGED <<fees, burnFee, owner, lp, lpSupply, grant, height, poolBurned, code>>

(* A pass through from a pool of either code to a pool of either code, one *)
(* of them an orders pool.                                                 *)
MixedPassThroughSwap(u, p, q, side, input_amount, output_min_token, expiration) ==
    LET token == Denom[p][Other(side)]
        c1 == ChargesOf(reserve, p, side, input_amount)
        first == CollectOf(bal, p, side, u, c1)
        between == ReservesAfter(reserve, p, side, c1)
        side2 == InputSideOf(q, token)
        c2 == ChargesOf(between, q, side2, c1.out)
        second == CollectOf(first.bal, q, side2, p, c2)
        g == <<p, q, token>>
    IN  /\ "orders" \in {code[p], code[q]}
        /\ ~Expired(expiration)
        /\ token \in {Denom[q][1], Denom[q][2]}       \* else InvalidOutputPool
        /\ token \in Cw20 => p # q                    \* else CannotSetOwnAccount
        /\ ChargesOf_ok(reserve, p, side, input_amount)
        /\ first.ok
        /\ token \in Cw20 => Fits(grant[g].amount + c1.out)
        /\ ChargesOf_ok(between, q, side2, c1.out)
        /\ c2.out >= output_min_token
        /\ token \in Cw20 => PulledBy(q, side2, c2) <= grant[g].amount + c1.out
        /\ second.ok
        /\ Pay_ok(second.bal, q, side2, c2)
        /\ reserve' = ReservesAfter(between, q, side2, c2)
        /\ bal' = Pay(second.bal, q, side2, u, c2)
        /\ grant' = IF token \in Cw20
                    THEN [grant EXCEPT ![g] =
                             [amount |-> grant[g].amount + c1.out - PulledBy(q, side2, c2),
                              expires |-> AllowanceExpiry]]
                    ELSE grant
        /\ poolBurned' = LET once == [poolBurned EXCEPT ![p] =
                                        poolBurned[p] + BurnedBy(p, side, c1)]
                         IN  [once EXCEPT ![q] = once[q] + BurnedBy(q, side2, c2)]
        /\ UNCHANGED <<fees, burnFee, owner, lp, lpSupply, height, code>>

(* The message of hopers-swap_orders carries no burn fee.                  *)
OrdersUpdateConfig(u, p, new_owner, config) ==
    /\ code[p] = "orders"
    /\ owner[p] = u
    /\ FeeWithinMax(config.num, config.den)
    /\ config.wallets[1].ratio + config.wallets[2].ratio = DecOne
    /\ owner' = [owner EXCEPT ![p] = new_owner]
    /\ fees' = [fees EXCEPT ![p] = [num |-> config.num, den |-> config.den,
                                    wallets |-> config.wallets]]
    /\ UNCHANGED <<reserve, burnFee, lp, lpSupply, bal, grant, height, poolBurned, code>>

(* The admin of the chain sets a pool's code.  migrate of the new code     *)
(* accepts both: their names and versions are the same.  That of           *)
(* hopers-swap_hopers sets the burn fee.  That of hopers-swap_orders       *)
(* writes nothing, and no burn fee is in force under it.                   *)
MigrateToHopers(p, burn_fee_percent_numerator) ==
    /\ code' = [code EXCEPT ![p] = "hopers"]
    /\ Migrate(p, burn_fee_percent_numerator)

MigrateToOrders(p) ==
    /\ code' = [code EXCEPT ![p] = "orders"]
    /\ burnFee' = [burnFee EXCEPT ![p] = 0]
    /\ UNCHANGED <<reserve, fees, owner, lp, lpSupply, bal, grant, height, poolBurned>>

OrdersSwapStep ==
    \E u \in Users, p \in Pools, side \in Side, amount \in Amounts,
       min \in Minimums, expiration \in Expirations :
        \/ \E recipient \in Account :
              OrdersSwap(u, p, side, amount, min, recipient, expiration)
        \/ \E q \in Pools :
              MixedPassThroughSwap(u, p, q, side, amount, min, expiration)

(* The swaps of two hopers pools, as in HopersPool.                        *)
HopersSwapStep ==
    \E u \in Users, p \in Pools, side \in Side, amount \in Amounts,
       min \in Minimums, expiration \in Expirations :
        /\ code[p] = "hopers"
        /\ \/ \E recipient \in Account :
                 Swap(u, p, side, amount, min, recipient, expiration)
           \/ \E q \in Pools :
                 /\ code[q] = "hopers"
                 /\ PassThroughSwap(u, p, q, side, amount, min, expiration)

MixedAdminStep ==
    \E p \in Pools :
        \/ \E u \in Users, new_owner \in Users \cup {NoOwner}, config \in Configs :
              \/ config.burn = 0 /\ OrdersUpdateConfig(u, p, new_owner, config)
              \/ code[p] = "hopers" /\ UpdateConfig(u, p, new_owner, config)
                                    /\ UNCHANGED code
        \/ p \in Recoded /\ \E burn \in BurnFees : MigrateToHopers(p, burn)
        \/ p \in Recoded /\ MigrateToOrders(p)

MixedNext ==
    \/ OrdersSwapStep
    \/ HopersSwapStep /\ UNCHANGED code
    \/ MixedAdminStep
    \/ (LiquidityStep \/ TokenStep \/ NextBlock) /\ UNCHANGED code

MixedSpec == MixedInit /\ [][MixedNext]_mixedVars

-----------------------------------------------------------------------------
(* Properties.                                                             *)

(* The two codes agree: any mixture of them, calling each other and being  *)
(* migrated, behaves as pools of hopers-swap_hopers alone, in which those  *)
(* that run hopers-swap_orders have a burn fee of zero.  So everything     *)
(* that holds of every behaviour of HopersPool holds of the mixture, the   *)
(* two formulas of get_input_price (contract.rs:660 and, with the burn,    *)
(* hopers-swap_hopers/src/contract.rs:700) included.                       *)
ImplementsHopersPool == Spec

(* A pool that runs hopers-swap_orders never loses cover for its reserves: *)
(* not by its own swaps, not as the payer of a second leg in a pool that   *)
(* burns out of the payer's holdings (contract.rs:829), and not by a       *)
(* migration.                                                              *)
OrdersNeverLeaks ==
    [][\A p \in Pools, side \in Side :
          code[p] = "orders" =>
              bal'[Denom[p][side]][p] - reserve'[p][side]
                  >= bal[Denom[p][side]][p] - reserve[p][side]]_mixedVars

(* Selling at once what a swap bought never returns more than was paid,    *)
(* whichever of the two codes the pool runs at each of the two swaps: no   *)
(* migration between them makes a rounding favour the trader.              *)
NoMigratedRoundTripProfit ==
    \A p \in Pools, side \in Side, n \in Amounts :
        ChargesOf_ok(reserve, p, side, n) =>
            LET c == ChargesOf(reserve, p, side, n)
                after == ReservesAfter(reserve, p, side, c)
                back == Other(side)
            IN  /\ OrdersCharges_ok(after, p, back, c.out) =>
                       OrdersCharges(after, p, back, c.out).out <= n
                /\ Charges_ok(after, p, back, c.out) =>
                       Charges(after, p, back, c.out).out <= n
=============================================================================
