----------------------------- MODULE HopersPool -----------------------------
(***************************************************************************)
(* The pools of hopers-swap_hopers: constant-product pools whose Token1 is *)
(* the hopers token, with a protocol fee split between dev wallets and a   *)
(* burn fee, and the tokens they hold.  Several pools may share tokens and *)
(* call each other (PassThroughSwap).                                      *)
(*                                                                         *)
(* A CosmWasm transaction is atomic: the handler saves its state, then its *)
(* messages are dispatched in order, and a failure anywhere reverts all of *)
(* it.  An action is one such transaction with every message it sends; a   *)
(* transaction that fails is a step that is not taken.  Within a           *)
(* transaction each message is applied to the balances the previous ones   *)
(* left, and must find enough of them.                                     *)
(*                                                                         *)
(* Users are assumed to have approved what the pools pull from them with   *)
(* TransferFrom and BurnFrom (a missing approval reverts).  The approvals  *)
(* pools give to each other are part of the state: grant.                  *)
(***************************************************************************)
EXTENDS PoolMath, Integers, FiniteSets, Functions

CONSTANTS
    Pools,          \* the pool contracts
    Users,          \* the accounts that send transactions
    Others,         \* accounts that only receive, such as dev wallets
    Tokens,         \* the tokens pools trade
    Cw20,           \* those that are cw20 contracts; the others are native
    Denom,          \* Denom[p][side]: the token on that side of pool p
    NoOwner,        \* OWNER = None
    NoExpiration,   \* expiration = None, Expiration::Never
    MaxHeight,      \* bound: the last block height considered
    \* What transactions may carry (bounds of the model).
    InitialBalance, \* InitialBalance[t][u]
    InitialConfigs, \* the possible [Pools -> Config] of the InstantiateMsgs
    Configs,        \* configurations an UpdateConfig may carry
    BurnFees,       \* burn fees a MigrateMsg may carry
    Amounts,        \* token amounts of deposits and swaps
    LpAmounts,      \* LP token amounts redeemed
    LpMoves,        \* LP token amounts transferred or burned by their holders
    Gifts,          \* token amounts transferred outside of the pools
    Minimums,       \* min_liquidity, min_token1, min_token2, min_output
    Expirations     \* expiration of a message

Account == Users \cup Others \cup Pools

(* A dev wallet list: a list of one wallet has a second one of ratio 0,    *)
(* which never receives anything.  MaxWallets bounds the list.             *)
MaxWallets == 2
Wallet == [address : Account, ratio : Nat]
Config == [num : Nat, den : Nat, burn : Nat, wallets : [1..MaxWallets -> Wallet]]

(* instantiate does not refuse a pool of one denomination on both sides;   *)
(* such pools are left out.                                                *)
ASSUME HopersPoolAssumption ==
    /\ IsFiniteSet(Account)
    /\ (Users \cup Others) \cap Pools = {}
    /\ NoOwner \notin Users
    /\ NoExpiration \notin Nat
    /\ MaxHeight \in Nat
    /\ Cw20 \subseteq Tokens
    /\ Denom \in [Pools -> [Side -> Tokens]]
    /\ \A p \in Pools : Denom[p][1] # Denom[p][2]
    /\ InitialBalance \in [Tokens -> [Users -> Nat]]
    /\ InitialConfigs \subseteq [Pools -> Config]
    /\ Configs \subseteq Config
    /\ BurnFees \subseteq Nat
    /\ Amounts \subseteq Nat
    /\ LpAmounts \subseteq Nat
    /\ LpMoves \subseteq Nat
    /\ Gifts \subseteq Nat
    /\ Minimums \subseteq Nat
    /\ Expirations \subseteq Nat \cup {NoExpiration}

VARIABLES
    reserve,    \* TOKEN1, TOKEN2: reserve[p][side]
    fees,       \* FEES: the protocol fee and the dev wallets
    burnFee,    \* BURN_FEE_INFO
    owner,      \* OWNER
    lp,         \* balances of the pool's LP token
    lpSupply,   \* its total supply
    bal,        \* bal[t][a]: what account a holds of token t
    grant,      \* cw20 allowances a pool gives another pool
    height,     \* env.block.height
    poolBurned  \* history: hopers tokens burned out of the pool's holdings

contract == <<reserve, fees, burnFee, owner>>
lpToken == <<lp, lpSupply>>
ledger == <<bal, grant, poolBurned>>
vars == <<reserve, fees, burnFee, owner, lp, lpSupply, bal, grant, height, poolBurned>>

-----------------------------------------------------------------------------
(* The tokens' ledgers: a transfer and a burn.                             *)

(* Mutant: both balances are read before either is written.                *)
MovedStale(f, from, to, n) == [f EXCEPT ![from] = f[from] - n, ![to] = f[to] + n]

Moved(f, from, to, n) ==
    LET taken == [f EXCEPT ![from] = f[from] - n]
    IN  [taken EXCEPT ![to] = taken[to] + n]

Send(b, t, from, to, n) == [b EXCEPT ![t] = Moved(b[t], from, to, n)]

Destroy(b, t, from, n) == [b EXCEPT ![t] = [b[t] EXCEPT ![from] = b[t][from] - n]]

-----------------------------------------------------------------------------
(* What both execute_swap and execute_pass_through_swap compute and send   *)
(* for one pool.                                                           *)

(* The amounts of a swap of n on the given side against the reserves res.  *)
Charges(res, p, side, n) ==
    LET num == fees[p].num
        den == fees[p].den
        price == get_input_price(n, res[p][side], res[p][Other(side)],
                                 num, den, burnFee[p], side)
        fee == get_percent_amount(n, num, den)
        burn == get_percent_amount(IF side = 1 THEN n ELSE price, burnFee[p], den)
    IN  [amount |-> n,
         fee |-> fee,
         burn |-> burn,
         net |-> IF side = 1 THEN n - fee - burn ELSE n - fee,
         out |-> IF side = 1 THEN price
                 ELSE get_percent_amount(price, den - burnFee[p], den)]

Charges_ok(res, p, side, n) ==
    LET num == fees[p].num
        den == fees[p].den
        price == get_input_price(n, res[p][side], res[p][Other(side)],
                                 num, den, burnFee[p], side)
        c == Charges(res, p, side, n)
    IN  /\ get_input_price_ok(n, res[p][side], res[p][Other(side)],
                              num, den, burnFee[p], side)
        /\ get_percent_amount_ok(n, num, den)
        /\ get_percent_amount_ok(IF side = 1 THEN n ELSE price, burnFee[p], den)
        /\ side = 2 => /\ burnFee[p] <= den
                       /\ get_percent_amount_ok(price, den - burnFee[p], den)
        /\ c.net >= 0
        /\ Fits(res[p][side] + c.net)
        /\ c.out <= res[p][Other(side)]

(* Mutant: the input reserve takes in the fees too.                        *)
ReservesAfterGross(res, p, side, c) ==
    [res EXCEPT ![p] = [k \in Side |-> IF k = side THEN res[p][k] + c.amount
                                                   ELSE res[p][k] - c.out]]

(* Mutant: the input and the output reserve are mixed up.                  *)
ReservesAfterSwapped(res, p, side, c) ==
    [res EXCEPT ![p] = [k \in Side |-> IF k = side THEN res[p][k] - c.net
                                                   ELSE res[p][k] + c.out]]

(* The reserves the handler saves.                                         *)
ReservesAfter(res, p, side, c) ==
    [res EXCEPT ![p] = [k \in Side |-> IF k = side THEN res[p][k] + c.net
                                                   ELSE res[p][k] - c.out]]

(* Hopers tokens the swap destroys: only if they are a cw20 token.         *)
BurnDue(p, c) == IF Denom[p][1] \in Cw20 THEN c.burn ELSE 0

Share(p, c, i) == WalletShare(c.fee, fees[p].wallets[i].ratio)

(* The messages that collect the input, burn and pay the dev wallets: a    *)
(* cw20 input is pulled from the payer message by message, a native input  *)
(* arrives whole with the call and the pool pays out of it.                *)
Collect(b, p, side, payer, c) ==
    LET token == Denom[p][side]
        pulled == token \in Cw20
        incoming == IF pulled THEN c.net ELSE c.amount
        feePayer == IF pulled THEN payer ELSE p
        burner == IF side = 1 THEN payer ELSE p
        wallet(i) == fees[p].wallets[i].address
        b1 == Send(b, token, payer, p, incoming)
        b2 == Destroy(b1, Denom[p][1], burner, BurnDue(p, c))
        b3 == Send(b2, token, feePayer, wallet(1), Share(p, c, 1))
        b4 == Send(b3, token, feePayer, wallet(2), Share(p, c, 2))
    IN  [ok |-> /\ b[token][payer] >= incoming
                /\ b1[Denom[p][1]][burner] >= BurnDue(p, c)
                /\ b2[token][feePayer] >= Share(p, c, 1)
                /\ b3[token][feePayer] >= Share(p, c, 2),
         bal |-> b4]

(* The message that pays the output; a zero amount is refused.             *)
Pay_ok(b, p, side, c) ==
    /\ c.out > 0
    /\ b[Denom[p][Other(side)]][p] >= c.out

(* Mutant: pays the token_bought of before the burn.                       *)
PayUnreduced(b, p, side, recipient, c) ==
    Send(b, Denom[p][Other(side)], p, recipient,
         IF side = 2 THEN c.out + c.burn ELSE c.out)

Pay(b, p, side, recipient, c) == Send(b, Denom[p][Other(side)], p, recipient, c.out)

(* Added to poolBurned: a Token2 input burns out of the pool's holdings.   *)
BurnedFromPool(p, side, c) == IF side = 2 THEN BurnDue(p, c) ELSE 0

Expired(expiration) == expiration # NoExpiration /\ height >= expiration

-----------------------------------------------------------------------------
(* The transactions.                                                       *)

Init ==
    /\ \E config \in InitialConfigs :
          /\ \A p \in Pools :
                /\ FeeWithinMax(config[p].num, config[p].den)
                /\ config[p].wallets[1].ratio + config[p].wallets[2].ratio = DecOne
          /\ fees = [p \in Pools |-> [num |-> config[p].num, den |-> config[p].den,
                                      wallets |-> config[p].wallets]]
          /\ burnFee = [p \in Pools |-> config[p].burn]
    /\ owner \in [Pools -> Users \cup {NoOwner}]
    /\ reserve = [p \in Pools |-> [side \in Side |-> 0]]
    /\ lp = [p \in Pools |-> [a \in Account |-> 0]]
    /\ lpSupply = [p \in Pools |-> 0]
    /\ bal = [t \in Tokens |-> [a \in Account |->
                 IF a \in Users THEN InitialBalance[t][a] ELSE 0]]
    /\ grant = [g \in Pools \X Pools \X Tokens |->
                  [amount |-> 0, expires |-> NoExpiration]]
    /\ height = 0
    /\ poolBurned = [p \in Pools |-> 0]

AddLiquidity(u, p, token1_amount, min_liquidity, max_token2, expiration) ==
    LET liquidity_amount ==
            get_lp_token_amount_to_mint(token1_amount, lpSupply[p], reserve[p][1])
        token2_amount ==
            get_token2_amount_required(max_token2, token1_amount, lpSupply[p],
                                       reserve[p][2], reserve[p][1])
        attached2 == IF Denom[p][2] \in Cw20 THEN token2_amount ELSE max_token2
    IN  /\ ~Expired(expiration)
        /\ get_lp_token_amount_to_mint_ok(token1_amount, lpSupply[p], reserve[p][1])
        /\ get_token2_amount_required_ok(token1_amount, lpSupply[p],
                                         reserve[p][2], reserve[p][1])
        /\ liquidity_amount >= min_liquidity
        /\ token2_amount <= max_token2
        /\ Fits(reserve[p][1] + token1_amount)
        /\ Fits(reserve[p][2] + token2_amount)
        /\ bal[Denom[p][1]][u] >= token1_amount
        /\ bal[Denom[p][2]][u] >= attached2
        /\ liquidity_amount > 0                 \* cw20: mint of zero is refused
        /\ Fits(lpSupply[p] + liquidity_amount)
        /\ reserve' = [reserve EXCEPT ![p] =
                          [k \in Side |-> reserve[p][k] + (IF k = 1 THEN token1_amount
                                                                    ELSE token2_amount)]]
        /\ bal' = Send(Send(bal, Denom[p][1], u, p, token1_amount),
                       Denom[p][2], u, p, token2_amount)
        /\ lp' = [lp EXCEPT ![p] = [lp[p] EXCEPT ![u] = lp[p][u] + liquidity_amount]]
        /\ lpSupply' = [lpSupply EXCEPT ![p] = lpSupply[p] + liquidity_amount]
        /\ UNCHANGED <<fees, burnFee, owner, grant, height, poolBurned>>

RemoveLiquidity(u, p, amount, min_token1, min_token2, expiration) ==
    LET token1_amount == payout(amount, reserve[p][1], lpSupply[p])
        token2_amount == payout(amount, reserve[p][2], lpSupply[p])
    IN  /\ ~Expired(expiration)
        /\ amount <= lp[p][u]
        /\ payout_ok(amount, reserve[p][1], lpSupply[p])
        /\ payout_ok(amount, reserve[p][2], lpSupply[p])
        /\ token1_amount >= min_token1
        /\ token2_amount >= min_token2
        /\ token1_amount > 0                    \* a transfer of zero is refused
        /\ token2_amount > 0
        /\ bal[Denom[p][1]][p] >= token1_amount
        /\ bal[Denom[p][2]][p] >= token2_amount
        /\ lpSupply[p] >= amount
        /\ reserve' = [reserve EXCEPT ![p] =
                          [k \in Side |-> reserve[p][k] - (IF k = 1 THEN token1_amount
                                                                    ELSE token2_amount)]]
        /\ bal' = Send(Send(bal, Denom[p][1], p, u, token1_amount),
                       Denom[p][2], p, u, token2_amount)
        /\ lp' = [lp EXCEPT ![p] = [lp[p] EXCEPT ![u] = lp[p][u] - amount]]
        /\ lpSupply' = [lpSupply EXCEPT ![p] = lpSupply[p] - amount]
        /\ UNCHANGED <<fees, burnFee, owner, grant, height, poolBurned>>

(* Swap (recipient is the sender) and SwapAndSendTo.                       *)
Swap(u, p, side, input_amount, min_token, recipient, expiration) ==
    LET c == Charges(reserve, p, side, input_amount)
        collected == Collect(bal, p, side, u, c)
    IN  /\ ~Expired(expiration)
        /\ Charges_ok(reserve, p, side, input_amount)
        /\ c.out >= min_token
        /\ collected.ok
        /\ Pay_ok(collected.bal, p, side, c)
        /\ reserve' = ReservesAfter(reserve, p, side, c)
        /\ bal' = Pay(collected.bal, p, side, recipient, c)
        /\ poolBurned' = [poolBurned EXCEPT ![p] = poolBurned[p] + BurnedFromPool(p, side, c)]
        /\ UNCHANGED <<fees, burnFee, owner, lp, lpSupply, grant, height>>

(* The side of the output pool the transferred token goes in on: Token1 is *)
(* looked at first.                                                        *)
InputSideOf(q, token) == IF Denom[q][1] = token THEN 1 ELSE 2

(* Mutant: the output pool burns tokens of its own.                        *)
PulledWithoutBurn(q, side, c) == c.net + Share(q, c, 1) + Share(q, c, 2)

(* What the output pool pulls of its allowance in the second leg.          *)
Pulled(q, side, c) ==
    c.net + Share(q, c, 1) + Share(q, c, 2) + (IF side = 1 THEN BurnDue(q, c) ELSE 0)

(* Mutant: one block later.                                                *)
AllowanceExpiryLate == height + 2

(* When the allowance of a pass through expires.                           *)
AllowanceExpiry == height + 1

(* A swap in pool p whose output p itself swaps in pool q for the sender.  *)
(* Pool p saves its reserves and settles its own messages before q runs    *)
(* SwapAndSendTo with p as the sender.  The code takes any contract that   *)
(* answers Info for q; here it is one of the pools.                        *)
PassThroughSwap(u, p, q, side, input_amount, output_min_token, expiration) ==
    LET token == Denom[p][Other(side)]
        c1 == Charges(reserve, p, side, input_amount)
        first == Collect(bal, p, side, u, c1)
        between == ReservesAfter(reserve, p, side, c1)
        side2 == InputSideOf(q, token)
        c2 == Charges(between, q, side2, c1.out)
        second == Collect(first.bal, q, side2, p, c2)
        g == <<p, q, token>>
    IN  /\ ~Expired(expiration)
        /\ token \in {Denom[q][1], Denom[q][2]}       \* else InvalidOutputPool
        /\ token \in Cw20 => p # q                    \* else CannotSetOwnAccount
        /\ Charges_ok(reserve, p, side, input_amount)
        /\ first.ok
        /\ token \in Cw20 => Fits(grant[g].amount + c1.out)
        /\ Charges_ok(between, q, side2, c1.out)
        /\ c2.out >= output_min_token
        /\ token \in Cw20 => Pulled(q, side2, c2) <= grant[g].amount + c1.out
        /\ second.ok
        /\ Pay_ok(second.bal, q, side2, c2)
        /\ reserve' = ReservesAfter(between, q, side2, c2)
        /\ bal' = Pay(second.bal, q, side2, u, c2)
        /\ grant' = IF token \in Cw20
                    THEN [grant EXCEPT ![g] =
                             [amount |-> grant[g].amount + c1.out - Pulled(q, side2, c2),
                              expires |-> AllowanceExpiry]]
                    ELSE grant
        /\ poolBurned' = LET once == [poolBurned EXCEPT ![p] =
                                        poolBurned[p] + BurnedFromPool(p, side, c1)]
                         IN  [once EXCEPT ![q] = once[q] + BurnedFromPool(q, side2, c2)]
        /\ UNCHANGED <<fees, burnFee, owner, lp, lpSupply, height>>

(* Mutant: anybody may configure a pool without an owner.                  *)
IsOwnerOrNone(u, p) == owner[p] \in {u, NoOwner}

IsOwner(u, p) == owner[p] = u

UpdateConfig(u, p, new_owner, config) ==
    /\ IsOwner(u, p)
    /\ FeeWithinMax(config.num, config.den)
    /\ config.wallets[1].ratio + config.wallets[2].ratio = DecOne
    /\ owner' = [owner EXCEPT ![p] = new_owner]
    /\ fees' = [fees EXCEPT ![p] = [num |-> config.num, den |-> config.den,
                                    wallets |-> config.wallets]]
    /\ burnFee' = [burnFee EXCEPT ![p] = config.burn]
    /\ UNCHANGED <<reserve, lp, lpSupply, bal, grant, height, poolBurned>>

(* A migration by the chain's admin of the contract, to the same version.  *)
Migrate(p, burn_fee_percent_numerator) ==
    /\ burnFee' = [burnFee EXCEPT ![p] = burn_fee_percent_numerator]
    /\ UNCHANGED <<reserve, fees, owner, lp, lpSupply, bal, grant, height, poolBurned>>

(* LP tokens are cw20 tokens: their holders transfer and burn them without *)
(* the pool.                                                               *)
LpTransfer(u, p, to, amount) ==
    /\ amount > 0
    /\ lp[p][u] >= amount
    /\ lp' = [lp EXCEPT ![p] = Moved(lp[p], u, to, amount)]
    /\ UNCHANGED <<contract, lpSupply, ledger, height>>

LpBurn(u, p, amount) ==
    /\ amount > 0
    /\ lp[p][u] >= amount
    /\ lpSupply[p] >= amount
    /\ lp' = [lp EXCEPT ![p] = [lp[p] EXCEPT ![u] = lp[p][u] - amount]]
    /\ lpSupply' = [lpSupply EXCEPT ![p] = lpSupply[p] - amount]
    /\ UNCHANGED <<contract, ledger, height>>

(* Tokens sent to an account, a pool included, outside of any swap.        *)
Transfer(u, t, to, amount) ==
    /\ amount > 0
    /\ bal[t][u] >= amount
    /\ bal' = Send(bal, t, u, to, amount)
    /\ UNCHANGED <<contract, lpToken, grant, height, poolBurned>>

NextBlock ==
    /\ height < MaxHeight
    /\ height' = height + 1
    /\ UNCHANGED <<contract, lpToken, ledger>>

LiquidityStep ==
    \E u \in Users, p \in Pools, expiration \in Expirations :
        \/ \E amount1, max2 \in Amounts, min \in Minimums :
              AddLiquidity(u, p, amount1, min, max2, expiration)
        \/ \E amount \in LpAmounts, min1, min2 \in Minimums :
              RemoveLiquidity(u, p, amount, min1, min2, expiration)

SwapStep ==
    \E u \in Users, p \in Pools, side \in Side, amount \in Amounts,
       min \in Minimums, expiration \in Expirations :
        \/ \E recipient \in Account :
              Swap(u, p, side, amount, min, recipient, expiration)
        \/ \E q \in Pools : PassThroughSwap(u, p, q, side, amount, min, expiration)

AdminStep ==
    \E p \in Pools :
        \/ \E u \in Users, new_owner \in Users \cup {NoOwner}, config \in Configs :
              UpdateConfig(u, p, new_owner, config)
        \/ \E burn \in BurnFees : Migrate(p, burn)

TokenStep ==
    \E u \in Users :
        \/ \E p \in Pools, amount \in LpMoves :
              \/ \E to \in Account : LpTransfer(u, p, to, amount)
              \/ LpBurn(u, p, amount)
        \/ \E t \in Tokens, to \in Account, amount \in Gifts : Transfer(u, t, to, amount)

Next == LiquidityStep \/ SwapStep \/ AdminStep \/ TokenStep \/ NextBlock

Spec == Init /\ [][Next]_vars

-----------------------------------------------------------------------------
(* Properties.                                                             *)

(* The types of the state.                                                 *)
TypeOK ==
    /\ reserve \in [Pools -> [Side -> Nat]]
    /\ fees \in [Pools -> [num : Nat, den : Nat, wallets : [1..MaxWallets -> Wallet]]]
    /\ burnFee \in [Pools -> Nat]
    /\ owner \in [Pools -> Users \cup {NoOwner}]
    /\ lp \in [Pools -> [Account -> Nat]]
    /\ lpSupply \in [Pools -> Nat]
    /\ bal \in [Tokens -> [Account -> Nat]]
    /\ grant \in [Pools \X Pools \X Tokens ->
                    [amount : Nat, expires : Nat \cup {NoExpiration}]]
    /\ height \in Nat
    /\ poolBurned \in [Pools -> Nat]

(* A pool's recorded reserves are covered by the tokens it really holds.   *)
(* The integration tests call this "internal state is consistent"; the     *)
(* burn of a Token2 swap (contract.rs:896) is not taken off the reserve.   *)
ReservesBacked ==
    \A p \in Pools, side \in Side : reserve[p][side] <= bal[Denom[p][side]][p]

(* What does hold of every pool: its Token2 reserve is covered, and its    *)
(* Token1 reserve misses at most the tokens that swaps burned out of the   *)
(* pool's own holdings (get_cw20_burn_msg, contract.rs:896).               *)
BackedUpToBurns ==
    \A p \in Pools :
        /\ reserve[p][1] <= bal[Denom[p][1]][p] + poolBurned[p]
        /\ reserve[p][2] <= bal[Denom[p][2]][p]

(* What a pool holds beyond its recorded reserves, burns aside.            *)
Surplus(p, side) ==
    bal[Denom[p][side]][p] + (IF side = 1 THEN poolBurned[p] ELSE 0) - reserve[p][side]

(* No transaction takes more out of a pool than it takes off the reserves, *)
(* as the payer of a second leg (contract.rs:1122) and with every rounding *)
(* of the fees included: what was sent to a pool by mistake, and the fee   *)
(* shares lost to rounding, stay in it.                                    *)
SurplusNeverShrinks ==
    [][\A p \in Pools, side \in Side : Surplus(p, side)' >= Surplus(p, side)]_vars

(* While LP tokens are out the Token1 reserve is not empty, so that adding *)
(* liquidity never divides by zero (contract.rs:232, 250).                 *)
SeededWhileShared ==
    \A p \in Pools : lpSupply[p] > 0 => reserve[p][1] > 0

(* The LP supply a pool divides by is what the holders really hold, so the *)
(* payouts of all of them together stay within the reserves                *)
(* (contract.rs:571, 583).                                                 *)
SharesRedeemable ==
    \A p \in Pools :
        /\ lpSupply[p] = SumFunctionOnSet(lp[p], Account)
        /\ lpSupply[p] > 0 =>
              \A side \in Side :
                  SumFunctionOnSet([a \in Account |->
                                       payout(lp[p][a], reserve[p][side], lpSupply[p])],
                                   Account) <= reserve[p][side]

(* A liquidity provider is never diluted: whatever is done to a pool, and  *)
(* however the divisions round, the product of the reserves per squared LP *)
(* token does not fall.                                                    *)
LiquidityNeverDiluted ==
    [][\A p \in Pools :
          lpSupply[p] > 0 /\ lpSupply'[p] > 0 =>
              reserve'[p][1] * reserve'[p][2] * lpSupply[p] * lpSupply[p]
                  >= reserve[p][1] * reserve[p][2] * lpSupply'[p] * lpSupply'[p]]_vars

(* Selling what a swap bought at once, in the reserves it leaves, never    *)
(* returns more than was paid: no rounding in get_input_price or           *)
(* get_percent_amount favours the trader.                                  *)
NoRoundTripProfit ==
    \A p \in Pools, side \in Side, n \in Amounts :
        Charges_ok(reserve, p, side, n) =>
            LET c == Charges(reserve, p, side, n)
                after == ReservesAfter(reserve, p, side, c)
            IN  Charges_ok(after, p, Other(side), c.out) =>
                    Charges(after, p, Other(side), c.out).out <= n

(* A swap that get_input_price accepts, the subtraction of both fees from  *)
(* the denominator (contract.rs:718) included, and whose burn fee is at    *)
(* most everything.                                                        *)
Priced(res, p, side, n) ==
    /\ get_input_price_ok(n, res[p][side], res[p][Other(side)],
                          fees[p].num, fees[p].den, burnFee[p], side)
    /\ side = 2 => burnFee[p] <= fees[p].den

(* The fees refuse no other swap: once the price was computed, the fees    *)
(* that are taken off the input and the output separately, each rounded,   *)
(* leave both subtractions of contract.rs:838 and 938 something to take    *)
(* from, and no swap empties the reserve it buys from, which would end all *)
(* swaps.                                                                  *)
PricedSwapsGoThrough ==
    \A p \in Pools, side \in Side, n \in Amounts :
        Priced(reserve, p, side, n) =>
            LET c == Charges(reserve, p, side, n)
            IN  /\ c.net >= 0
                /\ c.net + c.fee + (IF side = 1 THEN c.burn ELSE 0) = n
                /\ c.out < reserve[p][Other(side)]

(* An allowance one pool is left with on another's tokens after a pass     *)
(* through (contract.rs:1102) is dead one block later.                     *)
LeftoverGrantExpires ==
    \A g \in Pools \X Pools \X Tokens :
        grant[g].amount > 0 =>
            grant[g].expires # NoExpiration /\ grant[g].expires <= height + 1

(* A pass through spends the allowance it gives down to what the rounding  *)
(* of the dev wallets' shares keeps back: less than one unit per wallet.   *)
AllowanceNearlySpent ==
    [][\A g \in Pools \X Pools \X Tokens :
          grant'[g].amount - grant[g].amount \in 0 .. MaxWallets - 1]_vars

(* A pool given up by its owner (UpdateConfig with owner None) keeps its   *)
(* protocol fee and its dev wallets for ever.                              *)
OwnerlessPoolFrozen ==
    [][\A p \in Pools :
          owner[p] = NoOwner => owner'[p] = NoOwner /\ fees'[p] = fees[p]]_vars
=============================================================================
