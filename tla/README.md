# TLA+ models of the Hopers contracts

Specifications, model-checking runs and machine-checked proofs for the four
CosmWasm contracts under `src/contracts`. Paths below are relative to `src/`.

## 1. The system

| part | state it keeps | operations that change it |
|---|---|---|
| `hopers-swap_hopers` pool | `TOKEN1`/`TOKEN2` reserves, `FEES` (protocol fee, dev wallets), `BURN_FEE_INFO`, `OWNER`, `LP_TOKEN` | instantiate and its LP-token reply, AddLiquidity, RemoveLiquidity, Swap, SwapAndSendTo, PassThroughSwap, UpdateConfig, migrate |
| `hopers-swap_orders` pool | the same without the burn fee | the same; both codes carry one contract name and version, so a pool can be migrated to the other code |
| `cw20-base` token | `BALANCES`, `TOKEN_INFO` (supply, mint), `ALLOWANCES` and its mirror `ALLOWANCES_SPENDER`; marketing record (`MARKETING_INFO`, `LOGO`) | Transfer, Burn, Send, Mint, UpdateMinter, Increase/DecreaseAllowance, TransferFrom, BurnFrom, SendFrom, migrate; UpdateMarketing, UploadLogo |
| `hopers-staking` | `CONFIG` (schedule, lock, tokens, admin), `STATE` (bonded total, reward index, last distribution), stakers, positions being unbonded | Receive(Bond), Unbond, Redeem, Withdraw, UpdateConfig, UpdateAdmin, UpdateTokenContract, UpdateLockDuration, MigrateStaking |
| schemas, scripts, docker files, artifacts | none | none |

**Interaction.** A pool moves tokens by sending messages to cw20 contracts and
the bank, mints and burns its own LP token (a `cw20-base` it instantiated),
reads that token's supply and balances by query, and passes a swap on to
another pool by giving it an allowance and calling `SwapAndSendTo`. LP tokens
are staked by sending them to the staking contract, which pays rewards in
another cw20.

**Execution model.** A CosmWasm transaction is atomic: the handler runs, its
state is saved, its messages are dispatched in order, and a failure anywhere
reverts everything. There is no concurrency inside a transaction, no crash to
recover from and no lost message. What is hard is therefore: the interleaving
of whole transactions by users who do not know of each other; state one
contract keeps about tokens another contract moves; the order of saved state
and dispatched messages inside a route through two pools; integer rounding over
long sequences; limits of `Uint128`; time (block height, block time,
schedules); and configuration changes in mid-flight.

**What makes each part correct.**

- *Pool.* It can pay what its reserves say, through every fee, rounding and
  route; no rounding favours a trader; no liquidity provider is diluted; a pool
  with providers can always take liquidity; an allowance it gives another pool
  does not outlive the route; a pool given up by its owner is frozen.
- *Token.* Balances add up to the supply; the supply stays within the cap; the
  two maps of allowances agree; nobody loses tokens but by his own message or
  an allowance of his that is alive; a minter given up is gone, and so is a
  marketing account; the marketing record announces the logo that is stored.
- *Staking.* The total that rewards are divided by is the sum of the bonds; the
  contract holds what it owes; claims come from time only, survive everybody's
  transactions and stay within what was released; a position returns after its
  lock; within known bounds on bonds and rewards no sequence of calls locks a
  staker out by an arithmetic failure, and malformed slots, which do, can be
  taken out again; whoever keeps asking gets his stake and rewards.

The hazards behind these, each at its line, are listed in `PROJECT.json`.

## 2. Modules

| module | what it is | models |
|---|---|---|
| `PoolMath` | pure operators: minting, redeeming, pricing, percentages, each with an `_ok` operator that says when the code neither fails nor panics | arithmetic of `hopers-swap_hopers/src/contract.rs` |
| `HopersPool` | pools that share tokens and call each other, and the tokens they hold | `hopers-swap_hopers` |
| `OrdersPool` | pools of both codes side by side, calling each other and migrated between the codes; it implements `HopersPool` (`ImplementsHopersPool`) | `hopers-swap_orders` |
| `Ledger` | abstract specification: what any token promises | |
| `Cw20Base` | the token, which implements `Ledger` (`AsLedger == INSTANCE Ledger WITH ...`) | `cw20-base` without the marketing record |
| `Cw20Marketing` | the token with its marketing record | `cw20-base`: UpdateMarketing, UploadLogo, the rest of instantiate |
| `Staking` | the staking contract and the two tokens it moves | `hopers-staking` |
| `MC*` | instances for TLC: constants, small configurations, symmetry | |
| `SumProofs` | lemmas about sums over finite sets | |
| `PoolMathProofs`, `HopersPoolProofs`, `OrdersPoolProofs`, `Cw20BaseProofs`, `Cw20MarketingProofs` | theorems | |
| `StakingProofs`, `StakingTotalsProofs` | theorems: of each staker by himself; of all of them together | |

`HopersPool` composes any number of pools with the tokens' balances and the LP
tokens. Definitions keep the source's names where there is one;
`PROJECT.json` maps each to its lines.

### How state and actions correspond to the code

An action is one whole transaction: the handler with its early returns as
guards, and every message it sends, applied in order to the balances the
previous ones left (`Collect`, then `Pay`, in `HopersPool`). A transaction that
fails is a step that is not taken, because it leaves nothing behind.
Operations differ only in whose money moves: a cw20 input is pulled from the
payer message by message, a native one arrives with the call.

- *HopersPool.* `reserve[p][side]` is `TOKEN1`/`TOKEN2`, `fees`, `burnFee`,
  `owner` are the items of the same names; `lp`, `lpSupply` are the LP token
  the pool instantiated; `bal` is every other token, cw20 or native; `grant` is
  the allowances pools give to pools. `Swap` is both Swap (the recipient is the
  sender) and SwapAndSendTo. `PassThroughSwap` is one step with both legs: the
  first pool saves its reserves and settles its messages, the second pool then
  reads *its* reserves, which are the first's when a pool routes to itself.
  `poolBurned` is a history variable: hopers tokens burned out of the pool's
  own holdings. Users are taken to have approved what pools pull from them;
  a missing approval only makes the transaction fail.
- *OrdersPool.* `code[p]` is the code a pool runs. The liquidity handlers, the
  LP token's reply and the messages to tokens are the same text in both
  contracts and are the actions of `HopersPool`; instantiate, Swap and
  SwapAndSendTo, PassThroughSwap, UpdateConfig and migrate of
  `hopers-swap_orders` have definitions of their own, with the pricing formula
  and the fee formula of that file. A pass through dispatches on the codes of
  both pools. The refinement to `HopersPool` keeps every variable and forgets
  `code`.
- *Cw20Base.* The variables are the storage items. An absent allowance is an
  entry with `kept` FALSE, since an entry with amount 0 differs from none (only
  the former can be spent from, by nothing, or lowered). `Init` is a new token
  or one of a version before 0.14 that has owners' allowances only; in the
  latter nothing runs before `Migrate`. `issued` is history. A hook call after
  Send or SendFrom changes nothing in the token: what the receiving contract
  sends back is another step. The `Expires` of the messages is a height,
  `Never`, or absent (`Kept`); a time behaves as a height does.
- *Cw20Marketing.* `marketing_info` is `MARKETING_INFO`, with `kept` FALSE where
  nothing is stored (what `query_marketing_info` answers then), and `logo` is
  `LOGO`. Of the texts only their presence is kept; of a logo its kind, whether
  its preamble or header is right and its size, all that `verify_logo` reads.
- *Staking.* `info[u] = NoStake` is an absent entry: every entry in storage
  differs from it, because an entry with neither bond nor pending reward is
  removed. `unbonding[u][t]` is 0 where there is no position; the code saves a
  position of amount 0 too, which differs from none only in the listing query.
  `earned` is `user_earned_info`. Decimals are naturals, in atomics, multiplied
  and divided with the rounding of `cosmwasm_std`; what panics, a subtraction
  below zero and every product, quotient or sum above `MaxUint`, is in the
  guards `compute_reward_ok`, `Settled_ok` (with `times_ok`) and `Fits`. Both
  tokens are cw20 contracts (with another denomination the redeeming code does
  not apply); nobody sends tokens to the contract without the Bond hook.

## 3. The runs

Every run explores its whole state space; no state constraint is used, only
bounds on what messages carry. `CHECK_DEADLOCK FALSE` is set where users can
run out of tokens, time or changes: the contracts then just sit there, as they
may.

**Fairness.** Nothing in the contracts happens by itself: every step is a
transaction somebody sends. Only `staking_rewards` assumes fairness
(`FairSpec`): blocks keep being produced up to the last one considered (that
is the chain's promise), and a staker whose Redeem, or whose Withdraw, would
succeed from some time on sends it some day (that is what "a staker who wants
his tokens" means). Weak fairness is enough: once a position has matured, or a
claim exists, nothing takes the possibility away again, and that is exactly
what `UnbondedComesBack` and `EveryClaimPaid` show. Nobody has to bond or
unbond, and the administrator owes nothing; in that run he keeps the
configuration, since one who swaps the tokens or extends the lock at will can
defer a redemption for as long as he likes. Pools and token promise nothing
"eventually": that their users *can* always go on is stated as safety
(`PricedSwapsGoThrough`, `SharesRedeemable`, `SeededWhileShared`,
`ShutOutOnlyByOverflow`, `StakesBacked`, `ClaimsFunded`).

| run | what it asks | bounds, and what they make happen |
|---|---|---|
| `native_pool` | reserves are held, no round trip pays, nobody is diluted; shares add up, stay redeemable and never outlive the reserves | one user of 5+5 tokens, amounts 1 and 4, fee 1/4 and burn 1/4: large percentages make every division round, and the pool is emptied and refilled; LP tokens are transferred, to a second holder too, and burned |
| `cw20_pool` | a cw20 pool misses exactly its burns; every swap that gets a price goes through; reconfiguration | two cw20 tokens, burn 2/4, new fees of 0/4 with burn 1 and of 3/4 with burn 2 (together more than everything, so that some swaps are refused a price), ownership given up, migration |
| `routes` | pass through, allowances, nothing leaks | two pools sharing a cw20 hopers token, one of them with a native coin on its other side, which lets it route through itself; one pool a dev wallet of both; fee 2/5, whose shares round, burn 1/5 and 2/5, two blocks |
| `mixed_codes` | pools of both codes; refinement, leaks, round trips | a pool of each code with the hopers token between them, so that a pass through goes both ways; each of 40 tokens, one amount of 20, fee 1/4, burn 1/4; one of the pools migrated any number of times |
| `staking_rewards` | rewards and stakes; liveness | two schedules (slots of 2 and 1 with a gap; overlapping slots of 9 and 11 whose rates are no whole number of atomics), bonds of 1 and 8, three bonds or unbonds over times 0..3; `MaxUint` is 160, which a bond of 8 times all rewards of 20 just reaches and a bond of 9 exceeds: stakers are shut out by their own bond, at the very bound of `ShutOutOnlyByOverflow`, while the others go on |
| `staking_admin` | totals, locks and arithmetic under reconfiguration | unbonds of 0 too, locks of 0, 1, 2, slots added (one a repetition, one of no length, one that ends before it starts), tokens swapped, a new administrator, three bonds of 1 or 8 or unbonds over times 0..3; `MaxUint` is 21, so that the index overflows beside a bond of 1, and its product with a bond of 8 |
| `staking_one_token` | rewards in the LP token, migrations | one slot and two overlapping ones, funded with the schedule's rewards of 20 exactly, so that what rounding may cost (`ClaimsFunded`) is small beside them; three bonds, unbonds or migrations |
| `cw20` | refinement, cap, minter, both maps, live allowances only | two accounts of 1 token, one of which sends nothing itself, `MaxUint` 4 and a cap of 3 or none, a minter or none, two issued at most, two heights, expirations kept, never and 1, a new token and three old ones; three marketing records, four logos of which two fail `verify_logo`, texts kept, blanked and set, accounts kept, changed and given up |

The bounds are constants of the modules. `MaxUint`, the largest `Uint128`, is
small where its limit matters and out of reach where it does not; `DecOne`,
10^18 in the code, is 2 in the pools (ratios of dev wallets are halves) and 5
in the staking runs, so that some of the rates, indexes and rewards are whole
numbers of atomics and some are rounded.
`MaxWallets` = 2 and `MaxSlots` = 2 bound the lists of dev wallets and slots:
two are enough for a share to be lost to rounding and for slots to overlap,
follow each other or be removed one by one. `MaxHeight`, `MaxTime`,
`MaxChanges` (bonds, unbonds and migrations) and `MaxIssued` bound counters.
In the staking runs without liveness the two stakers are symmetric (`SYMMETRY
Stakers`): the set of initial states, the actions and the properties treat
them alike. A token with a marketing record starts without tokens, and one
with tokens without a record: the two parts share nothing but the sender.

Each property of a passing run has a mutant, an operator named in
`PROJECT.json` and defined just before the one it replaces, that makes it fail.

### Where the code departs from what is said of it

Four runs each end in a counterexample.

| run | what happens |
|---|---|
| `burned_reserve` | a Token2 swap of a cw20 hopers token burns from the pool's holdings but not off the reserve: the last providers cannot redeem (`hopers-swap_hopers/src/contract.rs:896`) |
| `same_block_unbonds` | two unbonds of a staker in the same second: the first position is overwritten and its tokens are lost (`hopers-staking/src/contract.rs:190`) |
| `stale_schedule` | a schedule update is checked against the last distribution instead of the block time: a begun slot can be removed (`contract.rs:508`) |
| `migrated_stakes` | a migration sends the amount of remaining *rewards* in *LP tokens*: the stakers' stakes leave (`contract.rs:387`) |

Four smaller ones have no run. Only the protocol fee is compared with the
maximum, so that a burn fee can bring the total above 100 percent and make
every Token1 swap fail (`hopers-swap_hopers/src/contract.rs:72`, `718`,
`Priced`). A slot whose end is not after its start shuts every staker out from
its start on (`hopers-staking/src/contract.rs:540`, `543`); the administrator
can take it out again, but not one of no length in the very second in which
the first tokens are bonded (`ShutOutCanBeLifted`). A bond whose product with
the reward index exceeds a `Uint128` is accepted, because the staker's old bond
is what is multiplied (`contract.rs:554`), and after that his every Bond, Unbond
and Withdraw panics, with nobody to help, as the index never falls. It takes an
index that a very small total bond has driven up: `ShutOutOnlyByOverflow` says
that a bond is safe as long as its product with all rewards released, in units
of both tokens, fits (bonds and rewards of 10^15 units each are far below it,
10^20 units of both are not). And the cap of a token limits its supply, as
`msg.rs:85` says, and not what the minter still issues, as
`cw20-base/src/state.rs:22` has it (`WithinCap`).

What holds in spite of these is stated next to them: `BackedUpToBurns`,
`ReservesBacked` for native hopers tokens, `StakesBacked` while rewards are
in another token and nothing is migrated, `ClaimsFunded` for migrations of
rewards in the LP token. The latter holds but for a few units: a second
migration in the same block stops the slots again and rounds their amounts down
again (`contract.rs:365`).

## 4. The proofs

All are for any number of accounts, pools and tokens, any amounts, fees and
`MaxUint`, under the named assumptions of the modules (`PoolMathAssumption`,
`HopersPoolAssumption`, `OrdersPoolAssumption`, `Cw20BaseAssumption`,
`OldAllowancesAssumption`, `Cw20MarketingAssumption`, `StakingAssumption`), which
only say what the constants are (the sets of accounts finite among them) and
which TLC evaluates on every run. Every property of a passing run but the two
about liveness is stated by a theorem. Lists of dev wallets have the two entries
of `MaxWallets`, schedules at most the two of `MaxSlots`.

**PoolMathProofs** has the arithmetic: floor division bounds, what a price, a
percentage and a payout are at most, that a price keeps the product of the
reserves, that a round trip loses.

**SumProofs** has what the proofs need of `SumFunctionOnSet`: taking an element
out, changing a function at one place, sums of sums and differences, bounds.
The induction theorems of the library cannot be instantiated here, so each of
these is proved by smallest counterexample: a nonempty set of subsets of a
finite set has a minimal element (`Smallest`). That the recursion behind the
sum is well defined is proved the same way.

**HopersPoolProofs.** The inductive invariant is
`IInv == TypeOK /\ FeesSound`: the types alone are not inductive, since that
`bal` stays natural needs fee denominators above zero and wallet ratios that
add up to `DecOne`, so that the shares paid out stay within the fee. The
argument then has one lemma per leg of a swap, `LegKeepsSurplus`: what a leg
sends out of the pool is what it takes off the reserve, plus burns counted in
`poolBurned`, whoever pays. A plain swap is one leg and a pass through two, with
the first pool as the payer of the second; from the leg follow
`SurplusKept`, `Backed` and, with no burn in native pools,
`NativePoolsBacked`. `Seeded`, `NeverDiluted` and `RoundTripLoses` rest on the
lemmas of `PoolMathProofs`, `GrantExpires` and `GrantNearlySpent` on what a
route pulls, `OwnerlessFrozen` on the owner's guard. `PricedSwapsSucceed` shows
that a swap which `get_input_price` accepts is refused by no later subtraction
and empties no reserve, whatever the fees. `SharesStayRedeemable` is a second
induction: the LP supply a pool stores is what its holders hold
(`SharesCounted`), and payouts that are each rounded down add up to no more than
the reserve.

**OrdersPoolProofs.** `MixtureImplements`: the formulas of
`hopers-swap_orders` are those of `HopersPool` at a burn fee of zero, and each
step of the mixture is a step of `HopersPool`. The invariant that carries it is
`IInv` and `CodeInv`, that no burn fee is in force under the orders code.
`MixtureSound` then hands down all of `HopersPoolProofs`; `OrdersNeverLeak` and
`MigratedRoundTripLoses` are about the mixture itself.

**Cw20BaseProofs.** The inductive invariant adds to the types that the supply
fits in `MaxUint` and under the cap and that a token without a minter has no
cap. `MirrorKept` is a second induction on top of it. `LossNeedsAllowance`
and `MinterGone` are action properties from the same invariant, and
`Refinement` maps each message to one step of `Ledger` or a stutter. It does
not need the sum of the balances, as `Ledger`'s steps are about single ones;
that the sum is the supply is `SupplyOwned`, also for transfers to oneself and
for the steps through an allowance, and with it no addition to a balance can
overflow (`BalancesFit`).

**Cw20MarketingProofs.** `StillTheToken` shows that the token with its record
behaves as `Cw20Base`, so that the above holds of it; `LogoAgrees` needs the
invariant that a removed record had no logo, `RecordGone` only the guard.

**StakingProofs.** The theorems assume `WellFormed`, slots that end after they
start, and those about claims and the index also `ScheduleKept`, that nobody
updates the schedule, since an update may add and, as `stale_schedule` shows,
remove rewards. Migrations are allowed but for the index: `Released` is what the
present slots have released, and a slot that is cut off is left with an amount
rounded down. The inductive invariant `RewardsInv` says that no distribution is
ahead of the time and no staker's index ahead of the global one; from it,
`NoUnderflow`: neither subtraction of the reward code can fail. The claims rest
on two facts: right after a distribution there is nothing left to distribute in
the same block (`IndexSettled`), and a staker settled at the current index has
earned nothing since (`SettledTwice`); so within a block a claim and what was
paid of it never change in sum (`WorthSame`), and time only adds (`WorthGrows`).
Hence `ClaimsNeverShrink` and `ClaimsNeedTime`. `IndexStaysWithin` carries
through the distributions that the index is at most the release so far times
`DecOne`: rounding in parts loses and never gains (`TimesSplit`).

**StakingTotalsProofs.** `TotalsInv` is inductive without any assumption on
schedules, amounts or the administrator: the types, the total bond as the sum of
the bonds, no distribution ahead of the time, no staker ahead of the index.
It gives `StakingTypes` and `TotalsAddUp`, and the other theorems build on it.

| theorem | assumes | by |
|---|---|---|
| `StakesStayBacked` | rewards in another token, tokens kept, no migration: what a migration takes `migrated_stakes` shows, and tokens that are exchanged leave the stakes behind | bonds and positions add up to at most the LP tokens held (`BackedInv`) |
| `LockIsHonoured` | rewards in another token, before and after each exchange of the tokens; otherwise a withdrawal pays LP tokens too | only Redeem pays LP tokens (`PaidByRedeem`), and it pays what is due |
| `RewardsStayWithinRelease` | `WellFormed`, `ScheduleKept`, no migration | `ReleaseInv`, see below |
| `OnlyOverflowShutsOut` | the same, and `Roomy`: a schedule's total amount times `DecOne`, and that total with one unit per change, fit in `MaxUint`; that a staker's bond times the release fits is a condition of the property itself | `ReleaseInv` and `IndexInv`: each rate, the index and every pending reward are within the release, and a bond times the index is within the bond times the release (`TimesWithin`) |
| `ClaimsStayFunded` | `WellFormed`, `ScheduleKept`, tokens kept, `Prefunded`: the contract starts with the rewards of its schedule; `MaxTime <= DecOne` | `FundedInv`, see below |
| `ShutOutsCanBeLifted` | for some `M` no slot is of more, `M * DecOne` fits, and so does `2 * M * MaxTime + MaxChanges`; any schedules, malformed ones too, any updates and migrations | `PacedInv`: two slots hand out no more than `2 * M` a second, wherever they start and end; an overflow of the index (`compute_reward_ok`) or of its product with a bond (`times_ok`) is not excluded, the property names both |

The last four are about what all stakers together can claim, and that is not
inductive as the properties state it: each claim is rounded down on its own, and
what is lost of it depends on when the staker settled. The quantity to follow is
`Potential`: the rewards all stakers were promised and paid, with each bond
valued at the global index instead of at the index its staker settled at, in
atomics. In it the settling of an entry cancels out but for less than one unit
when the bond changes, and a distribution adds at most what it hands out, since
what it adds to the index is rounded down (`PotentialSettled`,
`PotentialMoves`). It bounds the claims (`ClaimsBelow`), and so

- `ReleaseInv`: the potential is within `DecOne` times what the slots had
  released at the last distribution and one unit per change;
- `FundedInv`: the potential and `DecOne` times what the slots have yet to
  release are within `DecOne` times what the contract holds for rewards and has
  paid, and two units per change. A migration sends away what is yet to be
  released and keeps the balance of both sides but for its rounding.

`MaxTime <= DecOne` says that nobody looks beyond 10^18 seconds: the rounding of
a slot's rate, multiplied by the seconds it has run when a migration cuts it
off, then stays within a unit. `M` may be up to 3 * 10^20 units of the reward
token (`MaxUint` / 10^18), which is 3 * 10^14 tokens of six decimals. The
instances of the passing runs that check a property satisfy what its theorem
assumes.

**Only model-checked.** Liveness (`UnbondedComesBack`, `EveryClaimPaid`), which
needs fairness and ENABLED and is out of the prover's reach; what the theorems
contribute to it is that what is unbonded is there (`StakesStayBacked`), that a
claim is not lost (`ClaimsNeverShrink`) and is funded (`ClaimsStayFunded`), and
that no arithmetic stands in the way of a staker whose bond times the rewards
fits (`OnlyOverflowShutsOut`), the same condition as in `EveryClaimPaid`. The four
counterexamples of section 3 are runs and no theorems. Lists of more than two
dev wallets or slots are neither checked nor proved.

## 5. Not modelled

- Queries, the listings of `cw20-base/src/enumerable.rs` among them: read-only.
  Those the contracts ask each other are the state they read; `StakerInfo` is
  `Claim`.
- Pass-through swaps into a contract that is none of the modelled pools:
  `output_amm_address` (`hopers-swap_hopers/src/contract.rs:1098`) may be any
  contract that answers `Info`, and one that takes nothing leaves the whole
  allowance over, until it expires.
- Pools of one denomination on both sides, which instantiate does not refuse
  (`hopers-swap_hopers/src/contract.rs:33`).
- Names, symbols and decimals of tokens, and the checks of their format; the
  comparison of version strings; schemas, scripts, artifacts.
- Gas, and the failure of a transaction for reasons outside of the contracts:
  it reverts everything.

## 6. Plan

In the order of importance; all but the last two are done.

1. `PoolMath`, `HopersPool`, its runs and theorems.
2. `Staking` and its runs, liveness included.
3. `Ledger`, `Cw20Base`, its runs, theorems and refinement.
4. `OrdersPool`: the pools of `hopers-swap_orders` and their composition with
   hopers pools, the refinement to `HopersPool` and its theorem.
5. `Cw20Marketing` and its theorems.
6. `StakingProofs`: the claims, the index, the subtractions; `SumProofs` and
   with it the sums over accounts: `SharesStayRedeemable`, `SupplyOwned`,
   `StakingTotalsProofs`.
7. *(open)* LP tokens as ledgers: `HopersPool` implements `Ledger` for each pool
   (`lp`, `lpSupply`). What `Ledger` adds to the present properties is small, as
   `lp` moves only by deposits, withdrawals and the token's own messages.
8. *(open)* Staking composed with a pool's LP token (`Cw20Base` through Send and
   the Bond hook): what is staked keeps its share of the pool. Each part is
   checked against the same token interface, a transfer of an amount held.
