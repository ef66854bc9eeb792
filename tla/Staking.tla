------------------------------ MODULE Staking ------------------------------
(***************************************************************************)
(* hopers-staking: LP tokens bonded for a share of the rewards that a      *)
(* schedule of slots (start, end, amount) releases second by second, and   *)
(* returned a lock duration after they are unbonded.                       *)
(*                                                                         *)
(* An action is one transaction: the handler and the one message it sends, *)
(* at the time now of its block; several transactions share a block.  A    *)
(* transaction that fails is a step that is not taken.  Both tokens are    *)
(* cw20 contracts, which refuse a transfer of nothing.                     *)
(*                                                                         *)
(* Decimals are in atomics, DecOne = 10^18 in the code, rounded down, and  *)
(* fit in MaxUint like every Uint128.                                      *)
(***************************************************************************)
EXTENDS Integers, Sequences, FiniteSets, Functions

CONSTANTS
    Users,          \* the accounts that send transactions
    Staking,        \* the staking contract
    Successor,      \* the contract a migration sends the rest to
    Tokens,         \* the cw20 tokens
    MaxUint,
    DecOne,
    MaxTime,        \* bound: the last block time considered
    MaxChanges,     \* bound: how many Bond, Unbond and MigrateStaking there are
    \* What transactions may carry (bounds of the model).
    InitialBalance, \* InitialBalance[t][a]
    Instantiations, \* the possible [lp, reward, schedule, admin, lock]
    Amounts,        \* LP tokens bonded
    UnbondAmounts,  \* LP tokens unbonded; the code does not refuse 0
    Schedules,      \* distribution_schedule of an UpdateConfig
    TokenPairs,     \* <<lp_token_contract, reward_token>> of an UpdateTokenContract
    LockDurations,  \* lock_duration of an UpdateLockDuration
    Migrating,      \* whether the admin uses MigrateStaking
    Electing        \* whether the admin uses UpdateAdmin

Account == Users \cup {Staking, Successor}
Times == 0 .. MaxTime

Slot == [start : Nat, end : Nat, amount : Nat]

(* The longest schedule considered.                                        *)
MaxSlots == 2

ASSUME StakingAssumption ==
    /\ IsFiniteSet(Users)
    /\ Staking \notin Users
    /\ Successor \notin Users
    /\ Staking # Successor
    /\ MaxUint \in Nat
    /\ DecOne \in 1 .. MaxUint
    /\ MaxTime \in Nat
    /\ MaxChanges \in Nat
    /\ InitialBalance \in [Tokens -> [Account -> Nat]]
    /\ Instantiations \subseteq [lp : Tokens, reward : Tokens,
                                 schedule : Seq(Slot), admin : Users, lock : Nat]
    /\ \A msg \in Instantiations : Len(msg.schedule) <= MaxSlots
    /\ Amounts \subseteq Nat
    /\ UnbondAmounts \subseteq Nat
    /\ Schedules \subseteq Seq(Slot)
    /\ \A s \in Schedules : Len(s) <= MaxSlots
    /\ TokenPairs \subseteq Tokens \X Tokens
    /\ LockDurations \subseteq Nat
    /\ Migrating \in BOOLEAN
    /\ Electing \in BOOLEAN

VARIABLES
    \* CONFIG
    lpToken, rewardToken, schedule, admin, lockDuration,
    \* STATE
    lastDistributed, totalBond, rewardIndex,
    info,       \* staker_info: info[u], NoStake if u has no entry
    earned,     \* user_earned_info: earned[u]
    unbonding,  \* unbonding_info: unbonding[u][t], 0 if there is none at time t
    \* outside of the contract
    bal,        \* bal[t][a]: what account a holds of token t
    now,        \* env.block.time
    changes     \* history: the number of Bond, Unbond and MigrateStaking

config == <<lpToken, rewardToken, schedule, admin, lockDuration>>
state == <<lastDistributed, totalBond, rewardIndex>>
vars == <<lpToken, rewardToken, schedule, admin, lockDuration, lastDistributed,
          totalBond, rewardIndex, info, earned, unbonding, bal, now, changes>>

Fits(n) == n <= MaxUint
Earlier(s, t) == IF s < t THEN s ELSE t
Later(s, t) == IF s < t THEN t ELSE s

(* The entry a first Bond starts from.  An entry in storage differs from   *)
(* it: one that has neither a bond nor a pending reward is removed.        *)
NoStake == [bond |-> 0, pending |-> 0, index |-> 0]

-----------------------------------------------------------------------------
(* Decimals: Decimal::from_ratio and Uint128 * Decimal.                    *)

from_ratio(n, d) == (n * DecOne) \div d
from_ratio_ok(n, d) == d > 0 /\ Fits((n * DecOne) \div d)

(* Uint128::multiply_ratio panics when the product does not fit.           *)
times(n, decimal) == (n * decimal) \div DecOne
times_ok(n, decimal) == Fits(times(n, decimal))

-----------------------------------------------------------------------------
(* Rewards.                                                                *)

Rate(slot) == from_ratio(slot.amount, slot.end - slot.start)
Rate_ok(slot) == slot.end > slot.start /\ from_ratio_ok(slot.amount, slot.end - slot.start)

(* Mutant: a slot that is over is not skipped.                             *)
NotBegun(slot, t) == slot.start > t

(* Slots compute_reward passes over at time t.                             *)
Skipped(slot, t) == slot.start > t \/ slot.end < lastDistributed

(* Mutant: from the start of the slot each time.                           *)
PassedSinceStart(slot, t) == Earlier(slot.end, t) - slot.start

Passed(slot, t) == Earlier(slot.end, t) - Later(slot.start, lastDistributed)

SlotReward(slot, t) == IF Skipped(slot, t) THEN 0 ELSE times(Passed(slot, t), Rate(slot))

(* Summed over the slots, of which there are MaxSlots = 2 at most.         *)
Distributed(t) ==
    LET reward(i) == IF i <= Len(schedule) THEN SlotReward(schedule[i], t) ELSE 0
    IN  reward(1) + reward(2)

(* The global reward index that compute_reward leaves at time t.           *)
IndexAt(t) ==
    IF totalBond = 0 THEN rewardIndex
    ELSE rewardIndex + from_ratio(Distributed(t), totalBond)

(* The sums and quotients that are added up fit if what they come to does. *)
compute_reward_ok(t) ==
    totalBond > 0 =>
        /\ \A i \in DOMAIN schedule : ~Skipped(schedule[i], t) =>
              Rate_ok(schedule[i]) /\ Passed(schedule[i], t) >= 0
        /\ Fits(Distributed(t))
        /\ Fits(IndexAt(t))

(* What a staker earned since his own index, when the global one is index. *)
Accrued(staker, index) == times(staker.bond, index) - times(staker.bond, staker.index)

(* Mutant: the staker's index is left behind.                              *)
SettledWithoutIndex(staker, index) ==
    [staker EXCEPT !.pending = staker.pending + Accrued(staker, index)]

(* compute_staker_reward.                                                  *)
Settled(staker, index) ==
    [bond |-> staker.bond,
     pending |-> staker.pending + Accrued(staker, index),
     index |-> index]

(* The two products of compute_staker_reward, their checked_sub, the sum.  *)
Settled_ok(staker, index) ==
    /\ times_ok(staker.bond, index)
    /\ times_ok(staker.bond, staker.index)
    /\ Accrued(staker, index) >= 0
    /\ Fits(Settled(staker, index).pending)

(* pending_reward of a StakerInfo query at time t.                         *)
Claim(u, t) == Settled(info[u], IndexAt(t)).pending

-----------------------------------------------------------------------------
(* The tokens.                                                             *)

(* A transfer of n of token t.                                             *)
Send(t, from, to, n) ==
    LET taken == [bal[t] EXCEPT ![from] = bal[t][from] - n]
    IN  [bal EXCEPT ![t] = [taken EXCEPT ![to] = taken[to] + n]]

(* Mutant: the balance is not looked at.                                   *)
SendUnchecked(t, from, n) == n > 0

Send_ok(t, from, n) == n > 0 /\ bal[t][from] >= n

-----------------------------------------------------------------------------
(* The transactions.                                                       *)

Init ==
    /\ \E msg \in Instantiations :
          /\ lpToken = msg.lp
          /\ rewardToken = msg.reward
          /\ schedule = msg.schedule
          /\ admin = msg.admin
          /\ lockDuration = msg.lock
    /\ lastDistributed = 0
    /\ totalBond = 0
    /\ rewardIndex = 0
    /\ info = [u \in Users |-> NoStake]
    /\ earned = [u \in Users |-> 0]
    /\ unbonding = [u \in Users |-> [t \in Times |-> 0]]
    /\ bal = InitialBalance
    /\ now = 0
    /\ changes = 0

(* Mutant: the total misses the staker's tokens.                           *)
TotalKept(amount) == totalBond' = totalBond

(* increase_bond_amount and decrease_bond_amount, for the total.           *)
TotalChangedBy(amount) == totalBond' = totalBond + amount

(* What Bond, Unbond and Withdraw save of the rewards.                     *)
RewardsComputed ==
    /\ compute_reward_ok(now)
    /\ lastDistributed' = now
    /\ rewardIndex' = IndexAt(now)

Changing == changes < MaxChanges /\ changes' = changes + 1

(* u sends LP tokens to the contract with the Bond hook.                   *)
Bond(u, amount) ==
    LET staker == Settled(info[u], IndexAt(now))
    IN  /\ Changing
        /\ Send_ok(lpToken, u, amount)
        /\ RewardsComputed
        /\ Settled_ok(info[u], IndexAt(now))
        /\ Fits(totalBond + amount)
        /\ TotalChangedBy(amount)
        /\ info' = [info EXCEPT ![u] = [staker EXCEPT !.bond = staker.bond + amount]]
        /\ bal' = Send(lpToken, u, Staking, amount)
        /\ UNCHANGED <<config, earned, unbonding, now>>

(* Mutant: an unbonded amount can be unbonded again.                       *)
BondKept(staker, amount) == staker

(* Mutant: the entry is removed with rewards still in it.                  *)
EntryDropped(staker, amount) ==
    IF staker.bond = amount THEN NoStake
    ELSE [staker EXCEPT !.bond = staker.bond - amount]

(* The entry Unbond saves, or removes when nothing is left in it.          *)
Unbonded(staker, amount) ==
    IF staker.bond = amount /\ staker.pending = 0 THEN NoStake
    ELSE [staker EXCEPT !.bond = staker.bond - amount]

(* The position is saved under (sender, time), in place of one the sender  *)
(* already has from the same block.                                        *)
Unbond(u, amount) ==
    LET staker == Settled(info[u], IndexAt(now))
    IN  /\ Changing
        /\ info[u] # NoStake
        /\ info[u].bond >= amount
        /\ RewardsComputed
        /\ Settled_ok(info[u], IndexAt(now))
        /\ totalBond >= amount
        /\ TotalChangedBy(-amount)
        /\ info' = [info EXCEPT ![u] = Unbonded(staker, amount)]
        /\ unbonding' = [unbonding EXCEPT ![u] = [unbonding[u] EXCEPT ![now] = amount]]
        /\ UNCHANGED <<config, earned, bal, now>>

(* Mutant: the lock duration is not added.                                 *)
MaturedAtOnce(t) == t <= now

(* Mutant: a position is due a second too late.                            *)
MaturedAfter(t) == t + lockDuration < now

Matured(t) == t + lockDuration <= now

(* Redeem's loop goes through the positions in the order of their times,   *)
(* so stopping at the first one still locked skips no matured one.         *)
Due(u) == SumFunctionOnSet(unbonding[u], {t \in Times : Matured(t)})

Redeem(u) ==
    /\ Send_ok(lpToken, Staking, Due(u))
    /\ unbonding' = [unbonding EXCEPT ![u] =
                        [t \in Times |-> IF Matured(t) THEN 0 ELSE unbonding[u][t]]]
    /\ bal' = Send(lpToken, Staking, u, Due(u))
    /\ UNCHANGED <<config, state, info, earned, now, changes>>

(* Mutant: the pending reward is paid but not cleared.                     *)
PendingKept(staker) == staker

(* The entry Withdraw saves, or removes when no bond is left in it.        *)
PaidOff(staker) ==
    IF staker.bond = 0 THEN NoStake ELSE [staker EXCEPT !.pending = 0]

Withdraw(u) ==
    LET staker == Settled(info[u], IndexAt(now))
    IN  /\ info[u] # NoStake
        /\ RewardsComputed
        /\ Settled_ok(info[u], IndexAt(now))
        /\ Send_ok(rewardToken, Staking, staker.pending)
        /\ Fits(earned[u] + staker.pending)
        /\ earned' = [earned EXCEPT ![u] = earned[u] + staker.pending]
        /\ info' = [info EXCEPT ![u] = PaidOff(staker)]
        /\ bal' = Send(rewardToken, Staking, u, staker.pending)
        /\ UNCHANGED <<config, totalBond, unbonding, now, changes>>

(* Mutant: nothing of a slot that is cut off counts as distributed.        *)
StoppedUncounted(slot) ==
    IF slot.end < now THEN slot ELSE [start |-> slot.start, end |-> now, amount |-> 0]

(* A begun slot after MigrateStaking: over by now, or cut off at now.      *)
Stopped(slot) ==
    IF slot.end < now THEN slot
    ELSE [start |-> slot.start, end |-> now,
          amount |-> times(now - slot.start, Rate(slot))]

TotalAmount(slots) ==
    LET amount(i) == IF i <= Len(slots) THEN slots[i].amount ELSE 0
    IN  amount(1) + amount(2)

(* The slots a migration keeps: those that have begun, of the MaxSlots = 2 *)
(* there are at most.                                                      *)
HasBegun(i) == i <= Len(schedule) /\ schedule[i].start < now

Begun ==
    CASE HasBegun(1) /\ HasBegun(2) -> schedule
      [] HasBegun(1) /\ ~HasBegun(2) -> <<schedule[1]>>
      [] ~HasBegun(1) /\ HasBegun(2) -> <<schedule[2]>>
      [] OTHER -> << >>

StoppedSchedule == [i \in DOMAIN Begun |-> Stopped(Begun[i])]

(* The rest of the rewards is sent from the LP token, whatever token the   *)
(* rewards are in.                                                         *)
MigrateStaking(u) ==
    LET remaining == Later(0, TotalAmount(schedule) - TotalAmount(StoppedSchedule))
    IN  /\ u = admin
        /\ Changing
        /\ compute_reward_ok(now)
        /\ Fits(TotalAmount(schedule))
        /\ \A i \in DOMAIN Begun : Begun[i].end >= now => Rate_ok(Begun[i])
        /\ Send_ok(lpToken, Staking, remaining)
        /\ lastDistributed' = now
        /\ rewardIndex' = IndexAt(now)
        /\ schedule' = StoppedSchedule
        /\ bal' = Send(lpToken, Staking, Successor, remaining)
        /\ UNCHANGED <<lpToken, rewardToken, admin, lockDuration, totalBond, info,
                       earned, unbonding, now>>

Count(slot, s) == Cardinality({i \in DOMAIN s : s[i] = slot})

(* Mutant: the slots begun by the block time are the same.                 *)
BegunSlotsPinned(new) ==
    /\ Len(new) >= Len(schedule)
    /\ \A slot \in {schedule[i] : i \in DOMAIN schedule} \cup {new[i] : i \in DOMAIN new} :
          slot.start <= now => Count(slot, new) = Count(slot, schedule)

(* assert_new_schedules: the slots begun by the last distribution, which   *)
(* may be long before now, are the same in both schedules.                 *)
assert_new_schedules(new) ==
    /\ Len(new) >= Len(schedule)
    /\ \A slot \in {schedule[i] : i \in DOMAIN schedule} \cup {new[i] : i \in DOMAIN new} :
          slot.start <= lastDistributed => Count(slot, new) = Count(slot, schedule)

UpdateConfig(u, new) ==
    /\ u = admin
    /\ assert_new_schedules(new)
    /\ schedule' = new
    /\ UNCHANGED <<lpToken, rewardToken, admin, lockDuration, state, info, earned,
                   unbonding, bal, now, changes>>

UpdateAdmin(u, address) ==
    /\ u = admin
    /\ admin' = address
    /\ UNCHANGED <<lpToken, rewardToken, schedule, lockDuration, state, info, earned,
                   unbonding, bal, now, changes>>

UpdateTokenContract(u, lp, reward) ==
    /\ u = admin
    /\ lpToken' = lp
    /\ rewardToken' = reward
    /\ UNCHANGED <<schedule, admin, lockDuration, state, info, earned, unbonding, bal,
                   now, changes>>

UpdateLockDuration(u, lock) ==
    /\ u = admin
    /\ lockDuration' = lock
    /\ UNCHANGED <<lpToken, rewardToken, schedule, admin, state, info, earned, unbonding,
                   bal, now, changes>>

NextBlock ==
    /\ now < MaxTime
    /\ now' = now + 1
    /\ UNCHANGED <<config, state, info, earned, unbonding, bal, changes>>

StakerStep ==
    \E u \in Users :
        \/ \E amount \in Amounts : Bond(u, amount)
        \/ \E amount \in UnbondAmounts : Unbond(u, amount)
        \/ Redeem(u)
        \/ Withdraw(u)

AdminStep ==
    \E u \in Users :
        \/ Migrating /\ MigrateStaking(u)
        \/ \E new \in Schedules : UpdateConfig(u, new)
        \/ Electing /\ \E address \in Users : UpdateAdmin(u, address)
        \/ \E pair \in TokenPairs : UpdateTokenContract(u, pair[1], pair[2])
        \/ \E lock \in LockDurations : UpdateLockDuration(u, lock)

Next == StakerStep \/ AdminStep \/ NextBlock

Spec == Init /\ [][Next]_vars

(* Blocks keep being produced, and a staker whose redemption or withdrawal *)
(* would succeed from some time on sends it.  Nobody has to bond or unbond *)
(* and the administrator owes nothing.                                     *)
Fairness ==
    /\ WF_vars(NextBlock)
    /\ \A u \in Users : WF_vars(Redeem(u)) /\ WF_vars(Withdraw(u))

FairSpec == Spec /\ Fairness

-----------------------------------------------------------------------------
(* Properties.                                                             *)

(* The types of the state.                                                 *)
TypeOK ==
    /\ lpToken \in Tokens
    /\ rewardToken \in Tokens
    /\ schedule \in Seq(Slot)
    /\ Len(schedule) <= MaxSlots
    /\ admin \in Users
    /\ lockDuration \in Nat
    /\ lastDistributed \in Nat
    /\ totalBond \in Nat
    /\ rewardIndex \in Nat
    /\ info \in [Users -> [bond : Nat, pending : Nat, index : Nat]]
    /\ earned \in [Users -> Nat]
    /\ unbonding \in [Users -> [Times -> Nat]]
    /\ bal \in [Tokens -> [Account -> Nat]]
    /\ now \in Times
    /\ changes \in Nat

Total(f) == SumFunctionOnSet(f, Users)

Bonds == Total([u \in Users |-> info[u].bond])
UnbondingOf(u) == SumFunctionOnSet(unbonding[u], Times)
Stakes == Bonds + Total([u \in Users |-> UnbondingOf(u)])

(* The total that rewards are divided by is what the stakers have bonded   *)
(* between them, whatever was rounded off or removed on the way.           *)
BondsAddUp == totalBond = Bonds

(* The contract holds every LP token it owes: bonded, and unbonded but not *)
(* redeemed (redeem, contract.rs:231, could otherwise fail for the last).  *)
StakesBacked == bal[lpToken][Staking] >= Stakes

(* A slot that does not end after it starts is accepted by instantiate and *)
(* by UpdateConfig.  The schedule without those that have yet to begin for *)
(* assert_new_schedules.                                                   *)
Malformed(slot) == slot.end <= slot.start

Repaired ==
    [i \in DOMAIN schedule |->
        IF Malformed(schedule[i]) /\ schedule[i].start > lastDistributed
        THEN [start |-> now + 1, end |-> now + 2, amount |-> 0]
        ELSE schedule[i]]

(* A malformed slot shuts every staker out from its start on               *)
(* (contract.rs:540, 543), but never for good: the administrator may still *)
(* take it out of the schedule, because no distribution gets past its      *)
(* start.  The exception is a slot of no length in whose very second the   *)
(* first tokens are bonded: it can never be passed nor taken out.          *)
(*                                                                         *)
(* What nobody can lift is an overflow: of the index (contract.rs:549),    *)
(* once a slot that has begun releases too much, or of a bond times the    *)
(* index (contract.rs:554).  Where neither overflows no staker is shut out *)
(* by his own entry, whatever was changed in the schedule since.           *)
ShutOutCanBeLifted ==
    /\ totalBond > 0 =>
          /\ assert_new_schedules(Repaired)
          /\ \A i \in DOMAIN schedule :
                LET slot == Repaired[i]
                IN  \/ Skipped(slot, now)
                    \/ slot.start = lastDistributed /\ slot.end = lastDistributed
                    \/ Rate_ok(slot) /\ Passed(slot, now) >= 0
    /\ \A u \in Users :
          compute_reward_ok(now) /\ times_ok(info[u].bond, IndexAt(now))
              => Settled_ok(info[u], IndexAt(now))

(* A staker's claim, as StakerInfo answers it, is never reduced but by     *)
(* paying it: not by other stakers' transactions in the same block or      *)
(* later, not by his own Bond or Unbond, and not by an administrator who   *)
(* keeps the schedule (BegunSlotsKept is about one who does not).          *)
ClaimsKept ==
    [][\A u \in Users :
          Claim(u, now)' + earned'[u] >= Claim(u, now) + earned[u]]_vars

(* No transaction within a block creates a claim: what a new bond earns,   *)
(* it earns from now on.                                                   *)
ClaimsOnlyFromTime ==
    [][now' = now =>
          \A u \in Users :
              Claim(u, now)' + earned'[u] <= Claim(u, now) + earned[u]]_vars

(* What the schedule has released by now.                                  *)
Released ==
    LET released(slot) == IF slot.start > now THEN 0
                          ELSE times(Earlier(slot.end, now) - slot.start, Rate(slot))
        part(i) == IF i <= Len(schedule) THEN released(schedule[i]) ELSE 0
    IN  part(1) + part(2)

Claims == Total([u \in Users |-> Claim(u, now)])

(* Stakers are never promised more than the schedule has released, but for *)
(* less than one unit per Bond and Unbond: the difference of two rounded   *)
(* products (contract.rs:555) may exceed the rounded-down reward.          *)
RewardsWithinRelease ==
    Claims + Total(earned) <= Released + changes

(* The reward index overflows (contract.rs:549), and shuts everybody out,  *)
(* only if a schedule releases more than MaxUint / DecOne: however small   *)
(* the bonds are by which each distribution is divided, the index does not *)
(* outgrow the release.                                                    *)
IndexWithinRelease == IndexAt(now) <= Released * DecOne

(* What Bond, Unbond and Withdraw compute first never fails for all of     *)
(* them (contract.rs:540, 543, 549), and for one of them only if his bond  *)
(* times all that was released so far is more than a Uint128 holds: then   *)
(* bond_amount * global_reward_index (contract.rs:554) may panic, and it   *)
(* panics for ever.  A smaller bond is never shut out, however small those *)
(* are by which the rewards are divided.                                   *)
ShutOutOnlyByOverflow ==
    /\ compute_reward_ok(now)
    /\ \A u \in Users : Fits(info[u].bond * Released) => Settled_ok(info[u], IndexAt(now))

(* A contract funded with all of its schedule's rewards can pay every      *)
(* claim, after migrations too; stakes in the same token are set apart.    *)
(* It may be short of less than one unit per Bond and Unbond, and per slot *)
(* of a migration: a second one in the same block stops the slots again    *)
(* (contract.rs:365), and rounds their amounts down again.                 *)
ClaimsFunded ==
    bal[rewardToken][Staking] + MaxSlots * changes
        >= Claims + (IF rewardToken = lpToken THEN Stakes ELSE 0)

(* LP tokens that come back to a staker come out of all his positions      *)
(* unbonded a lock duration ago, and of none unbonded later.               *)
LockHonoured ==
    [][\A u \in Users :
          LET paid == bal'[lpToken][u] - bal[lpToken][u]
              due == {t \in Times : t + lockDuration <= now}
          IN  paid > 0 =>
                  /\ paid = SumFunctionOnSet(unbonding[u], due)
                  /\ \A t \in Times :
                        unbonding'[u][t] = IF t \in due THEN 0 ELSE unbonding[u][t]]_vars

(* Whether u waits for tokens whose lock runs out before the last block.   *)
Waiting(u) == \E t \in Times : t + lockDuration <= MaxTime /\ unbonding[u][t] > 0

(* Whatever is unbonded comes back: no sequence of other stakers' messages *)
(* takes the tokens or keeps Redeem (contract.rs:208) failing.             *)
UnbondedComesBack == \A u \in Users : Waiting(u) ~> ~Waiting(u)

(* Whether u has a claim, and a bond that no release of the schedule can   *)
(* shut out (ShutOutOnlyByOverflow).                                       *)
Owed(u) == Claim(u, now) > 0 /\ Fits(info[u].bond * TotalAmount(schedule))

(* A staker who wants his rewards gets all of them, down to nothing        *)
(* pending, also after the last of his bond is gone, unless he bonds so    *)
(* much that he may be shut out: no other claim, no rounding and no other  *)
(* staker who is shut out keeps Withdraw (contract.rs:247) failing.        *)
EveryClaimPaid == \A u \in Users : Owed(u) ~> ~Owed(u)

(* What a staker unbonds in several transactions comes back altogether:    *)
(* test_unbond (unit_tests.rs) redeems 500 after unbonding 200 and 300.    *)
UnbondsAddUp ==
    [][\A u \in Users :
          bal'[lpToken][u] + info'[u].bond + UnbondingOf(u)'
              >= bal[lpToken][u] + info[u].bond + UnbondingOf(u)]_vars

(* "if began ensure its in the new schedule" (contract.rs:507): a slot     *)
(* that has begun stays in the schedule.                                   *)
BegunSlotsKept ==
    [][\A i \in DOMAIN schedule :
          schedule[i].start <= now => \E j \in DOMAIN schedule' : schedule'[j] = schedule[i]]_vars
=============================================================================
