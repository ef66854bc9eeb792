--------------------------- MODULE StakingProofs ---------------------------
(***************************************************************************)
(* Theorems about Staking, for any stakers, amounts, tokens and bounds,    *)
(* migrations included: what holds of each staker by himself.  What is     *)
(* about the sums of all stakers' bonds, claims or positions is in         *)
(* StakingTotalsProofs.                                                    *)
(***************************************************************************)
EXTENDS Staking, TLAPS

(* Every schedule the contract may be given is made of slots that end      *)
(* after they start.                                                       *)
WellFormed ==
    /\ \A msg \in Instantiations : \A i \in DOMAIN msg.schedule : ~Malformed(msg.schedule[i])
    /\ \A s \in Schedules : \A i \in DOMAIN s : ~Malformed(s[i])

(* The administrator leaves the schedule as it is.                         *)
ScheduleKept == Schedules = {}

Staker == [bond : Nat, pending : Nat, index : Nat]

(* The inductive invariant: the types of what rewards are computed from,   *)
(* no distribution ahead of the time, and no staker ahead of the index.    *)
RewardsInv ==
    /\ schedule \in Seq(Slot)
    /\ Len(schedule) <= MaxSlots
    /\ \A i \in DOMAIN schedule : ~Malformed(schedule[i])
    /\ lastDistributed \in Nat
    /\ now \in Nat
    /\ lastDistributed <= now
    /\ totalBond \in Nat
    /\ rewardIndex \in Nat
    /\ info \in [Users -> Staker]
    /\ earned \in [Users -> Nat]
    /\ \A u \in Users : info[u].index <= rewardIndex

-----------------------------------------------------------------------------
(* Arithmetic.                                                             *)

(* Division rounds down.                                                   *)
LEMMA DivFloor ==
    ASSUME NEW a \in Nat, NEW b \in Nat, b > 0
    PROVE  /\ a \div b \in Nat
           /\ b * (a \div b) <= a
           /\ a < b * (a \div b) + b
  BY SMT

LEMMA MulMono ==
    ASSUME NEW a \in Nat, NEW b \in Nat, NEW c \in Nat, a <= b
    PROVE  /\ a * c \in Nat
           /\ a * c <= b * c
           /\ c * a <= c * b
  BY SMT

(* What fits b times into a is no more than the quotient.                  *)
LEMMA DivLeast ==
    ASSUME NEW a \in Nat, NEW b \in Nat, b > 0, NEW q \in Nat, b * q <= a
    PROVE  q <= a \div b
  <1> DEFINE d == a \div b
  <1>1. d \in Nat /\ a < b * d + b
    BY DivFloor
  <1> HIDE DEF d
  <1>2. SUFFICES ASSUME d + 1 <= q PROVE FALSE
    BY <1>1, SMT DEF d
  <1>3. b * (d + 1) <= b * q
    BY <1>1, <1>2, MulMono
  <1>4. b * (d + 1) = b * d + b
    BY <1>1, SMT
  <1>5. b * d \in Nat /\ b * q \in Nat
    BY <1>1, SMT
  <1> QED
    BY <1>1, <1>3, <1>4, <1>5, SMT

(* A product with a Decimal is a number, none of nothing, grows with its   *)
(* factors, and loses no less when it is taken in two parts.               *)
LEMMA TimesType ==
    ASSUME NEW n \in Nat, NEW decimal \in Nat
    PROVE  times(n, decimal) \in Nat
  <1>1. n * decimal \in Nat /\ DecOne \in Nat /\ DecOne > 0
    BY StakingAssumption, SMT
  <1> QED
    BY <1>1, DivFloor DEF times

LEMMA TimesZero ==
    ASSUME NEW decimal \in Nat
    PROVE  times(0, decimal) = 0
  <1>1. 0 * decimal = 0 /\ DecOne \in Nat /\ DecOne > 0
    BY StakingAssumption, SMT
  <1>2. 0 \div DecOne \in Nat /\ DecOne * (0 \div DecOne) <= 0
    BY <1>1, DivFloor
  <1> QED
    BY <1>1, <1>2, SMT DEF times

LEMMA TimesSplit ==
    ASSUME NEW m \in Nat, NEW n \in Nat, NEW decimal \in Nat
    PROVE  times(m, decimal) + times(n, decimal) <= times(m + n, decimal)
  <1> DEFINE a == m * decimal
             b == n * decimal
             p == a \div DecOne
             q == b \div DecOne
  <1>1. /\ a \in Nat /\ b \in Nat /\ (m + n) * decimal = a + b
        /\ DecOne \in Nat /\ DecOne > 0
    BY StakingAssumption, SMT
  <1>2. p \in Nat /\ DecOne * p <= a /\ q \in Nat /\ DecOne * q <= b
    BY <1>1, DivFloor
  <1> HIDE DEF a, b, p, q
  <1>3. DecOne * (p + q) <= a + b
    <2>1. DecOne * (p + q) = DecOne * p + DecOne * q
      BY <1>1, <1>2, SMT
    <2>2. DecOne * p \in Nat /\ DecOne * q \in Nat
      BY <1>1, <1>2, SMT
    <2> QED
      BY <1>1, <1>2, <2>1, <2>2, SMT
  <1>4. p + q <= (a + b) \div DecOne
    BY <1>1, <1>2, <1>3, DivLeast
  <1> QED
    BY <1>1, <1>4 DEF times, a, b, p, q

LEMMA TimesMono ==
    ASSUME NEW m \in Nat, NEW n \in Nat, m <= n, NEW decimal \in Nat
    PROVE  times(m, decimal) <= times(n, decimal)
  <1>1. n - m \in Nat /\ m + (n - m) = n
    BY SMT
  <1>2. times(m, decimal) + times(n - m, decimal) <= times(n, decimal)
    BY <1>1, TimesSplit
  <1> QED
    BY <1>1, <1>2, TimesType, SMT

LEMMA TimesMonoIndex ==
    ASSUME NEW bond \in Nat, NEW i \in Nat, NEW j \in Nat, i <= j
    PROVE  times(bond, i) <= times(bond, j)
  <1>1. bond * i = i * bond /\ bond * j = j * bond
    BY SMT
  <1>2. times(bond, i) = times(i, bond) /\ times(bond, j) = times(j, bond)
    BY <1>1 DEF times
  <1> QED
    BY <1>2, TimesMono

LEMMA RatioType ==
    ASSUME NEW n \in Nat, NEW d \in Nat, d > 0
    PROVE  /\ from_ratio(n, d) \in Nat
           /\ from_ratio(n, d) <= n * DecOne
           /\ from_ratio(0, d) = 0
  <1>1. n * DecOne \in Nat /\ 0 * DecOne = 0 /\ DecOne \in Nat
    BY StakingAssumption, SMT
  <1> DEFINE q == (n * DecOne) \div d
  <1>2. q \in Nat /\ d * q <= n * DecOne /\ 0 \div d \in Nat /\ d * (0 \div d) <= 0
    BY <1>1, DivFloor
  <1>3. q <= d * q
    BY <1>2, SMT
  <1>4. 0 \div d = 0
    BY <1>2, SMT
  <1> QED
    BY <1>1, <1>2, <1>3, <1>4, SMT DEF from_ratio

LEMMA RatioMono ==
    ASSUME NEW m \in Nat, NEW n \in Nat, m <= n, NEW d \in Nat, d > 0
    PROVE  from_ratio(m, d) <= from_ratio(n, d)
  <1> DEFINE q == (m * DecOne) \div d
  <1>1. m * DecOne \in Nat /\ n * DecOne \in Nat /\ m * DecOne <= n * DecOne
    BY StakingAssumption, MulMono, SMT
  <1>2. q \in Nat /\ d * q <= m * DecOne
    BY <1>1, DivFloor
  <1>3. d * q <= n * DecOne
    BY <1>1, <1>2, SMT
  <1>4. q <= (n * DecOne) \div d
    BY <1>1, <1>2, <1>3, DivLeast
  <1> QED
    BY <1>4 DEF from_ratio

-----------------------------------------------------------------------------
(* What a slot and a schedule reward.                                      *)

LEMMA RateType ==
    ASSUME NEW slot \in Slot, ~Malformed(slot)
    PROVE  Rate(slot) \in Nat
  <1>1. /\ slot.start \in Nat /\ slot.end \in Nat /\ slot.amount \in Nat
        /\ slot.end - slot.start \in Nat /\ slot.end - slot.start > 0
    BY SMT DEF Slot, Malformed
  <1> QED
    BY <1>1, RatioType DEF Rate

(* The subtraction of times in compute_reward (contract.rs:540) cannot     *)
(* fail, and with the time the reward grows.                               *)
LEMMA SlotGrows ==
    ASSUME RewardsInv, NEW slot \in Slot, ~Malformed(slot),
           NEW t \in Nat, lastDistributed <= t
    PROVE  /\ ~Skipped(slot, t) => Passed(slot, t) \in Nat
           /\ SlotReward(slot, t) \in Nat
           /\ \A s \in Nat : t <= s => SlotReward(slot, t) <= SlotReward(slot, s)
  <1>1. /\ slot.start \in Nat /\ slot.end \in Nat /\ slot.start < slot.end
        /\ lastDistributed \in Nat
    BY SMT DEF Slot, Malformed, RewardsInv
  <1>2. \A s \in Nat : lastDistributed <= s =>
            /\ ~Skipped(slot, s) => Passed(slot, s) \in Nat
            /\ SlotReward(slot, s) \in Nat
    <2> TAKE s \in Nat
    <2> HAVE lastDistributed <= s
    <2>1. ~Skipped(slot, s) => Passed(slot, s) \in Nat
      BY <1>1, SMT DEF Skipped, Passed, Earlier, Later
    <2> QED
      BY <2>1, RateType, TimesType DEF SlotReward
  <1>3. ASSUME NEW s \in Nat, t <= s
        PROVE  SlotReward(slot, t) <= SlotReward(slot, s)
    <2>1. CASE Skipped(slot, t)
      <3>1. SlotReward(slot, t) = 0 /\ SlotReward(slot, s) \in Nat
        BY <1>2, <1>3, <2>1, <1>1, SMT DEF SlotReward
      <3> QED
        BY <3>1, SMT
    <2>2. CASE ~Skipped(slot, t)
      <3>1. ~Skipped(slot, s) /\ Passed(slot, t) <= Passed(slot, s)
        BY <1>1, <1>3, <2>2, SMT DEF Skipped, Passed, Earlier, Later
      <3>2. Passed(slot, t) \in Nat /\ Passed(slot, s) \in Nat
        BY <1>1, <1>2, <1>3, <2>2, <3>1, SMT
      <3> QED
        BY <2>2, <3>1, <3>2, RateType, TimesMono DEF SlotReward
    <2> QED
      BY <2>1, <2>2
  <1> QED
    BY <1>2, <1>3

LEMMA SlotIs ==
    ASSUME RewardsInv, NEW i \in Nat, 1 <= i, i <= Len(schedule)
    PROVE  schedule[i] \in Slot /\ ~Malformed(schedule[i])
  <1>1. schedule \in Seq(Slot) /\ i \in DOMAIN schedule
    BY SMT DEF RewardsInv
  <1> QED
    BY <1>1 DEF RewardsInv

(* The i-th slot's reward at time t, nothing where there is no such slot.  *)
Part(i, t) == IF i <= Len(schedule) THEN SlotReward(schedule[i], t) ELSE 0

LEMMA PartGrows ==
    ASSUME RewardsInv, NEW i \in {1, 2}, NEW t \in Nat, lastDistributed <= t
    PROVE  /\ Part(i, t) \in Nat
           /\ \A s \in Nat : t <= s => Part(i, t) <= Part(i, s)
  <1>1. CASE i <= Len(schedule)
    <2>1. schedule[i] \in Slot /\ ~Malformed(schedule[i])
      BY <1>1, SlotIs, SMT
    <2> QED
      BY <1>1, <2>1, SlotGrows DEF Part
  <1>2. CASE ~(i <= Len(schedule))
    BY <1>2, SMT DEF Part
  <1> QED
    BY <1>1, <1>2

LEMMA DistributedGrows ==
    ASSUME RewardsInv, NEW t \in Nat, lastDistributed <= t
    PROVE  /\ Distributed(t) \in Nat
           /\ \A s \in Nat : t <= s => Distributed(t) <= Distributed(s)
  <1>1. \A s : Distributed(s) = Part(1, s) + Part(2, s)
    BY DEF Distributed, Part
  <1>2. Part(1, t) \in Nat /\ Part(2, t) \in Nat
    BY PartGrows
  <1>3. \A s \in Nat : t <= s =>
            /\ Part(1, s) \in Nat /\ Part(2, s) \in Nat
            /\ Part(1, t) <= Part(1, s) /\ Part(2, t) <= Part(2, s)
    <2> TAKE s \in Nat
    <2> HAVE t <= s
    <2>1. lastDistributed <= s
      BY SMT DEF RewardsInv
    <2> QED
      BY <2>1, PartGrows
  <1> QED
    BY <1>1, <1>2, <1>3, SMT

(* The global index never falls, neither by a distribution nor by time.    *)
LEMMA IndexGrows ==
    ASSUME RewardsInv, NEW t \in Nat, lastDistributed <= t
    PROVE  /\ IndexAt(t) \in Nat
           /\ rewardIndex <= IndexAt(t)
           /\ \A s \in Nat : t <= s => IndexAt(t) <= IndexAt(s)
  <1>0. rewardIndex \in Nat /\ totalBond \in Nat /\ lastDistributed \in Nat
    BY DEF RewardsInv
  <1>1. CASE totalBond = 0
    BY <1>0, <1>1, SMT DEF IndexAt
  <1>2. CASE totalBond > 0
    <2>1. Distributed(t) \in Nat /\ from_ratio(Distributed(t), totalBond) \in Nat
      BY <1>0, <1>2, DistributedGrows, RatioType
    <2>2. \A s \in Nat : t <= s =>
              /\ from_ratio(Distributed(s), totalBond) \in Nat
              /\ from_ratio(Distributed(t), totalBond) <= from_ratio(Distributed(s), totalBond)
      <3> TAKE s \in Nat
      <3> HAVE t <= s
      <3>1. lastDistributed <= s
        BY <1>0, SMT
      <3>2. Distributed(s) \in Nat /\ Distributed(t) <= Distributed(s)
        BY <3>1, DistributedGrows
      <3> QED
        BY <1>0, <1>2, <2>1, <3>2, RatioType, RatioMono
    <2> QED
      BY <1>0, <1>2, <2>1, <2>2, SMT DEF IndexAt
  <1> QED
    BY <1>0, <1>1, <1>2, SMT

(* After a distribution nothing is left to distribute in the same block.   *)
LEMMA IndexSettled ==
    ASSUME RewardsInv, RewardsInv', lastDistributed' = now, rewardIndex' = IndexAt(now),
           now' = now
    PROVE  IndexAt(now)' = IndexAt(now)
  <1>1. now \in Nat
    BY DEF RewardsInv
  <1>2. \A i \in {1, 2} : Part(i, now)' = 0
    <2> TAKE i \in {1, 2}
    <2>1. CASE i <= Len(schedule')
      <3> DEFINE slot == schedule'[i]
      <3>1. slot \in Slot /\ ~Malformed(slot)
        <4>1. schedule' \in Seq(Slot) /\ i \in DOMAIN schedule'
          BY <2>1, SMT DEF RewardsInv
        <4> QED
          BY <4>1 DEF RewardsInv
      <3>2. /\ slot.start \in Nat /\ slot.end \in Nat
            /\ Rate(slot) \in Nat /\ times(0, Rate(slot)) = 0
        BY <3>1, RateType, TimesZero DEF Slot
      <3> HIDE DEF slot
      <3>3. \/ slot.start > now \/ slot.end < now
            \/ Earlier(slot.end, now) - Later(slot.start, now) = 0
        BY <1>1, <3>2, SMT DEF Earlier, Later
      <3>4. SlotReward(schedule[i], now)' = 0
        BY <3>2, <3>3 DEF SlotReward, Skipped, Passed, slot
      <3> QED
        BY <2>1, <3>4 DEF Part
    <2>2. CASE ~(i <= Len(schedule'))
      BY <2>2 DEF Part
    <2> QED
      BY <2>1, <2>2
  <1>3. Distributed(now)' = 0
    <2>1. Distributed(now)' = Part(1, now)' + Part(2, now)'
      BY DEF Distributed, Part
    <2> QED
      BY <1>2, <2>1, SMT
  <1>4. IndexAt(now) \in Nat /\ totalBond' \in Nat
    BY IndexGrows DEF RewardsInv
  <1>5. CASE totalBond' = 0
    BY <1>5 DEF IndexAt
  <1>6. CASE totalBond' # 0
    <2>1. from_ratio(Distributed(now), totalBond)' = 0
      BY <1>3, <1>4, <1>6, RatioType, SMT DEF from_ratio
    <2> QED
      BY <1>4, <1>6, <2>1, SMT DEF IndexAt
  <1> QED
    BY <1>5, <1>6

-----------------------------------------------------------------------------
(* What a staker earned.                                                   *)

LEMMA AccruedGrows ==
    ASSUME NEW staker \in Staker, NEW index \in Nat, staker.index <= index
    PROVE  /\ Accrued(staker, index) \in Nat
           /\ Settled(staker, index) \in Staker
           /\ \A later \in Nat : index <= later =>
                 Settled(staker, index).pending <= Settled(staker, later).pending
  <1>1. staker.bond \in Nat /\ staker.index \in Nat /\ staker.pending \in Nat
    BY DEF Staker
  <1>2. \A later \in Nat : index <= later =>
            /\ times(staker.bond, later) \in Nat
            /\ times(staker.bond, index) <= times(staker.bond, later)
    BY <1>1, TimesType, TimesMonoIndex
  <1>3. /\ times(staker.bond, index) \in Nat /\ times(staker.bond, staker.index) \in Nat
        /\ times(staker.bond, staker.index) <= times(staker.bond, index)
    BY <1>1, TimesType, TimesMonoIndex
  <1>4. Accrued(staker, index) \in Nat
    BY <1>3, SMT DEF Accrued
  <1> QED
    BY <1>1, <1>2, <1>3, <1>4, SMT DEF Settled, Staker, Accrued

(* A staker whose index is the global one has earned nothing since.        *)
LEMMA SettledTwice ==
    ASSUME NEW staker \in Staker
    PROVE  Settled(staker, staker.index).pending = staker.pending
  <1>1. times(staker.bond, staker.index) \in Nat /\ staker.pending \in Nat
    BY TimesType DEF Staker
  <1> QED
    BY <1>1, SMT DEF Settled, Accrued

-----------------------------------------------------------------------------
(* The invariant.                                                          *)

(* The staker a transaction has settled first.                             *)
LEMMA SettledStaker ==
    ASSUME RewardsInv, NEW u \in Users
    PROVE  /\ info[u] \in Staker
           /\ IndexAt(now) \in Nat
           /\ rewardIndex <= IndexAt(now)
           /\ info[u].index <= IndexAt(now)
           /\ Accrued(info[u], IndexAt(now)) \in Nat
           /\ Settled(info[u], IndexAt(now)) \in Staker
           /\ Settled(info[u], IndexAt(now)).index = IndexAt(now)
           /\ Settled(info[u], IndexAt(now)).bond = info[u].bond
  <1>1. /\ info[u] \in Staker /\ info[u].index \in Nat /\ rewardIndex \in Nat
        /\ info[u].index <= rewardIndex
        /\ now \in Nat /\ lastDistributed <= now
    BY DEF RewardsInv, Staker
  <1>2. IndexAt(now) \in Nat /\ rewardIndex <= IndexAt(now)
    BY <1>1, IndexGrows
  <1>3. info[u].index <= IndexAt(now)
    BY <1>1, <1>2, SMT
  <1> QED
    BY <1>1, <1>2, <1>3, AccruedGrows DEF Settled

(* What a staker's transaction leaves of him: an entry settled at the      *)
(* index of the distribution, or none.                                     *)
Entry(e) == e \in Staker /\ (e = NoStake \/ e.index = IndexAt(now))

LEMMA RewardsSaved ==
    ASSUME RewardsInv, NEW u \in Users, RewardsComputed, NEW e, Entry(e),
           info' = [info EXCEPT ![u] = e], totalBond' \in Nat,
           earned' \in [Users -> Nat],
           schedule' = schedule, now' = now
    PROVE  RewardsInv'
  <1>1. /\ IndexAt(now) \in Nat /\ rewardIndex \in Nat /\ rewardIndex <= IndexAt(now)
        /\ lastDistributed' = now /\ rewardIndex' = IndexAt(now) /\ now \in Nat
    BY SettledStaker DEF RewardsInv, RewardsComputed
  <1>2. info' \in [Users -> Staker]
    BY DEF Entry, RewardsInv
  <1>3. ASSUME NEW v \in Users PROVE info'[v].index <= rewardIndex'
    <2>1. CASE v = u
      <3>1. info'[v] = e
        BY <2>1 DEF RewardsInv
      <3>2. CASE e = NoStake
        BY <1>1, <3>1, <3>2, SMT DEF NoStake
      <3>3. CASE e.index = IndexAt(now)
        BY <1>1, <3>1, <3>3, SMT
      <3> QED
        BY <3>2, <3>3 DEF Entry
    <2>2. CASE v # u
      <3>1. info'[v] = info[v]
        BY <2>2 DEF RewardsInv
      <3>2. info[v].index <= IndexAt(now)
        BY SettledStaker
      <3> QED
        BY <1>1, <3>1, <3>2
    <2> QED
      BY <2>1, <2>2
  <1> QED
    BY <1>1, <1>2, <1>3, SMT DEF RewardsInv

LEMMA BondSaves ==
    ASSUME RewardsInv, NEW u \in Users, NEW amount \in Amounts, Bond(u, amount)
    PROVE  /\ RewardsInv'
           /\ \E e : /\ Entry(e)
                     /\ info' = [info EXCEPT ![u] = e]
                     /\ e.pending = Settled(info[u], IndexAt(now)).pending
  <1> DEFINE staker == Settled(info[u], IndexAt(now))
             e == [staker EXCEPT !.bond = staker.bond + amount]
  <1>1. staker \in Staker /\ staker.index = IndexAt(now) /\ amount \in Nat
    BY SettledStaker, StakingAssumption
  <1>2. e \in Staker /\ e.index = IndexAt(now) /\ e.pending = staker.pending
    BY <1>1, SMT DEF Staker
  <1>3. Entry(e)
    BY <1>2 DEF Entry
  <1>4. /\ RewardsComputed /\ info' = [info EXCEPT ![u] = e] /\ totalBond' \in Nat
        /\ schedule' = schedule /\ now' = now /\ earned' \in [Users -> Nat]
    BY <1>1, SMT DEF Bond, TotalChangedBy, config, RewardsInv
  <1> HIDE DEF e
  <1> QED
    BY <1>2, <1>3, <1>4, RewardsSaved

LEMMA UnbondSaves ==
    ASSUME RewardsInv, NEW u \in Users, NEW amount \in UnbondAmounts, Unbond(u, amount)
    PROVE  /\ RewardsInv'
           /\ \E e : /\ Entry(e)
                     /\ info' = [info EXCEPT ![u] = e]
                     /\ e.pending = Settled(info[u], IndexAt(now)).pending
  <1> DEFINE staker == Settled(info[u], IndexAt(now))
             e == Unbonded(staker, amount)
  <1>1. /\ staker \in Staker /\ staker.index = IndexAt(now) /\ amount \in Nat
        /\ staker.bond = info[u].bond
    BY SettledStaker, StakingAssumption
  <1>2. info[u].bond >= amount
    BY DEF Unbond
  <1>3. Entry(e) /\ e.pending = staker.pending
    <2>1. CASE staker.bond = amount /\ staker.pending = 0
      BY <2>1 DEF Entry, Unbonded, NoStake, Staker
    <2>2. CASE ~(staker.bond = amount /\ staker.pending = 0)
      <3>1. e = [staker EXCEPT !.bond = staker.bond - amount]
        BY <2>2 DEF Unbonded
      <3>2. staker.bond - amount \in Nat
        BY <1>1, <1>2, SMT DEF Staker
      <3>3. e \in Staker /\ e.index = IndexAt(now) /\ e.pending = staker.pending
        BY <1>1, <3>1, <3>2 DEF Staker
      <3> QED
        BY <3>3 DEF Entry
    <2> QED
      BY <2>1, <2>2
  <1>4. /\ RewardsComputed /\ info' = [info EXCEPT ![u] = e]
        /\ schedule' = schedule /\ now' = now /\ earned' \in [Users -> Nat]
    BY DEF Unbond, config, RewardsInv
  <1>5. totalBond' \in Nat
    BY <1>1, SMT DEF Unbond, TotalChangedBy, RewardsInv
  <1> HIDE DEF e
  <1> QED
    BY <1>3, <1>4, <1>5, RewardsSaved

LEMMA WithdrawSaves ==
    ASSUME RewardsInv, NEW u \in Users, Withdraw(u)
    PROVE  /\ RewardsInv'
           /\ \E e : /\ Entry(e)
                     /\ info' = [info EXCEPT ![u] = e]
                     /\ e.pending = 0
           /\ earned' = [earned EXCEPT
                 ![u] = earned[u] + Settled(info[u], IndexAt(now)).pending]
  <1> DEFINE staker == Settled(info[u], IndexAt(now))
             e == PaidOff(staker)
  <1>1. staker \in Staker /\ staker.index = IndexAt(now) /\ staker.pending \in Nat
    BY SettledStaker DEF Staker
  <1>2. Entry(e) /\ e.pending = 0
    BY <1>1 DEF Entry, PaidOff, NoStake, Staker
  <1>3. /\ RewardsComputed /\ info' = [info EXCEPT ![u] = e]
        /\ schedule' = schedule /\ now' = now /\ totalBond' \in Nat
        /\ earned' = [earned EXCEPT ![u] = earned[u] + staker.pending]
    BY DEF Withdraw, config, RewardsInv
  <1>4. earned' \in [Users -> Nat]
    BY <1>1, <1>3, SMT DEF RewardsInv
  <1> HIDE DEF e
  <1> QED
    BY <1>2, <1>3, <1>4, RewardsSaved

(* A migration leaves the slots begun, over by now or cut off at now.       *)
LEMMA StoppedIs ==
    ASSUME schedule \in Seq(Slot), Len(schedule) <= MaxSlots
    PROVE  /\ HasBegun(1) /\ HasBegun(2)
                 => StoppedSchedule = <<Stopped(schedule[1]), Stopped(schedule[2])>>
           /\ HasBegun(1) /\ ~HasBegun(2) => StoppedSchedule = <<Stopped(schedule[1])>>
           /\ ~HasBegun(1) /\ HasBegun(2) => StoppedSchedule = <<Stopped(schedule[2])>>
           /\ ~HasBegun(1) /\ ~HasBegun(2) => StoppedSchedule = << >>
  <1>1. CASE HasBegun(1) /\ HasBegun(2)
    <2> DEFINE len == Len(schedule)
               a == Stopped(schedule[1])
               b == Stopped(schedule[2])
    <2>1. len = 2
      <3>1. 2 <= len
        BY <1>1 DEF HasBegun
      <3>2. len <= 2 /\ len \in Nat
        BY SMT DEF MaxSlots
      <3> HIDE DEF len
      <3> QED
        BY <3>1, <3>2, SMT
    <2>2. Begun = schedule
      BY <1>1 DEF Begun
    <2>3. DOMAIN schedule = 1 .. 2
      BY <2>1, SMT
    <2>4. StoppedSchedule = [i \in 1 .. 2 |-> Stopped(schedule[i])]
      BY <2>2, <2>3 DEF StoppedSchedule
    <2>5. StoppedSchedule[1] = a /\ StoppedSchedule[2] = b
      BY <2>4
    <2> HIDE DEF a, b
    <2>6. StoppedSchedule = [i \in 1 .. 2 |-> StoppedSchedule[i]]
      BY <2>4
    <2>7. StoppedSchedule = <<a, b>>
      BY <2>5, <2>6, SMT
    <2> QED
      BY <1>1, <2>7 DEF a, b
  <1>2. CASE HasBegun(1) /\ ~HasBegun(2)
    <2>1. Begun = <<schedule[1]>>
      BY <1>2, SMT DEF Begun, HasBegun
    <2> QED
      BY <1>2, <2>1, SMT DEF StoppedSchedule
  <1>3. CASE ~HasBegun(1) /\ HasBegun(2)
    <2>1. Begun = <<schedule[2]>>
      BY <1>3, SMT DEF Begun, HasBegun
    <2> QED
      BY <1>3, <2>1, SMT DEF StoppedSchedule
  <1>4. CASE ~HasBegun(1) /\ ~HasBegun(2)
    <2>1. Begun = << >>
      BY <1>4, SMT DEF Begun, HasBegun
    <2> QED
      BY <1>4, <2>1, SMT DEF StoppedSchedule
  <1> QED
    BY <1>1, <1>2, <1>3, <1>4

LEMMA StoppedSlot ==
    ASSUME NEW slot \in Slot, now \in Nat, slot.start < now,
           slot.end >= now => Rate(slot) \in Nat
    PROVE  Stopped(slot) \in Slot
  <1>1. CASE slot.end < now
    BY <1>1 DEF Stopped
  <1>2. CASE ~(slot.end < now)
    <2>1. /\ slot.start \in Nat /\ slot.end \in Nat /\ now - slot.start \in Nat
          /\ slot.end >= now
      BY <1>2, SMT DEF Slot
    <2>2. times(now - slot.start, Rate(slot)) \in Nat
      BY <2>1, TimesType
    <2> QED
      BY <1>2, <2>1, <2>2 DEF Stopped, Slot
  <1> QED
    BY <1>1, <1>2

(* Every slot a migration leaves is one that has begun, stopped.           *)
LEMMA StoppedSlots ==
    ASSUME schedule \in Seq(Slot), Len(schedule) <= MaxSlots,
           \A i \in {1, 2} : HasBegun(i) => Stopped(schedule[i]) \in Slot
    PROVE  /\ StoppedSchedule \in Seq(Slot)
           /\ Len(StoppedSchedule) <= MaxSlots
           /\ \A j \in DOMAIN StoppedSchedule : \E i \in {1, 2} :
                 HasBegun(i) /\ StoppedSchedule[j] = Stopped(schedule[i])
  <1> DEFINE a == Stopped(schedule[1])
             b == Stopped(schedule[2])
  <1>1. CASE HasBegun(1) /\ HasBegun(2)
    <2>1. a \in Slot /\ b \in Slot /\ StoppedSchedule = <<a, b>>
      BY <1>1, StoppedIs
    <2> HIDE DEF a, b
    <2>2. /\ <<a, b>> \in Seq(Slot) /\ Len(<<a, b>>) = 2
          /\ \A j \in DOMAIN <<a, b>> : <<a, b>>[j] = a \/ <<a, b>>[j] = b
      BY <2>1, SMT
    <2> QED
      BY <1>1, <2>1, <2>2, SMT DEF MaxSlots, a, b
  <1>2. CASE HasBegun(1) /\ ~HasBegun(2)
    <2>1. a \in Slot /\ StoppedSchedule = <<a>>
      BY <1>2, StoppedIs
    <2> HIDE DEF a
    <2>2. /\ <<a>> \in Seq(Slot) /\ Len(<<a>>) = 1
          /\ \A j \in DOMAIN <<a>> : <<a>>[j] = a
      BY <2>1, SMT
    <2> QED
      BY <1>2, <2>1, <2>2, SMT DEF MaxSlots, a
  <1>3. CASE ~HasBegun(1) /\ HasBegun(2)
    <2>1. b \in Slot /\ StoppedSchedule = <<b>>
      BY <1>3, StoppedIs
    <2> HIDE DEF b
    <2>2. /\ <<b>> \in Seq(Slot) /\ Len(<<b>>) = 1
          /\ \A j \in DOMAIN <<b>> : <<b>>[j] = b
      BY <2>1, SMT
    <2> QED
      BY <1>3, <2>1, <2>2, SMT DEF MaxSlots, b
  <1>4. CASE ~HasBegun(1) /\ ~HasBegun(2)
    <2>1. StoppedSchedule = << >>
      BY <1>4, StoppedIs
    <2> QED
      BY <2>1, SMT DEF MaxSlots
  <1> QED
    BY <1>1, <1>2, <1>3, <1>4

LEMMA MigrateSaves ==
    ASSUME RewardsInv, NEW u \in Users, MigrateStaking(u)
    PROVE  /\ RewardsInv'
           /\ lastDistributed' = now /\ rewardIndex' = IndexAt(now)
           /\ UNCHANGED <<now, totalBond, info, earned>>
  <1>1. /\ schedule' = StoppedSchedule
        /\ lastDistributed' = now /\ rewardIndex' = IndexAt(now)
        /\ UNCHANGED <<now, totalBond, info, earned>>
    BY DEF MigrateStaking
  <1>2. /\ IndexAt(now) \in Nat /\ \A v \in Users : info[v].index <= IndexAt(now)
    <2>1. IndexAt(now) \in Nat
      BY IndexGrows DEF RewardsInv
    <2> QED
      BY <2>1, SettledStaker
  <1>3. ASSUME NEW i \in {1, 2}, HasBegun(i)
        PROVE  Stopped(schedule[i]) \in Slot /\ ~Malformed(Stopped(schedule[i]))
    <2>1. schedule[i] \in Slot /\ ~Malformed(schedule[i]) /\ schedule[i].start < now
      BY <1>3, SlotIs, SMT DEF HasBegun
    <2> DEFINE slot == schedule[i]
    <2> HIDE DEF slot
    <2>2. slot \in Slot /\ ~Malformed(slot) /\ slot.start < now /\ now \in Nat
      BY <2>1 DEF slot, RewardsInv
    <2>3. Stopped(slot) \in Slot
      BY <2>2, RateType, StoppedSlot
    <2>4. ~Malformed(Stopped(slot))
      BY <2>2, SMT DEF Stopped, Malformed, Slot
    <2> QED
      BY <2>3, <2>4 DEF slot
  <1>4. /\ schedule' \in Seq(Slot) /\ Len(schedule') <= MaxSlots
        /\ \A j \in DOMAIN schedule' : ~Malformed(schedule'[j])
    BY <1>1, <1>3, StoppedSlots DEF RewardsInv
  <1>5. RewardsInv'
    BY <1>1, <1>2, <1>4, SMT DEF RewardsInv
  <1> QED
    BY <1>1, <1>5

LEMMA InvStart == ASSUME Init, WellFormed PROVE RewardsInv
  <1>1. PICK msg \in Instantiations : schedule = msg.schedule
    BY DEF Init
  <1>2. schedule \in Seq(Slot) /\ Len(schedule) <= MaxSlots
    BY <1>1, StakingAssumption
  <1>3. \A i \in DOMAIN schedule : ~Malformed(schedule[i])
    BY <1>1 DEF WellFormed
  <1> QED
    BY <1>2, <1>3 DEF Init, RewardsInv, NoStake, Staker

(* Redeem and the administrator's messages leave the rewards alone, but    *)
(* for an update of the schedule and a migration.                          *)
RewardsKept ==
    UNCHANGED <<schedule, lastDistributed, now, totalBond, rewardIndex, info, earned>>

LEMMA OthersKeep ==
    ASSUME (\E u \in Users : Redeem(u)) \/ AdminStep
    PROVE  \/ RewardsKept
           \/ \E u \in Users, new \in Schedules : UpdateConfig(u, new)
           \/ Migrating /\ \E u \in Users : MigrateStaking(u)
  BY SMT DEF AdminStep, Redeem, UpdateAdmin, UpdateTokenContract,
     UpdateLockDuration, RewardsKept, config, state

(* No distribution gets ahead of the time and no staker ahead of the       *)
(* index, whatever is bonded, withdrawn and updated.                       *)
LEMMA InvKept == ASSUME RewardsInv, WellFormed, [Next]_vars PROVE RewardsInv'
  <1>1. CASE RewardsKept
    BY <1>1 DEF RewardsKept, RewardsInv
  <1>2. ASSUME NEW u \in Users, NEW new \in Schedules, UpdateConfig(u, new)
        PROVE  RewardsInv'
    <2>1. new \in Seq(Slot) /\ Len(new) <= MaxSlots
      BY <1>2, StakingAssumption
    <2>2. \A i \in DOMAIN new : ~Malformed(new[i])
      BY <1>2 DEF WellFormed
    <2> QED
      BY <1>2, <2>1, <2>2 DEF UpdateConfig, state, RewardsInv
  <1>3. CASE NextBlock
    BY <1>3, SMT DEF NextBlock, config, state, RewardsInv
  <1>4. CASE StakerStep
    BY <1>1, <1>2, <1>4, BondSaves, UnbondSaves, WithdrawSaves, MigrateSaves, OthersKeep
       DEF StakerStep
  <1>5. CASE AdminStep
    BY <1>1, <1>2, <1>5, MigrateSaves, OthersKeep
  <1>6. CASE UNCHANGED vars
    BY <1>1, <1>6 DEF vars, RewardsKept
  <1> QED
    BY <1>3, <1>4, <1>5, <1>6 DEF Next

(* The inductive invariant holds.                                          *)
THEOREM RewardsInvariant == ASSUME WellFormed PROVE Spec => []RewardsInv
  <1>1. Init => RewardsInv
    BY InvStart
  <1>2. RewardsInv /\ [Next]_vars => RewardsInv'
    BY InvKept
  <1> QED
    BY <1>1, <1>2, PTL DEF Spec

(* Neither subtraction that Bond, Unbond and Withdraw run before anything  *)
(* else (contract.rs:540, 555) can fail, in any order of messages and      *)
(* updates: only an overflow can shut a staker out.                        *)
NothingUnderflows ==
    /\ \A i \in DOMAIN schedule : ~Skipped(schedule[i], now) => Passed(schedule[i], now) >= 0
    /\ \A u \in Users : Accrued(info[u], IndexAt(now)) >= 0

THEOREM NoUnderflow == ASSUME WellFormed PROVE Spec => []NothingUnderflows
  <1>1. ASSUME RewardsInv PROVE NothingUnderflows
    <2>1. ASSUME NEW i \in DOMAIN schedule, ~Skipped(schedule[i], now)
          PROVE  Passed(schedule[i], now) >= 0
      <3>1. schedule[i] \in Slot /\ ~Malformed(schedule[i])
        BY <1>1 DEF RewardsInv
      <3>2. now \in Nat /\ lastDistributed <= now
        BY <1>1 DEF RewardsInv
      <3>3. Passed(schedule[i], now) \in Nat
        BY <1>1, <2>1, <3>1, <3>2, SlotGrows
      <3> QED
        BY <3>3, SMT
    <2>2. ASSUME NEW u \in Users PROVE Accrued(info[u], IndexAt(now)) >= 0
      <3>1. Accrued(info[u], IndexAt(now)) \in Nat
        BY <1>1, SettledStaker
      <3> QED
        BY <3>1, SMT
    <2> QED
      BY <2>1, <2>2 DEF NothingUnderflows
  <1> QED
    BY <1>1, RewardsInvariant, PTL

-----------------------------------------------------------------------------
(* The stakers' claims, while the schedule is kept.                        *)

(* What is promised to u and what was paid to him.                         *)
Worth(u) == Claim(u, now) + earned[u]

(* When u's entry is saved by a distribution, nobody else's claim changes, *)
(* and u's is the pending reward that was saved.                           *)
LEMMA ClaimSaved ==
    ASSUME RewardsInv, RewardsInv', RewardsComputed, schedule' = schedule, now' = now,
           NEW u \in Users, NEW e, Entry(e), info' = [info EXCEPT ![u] = e],
           NEW v \in Users
    PROVE  Claim(v, now)' = IF v = u THEN e.pending ELSE Claim(v, now)
  <1>2. IndexAt(now)' = IndexAt(now) /\ IndexAt(now) \in Nat
    BY IndexSettled, SettledStaker DEF RewardsComputed
  <1>3. Claim(v, now)' = Settled(info'[v], IndexAt(now)).pending
    BY <1>2 DEF Claim, Settled, Accrued
  <1>4. CASE v = u
    <2>1. info'[v] = e /\ e \in Staker
      BY <1>4 DEF RewardsInv, Entry
    <2>2. CASE e.index = IndexAt(now)
      BY <1>3, <1>4, <2>1, <2>2, SettledTwice
    <2>3. CASE e = NoStake
      <3>1. times(0, IndexAt(now)) = 0 /\ times(0, 0) = 0
        BY <1>2, TimesZero
      <3> QED
        BY <1>3, <1>4, <2>1, <2>3, <3>1, SMT DEF Settled, Accrued, NoStake
    <2> QED
      BY <2>2, <2>3 DEF Entry
  <1>5. CASE v # u
    <2>1. info'[v] = info[v]
      BY <1>5 DEF RewardsInv
    <2> QED
      BY <1>3, <1>5, <2>1 DEF Claim
  <1> QED
    BY <1>4, <1>5

(* Within a block nobody's claim and payments change in sum.               *)
LEMMA WorthSame ==
    ASSUME RewardsInv, WellFormed, ScheduleKept, StakerStep \/ AdminStep,
           NEW v \in Users
    PROVE  Worth(v)' = Worth(v)
  <1>0. RewardsInv'
    BY InvKept DEF Next
  <1>1. CASE RewardsKept
    BY <1>1 DEF RewardsKept, Worth, Claim, Settled, Accrued, IndexAt, Distributed,
       SlotReward, Skipped, Passed
  <1>2. ASSUME NEW u \in Users, RewardsComputed, schedule' = schedule, now' = now,
               earned' = earned,
               \E e : /\ Entry(e)
                      /\ info' = [info EXCEPT ![u] = e]
                      /\ e.pending = Settled(info[u], IndexAt(now)).pending
        PROVE  Worth(v)' = Worth(v)
    <2>1. PICK e : /\ Entry(e)
                   /\ info' = [info EXCEPT ![u] = e]
                   /\ e.pending = Settled(info[u], IndexAt(now)).pending
      BY <1>2
    <2>2. Claim(v, now)' = IF v = u THEN e.pending ELSE Claim(v, now)
      BY <1>0, <1>2, <2>1, ClaimSaved
    <2>3. Claim(v, now)' = Claim(v, now)
      BY <2>1, <2>2 DEF Claim
    <2> QED
      BY <1>2, <2>3 DEF Worth
  <1>3. ASSUME NEW u \in Users, Withdraw(u) PROVE Worth(v)' = Worth(v)
    <2>1. /\ RewardsComputed /\ schedule' = schedule /\ now' = now
          /\ earned' = [earned EXCEPT
                ![u] = earned[u] + Settled(info[u], IndexAt(now)).pending]
      BY <1>3, WithdrawSaves DEF Withdraw, config
    <2>2. PICK e : Entry(e) /\ info' = [info EXCEPT ![u] = e] /\ e.pending = 0
      BY <1>3, WithdrawSaves
    <2>3. Claim(v, now)' = IF v = u THEN 0 ELSE Claim(v, now)
      BY <1>0, <2>1, <2>2, ClaimSaved
    <2>4. earned'[v] = IF v = u THEN earned[v] + Claim(v, now) ELSE earned[v]
      BY <2>1 DEF Claim, RewardsInv
    <2>5. earned[v] \in Nat /\ Claim(v, now) \in Nat
      BY SettledStaker DEF RewardsInv, Claim, Staker
    <2> QED
      BY <2>3, <2>4, <2>5, SMT DEF Worth
  <1>4. ASSUME NEW u \in Users, MigrateStaking(u) PROVE Worth(v)' = Worth(v)
    <2>1. /\ lastDistributed' = now /\ rewardIndex' = IndexAt(now)
          /\ UNCHANGED <<now, totalBond, info, earned>>
      BY <1>4, MigrateSaves
    <2>2. IndexAt(now)' = IndexAt(now)
      BY <1>0, <2>1, IndexSettled
    <2> QED
      BY <2>1, <2>2 DEF Worth, Claim, Settled, Accrued
  <1>5. CASE StakerStep
    <2>1. ASSUME NEW u \in Users, NEW amount \in Amounts, Bond(u, amount)
          PROVE  Worth(v)' = Worth(v)
      <3>1. RewardsComputed /\ schedule' = schedule /\ now' = now /\ earned' = earned
        BY <2>1 DEF Bond, config
      <3> QED
        BY <1>2, <2>1, <3>1, BondSaves
    <2>2. ASSUME NEW u \in Users, NEW amount \in UnbondAmounts, Unbond(u, amount)
          PROVE  Worth(v)' = Worth(v)
      <3>1. RewardsComputed /\ schedule' = schedule /\ now' = now /\ earned' = earned
        BY <2>2 DEF Unbond, config
      <3> QED
        BY <1>2, <2>2, <3>1, UnbondSaves
    <2>3. ASSUME NEW u \in Users, Redeem(u) PROVE Worth(v)' = Worth(v)
      BY <1>1, <1>4, <2>3, OthersKeep DEF ScheduleKept
    <2> QED
      BY <1>3, <1>5, <2>1, <2>2, <2>3 DEF StakerStep
  <1>6. CASE AdminStep
    BY <1>1, <1>6, <1>4, OthersKeep DEF ScheduleKept
  <1> QED
    BY <1>5, <1>6

(* Time alone never takes from a claim.                                    *)
LEMMA WorthGrows ==
    ASSUME RewardsInv, NextBlock, NEW v \in Users
    PROVE  Worth(v)' >= Worth(v)
  <1>1. /\ now' = now + 1 /\ earned' = earned /\ info' = info /\ now \in Nat
        /\ now' \in Nat /\ now <= now' /\ lastDistributed <= now
    BY SMT DEF NextBlock, RewardsInv
  <1>2. Claim(v, now)' = Settled(info[v], IndexAt(now')).pending
    BY <1>1 DEF NextBlock, config, state, Claim, Settled, Accrued, IndexAt, Distributed,
       SlotReward, Skipped, Passed
  <1>3. IndexAt(now) \in Nat /\ IndexAt(now) <= IndexAt(now')
    BY <1>1, IndexGrows
  <1>4. lastDistributed <= now' /\ IndexAt(now') \in Nat
    <2>1. lastDistributed <= now'
      BY <1>1, SMT DEF RewardsInv
    <2> QED
      BY <1>1, <2>1, IndexGrows
  <1>5. Claim(v, now) <= Settled(info[v], IndexAt(now')).pending
    BY <1>3, <1>4, SettledStaker, AccruedGrows DEF Claim
  <1>6. Settled(info[v], IndexAt(now')) \in Staker
    <2>1. info[v].index <= IndexAt(now')
      BY <1>3, <1>4, SettledStaker, SMT DEF Staker
    <2> QED
      BY <1>4, <2>1, SettledStaker, AccruedGrows
  <1>7. /\ Claim(v, now) \in Nat /\ Claim(v, now)' \in Nat /\ earned[v] \in Nat
        /\ Claim(v, now) <= Claim(v, now)' /\ earned'[v] = earned[v]
    BY <1>1, <1>2, <1>5, <1>6, SettledStaker DEF Claim, Staker, RewardsInv
  <1> HIDE DEF Worth
  <1> QED
    BY <1>7, SMT DEF Worth

(* A claim is never reduced but by paying it, by anybody's messages and by *)
(* whatever is rounded on the way.                                         *)
THEOREM ClaimsNeverShrink ==
    ASSUME WellFormed, ScheduleKept PROVE Spec => ClaimsKept
  <1>1. ASSUME RewardsInv, [Next]_vars
        PROVE  [\A u \in Users :
                  Claim(u, now)' + earned'[u] >= Claim(u, now) + earned[u]]_vars
    <2> SUFFICES ASSUME NEW u \in Users, Next PROVE Worth(u)' >= Worth(u)
      BY <1>1 DEF Worth
    <2>1. CASE StakerStep \/ AdminStep
      <3>1. Worth(u)' = Worth(u)
        BY <1>1, <2>1, WorthSame
      <3>2. Worth(u) \in Nat
        BY <1>1, SettledStaker, SMT DEF Worth, Claim, Staker, RewardsInv
      <3> QED
        BY <3>1, <3>2, SMT
    <2>2. CASE NextBlock
      BY <1>1, <2>2, WorthGrows
    <2> QED
      BY <2>1, <2>2 DEF Next
  <1> QED
    BY <1>1, RewardsInvariant, PTL DEF Spec, ClaimsKept

(* No transaction creates a claim: only time does.                         *)
THEOREM ClaimsNeedTime ==
    ASSUME WellFormed, ScheduleKept PROVE Spec => ClaimsOnlyFromTime
  <1>1. ASSUME RewardsInv, [Next]_vars
        PROVE  [now' = now =>
                  \A u \in Users :
                      Claim(u, now)' + earned'[u] <= Claim(u, now) + earned[u]]_vars
    <2> SUFFICES ASSUME NEW u \in Users, Next, now' = now PROVE Worth(u)' <= Worth(u)
      BY <1>1 DEF Worth
    <2>1. StakerStep \/ AdminStep
      BY <1>1, SMT DEF Next, NextBlock, RewardsInv
    <2>2. Worth(u)' = Worth(u)
      BY <1>1, <2>1, WorthSame
    <2>3. Worth(u) \in Nat
      BY <1>1, SettledStaker, SMT DEF Worth, Claim, Staker, RewardsInv
    <2> QED
      BY <2>2, <2>3, SMT
  <1> QED
    BY <1>1, RewardsInvariant, PTL DEF Spec, ClaimsOnlyFromTime

-----------------------------------------------------------------------------
(* The reward index and the release, while the schedule is kept and the    *)
(* staking is not migrated: a migration rounds what was released down.     *)

(* What the slots have released by time t; Released is that of now.        *)
ReleasedOf(slot, t) ==
    IF slot.start > t THEN 0 ELSE times(Earlier(slot.end, t) - slot.start, Rate(slot))
PartReleased(i, t) == IF i <= Len(schedule) THEN ReleasedOf(schedule[i], t) ELSE 0
ReleasedAt(t) == PartReleased(1, t) + PartReleased(2, t)

(* A slot distributes no more than it has released since the last          *)
(* distribution: what is rounded off is lost, not gained.                  *)
LEMMA SlotReleases ==
    ASSUME RewardsInv, NEW slot \in Slot, ~Malformed(slot)
    PROVE  /\ ReleasedOf(slot, lastDistributed) \in Nat
           /\ ReleasedOf(slot, now) \in Nat
           /\ SlotReward(slot, now) \in Nat
           /\ ReleasedOf(slot, lastDistributed) + SlotReward(slot, now)
                 <= ReleasedOf(slot, now)
  <1> DEFINE last == lastDistributed
             r == Rate(slot)
  <1>1. /\ slot.start \in Nat /\ slot.end \in Nat /\ slot.start < slot.end
        /\ last \in Nat /\ now \in Nat /\ last <= now /\ r \in Nat
    BY RateType, SMT DEF Slot, Malformed, RewardsInv
  <1>2. SlotReward(slot, now) \in Nat
    BY <1>1, SlotGrows
  <1>3. ASSUME NEW t \in Nat PROVE ReleasedOf(slot, t) \in Nat
    <2>1. CASE slot.start > t
      BY <2>1 DEF ReleasedOf
    <2>2. CASE ~(slot.start > t)
      <3>1. Earlier(slot.end, t) - slot.start \in Nat
        BY <1>1, <1>3, <2>2, SMT DEF Earlier
      <3> QED
        BY <1>1, <2>2, <3>1, TimesType DEF ReleasedOf
    <2> QED
      BY <2>1, <2>2
  <1>4. ReleasedOf(slot, last) \in Nat /\ ReleasedOf(slot, now) \in Nat
    BY <1>1, <1>3
  <1>5. CASE slot.start > now
    <2>1. slot.start > last
      BY <1>1, <1>5, SMT
    <2> QED
      BY <1>4, <1>5, <2>1, SMT DEF ReleasedOf, SlotReward, Skipped
  <1>6. CASE slot.start <= now /\ slot.end < last
    <2>1. Earlier(slot.end, last) = slot.end /\ Earlier(slot.end, now) = slot.end
          /\ ~(slot.start > now) /\ ~(slot.start > last)
      BY <1>1, <1>6, SMT DEF Earlier
    <2>2. ReleasedOf(slot, last) = ReleasedOf(slot, now)
      BY <2>1 DEF ReleasedOf
    <2>3. SlotReward(slot, now) = 0
      BY <1>6 DEF SlotReward, Skipped
    <2> QED
      BY <1>2, <1>4, <2>2, <2>3, SMT
  <1>7. CASE slot.start <= now /\ slot.end >= last
    <2>1. ~Skipped(slot, now) /\ SlotReward(slot, now) = times(Passed(slot, now), r)
      BY <1>1, <1>7, SMT DEF Skipped, SlotReward
    <2>2. CASE slot.start > last
      <3>1. ReleasedOf(slot, last) = 0 /\ Passed(slot, now) = Earlier(slot.end, now) - slot.start
        BY <1>1, <2>2, SMT DEF ReleasedOf, Passed, Later
      <3>2. ReleasedOf(slot, now) = SlotReward(slot, now)
        BY <1>1, <1>7, <2>1, <3>1, SMT DEF ReleasedOf
      <3> QED
        BY <1>2, <1>4, <3>1, <3>2, SMT
    <2>3. CASE slot.start <= last
      <3> DEFINE m == last - slot.start
                 n == Earlier(slot.end, now) - last
      <3>1. /\ m \in Nat /\ n \in Nat /\ m + n = Earlier(slot.end, now) - slot.start
            /\ Passed(slot, now) = n /\ Earlier(slot.end, last) - slot.start = m
            /\ ~(slot.start > last) /\ ~(slot.start > now)
        BY <1>1, <1>7, <2>3, SMT DEF Earlier, Later, Passed
      <3>2. /\ ReleasedOf(slot, last) = times(m, r)
            /\ ReleasedOf(slot, now) = times(m + n, r)
            /\ SlotReward(slot, now) = times(n, r)
        BY <2>1, <3>1 DEF ReleasedOf
      <3>3. times(m, r) + times(n, r) <= times(m + n, r)
        BY <1>1, <3>1, TimesSplit
      <3> QED
        BY <1>2, <1>4, <3>2, <3>3
    <2> QED
      BY <1>1, <2>2, <2>3, SMT
  <1> QED
    BY <1>1, <1>2, <1>4, <1>5, <1>6, <1>7, SMT

LEMMA PartReleases ==
    ASSUME RewardsInv, NEW i \in {1, 2}
    PROVE  /\ PartReleased(i, lastDistributed) \in Nat
           /\ PartReleased(i, now) \in Nat
           /\ Part(i, now) \in Nat
           /\ PartReleased(i, lastDistributed) + Part(i, now) <= PartReleased(i, now)
  <1>1. CASE i <= Len(schedule)
    <2>1. schedule[i] \in Slot /\ ~Malformed(schedule[i])
      BY <1>1, SlotIs, SMT
    <2> QED
      BY <1>1, <2>1, SlotReleases DEF Part, PartReleased
  <1>2. CASE ~(i <= Len(schedule))
    BY <1>2, SMT DEF Part, PartReleased
  <1> QED
    BY <1>1, <1>2

LEMMA Releases ==
    ASSUME RewardsInv
    PROVE  /\ ReleasedAt(lastDistributed) \in Nat
           /\ ReleasedAt(now) \in Nat
           /\ Distributed(now) \in Nat
           /\ ReleasedAt(lastDistributed) + Distributed(now) <= ReleasedAt(now)
  <1>1. Distributed(now) = Part(1, now) + Part(2, now)
    BY DEF Distributed, Part
  <1> QED
    BY <1>1, PartReleases, SMT DEF ReleasedAt

IndexInv == RewardsInv /\ rewardIndex <= ReleasedAt(lastDistributed) * DecOne

(* However small the total bond is that a distribution is divided by, the  *)
(* index gains no more than the release.                                   *)
LEMMA IndexBounded ==
    ASSUME IndexInv
    PROVE  IndexAt(now) <= ReleasedAt(now) * DecOne
  <1> DEFINE a == ReleasedAt(lastDistributed)
             b == ReleasedAt(now)
             n == Distributed(now)
  <1>1. a \in Nat /\ b \in Nat /\ n \in Nat /\ a + n <= b /\ DecOne \in Nat
    BY Releases, StakingAssumption, SMT DEF IndexInv
  <1>2. rewardIndex \in Nat /\ totalBond \in Nat /\ rewardIndex <= a * DecOne
    BY DEF IndexInv, RewardsInv
  <1> HIDE DEF a, b, n
  <1>3. /\ (a + n) * DecOne <= b * DecOne /\ (a + n) * DecOne = a * DecOne + n * DecOne
        /\ a * DecOne \in Nat /\ n * DecOne \in Nat /\ b * DecOne \in Nat
    <2>1. a + n \in Nat
      BY <1>1, SMT
    <2> QED
      BY <1>1, <2>1, MulMono, SMT
  <1>4. CASE totalBond = 0
    BY <1>2, <1>3, <1>4, SMT DEF IndexAt, b
  <1>5. CASE totalBond > 0
    <2>1. from_ratio(n, totalBond) \in Nat /\ from_ratio(n, totalBond) <= n * DecOne
      BY <1>1, <1>2, <1>5, RatioType
    <2>2. IndexAt(now) = rewardIndex + from_ratio(n, totalBond)
      BY <1>5, SMT DEF IndexAt, n
    <2> QED
      BY <1>2, <1>3, <2>1, <2>2, SMT DEF b
  <1> QED
    BY <1>2, <1>4, <1>5, SMT

LEMMA IndexInvKept ==
    ASSUME IndexInv, WellFormed, ScheduleKept, ~Migrating, [Next]_vars
    PROVE  IndexInv'
  <1>0. RewardsInv' /\ RewardsInv
    BY InvKept DEF IndexInv
  <1>1. ASSUME schedule' = schedule, lastDistributed' = lastDistributed,
               rewardIndex' = rewardIndex
        PROVE  IndexInv'
    BY <1>0, <1>1 DEF IndexInv, ReleasedAt, PartReleased
  <1>2. ASSUME RewardsComputed, schedule' = schedule
        PROVE  IndexInv'
    <2>1. lastDistributed' = now /\ rewardIndex' = IndexAt(now)
      BY <1>2 DEF RewardsComputed
    <2>2. ReleasedAt(lastDistributed)' = ReleasedAt(now)
      BY <1>2, <2>1 DEF ReleasedAt, PartReleased
    <2> QED
      BY <1>0, <2>1, <2>2, IndexBounded DEF IndexInv
  <1>3. CASE RewardsKept
    BY <1>1, <1>3 DEF RewardsKept
  <1>4. CASE StakerStep
    <2>1. ASSUME NEW u \in Users, NEW amount \in Amounts, Bond(u, amount)
          PROVE  IndexInv'
      BY <1>2, <2>1 DEF Bond, config
    <2>2. ASSUME NEW u \in Users, NEW amount \in UnbondAmounts, Unbond(u, amount)
          PROVE  IndexInv'
      BY <1>2, <2>2 DEF Unbond, config
    <2>3. ASSUME NEW u \in Users, Withdraw(u) PROVE IndexInv'
      BY <1>2, <2>3 DEF Withdraw, config
    <2> QED
      BY <1>3, <1>4, <2>1, <2>2, <2>3, OthersKeep DEF StakerStep, ScheduleKept
  <1>5. CASE AdminStep
    BY <1>3, <1>5, OthersKeep DEF ScheduleKept
  <1>6. CASE NextBlock \/ UNCHANGED vars
    BY <1>1, <1>6 DEF NextBlock, config, state, vars
  <1> QED
    BY <1>4, <1>5, <1>6 DEF Next

(* The reward index never outgrows what the schedule has released, whoever *)
(* bonds how little: a schedule that releases no more than                 *)
(* MaxUint / DecOne cannot overflow it (contract.rs:549).                  *)
THEOREM IndexStaysWithin ==
    ASSUME WellFormed, ScheduleKept, ~Migrating PROVE Spec => []IndexWithinRelease
  <1>1. ASSUME Init PROVE IndexInv
    <2>1. RewardsInv /\ rewardIndex = 0
      BY <1>1, InvStart DEF Init
    <2>2. ReleasedAt(lastDistributed) * DecOne \in Nat
      BY <2>1, Releases, StakingAssumption, SMT
    <2> QED
      BY <2>1, <2>2, SMT DEF IndexInv
  <1>2. IndexInv /\ [Next]_vars => IndexInv'
    BY IndexInvKept
  <1>3. Released = ReleasedAt(now)
    BY DEF Released, ReleasedAt, PartReleased, ReleasedOf
  <1>4. IndexInv => IndexWithinRelease
    BY <1>3, IndexBounded DEF IndexWithinRelease
  <1> QED
    BY <1>1, <1>2, <1>4, PTL DEF Spec
=============================================================================
