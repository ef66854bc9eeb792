------------------------ MODULE StakingTotalsProofs ------------------------
(***************************************************************************)
(* Theorems about Staking that relate the contract's totals to what its    *)
(* stakers have: bonds, positions, claims.  The sums are those of          *)
(* SumProofs.                                                              *)
(*                                                                         *)
(* TotalsInv, of the first part, needs no assumption on the schedules, the *)
(* amounts or the administrator: what a computation of rewards could not   *)
(* do, the guards of the transaction (compute_reward_ok, Settled_ok) say.  *)
(* Each later part states what its theorems assume of the constants.       *)
(***************************************************************************)
EXTENDS StakingProofs, SumProofs

LEMMA UsersFinite == IsFiniteSet(Users) /\ IsFiniteSet(Times)
  <1>1. IsFiniteSet(0 .. MaxTime)
    BY FS_Interval, StakingAssumption, SMT
  <1> QED
    BY <1>1, StakingAssumption DEF Times

LEMMA Accounts ==
    /\ Staking \in Account /\ Successor \in Account /\ Staking # Successor
    /\ \A u \in Users : u \in Account /\ u # Staking /\ u # Successor
  BY StakingAssumption DEF Account

(* The totals of two functions that agree but for u.                       *)
LEMMA TotalChange ==
    ASSUME NEW u \in Users
    PROVE  \A f, g :
              /\ \A v \in Users : f[v] \in Int /\ g[v] \in Int
              /\ \A v \in Users \ {u} : g[v] = f[v]
              => Total(g) = Total(f) + (g[u] - f[u])
  BY SumChange, UsersFinite DEF Total

LEMMA TotalType ==
    ASSUME NEW f, \A u \in Users : f[u] \in Nat
    PROVE  /\ Total(f) \in Nat
           /\ \A u \in Users : f[u] <= Total(f)
  BY SumNat, SumMember, UsersFinite DEF Total

(* What a position owes at any times.                                      *)
LEMMA PositionsType ==
    ASSUME NEW f, \A t \in Times : f[t] \in Nat, NEW D \in SUBSET Times
    PROVE  /\ SumFunctionOnSet(f, D) \in Nat
           /\ SumFunctionOnSet(f, D) <= SumFunctionOnSet(f, Times)
           /\ SumFunctionOnSet(f, Times) \in Nat
  BY SumPart, SumNat, UsersFinite

-----------------------------------------------------------------------------
(* What a transaction does to the rewards and to the tokens.               *)

(* What a computation of the rewards at now hands out.                     *)
Handed == IF totalBond = 0 THEN 0 ELSE Distributed(now)

(* No more is added to the index than is handed out.                       *)
LEMMA IndexAdds ==
    ASSUME TypeOK, Handed \in Nat
    PROVE  /\ IndexAt(now) \in Nat
           /\ rewardIndex <= IndexAt(now)
           /\ totalBond * IndexAt(now) <= totalBond * rewardIndex + DecOne * Handed
  <1>1. totalBond \in Nat /\ rewardIndex \in Nat /\ DecOne \in Nat
    BY StakingAssumption, SMT DEF TypeOK
  <1>2. CASE totalBond = 0
    BY <1>1, <1>2, SMT DEF Handed, IndexAt
  <1>3. CASE totalBond > 0
    <2> DEFINE n == Distributed(now)
               q == from_ratio(n, totalBond)
    <2>1. n \in Nat /\ Handed = n /\ IndexAt(now) = rewardIndex + q
      BY <1>1, <1>3, SMT DEF Handed, IndexAt
    <2> HIDE DEF n
    <2>2. n * DecOne \in Nat /\ n * DecOne = DecOne * n
      BY <1>1, <2>1, SMT
    <2>3. q \in Nat /\ totalBond * q <= n * DecOne
      BY <1>1, <1>3, <2>2, DivFloor DEF from_ratio
    <2> HIDE DEF q
    <2>4. totalBond * (rewardIndex + q) = totalBond * rewardIndex + totalBond * q
      BY <1>1, <2>3, SMT
    <2>5. totalBond * rewardIndex \in Nat /\ totalBond * q \in Nat
      BY <1>1, <2>3, SMT
    <2> QED
      BY <1>1, <2>1, <2>2, <2>3, <2>4, <2>5, SMT
  <1> QED
    BY <1>1, <1>2, <1>3, SMT

(* A reward computation that succeeds hands out a number of tokens.        *)
LEMMA HandedOut ==
    ASSUME TypeOK, compute_reward_ok(now)
    PROVE  /\ Handed \in Nat
           /\ IndexAt(now) \in Nat
           /\ rewardIndex <= IndexAt(now)
           /\ totalBond * IndexAt(now) <= totalBond * rewardIndex + DecOne * Handed
  <1>1. /\ totalBond \in Nat /\ rewardIndex \in Nat /\ DecOne \in Nat
        /\ schedule \in Seq(Slot) /\ lastDistributed \in Nat /\ now \in Nat
    BY StakingAssumption, SMT DEF TypeOK, Times
  <1>2. CASE totalBond = 0
    BY <1>2, IndexAdds, SMT DEF Handed
  <1>3. CASE totalBond > 0
    <2>1. ASSUME NEW i \in {1, 2} PROVE Part(i, now) \in Nat
      <3>1. CASE i <= Len(schedule)
        <4> DEFINE slot == schedule[i]
        <4>1. i \in DOMAIN schedule /\ slot \in Slot
          BY <1>1, <3>1, SMT
        <4>2. ~Skipped(slot, now) => Rate_ok(slot) /\ Passed(slot, now) >= 0
          BY <1>3, <4>1 DEF compute_reward_ok
        <4> HIDE DEF slot
        <4>3. CASE Skipped(slot, now)
          BY <3>1, <4>3 DEF Part, SlotReward, slot
        <4>4. CASE ~Skipped(slot, now)
          <5>1. ~Malformed(slot)
            BY <4>1, <4>2, <4>4, SMT DEF Rate_ok, Malformed, Slot
          <5>2. Passed(slot, now) \in Nat
            <6>1. slot.start \in Nat /\ slot.end \in Nat
              BY <4>1 DEF Slot
            <6>2. Passed(slot, now) \in Int
              BY <1>1, <6>1, SMT DEF Passed, Earlier, Later
            <6> QED
              BY <4>2, <4>4, <6>2, SMT
          <5>3. SlotReward(slot, now) \in Nat
            BY <4>1, <4>4, <5>1, <5>2, RateType, TimesType DEF SlotReward
          <5> QED
            BY <3>1, <5>3 DEF Part, slot
        <4> QED
          BY <4>3, <4>4
      <3>2. CASE ~(i <= Len(schedule))
        BY <3>2 DEF Part
      <3> QED
        BY <3>1, <3>2
    <2>2. Distributed(now) = Part(1, now) + Part(2, now)
      BY DEF Distributed, Part
    <2>3. Handed \in Nat
      BY <1>3, <2>1, <2>2, SMT DEF Handed
    <2> QED
      BY <2>3, IndexAdds
  <1> QED
    BY <1>1, <1>2, <1>3, SMT

(* A transaction that settles u's entry and leaves e of it.                *)
Settles(u, e) ==
    /\ compute_reward_ok(now)
    /\ Accrued(info[u], IndexAt(now)) >= 0
    /\ Entry(e)
    /\ info' = [info EXCEPT ![u] = e]
    /\ earned' \in [Users -> Nat]
    /\ earned' = [earned EXCEPT
          ![u] = earned[u] + (Settled(info[u], IndexAt(now)).pending - e.pending)]
    /\ totalBond' \in Nat
    /\ totalBond' = totalBond + (e.bond - info[u].bond)
    /\ lastDistributed' = now
    /\ rewardIndex' = IndexAt(now)
    /\ UNCHANGED <<lpToken, rewardToken, schedule, admin, lockDuration, now>>

LEMMA SettledEntry ==
    ASSUME TypeOK, NEW u \in Users, compute_reward_ok(now), Settled_ok(info[u], IndexAt(now))
    PROVE  /\ info[u] \in Staker
           /\ IndexAt(now) \in Nat
           /\ Settled(info[u], IndexAt(now)) \in Staker
           /\ Settled(info[u], IndexAt(now)).index = IndexAt(now)
           /\ Settled(info[u], IndexAt(now)).bond = info[u].bond
           /\ earned[u] \in Nat /\ totalBond \in Nat
  <1>1. /\ info[u] \in Staker /\ IndexAt(now) \in Nat /\ earned[u] \in Nat
        /\ totalBond \in Nat
    BY HandedOut DEF TypeOK, Staker
  <1>2. /\ info[u].bond \in Nat /\ info[u].index \in Nat /\ info[u].pending \in Nat
    BY <1>1 DEF Staker
  <1>3. times(info[u].bond, IndexAt(now)) \in Nat /\ times(info[u].bond, info[u].index) \in Nat
    BY <1>1, <1>2, TimesType
  <1>4. Accrued(info[u], IndexAt(now)) \in Nat
    BY <1>3, SMT DEF Accrued, Settled_ok
  <1>5. info[u].pending + Accrued(info[u], IndexAt(now)) \in Nat
    BY <1>2, <1>4, SMT
  <1> QED
    BY <1>1, <1>2, <1>5 DEF Settled, Staker

LEMMA BondSettles ==
    ASSUME TypeOK, NEW u \in Users, NEW amount \in Nat, Bond(u, amount)
    PROVE  \E e : Settles(u, e) /\ e.bond = info[u].bond + amount
  <1> DEFINE staker == Settled(info[u], IndexAt(now))
             e == [staker EXCEPT !.bond = staker.bond + amount]
  <1>1. /\ compute_reward_ok(now) /\ Settled_ok(info[u], IndexAt(now))
        /\ lastDistributed' = now /\ rewardIndex' = IndexAt(now)
        /\ totalBond' = totalBond + amount /\ info' = [info EXCEPT ![u] = e]
        /\ UNCHANGED <<lpToken, rewardToken, schedule, admin, lockDuration, earned, now>>
    BY DEF Bond, RewardsComputed, TotalChangedBy, config
  <1>2. /\ staker \in Staker /\ staker.index = IndexAt(now) /\ staker.bond = info[u].bond
        /\ earned[u] \in Nat /\ totalBond \in Nat
    BY <1>1, SettledEntry
  <1>3. /\ e \in Staker /\ e.index = IndexAt(now) /\ e.pending = staker.pending
        /\ e.bond = staker.bond + amount
    BY <1>2, SMT DEF Staker
  <1> HIDE DEF staker, e
  <1>4. /\ staker.pending \in Nat /\ staker.bond \in Nat
        /\ totalBond + amount = totalBond + (e.bond - info[u].bond)
        /\ totalBond + amount \in Nat
        /\ earned[u] + (staker.pending - e.pending) = earned[u]
    BY <1>2, <1>3, SMT DEF Staker
  <1>5. /\ earned' \in [Users -> Nat]
        /\ earned' = [earned EXCEPT ![u] = earned[u] + (staker.pending - e.pending)]
    BY <1>1, <1>4 DEF TypeOK
  <1>6. Settles(u, e)
    BY <1>1, <1>3, <1>4, <1>5 DEF Settles, Entry, Settled_ok, staker
  <1> QED
    BY <1>2, <1>3, <1>6

LEMMA UnbondSettles ==
    ASSUME TypeOK, NEW u \in Users, NEW amount \in Nat, Unbond(u, amount)
    PROVE  \E e : /\ Settles(u, e)
                  /\ amount <= info[u].bond /\ e.bond = info[u].bond - amount
  <1> DEFINE staker == Settled(info[u], IndexAt(now))
             e == Unbonded(staker, amount)
  <1>1. /\ compute_reward_ok(now) /\ Settled_ok(info[u], IndexAt(now))
        /\ lastDistributed' = now /\ rewardIndex' = IndexAt(now)
        /\ totalBond' = totalBond + (-amount) /\ info' = [info EXCEPT ![u] = e]
        /\ UNCHANGED <<lpToken, rewardToken, schedule, admin, lockDuration, earned, now>>
    BY DEF Unbond, RewardsComputed, TotalChangedBy, config
  <1>2. /\ staker \in Staker /\ staker.index = IndexAt(now) /\ staker.bond = info[u].bond
        /\ earned[u] \in Nat /\ totalBond \in Nat /\ info[u] \in Staker
    BY <1>1, SettledEntry
  <1>3. amount <= info[u].bond /\ amount <= totalBond
    <2>1. info[u].bond \in Nat
      BY <1>2 DEF Staker
    <2> QED
      BY <1>2, <2>1, SMT DEF Unbond
  <1> HIDE DEF staker
  <1>4. /\ Entry(e) /\ e.pending = staker.pending /\ e.bond = staker.bond - amount
    <2>1. CASE staker.bond = amount /\ staker.pending = 0
      BY <1>2, <2>1, SMT DEF Entry, Unbonded, NoStake, Staker
    <2>2. CASE ~(staker.bond = amount /\ staker.pending = 0)
      <3>1. e = [staker EXCEPT !.bond = staker.bond - amount]
        BY <2>2 DEF Unbonded
      <3>2. staker.bond - amount \in Nat
        BY <1>2, <1>3, SMT DEF Staker
      <3>3. e \in Staker /\ e.index = IndexAt(now) /\ e.pending = staker.pending
            /\ e.bond = staker.bond - amount
        BY <1>2, <3>1, <3>2 DEF Staker
      <3> QED
        BY <3>3 DEF Entry
    <2> QED
      BY <2>1, <2>2
  <1> HIDE DEF e
  <1>5. /\ staker.pending \in Nat /\ staker.bond \in Nat
        /\ totalBond + (-amount) = totalBond + (e.bond - info[u].bond)
        /\ totalBond + (-amount) \in Nat
        /\ earned[u] + (staker.pending - e.pending) = earned[u]
    BY <1>2, <1>3, <1>4, SMT DEF Staker
  <1>6. /\ earned' \in [Users -> Nat]
        /\ earned' = [earned EXCEPT ![u] = earned[u] + (staker.pending - e.pending)]
    BY <1>1, <1>5 DEF TypeOK
  <1>7. Settles(u, e)
    BY <1>1, <1>4, <1>5, <1>6 DEF Settles, Settled_ok, staker
  <1> QED
    BY <1>2, <1>3, <1>4, <1>7

LEMMA WithdrawSettles ==
    ASSUME TypeOK, NEW u \in Users, Withdraw(u)
    PROVE  \E e : /\ Settles(u, e)
                  /\ e.bond = info[u].bond /\ e.pending = 0
  <1> DEFINE staker == Settled(info[u], IndexAt(now))
             e == PaidOff(staker)
  <1>1. /\ compute_reward_ok(now) /\ Settled_ok(info[u], IndexAt(now))
        /\ lastDistributed' = now /\ rewardIndex' = IndexAt(now)
        /\ totalBond' = totalBond /\ info' = [info EXCEPT ![u] = e]
        /\ earned' = [earned EXCEPT ![u] = earned[u] + staker.pending]
        /\ UNCHANGED <<lpToken, rewardToken, schedule, admin, lockDuration, now>>
    BY DEF Withdraw, RewardsComputed, config
  <1>2. /\ staker \in Staker /\ staker.index = IndexAt(now) /\ staker.bond = info[u].bond
        /\ earned[u] \in Nat /\ totalBond \in Nat
    BY <1>1, SettledEntry
  <1> HIDE DEF staker
  <1>3. Entry(e) /\ e.pending = 0 /\ e.bond = staker.bond
    <2>1. CASE staker.bond = 0
      BY <2>1, SMT DEF Entry, PaidOff, NoStake, Staker
    <2>2. CASE staker.bond # 0
      BY <1>2, <2>2 DEF Entry, PaidOff, Staker
    <2> QED
      BY <2>1, <2>2
  <1> HIDE DEF e
  <1>4. /\ staker.pending \in Nat /\ staker.bond \in Nat
        /\ totalBond = totalBond + (e.bond - info[u].bond)
        /\ earned[u] + (staker.pending - e.pending) = earned[u] + staker.pending
        /\ earned[u] + staker.pending \in Nat
    BY <1>2, <1>3, SMT DEF Staker
  <1>5. /\ earned' \in [Users -> Nat]
        /\ earned' = [earned EXCEPT ![u] = earned[u] + (staker.pending - e.pending)]
    BY <1>1, <1>4 DEF TypeOK
  <1>6. Settles(u, e)
    BY <1>1, <1>2, <1>3, <1>4, <1>5 DEF Settles, Settled_ok, staker
  <1> QED
    BY <1>2, <1>3, <1>6

(* A transfer between two accounts.                                        *)
LEMMA SendIs ==
    ASSUME TypeOK, NEW t \in Tokens, NEW from \in Account, NEW to \in Account, from # to,
           NEW n \in Nat, n <= bal[t][from]
    PROVE  /\ Send(t, from, to, n) \in [Tokens -> [Account -> Nat]]
           /\ \A s \in Tokens, a \in Account :
                 s # t \/ a \notin {from, to} => Send(t, from, to, n)[s][a] = bal[s][a]
           /\ Send(t, from, to, n)[t][from] = bal[t][from] - n
           /\ Send(t, from, to, n)[t][to] = bal[t][to] + n
  <1> DEFINE f == bal[t]
             taken == [f EXCEPT ![from] = f[from] - n]
             given == [taken EXCEPT ![to] = taken[to] + n]
  <1>1. bal \in [Tokens -> [Account -> Nat]] /\ f \in [Account -> Nat]
    BY DEF TypeOK
  <1>2. f[from] - n \in Nat /\ f[to] + n \in Nat
    BY <1>1, SMT
  <1>3. /\ taken \in [Account -> Nat] /\ taken[to] = f[to] /\ taken[from] = f[from] - n
        /\ \A a \in Account \ {from} : taken[a] = f[a]
    BY <1>1, <1>2
  <1> HIDE DEF taken
  <1>4. /\ given \in [Account -> Nat] /\ given[to] = f[to] + n /\ given[from] = f[from] - n
        /\ \A a \in Account \ {from, to} : given[a] = f[a]
    BY <1>2, <1>3
  <1>5. Send(t, from, to, n) = [bal EXCEPT ![t] = given]
    BY DEF Send, taken
  <1> HIDE DEF given
  <1>6. /\ [bal EXCEPT ![t] = given] \in [Tokens -> [Account -> Nat]]
        /\ [bal EXCEPT ![t] = given][t] = given
        /\ \A s \in Tokens : s # t => [bal EXCEPT ![t] = given][s] = bal[s]
    BY <1>1, <1>4
  <1> QED
    BY <1>4, <1>5, <1>6

(* A position saved, in place of any other of the same block.              *)
LEMMA PositionSaved ==
    ASSUME TypeOK, NEW u \in Users, NEW amount \in Nat,
           unbonding' = [unbonding EXCEPT ![u] = [unbonding[u] EXCEPT ![now] = amount]]
    PROVE  /\ unbonding' \in [Users -> [Times -> Nat]]
           /\ UnbondingOf(u) \in Nat /\ UnbondingOf(u)' \in Nat
           /\ UnbondingOf(u)' <= UnbondingOf(u) + amount
           /\ \A v \in Users \ {u} : UnbondingOf(v)' = UnbondingOf(v)
  <1> DEFINE f == unbonding[u]
             g == [f EXCEPT ![now] = amount]
  <1>1. unbonding \in [Users -> [Times -> Nat]] /\ f \in [Times -> Nat] /\ now \in Times
    BY DEF TypeOK
  <1>2. /\ g \in [Times -> Nat] /\ g[now] = amount /\ f[now] \in Nat
        /\ \A t \in Times \ {now} : g[t] = f[t]
    BY <1>1
  <1>3. /\ unbonding' \in [Users -> [Times -> Nat]] /\ unbonding'[u] = g
        /\ \A v \in Users \ {u} : unbonding'[v] = unbonding[v]
    BY <1>1, <1>2
  <1> HIDE DEF f, g
  <1>4. \A t \in Times : f[t] \in Nat /\ g[t] \in Nat /\ f[t] \in Int /\ g[t] \in Int
    BY <1>1, <1>2, SMT
  <1>5. SumFunctionOnSet(g, Times) = SumFunctionOnSet(f, Times) + (g[now] - f[now])
    BY ONLY <1>1, <1>2, <1>4, SumChange, UsersFinite
  <1>6. SumFunctionOnSet(g, Times) \in Nat /\ SumFunctionOnSet(f, Times) \in Nat
    BY <1>4, SumNat, UsersFinite
  <1>7. SumFunctionOnSet(g, Times) <= SumFunctionOnSet(f, Times) + amount
    BY <1>2, <1>5, <1>6, SMT
  <1> QED
    BY <1>3, <1>6, <1>7 DEF UnbondingOf, f

(* Redeem takes out of u's positions what it pays.                         *)
LEMMA PositionsRedeemed ==
    ASSUME TypeOK, NEW u \in Users,
           unbonding' = [unbonding EXCEPT ![u] =
                            [t \in Times |-> IF Matured(t) THEN 0 ELSE unbonding[u][t]]]
    PROVE  /\ unbonding' \in [Users -> [Times -> Nat]]
           /\ Due(u) \in Nat /\ UnbondingOf(u) \in Nat /\ UnbondingOf(u)' \in Nat
           /\ UnbondingOf(u)' = UnbondingOf(u) - Due(u)
           /\ \A v \in Users \ {u} : UnbondingOf(v)' = UnbondingOf(v)
  <1> DEFINE f == unbonding[u]
             g == [t \in Times |-> IF Matured(t) THEN 0 ELSE f[t]]
             P == {t \in Times : Matured(t)}
             Q == Times \ P
             Sum(h, D) == SumFunctionOnSet(h, D)
  <1>1. unbonding \in [Users -> [Times -> Nat]] /\ f \in [Times -> Nat]
    BY DEF TypeOK
  <1>2. /\ g \in [Times -> Nat]
        /\ \A t \in P : g[t] = 0
        /\ \A t \in Q : g[t] = f[t] /\ f[t] \in Int
    BY <1>1
  <1>3. /\ unbonding' \in [Users -> [Times -> Nat]] /\ unbonding'[u] = g
        /\ \A v \in Users \ {u} : unbonding'[v] = unbonding[v]
    BY <1>1, <1>2
  <1>4. /\ IsFiniteSet(P) /\ IsFiniteSet(Q) /\ IsFiniteSet(Times)
        /\ P \in SUBSET Times /\ Q \in SUBSET Times
    BY UsersFinite, FS_Subset
  <1> HIDE DEF f, g, P, Sum
  <1>5. \A t \in Times : f[t] \in Nat /\ g[t] \in Nat /\ f[t] \in Int /\ g[t] \in Int
    BY <1>1, <1>2, SMT
  <1>6. Sum(f, Times) = Sum(f, P) + Sum(f, Q) /\ Sum(g, Times) = Sum(g, P) + Sum(g, Q)
    BY <1>4, <1>5, SumSplit DEF Sum
  <1>7. Sum(g, P) = 0
    BY <1>2, <1>4, SumZero DEF Sum
  <1>8. Sum(f, Q) = Sum(g, Q)
    BY <1>2, <1>4, SumSame DEF Sum
  <1>9. /\ Sum(f, P) \in Nat /\ Sum(f, Q) \in Nat /\ Sum(f, Times) \in Nat
        /\ Sum(g, Times) \in Nat
    <2>1. \A t \in Times : f[t] \in Nat
      BY <1>5
    <2>2. \A t \in Times : g[t] \in Nat
      BY <1>5
    <2> QED
      BY ONLY <1>4, <2>1, <2>2, PositionsType DEF Sum
  <1>10. Sum(g, Times) = Sum(f, Times) - Sum(f, P)
    BY <1>6, <1>7, <1>8, <1>9, SMT
  <1> QED
    BY <1>3, <1>9, <1>10 DEF UnbondingOf, Due, Sum, f, P

-----------------------------------------------------------------------------
(* Types and the total bond, whatever the administrator does.              *)

(* The inductive invariant.                                                *)
TotalsInv ==
    /\ TypeOK
    /\ BondsAddUp
    /\ lastDistributed <= now
    /\ changes <= MaxChanges
    /\ \A u \in Users : info[u].index <= rewardIndex

LEMMA SettlesKeeps ==
    ASSUME TotalsInv, NEW u \in Users, NEW e, Settles(u, e),
           bal' \in [Tokens -> [Account -> Nat]],
           unbonding' \in [Users -> [Times -> Nat]],
           changes' \in Nat, changes' <= MaxChanges
    PROVE  TotalsInv'
  <1>1. /\ IndexAt(now) \in Nat /\ rewardIndex <= IndexAt(now) /\ now \in Nat
        /\ rewardIndex \in Nat
    BY HandedOut, SMT DEF TotalsInv, TypeOK, Times, Settles
  <1>2. /\ info \in [Users -> Staker] /\ e \in Staker /\ e.bond \in Int
        /\ info' \in [Users -> Staker] /\ info'[u] = e
        /\ \A v \in Users \ {u} : info'[v] = info[v]
    <2>1. info \in [Users -> Staker] /\ e \in Staker /\ info' = [info EXCEPT ![u] = e]
      BY DEF TotalsInv, TypeOK, Settles, Entry, Staker
    <2>2. e.bond \in Int
      BY <2>1, SMT DEF Staker
    <2> QED
      BY <2>1, <2>2
  <1>3. ASSUME NEW v \in Users PROVE info'[v].index <= rewardIndex'
    <2>1. CASE v = u
      <3>1. CASE e = NoStake
        BY <1>1, <1>2, <2>1, <3>1, SMT DEF NoStake, Settles
      <3>2. CASE e.index = IndexAt(now)
        BY <1>1, <1>2, <2>1, <3>2, SMT DEF Settles
      <3> QED
        BY <3>1, <3>2 DEF Settles, Entry
    <2>2. CASE v # u
      <3>1. info'[v].index = info[v].index /\ info[v].index <= rewardIndex
            /\ info[v].index \in Nat
        BY <1>2, <2>2 DEF TotalsInv, Staker
      <3> QED
        BY <1>1, <3>1, SMT DEF Settles
    <2> QED
      BY <2>1, <2>2
  <1>4. BondsAddUp'
    <2> DEFINE f == [v \in Users |-> info[v].bond]
               g == [v \in Users |-> info'[v].bond]
    <2>1. /\ \A v \in Users : f[v] \in Int /\ g[v] \in Int /\ f[v] \in Nat
          /\ \A v \in Users \ {u} : g[v] = f[v]
          /\ f[u] = info[u].bond /\ g[u] = e.bond
      BY <1>2, SMT DEF Staker
    <2>2. Bonds = Total(f) /\ Bonds' = Total(g)
      BY DEF Bonds
    <2> HIDE DEF f, g
    <2>3. Total(g) = Total(f) + (g[u] - f[u])
      BY ONLY <2>1, TotalChange, u \in Users
    <2> QED
      BY <2>1, <2>2, <2>3 DEF BondsAddUp, TotalsInv, Settles
  <1>5. TypeOK'
    BY <1>1, <1>2 DEF TotalsInv, TypeOK, Settles, Staker, Times
  <1> QED
    BY <1>1, <1>3, <1>4, <1>5, SMT DEF TotalsInv, Settles

(* The tokens of each transaction.                                         *)
LEMMA BondPays ==
    ASSUME TypeOK, NEW u \in Users, NEW amount \in Nat, Bond(u, amount)
    PROVE  /\ bal' \in [Tokens -> [Account -> Nat]]
           /\ bal'[lpToken][Staking] = bal[lpToken][Staking] + amount
           /\ bal'[lpToken][u] = bal[lpToken][u] - amount /\ amount > 0
           /\ \A t \in Tokens, a \in Account :
                 t # lpToken \/ a \notin {u, Staking} => bal'[t][a] = bal[t][a]
           /\ unbonding' = unbonding /\ changes < MaxChanges /\ changes' = changes + 1
  <1>1. /\ lpToken \in Tokens /\ u \in Account /\ Staking \in Account /\ u # Staking
        /\ amount > 0 /\ amount <= bal[lpToken][u] /\ bal' = Send(lpToken, u, Staking, amount)
    <2>1. bal[lpToken][u] \in Nat
      BY Accounts DEF TypeOK
    <2> QED
      BY <2>1, Accounts, SMT DEF TypeOK, Bond, Send_ok
  <1>2. unbonding' = unbonding /\ changes < MaxChanges /\ changes' = changes + 1
    BY DEF Bond, Changing
  <1> QED
    BY <1>1, <1>2, SendIs

LEMMA UnbondPays ==
    ASSUME TypeOK, NEW u \in Users, NEW amount \in Nat, Unbond(u, amount)
    PROVE  /\ bal' = bal
           /\ unbonding' = [unbonding EXCEPT ![u] = [unbonding[u] EXCEPT ![now] = amount]]
           /\ changes < MaxChanges /\ changes' = changes + 1
  BY DEF Unbond, Changing

LEMMA RedeemPays ==
    ASSUME TypeOK, NEW u \in Users, Redeem(u)
    PROVE  /\ bal' \in [Tokens -> [Account -> Nat]]
           /\ Due(u) \in Nat /\ Due(u) > 0
           /\ bal'[lpToken][Staking] = bal[lpToken][Staking] - Due(u)
           /\ bal'[lpToken][u] = bal[lpToken][u] + Due(u)
           /\ \A t \in Tokens, a \in Account :
                 t # lpToken \/ a \notin {u, Staking} => bal'[t][a] = bal[t][a]
           /\ unbonding' = [unbonding EXCEPT ![u] =
                               [t \in Times |-> IF Matured(t) THEN 0 ELSE unbonding[u][t]]]
           /\ UNCHANGED <<config, state, info, earned, now, changes>>
  <1>1. /\ unbonding' = [unbonding EXCEPT ![u] =
                            [t \in Times |-> IF Matured(t) THEN 0 ELSE unbonding[u][t]]]
        /\ UNCHANGED <<config, state, info, earned, now, changes>>
    BY DEF Redeem
  <1>2. Due(u) \in Nat
    BY <1>1, PositionsRedeemed
  <1>3. /\ lpToken \in Tokens /\ u \in Account /\ Staking \in Account /\ u # Staking
        /\ Due(u) > 0 /\ Due(u) <= bal[lpToken][Staking]
        /\ bal' = Send(lpToken, Staking, u, Due(u))
    <2>1. bal[lpToken][Staking] \in Nat
      BY Accounts DEF TypeOK
    <2> QED
      BY <1>2, <2>1, Accounts, SMT DEF TypeOK, Redeem, Send_ok
  <1> QED
    BY <1>1, <1>2, <1>3, SendIs

LEMMA WithdrawPays ==
    ASSUME TypeOK, NEW u \in Users, Withdraw(u)
    PROVE  LET paid == Settled(info[u], IndexAt(now)).pending
           IN  /\ bal' \in [Tokens -> [Account -> Nat]]
               /\ paid \in Nat
               /\ bal'[rewardToken][Staking] = bal[rewardToken][Staking] - paid
               /\ \A t \in Tokens, a \in Account :
                     t # rewardToken \/ a \notin {u, Staking} => bal'[t][a] = bal[t][a]
               /\ UNCHANGED <<unbonding, changes>>
  <1> DEFINE paid == Settled(info[u], IndexAt(now)).pending
  <1>1. paid \in Nat
    <2>1. compute_reward_ok(now) /\ Settled_ok(info[u], IndexAt(now))
      BY DEF Withdraw, RewardsComputed
    <2> QED
      BY <2>1, SettledEntry DEF Staker
  <1>2. UNCHANGED <<unbonding, changes>>
    BY DEF Withdraw
  <1>3. /\ rewardToken \in Tokens /\ u \in Account /\ Staking \in Account /\ u # Staking
        /\ paid <= bal[rewardToken][Staking]
        /\ bal' = Send(rewardToken, Staking, u, paid)
    <2>1. bal[rewardToken][Staking] \in Nat
      BY Accounts DEF TypeOK
    <2>2. bal[rewardToken][Staking] >= paid /\ bal' = Send(rewardToken, Staking, u, paid)
      BY DEF Withdraw, Send_ok
    <2> HIDE DEF paid
    <2> QED
      BY <1>1, <2>1, <2>2, Accounts, SMT DEF TypeOK
  <1> HIDE DEF paid
  <1>4. /\ bal' \in [Tokens -> [Account -> Nat]]
        /\ bal'[rewardToken][Staking] = bal[rewardToken][Staking] - paid
        /\ \A t \in Tokens, a \in Account :
              t # rewardToken \/ a \notin {u, Staking} => bal'[t][a] = bal[t][a]
    BY <1>1, <1>3, SendIs
  <1> QED
    BY <1>1, <1>2, <1>4 DEF paid

(* What MigrateStaking sends.                                              *)
Remaining == Later(0, TotalAmount(schedule) - TotalAmount(StoppedSchedule))

LEMMA TotalAmountType ==
    ASSUME NEW s \in Seq(Slot)
    PROVE  TotalAmount(s) \in Nat
  <1>1. ASSUME NEW i \in {1, 2}, i <= Len(s) PROVE s[i].amount \in Nat
    <2>1. s[i] \in Slot
      BY <1>1, SMT
    <2> QED
      BY <2>1 DEF Slot
  <1> QED
    BY <1>1, SMT DEF TotalAmount

LEMMA MigratePays ==
    ASSUME TypeOK, NEW u \in Users, MigrateStaking(u)
    PROVE  /\ compute_reward_ok(now)
           /\ schedule' = StoppedSchedule
           /\ schedule' \in Seq(Slot) /\ Len(schedule') <= MaxSlots
           /\ bal' \in [Tokens -> [Account -> Nat]]
           /\ Remaining \in Nat /\ Remaining > 0
           /\ bal'[lpToken][Staking] = bal[lpToken][Staking] - Remaining
           /\ \A t \in Tokens, a \in Account :
                 t # lpToken \/ a \notin {Staking, Successor} => bal'[t][a] = bal[t][a]
           /\ lastDistributed' = now /\ rewardIndex' = IndexAt(now)
           /\ changes < MaxChanges /\ changes' = changes + 1
           /\ UNCHANGED <<lpToken, rewardToken, admin, lockDuration, totalBond, info,
                          earned, unbonding, now>>
  <1>1. /\ compute_reward_ok(now) /\ schedule' = StoppedSchedule
        /\ Send_ok(lpToken, Staking, Remaining)
        /\ bal' = Send(lpToken, Staking, Successor, Remaining)
        /\ \A i \in DOMAIN Begun : Begun[i].end >= now => Rate_ok(Begun[i])
        /\ lastDistributed' = now /\ rewardIndex' = IndexAt(now)
        /\ changes < MaxChanges /\ changes' = changes + 1
        /\ UNCHANGED <<lpToken, rewardToken, admin, lockDuration, totalBond, info,
                       earned, unbonding, now>>
    BY DEF MigrateStaking, Changing, Remaining
  <1>2. schedule \in Seq(Slot) /\ Len(schedule) <= MaxSlots /\ now \in Nat
    BY SMT DEF TypeOK, Times
  <1>3. ASSUME NEW i \in {1, 2}, HasBegun(i)
        PROVE  Stopped(schedule[i]) \in Slot
    <2> DEFINE slot == schedule[i]
    <2>1. slot \in Slot /\ slot.start < now
      BY <1>2, <1>3, SMT DEF HasBegun
    <2> HIDE DEF slot
    <2>2. slot.end >= now => Rate(slot) \in Nat
      <3>1. slot.end >= now => ~Malformed(slot)
        BY <1>2, <2>1, SMT DEF Malformed, Slot
      <3> QED
        BY <2>1, <3>1, RateType
    <2> QED
      BY <1>2, <2>1, <2>2, StoppedSlot DEF slot
  <1>4. StoppedSchedule \in Seq(Slot) /\ Len(StoppedSchedule) <= MaxSlots
    BY <1>2, <1>3, StoppedSlots
  <1>5. Remaining \in Nat
    <2>1. TotalAmount(schedule) \in Nat /\ TotalAmount(StoppedSchedule) \in Nat
      BY <1>2, <1>4, TotalAmountType
    <2> QED
      BY <2>1, SMT DEF Remaining, Later
  <1>6. /\ lpToken \in Tokens /\ Successor \in Account /\ Staking \in Account
        /\ Staking # Successor /\ Remaining > 0 /\ Remaining <= bal[lpToken][Staking]
    <2>1. bal[lpToken][Staking] \in Nat
      BY Accounts DEF TypeOK
    <2> QED
      BY <1>1, <1>5, <2>1, Accounts, SMT DEF TypeOK, Send_ok
  <1> QED
    BY <1>1, <1>4, <1>5, <1>6, SendIs

(* What the administrator's other messages and time leave alone.           *)
LEMMA QuietSteps ==
    ASSUME TypeOK, NEW u \in Users,
           \/ \E new \in Schedules : UpdateConfig(u, new)
           \/ \E address \in Users : UpdateAdmin(u, address)
           \/ \E pair \in TokenPairs : UpdateTokenContract(u, pair[1], pair[2])
           \/ \E lock \in LockDurations : UpdateLockDuration(u, lock)
    PROVE  /\ UNCHANGED <<lastDistributed, totalBond, rewardIndex, info, earned,
                          unbonding, bal, now, changes>>
           /\ lpToken' \in Tokens /\ rewardToken' \in Tokens
           /\ schedule' \in Seq(Slot) /\ Len(schedule') <= MaxSlots
           /\ admin' \in Users /\ lockDuration' \in Nat
           /\ Schedules = {} => schedule' = schedule
           /\ TokenPairs = {} => UNCHANGED <<lpToken, rewardToken>>
           /\ \/ UNCHANGED <<lpToken, rewardToken>>
              \/ \E pair \in TokenPairs : lpToken' = pair[1] /\ rewardToken' = pair[2]
           /\ schedule' = schedule \/ schedule' \in Schedules
  <1>1. CASE \E new \in Schedules : UpdateConfig(u, new)
    BY <1>1, StakingAssumption DEF UpdateConfig, state, TypeOK
  <1>2. CASE \E address \in Users : UpdateAdmin(u, address)
    BY <1>2 DEF UpdateAdmin, state, TypeOK
  <1>3. CASE \E pair \in TokenPairs : UpdateTokenContract(u, pair[1], pair[2])
    <2>1. PICK pair \in TokenPairs : UpdateTokenContract(u, pair[1], pair[2])
      BY <1>3
    <2>2. pair[1] \in Tokens /\ pair[2] \in Tokens
      BY StakingAssumption
    <2> QED
      BY <2>1, <2>2 DEF UpdateTokenContract, state, TypeOK
  <1>4. CASE \E lock \in LockDurations : UpdateLockDuration(u, lock)
    BY <1>4, StakingAssumption DEF UpdateLockDuration, state, TypeOK
  <1> QED
    BY <1>1, <1>2, <1>3, <1>4

(* A step that is nobody's transaction on a position: an administrator's   *)
(* message other than MigrateStaking, a block, or nothing.                 *)
Quiet ==
    /\ UNCHANGED <<lastDistributed, totalBond, rewardIndex, info, earned, unbonding,
                   bal, changes>>
    /\ now' \in Times /\ now <= now'
    /\ lpToken' \in Tokens /\ rewardToken' \in Tokens
    /\ schedule' \in Seq(Slot) /\ Len(schedule') <= MaxSlots
    /\ admin' \in Users /\ lockDuration' \in Nat
    /\ Schedules = {} => schedule' = schedule
    /\ TokenPairs = {} => UNCHANGED <<lpToken, rewardToken>>
    /\ \/ UNCHANGED <<lpToken, rewardToken>>
       \/ \E pair \in TokenPairs : lpToken' = pair[1] /\ rewardToken' = pair[2]
    /\ schedule' = schedule \/ schedule' \in Schedules

LEMMA StepIs ==
    ASSUME TypeOK, [Next]_vars
    PROVE  \/ \E u \in Users, amount \in Nat : Bond(u, amount)
           \/ \E u \in Users, amount \in Nat : Unbond(u, amount)
           \/ \E u \in Users : Redeem(u)
           \/ \E u \in Users : Withdraw(u)
           \/ Migrating /\ \E u \in Users : MigrateStaking(u)
           \/ Quiet
  <1>1. now \in Times /\ now \in Nat
    BY SMT DEF TypeOK, Times
  <1>2. CASE StakerStep
    <2>1. Amounts \subseteq Nat /\ UnbondAmounts \subseteq Nat
      BY StakingAssumption
    <2> QED
      BY <1>2, <2>1 DEF StakerStep
  <1>3. CASE AdminStep
    <2>1. PICK u \in Users :
              \/ Migrating /\ MigrateStaking(u)
              \/ \E new \in Schedules : UpdateConfig(u, new)
              \/ \E address \in Users : UpdateAdmin(u, address)
              \/ \E pair \in TokenPairs : UpdateTokenContract(u, pair[1], pair[2])
              \/ \E lock \in LockDurations : UpdateLockDuration(u, lock)
      BY <1>3 DEF AdminStep
    <2>2. CASE Migrating /\ MigrateStaking(u)
      BY <2>2
    <2>3. CASE ~(Migrating /\ MigrateStaking(u))
      <3>1. now <= now
        BY <1>1, SMT
      <3> QED
        BY <1>1, <2>1, <2>3, <3>1, QuietSteps DEF Quiet
    <2> QED
      BY <2>2, <2>3
  <1>4. CASE NextBlock
    <2>1. now' \in Times /\ now <= now'
      BY <1>1, <1>4, StakingAssumption, SMT DEF NextBlock, Times
    <2> QED
      BY <1>4, <2>1 DEF NextBlock, Quiet, TypeOK, config, state
  <1>5. CASE UNCHANGED vars
    <2>1. now <= now
      BY <1>1, SMT
    <2> QED
      BY <1>5, <2>1 DEF vars, Quiet, TypeOK
  <1> QED
    BY <1>2, <1>3, <1>4, <1>5 DEF Next

LEMMA TotalsStart == ASSUME Init PROVE TotalsInv
  <1>1. 0 \in Nat /\ 0 \in Times /\ MaxChanges \in Nat
    BY StakingAssumption, SMT DEF Times
  <1>2. PICK msg \in Instantiations :
            /\ lpToken = msg.lp /\ rewardToken = msg.reward /\ schedule = msg.schedule
            /\ admin = msg.admin /\ lockDuration = msg.lock
    BY DEF Init
  <1>3. /\ msg.lp \in Tokens /\ msg.reward \in Tokens /\ msg.schedule \in Seq(Slot)
        /\ Len(msg.schedule) <= MaxSlots /\ msg.admin \in Users /\ msg.lock \in Nat
    BY StakingAssumption
  <1>4. /\ lastDistributed = 0 /\ totalBond = 0 /\ rewardIndex = 0 /\ now = 0 /\ changes = 0
        /\ info = [u \in Users |-> NoStake] /\ earned = [u \in Users |-> 0]
        /\ unbonding = [u \in Users |-> [t \in Times |-> 0]] /\ bal = InitialBalance
    BY DEF Init
  <1>5. NoStake \in [bond : Nat, pending : Nat, index : Nat]
        /\ NoStake.bond = 0 /\ NoStake.index = 0
    BY <1>1 DEF NoStake
  <1>6. /\ info \in [Users -> [bond : Nat, pending : Nat, index : Nat]]
        /\ earned \in [Users -> Nat] /\ unbonding \in [Users -> [Times -> Nat]]
        /\ bal \in [Tokens -> [Account -> Nat]]
    BY <1>1, <1>4, <1>5, StakingAssumption
  <1>7. TypeOK
    BY <1>1, <1>2, <1>3, <1>4, <1>6 DEF TypeOK
  <1>8. BondsAddUp
    <2> DEFINE f == [u \in Users |-> info[u].bond]
    <2>1. \A u \in Users : f[u] = 0
      BY <1>4, <1>5
    <2> HIDE DEF f
    <2>2. SumFunctionOnSet(f, Users) = 0
      BY <2>1, SumZero, UsersFinite
    <2> QED
      BY <1>4, <2>2 DEF BondsAddUp, Bonds, Total, f
  <1>9. \A u \in Users : info[u].index <= rewardIndex
    BY <1>4, <1>5, SMT
  <1> QED
    BY <1>1, <1>4, <1>7, <1>8, <1>9, SMT DEF TotalsInv

LEMMA TotalsKept == ASSUME TotalsInv, [Next]_vars PROVE TotalsInv'
  <1>1. /\ TypeOK /\ changes \in Nat /\ changes <= MaxChanges /\ MaxChanges \in Nat
        /\ unbonding \in [Users -> [Times -> Nat]] /\ bal \in [Tokens -> [Account -> Nat]]
        /\ now \in Nat
    <2>1. TypeOK /\ changes <= MaxChanges
      BY DEF TotalsInv
    <2>2. now \in 0 .. MaxTime
      BY <2>1 DEF TypeOK, Times
    <2>3. MaxTime \in Nat /\ MaxChanges \in Nat
      BY StakingAssumption
    <2>4. now \in Nat
      BY <2>2, <2>3, SMT
    <2>5. changes \in Nat /\ unbonding \in [Users -> [Times -> Nat]]
          /\ bal \in [Tokens -> [Account -> Nat]]
      BY <2>1 DEF TypeOK
    <2> QED
      BY <2>1, <2>3, <2>4, <2>5
  <1>2. ASSUME NEW u \in Users, NEW amount \in Nat, Bond(u, amount) PROVE TotalsInv'
    <2>1. PICK e : Settles(u, e)
      BY <1>1, <1>2, BondSettles
    <2>2. /\ bal' \in [Tokens -> [Account -> Nat]] /\ unbonding' \in [Users -> [Times -> Nat]]
          /\ changes < MaxChanges /\ changes' = changes + 1
      BY <1>1, <1>2, BondPays
    <2>3. changes' \in Nat /\ changes' <= MaxChanges
      BY <1>1, <2>2, SMT
    <2> QED
      BY <2>1, <2>2, <2>3, SettlesKeeps
  <1>3. ASSUME NEW u \in Users, NEW amount \in Nat, Unbond(u, amount) PROVE TotalsInv'
    <2>1. PICK e : Settles(u, e)
      BY <1>1, <1>3, UnbondSettles
    <2>2. /\ bal' = bal /\ changes < MaxChanges /\ changes' = changes + 1
          /\ unbonding' = [unbonding EXCEPT ![u] = [unbonding[u] EXCEPT ![now] = amount]]
      BY <1>1, <1>3, UnbondPays
    <2>3. unbonding' \in [Users -> [Times -> Nat]]
      BY <1>1, <2>2, PositionSaved
    <2>4. changes' \in Nat /\ changes' <= MaxChanges
      BY <1>1, <2>2, SMT
    <2> QED
      BY <1>1, <2>1, <2>2, <2>3, <2>4, SettlesKeeps
  <1>4. ASSUME NEW u \in Users, Redeem(u) PROVE TotalsInv'
    <2>1. /\ bal' \in [Tokens -> [Account -> Nat]]
          /\ unbonding' = [unbonding EXCEPT ![u] =
                              [t \in Times |-> IF Matured(t) THEN 0 ELSE unbonding[u][t]]]
          /\ UNCHANGED <<config, state, info, earned, now, changes>>
      BY <1>1, <1>4, RedeemPays
    <2>2. unbonding' \in [Users -> [Times -> Nat]]
      BY <1>1, <2>1, PositionsRedeemed
    <2>3. TypeOK'
      BY <2>1, <2>2 DEF TotalsInv, TypeOK, config, state
    <2> QED
      BY <2>1, <2>3 DEF TotalsInv, BondsAddUp, Bonds, config, state
  <1>5. ASSUME NEW u \in Users, Withdraw(u) PROVE TotalsInv'
    <2>1. PICK e : Settles(u, e)
      BY <1>1, <1>5, WithdrawSettles
    <2>2. bal' \in [Tokens -> [Account -> Nat]] /\ unbonding' = unbonding /\ changes' = changes
      BY <1>1, <1>5, WithdrawPays
    <2> QED
      BY <1>1, <2>1, <2>2, SettlesKeeps
  <1>6. ASSUME NEW u \in Users, MigrateStaking(u) PROVE TotalsInv'
    <2>1. /\ compute_reward_ok(now)
          /\ schedule' \in Seq(Slot) /\ Len(schedule') <= MaxSlots
          /\ bal' \in [Tokens -> [Account -> Nat]]
          /\ lastDistributed' = now /\ rewardIndex' = IndexAt(now)
          /\ changes < MaxChanges /\ changes' = changes + 1
          /\ UNCHANGED <<lpToken, rewardToken, admin, lockDuration, totalBond, info,
                         earned, unbonding, now>>
      BY <1>1, <1>6, MigratePays
    <2>2. IndexAt(now) \in Nat /\ rewardIndex <= IndexAt(now)
      BY <1>1, <2>1, HandedOut
    <2>3. changes' \in Nat /\ changes' <= MaxChanges /\ lastDistributed' <= now'
      BY <1>1, <2>1, SMT
    <2>4. ASSUME NEW v \in Users PROVE info'[v].index <= rewardIndex'
      <3>1. /\ info[v].index \in Nat /\ rewardIndex \in Nat
            /\ info[v].index <= rewardIndex /\ info' = info
        BY <2>1 DEF TotalsInv, TypeOK
      <3> QED
        BY <2>1, <2>2, <3>1, SMT
    <2>5. TypeOK'
      BY <1>1, <2>1, <2>2, <2>3 DEF TypeOK, TotalsInv
    <2>6. BondsAddUp'
      BY <2>1 DEF TotalsInv, BondsAddUp, Bonds
    <2> QED
      BY <2>3, <2>4, <2>5, <2>6 DEF TotalsInv
  <1>7. CASE Quiet
    <2>1. TypeOK'
      BY <1>7 DEF Quiet, TotalsInv, TypeOK
    <2>2. lastDistributed' <= now'
      <3>1. lastDistributed \in Nat /\ lastDistributed <= now /\ now' \in Nat
            /\ now <= now' /\ lastDistributed' = lastDistributed
        BY <1>7, SMT DEF Quiet, TotalsInv, TypeOK, Times
      <3> QED
        BY <1>1, <3>1, SMT
    <2> QED
      BY <1>7, <2>1, <2>2 DEF Quiet, TotalsInv, BondsAddUp, Bonds
  <1> QED
    BY <1>1, <1>2, <1>3, <1>4, <1>5, <1>6, <1>7, StepIs

(* The invariant of this part, for every contract.                         *)
THEOREM TotalsInvariant == Spec => []TotalsInv
  <1>1. Init => TotalsInv
    BY TotalsStart
  <1>2. TotalsInv /\ [Next]_vars => TotalsInv'
    BY TotalsKept
  <1> QED
    BY <1>1, <1>2, PTL DEF Spec

(* The state has its types, whatever the schedules, the stakers and the    *)
(* administrator do.                                                       *)
THEOREM StakingTypes == Spec => []TypeOK
  <1>1. TotalsInv => TypeOK
    BY DEF TotalsInv
  <1> QED
    BY <1>1, TotalsInvariant, PTL

(* Rewards are divided by what the stakers have bonded between them, for   *)
(* any number of stakers, schedules, migrations and changes of the         *)
(* configuration.                                                          *)
THEOREM TotalsAddUp == Spec => []BondsAddUp
  <1>1. TotalsInv => BondsAddUp
    BY DEF TotalsInv
  <1> QED
    BY <1>1, TotalsInvariant, PTL

-----------------------------------------------------------------------------
(* The LP tokens.                                                          *)

(* The LP token is never the reward token, from instantiation on.          *)
StakesApart ==
    /\ \A msg \in Instantiations : msg.lp # msg.reward
    /\ \A pair \in TokenPairs : pair[1] # pair[2]

ApartInv == TotalsInv /\ lpToken # rewardToken

LEMMA ApartStart == ASSUME Init, StakesApart PROVE ApartInv
  BY TotalsStart DEF Init, StakesApart, ApartInv

LEMMA ApartKept == ASSUME ApartInv, StakesApart, [Next]_vars PROVE ApartInv'
  <1>1. TotalsInv' /\ TypeOK
    BY TotalsKept DEF ApartInv, TotalsInv
  <1>2. \/ UNCHANGED <<lpToken, rewardToken>>
        \/ \E pair \in TokenPairs : lpToken' = pair[1] /\ rewardToken' = pair[2]
    <2>1. ASSUME NEW u \in Users, NEW amount \in Nat, Bond(u, amount) \/ Unbond(u, amount)
          PROVE  UNCHANGED <<lpToken, rewardToken>>
      BY <2>1 DEF Bond, Unbond, config
    <2>2. ASSUME NEW u \in Users, Redeem(u) \/ Withdraw(u) \/ MigrateStaking(u)
          PROVE  UNCHANGED <<lpToken, rewardToken>>
      BY <2>2 DEF Redeem, Withdraw, MigrateStaking, config
    <2>3. CASE Quiet
      BY <2>3 DEF Quiet
    <2> QED
      BY <1>1, <2>1, <2>2, <2>3, StepIs
  <1> QED
    BY <1>1, <1>2 DEF ApartInv, StakesApart

(* What has been unbonded and not redeemed, by everybody.                  *)
Positions == Total([u \in Users |-> UnbondingOf(u)])

LEMMA PositionsNat ==
    ASSUME NEW f \in [Users -> [Times -> Nat]]
    PROVE  /\ \A u \in Users : SumFunctionOnSet(f[u], Times) \in Nat
           /\ Total([u \in Users |-> SumFunctionOnSet(f[u], Times)]) \in Nat
  <1> DEFINE g == [u \in Users |-> SumFunctionOnSet(f[u], Times)]
  <1>1. ASSUME NEW u \in Users PROVE SumFunctionOnSet(f[u], Times) \in Nat
    <2>1. \A t \in Times : f[u][t] \in Nat
      OBVIOUS
    <2> QED
      BY <2>1, SumNat, UsersFinite
  <1>2. \A u \in Users : g[u] \in Nat
    BY <1>1
  <1> HIDE DEF g
  <1>3. Total(g) \in Nat
    BY <1>2, TotalType
  <1> QED
    BY <1>1, <1>3 DEF g

LEMMA PositionsChange ==
    ASSUME TypeOK, TypeOK', NEW u \in Users,
           \A v \in Users \ {u} : UnbondingOf(v)' = UnbondingOf(v)
    PROVE  /\ Positions \in Nat /\ Positions' \in Nat
           /\ UnbondingOf(u) \in Nat /\ UnbondingOf(u)' \in Nat
           /\ Positions' = Positions + (UnbondingOf(u)' - UnbondingOf(u))
  <1> DEFINE f == [v \in Users |-> UnbondingOf(v)]
             g == [v \in Users |-> UnbondingOf(v)']
  <1>1. ASSUME NEW v \in Users PROVE UnbondingOf(v) \in Nat /\ UnbondingOf(v)' \in Nat
    BY PositionsNat DEF TypeOK, UnbondingOf
  <1>2. \A v \in Users : f[v] \in Nat
    BY <1>1
  <1>3. \A v \in Users : g[v] \in Nat
    BY <1>1
  <1>4. /\ f[u] = UnbondingOf(u) /\ g[u] = UnbondingOf(u)'
        /\ \A v \in Users \ {u} : g[v] = f[v]
    OBVIOUS
  <1>5. Positions = Total(f) /\ Positions' = Total(g)
    BY DEF Positions
  <1> HIDE DEF f, g
  <1>6. \A v \in Users : f[v] \in Int /\ g[v] \in Int
    BY <1>2, <1>3, SMT
  <1>7. Total(g) = Total(f) + (g[u] - f[u])
    BY ONLY <1>4, <1>6, TotalChange, u \in Users
  <1>8. Total(f) \in Nat /\ Total(g) \in Nat
    BY <1>2, <1>3, TotalType
  <1> QED
    BY <1>1, <1>4, <1>5, <1>7, <1>8

(* The stakes are totalBond and the positions.                             *)
LEMMA StakesNow ==
    /\ TotalsInv => Stakes \in Nat /\ Positions \in Nat /\ Stakes = totalBond + Positions
    /\ TotalsInv' => /\ Stakes' \in Nat /\ Positions' \in Nat
                     /\ Stakes' = totalBond' + Positions'
  <1>1. ASSUME TotalsInv
        PROVE  Stakes \in Nat /\ Positions \in Nat /\ Stakes = totalBond + Positions
    <2>1. Positions \in Nat
      BY <1>1, PositionsNat DEF Positions, UnbondingOf, TotalsInv, TypeOK
    <2>2. Stakes = totalBond + Positions /\ totalBond \in Nat
      BY <1>1 DEF TotalsInv, TypeOK, BondsAddUp, Stakes, Positions
    <2> QED
      BY <2>1, <2>2, SMT
  <1>2. ASSUME TotalsInv'
        PROVE  Stakes' \in Nat /\ Positions' \in Nat /\ Stakes' = totalBond' + Positions'
    <2>1. Positions' \in Nat
      BY <1>2, PositionsNat DEF Positions, UnbondingOf, TotalsInv, TypeOK
    <2>2. Stakes' = totalBond' + Positions' /\ totalBond' \in Nat
      BY <1>2 DEF TotalsInv, TypeOK, BondsAddUp, Stakes, Positions
    <2> DEFINE n == totalBond'
               p == Positions'
    <2>3. n + p \in Nat
      <3>1. n \in Nat /\ p \in Nat
        BY <2>1, <2>2
      <3> HIDE DEF n, p
      <3> QED
        BY ONLY <3>1, SMT
    <2> QED
      BY <2>1, <2>2, <2>3
  <1> QED
    BY <1>1, <1>2

(* A Bond adds to the stakes what it adds to the LP tokens, a Redeem takes *)
(* the same from both, an Unbond adds nothing to the stakes, and no other  *)
(* step changes them.                                                      *)
LEMMA StakesMove ==
    ASSUME TotalsInv, TotalsInv'
    PROVE  /\ \A u \in Users, amount \in Nat :
                 Bond(u, amount) => Stakes' = Stakes + amount
           /\ \A u \in Users, amount \in Nat :
                 Unbond(u, amount) => Stakes' <= Stakes
           /\ \A u \in Users : Redeem(u) => Stakes' = Stakes - Due(u)
           /\ \A u \in Users : Withdraw(u) => Stakes' = Stakes
           /\ \A u \in Users : MigrateStaking(u) => Stakes' = Stakes
           /\ Quiet => Stakes' = Stakes
  <1>1. /\ TypeOK /\ TypeOK'
        /\ Stakes = totalBond + Positions /\ Stakes' = totalBond' + Positions'
        /\ Positions \in Nat /\ Positions' \in Nat /\ totalBond \in Nat /\ totalBond' \in Nat
    BY StakesNow DEF TotalsInv, TypeOK
  <1>2. unbonding' = unbonding => Positions' = Positions
    BY DEF Positions, UnbondingOf
  <1>3. ASSUME NEW u \in Users, NEW amount \in Nat, Bond(u, amount)
        PROVE  Stakes' = Stakes + amount
    <2>1. unbonding' = unbonding
      BY <1>1, <1>3, BondPays
    <2>2. totalBond' = totalBond + amount
      BY <1>3 DEF Bond, TotalChangedBy
    <2> QED
      BY <1>1, <1>2, <2>1, <2>2, SMT
  <1>4. ASSUME NEW u \in Users, NEW amount \in Nat, Unbond(u, amount)
        PROVE  Stakes' <= Stakes
    <2>1. unbonding' = [unbonding EXCEPT ![u] = [unbonding[u] EXCEPT ![now] = amount]]
      BY <1>1, <1>4, UnbondPays
    <2>2. /\ UnbondingOf(u)' <= UnbondingOf(u) + amount
          /\ \A v \in Users \ {u} : UnbondingOf(v)' = UnbondingOf(v)
      BY <1>1, <2>1, PositionSaved
    <2>3. /\ Positions' = Positions + (UnbondingOf(u)' - UnbondingOf(u))
          /\ UnbondingOf(u) \in Nat /\ UnbondingOf(u)' \in Nat
      BY <1>1, <2>2, PositionsChange
    <2>4. totalBond' = totalBond + (-amount)
      BY <1>4 DEF Unbond, TotalChangedBy
    <2> QED
      BY <1>1, <2>2, <2>3, <2>4, SMT
  <1>5. ASSUME NEW u \in Users, Redeem(u)
        PROVE  Stakes' = Stakes - Due(u)
    <2>1. /\ unbonding' = [unbonding EXCEPT ![u] =
                              [t \in Times |-> IF Matured(t) THEN 0 ELSE unbonding[u][t]]]
          /\ totalBond' = totalBond
      BY <1>1, <1>5, RedeemPays DEF state
    <2>2. /\ UnbondingOf(u)' = UnbondingOf(u) - Due(u) /\ Due(u) \in Nat
          /\ \A v \in Users \ {u} : UnbondingOf(v)' = UnbondingOf(v)
      BY <1>1, <2>1, PositionsRedeemed
    <2>3. /\ Positions' = Positions + (UnbondingOf(u)' - UnbondingOf(u))
          /\ UnbondingOf(u) \in Nat /\ UnbondingOf(u)' \in Nat
      BY <1>1, <2>2, PositionsChange
    <2> QED
      BY <1>1, <2>1, <2>2, <2>3, SMT
  <1>6. ASSUME NEW u \in Users, Withdraw(u) \/ MigrateStaking(u)
        PROVE  Stakes' = Stakes
    <2>1. totalBond' = totalBond /\ unbonding' = unbonding
      BY <1>6 DEF Withdraw, MigrateStaking
    <2> QED
      BY <1>1, <1>2, <2>1
  <1>7. ASSUME Quiet PROVE Stakes' = Stakes
    BY <1>1, <1>2, <1>7 DEF Quiet
  <1> QED
    BY <1>3, <1>4, <1>5, <1>6, <1>7

BackedInv == ApartInv /\ StakesBacked

LEMMA BackedKept ==
    ASSUME BackedInv, StakesApart, TokenPairs = {}, ~Migrating, [Next]_vars
    PROVE  BackedInv'
  <1>1. /\ ApartInv' /\ TotalsInv /\ TotalsInv' /\ TypeOK /\ TypeOK'
        /\ lpToken # rewardToken
        /\ lpToken \in Tokens /\ rewardToken \in Tokens /\ Staking \in Account
    BY ApartKept, Accounts DEF BackedInv, ApartInv, TotalsInv, TypeOK
  <1> DEFINE held == bal[lpToken][Staking]
             next == bal'[lpToken][Staking]
  <1>2. /\ held \in Nat /\ next \in Nat /\ held >= Stakes
        /\ Stakes \in Nat /\ Stakes' \in Nat
    BY <1>1, StakesNow DEF TypeOK, BackedInv, StakesBacked
  <1> HIDE DEF held, next
  <1>3. next >= Stakes' /\ lpToken' = lpToken
    <2>1. ASSUME NEW u \in Users, NEW amount \in Nat, Bond(u, amount)
          PROVE  next >= Stakes' /\ lpToken' = lpToken
      <3>1. next = held + amount /\ lpToken' = lpToken
        BY <1>1, <2>1, BondPays DEF Bond, config, held, next
      <3>2. Stakes' = Stakes + amount
        BY <1>1, <2>1, StakesMove
      <3> QED
        BY <1>2, <3>1, <3>2, SMT
    <2>2. ASSUME NEW u \in Users, NEW amount \in Nat, Unbond(u, amount)
          PROVE  next >= Stakes' /\ lpToken' = lpToken
      <3>1. next = held /\ lpToken' = lpToken
        BY <1>1, <2>2, UnbondPays DEF Unbond, config, held, next
      <3>2. Stakes' <= Stakes
        BY <1>1, <2>2, StakesMove
      <3> QED
        BY <1>2, <3>1, <3>2, SMT
    <2>3. ASSUME NEW u \in Users, Redeem(u)
          PROVE  next >= Stakes' /\ lpToken' = lpToken
      <3>1. next = held - Due(u) /\ Due(u) \in Nat /\ lpToken' = lpToken
        BY <1>1, <2>3, RedeemPays DEF config, held, next
      <3>2. Stakes' = Stakes - Due(u)
        BY <1>1, <2>3, StakesMove
      <3> QED
        BY <1>2, <3>1, <3>2, SMT
    <2>4. ASSUME NEW u \in Users, Withdraw(u)
          PROVE  next >= Stakes' /\ lpToken' = lpToken
      <3>1. next = held /\ lpToken' = lpToken
        BY <1>1, <2>4, WithdrawPays DEF Withdraw, config, held, next
      <3>2. Stakes' = Stakes
        BY <1>1, <2>4, StakesMove
      <3> QED
        BY <1>2, <3>1, <3>2, SMT
    <2>5. CASE Quiet
      <3>1. next = held /\ lpToken' = lpToken
        BY <2>5 DEF Quiet, held, next
      <3>2. Stakes' = Stakes
        BY <1>1, <2>5, StakesMove
      <3> QED
        BY <1>2, <3>1, <3>2, SMT
    <2> QED
      BY <1>1, <2>1, <2>2, <2>3, <2>4, <2>5, StepIs
  <1> QED
    BY <1>1, <1>3 DEF BackedInv, StakesBacked, next

LEMMA PositionsStart == ASSUME Init PROVE Positions = 0
  <1>1. ASSUME NEW u \in Users PROVE UnbondingOf(u) = 0
    <2>1. \A t \in Times : unbonding[u][t] = 0
      BY DEF Init
    <2> QED
      BY <2>1, SumZero, UsersFinite DEF UnbondingOf
  <1> DEFINE f == [u \in Users |-> UnbondingOf(u)]
  <1>2. \A u \in Users : f[u] = 0
    BY <1>1
  <1> HIDE DEF f
  <1>3. SumFunctionOnSet(f, Users) = 0
    BY <1>2, SumZero, UsersFinite
  <1> QED
    BY <1>3 DEF Positions, Total, f

LEMMA BackedStart == ASSUME Init, StakesApart PROVE BackedInv
  <1>1. ApartInv /\ TotalsInv
    BY ApartStart DEF ApartInv
  <1>2. bal[lpToken][Staking] \in Nat /\ totalBond = 0 /\ Positions \in Nat
        /\ Stakes = totalBond + Positions
    BY <1>1, Accounts, StakesNow DEF TotalsInv, TypeOK, Init
  <1>3. Positions = 0
    BY PositionsStart
  <1> QED
    BY <1>1, <1>2, <1>3, SMT DEF BackedInv, StakesBacked

(* The contract holds every LP token it owes, bonded or unbonded, while    *)
(* the rewards are in another token and the administrator neither migrates *)
(* nor changes the tokens: runs show that each of the three can take them. *)
THEOREM StakesStayBacked ==
    ASSUME StakesApart, TokenPairs = {}, ~Migrating
    PROVE  Spec => []StakesBacked
  <1>1. Init => BackedInv
    BY BackedStart
  <1>2. BackedInv /\ [Next]_vars => BackedInv'
    BY BackedKept
  <1>3. BackedInv => StakesBacked
    BY DEF BackedInv
  <1> QED
    BY <1>1, <1>2, <1>3, PTL DEF Spec

(* Only a Redeem of his own gives a staker LP tokens.                      *)
LEMMA PaidByRedeem ==
    ASSUME ApartInv, [Next]_vars, NEW u \in Users, bal'[lpToken][u] - bal[lpToken][u] > 0
    PROVE  Redeem(u)
  <1>1. /\ TypeOK /\ lpToken # rewardToken /\ u \in Account /\ u # Staking /\ u # Successor
        /\ lpToken \in Tokens /\ rewardToken \in Tokens /\ bal[lpToken][u] \in Nat
    BY Accounts DEF ApartInv, TotalsInv, TypeOK
  <1>2. SUFFICES ASSUME ~Redeem(u)
                 PROVE  \/ bal'[lpToken][u] = bal[lpToken][u]
                        \/ \E n \in Nat : bal'[lpToken][u] = bal[lpToken][u] - n
    BY <1>1, SMT
  <1>3. ASSUME NEW v \in Users, NEW amount \in Nat, Bond(v, amount)
        PROVE  \/ bal'[lpToken][u] = bal[lpToken][u]
               \/ bal'[lpToken][u] = bal[lpToken][u] - amount
    <2>1. /\ bal'[lpToken][v] = bal[lpToken][v] - amount
          /\ \A t \in Tokens, a \in Account :
                t # lpToken \/ a \notin {v, Staking} => bal'[t][a] = bal[t][a]
      BY <1>1, <1>3, BondPays
    <2> QED
      BY <1>1, <2>1
  <1>4. ASSUME NEW v \in Users, NEW amount \in Nat, Unbond(v, amount)
        PROVE  bal'[lpToken][u] = bal[lpToken][u]
    BY <1>1, <1>4, UnbondPays
  <1>5. ASSUME NEW v \in Users, Redeem(v)
        PROVE  bal'[lpToken][u] = bal[lpToken][u]
    <2>1. v # u
      BY <1>2, <1>5
    <2>2. \A t \in Tokens, a \in Account :
              t # lpToken \/ a \notin {v, Staking} => bal'[t][a] = bal[t][a]
      BY <1>1, <1>5, RedeemPays
    <2> QED
      BY <1>1, <2>1, <2>2
  <1>6. ASSUME NEW v \in Users, Withdraw(v)
        PROVE  bal'[lpToken][u] = bal[lpToken][u]
    BY <1>1, <1>6, WithdrawPays
  <1>7. ASSUME NEW v \in Users, MigrateStaking(v)
        PROVE  bal'[lpToken][u] = bal[lpToken][u]
    BY <1>1, <1>7, MigratePays
  <1>8. CASE Quiet
    BY <1>8 DEF Quiet
  <1> QED
    BY <1>1, <1>3, <1>4, <1>5, <1>6, <1>7, <1>8, StepIs

(* LP tokens come back to a staker by Redeem alone, all of those whose     *)
(* lock has run out and no others, whatever the administrator changes, as  *)
(* long as the rewards are in another token.                               *)
THEOREM LockIsHonoured == ASSUME StakesApart PROVE Spec => LockHonoured
  <1> DEFINE due == {t \in Times : t + lockDuration <= now}
             Honours(u) ==
                 bal'[lpToken][u] - bal[lpToken][u] > 0 =>
                     /\ bal'[lpToken][u] - bal[lpToken][u] = SumFunctionOnSet(unbonding[u], due)
                     /\ \A t \in Times :
                           unbonding'[u][t] = IF t \in due THEN 0 ELSE unbonding[u][t]
  <1>1. ASSUME ApartInv, [Next]_vars, NEW u \in Users PROVE Honours(u)
    <2>1. SUFFICES ASSUME bal'[lpToken][u] - bal[lpToken][u] > 0
                   PROVE  /\ bal'[lpToken][u] - bal[lpToken][u]
                                = SumFunctionOnSet(unbonding[u], due)
                          /\ \A t \in Times :
                                unbonding'[u][t] = IF t \in due THEN 0 ELSE unbonding[u][t]
      OBVIOUS
    <2>2. Redeem(u) /\ TypeOK /\ bal[lpToken][u] \in Nat
      BY <1>1, <2>1, PaidByRedeem, Accounts DEF ApartInv, TotalsInv, TypeOK
    <2>3. /\ bal'[lpToken][u] = bal[lpToken][u] + Due(u) /\ Due(u) \in Nat
          /\ unbonding' = [unbonding EXCEPT ![u] =
                              [t \in Times |-> IF Matured(t) THEN 0 ELSE unbonding[u][t]]]
      BY <2>2, RedeemPays
    <2>4. Due(u) = SumFunctionOnSet(unbonding[u], due)
      BY DEF Due, Matured
    <2>5. \A t \in Times : unbonding'[u][t] = IF t \in due THEN 0 ELSE unbonding[u][t]
      BY <2>2, <2>3 DEF Matured, TypeOK
    <2> QED
      BY <2>2, <2>3, <2>4, <2>5, SMT
  <1>2. Init => ApartInv
    BY ApartStart
  <1>3. ApartInv /\ [Next]_vars => ApartInv'
    BY ApartKept
  <1>4. ApartInv /\ [Next]_vars => \A u \in Users : Honours(u)
    BY <1>1
  <1> QED
    BY <1>2, <1>3, <1>4, PTL DEF Spec, LockHonoured

-----------------------------------------------------------------------------
(* What the stakers' claims can come to.                                   *)

(* What u was promised and paid, less what his bond is worth at his index: *)
(* what he would have been promised at an index of 0.                      *)
Standing(u) == info[u].pending + earned[u] - times(info[u].bond, info[u].index)
Standings == Total([u \in Users |-> Standing(u)])

(* In atomics, all that was promised and paid, with every bond valued at   *)
(* the global index: settling a staker's entry leaves it alone but for one *)
(* rounding, and only a distribution adds to it.                           *)
Potential == DecOne * Standings + totalBond * rewardIndex

LEMMA TimesRounds ==
    ASSUME NEW n \in Nat, NEW decimal \in Nat
    PROVE  /\ DecOne * times(n, decimal) <= n * decimal
           /\ n * decimal < DecOne * times(n, decimal) + DecOne
           /\ n * decimal \in Nat /\ DecOne * times(n, decimal) \in Nat
  <1>1. n * decimal \in Nat /\ DecOne \in Nat /\ DecOne > 0
    BY StakingAssumption, SMT
  <1> DEFINE q == (n * decimal) \div DecOne
  <1>2. q \in Nat /\ DecOne * q <= n * decimal /\ n * decimal < DecOne * q + DecOne
    BY <1>1, DivFloor
  <1> HIDE DEF q
  <1>3. DecOne * q \in Nat
    BY <1>1, <1>2, SMT
  <1> QED
    BY <1>1, <1>2, <1>3 DEF times, q

LEMMA StandingType ==
    ASSUME NEW infos \in [Users -> Staker], NEW paid \in [Users -> Nat]
    PROVE  LET f == [u \in Users |-> infos[u].pending + paid[u]
                                        - times(infos[u].bond, infos[u].index)]
           IN  /\ \A u \in Users : f[u] \in Int
               /\ Total(f) \in Int
  <1> DEFINE f == [u \in Users |-> infos[u].pending + paid[u]
                                      - times(infos[u].bond, infos[u].index)]
  <1>1. ASSUME NEW u \in Users PROVE f[u] \in Int
    <2>1. /\ infos[u].bond \in Nat /\ infos[u].index \in Nat /\ infos[u].pending \in Nat
          /\ paid[u] \in Nat
      BY DEF Staker
    <2>2. times(infos[u].bond, infos[u].index) \in Nat
      BY <2>1, TimesType
    <2> QED
      BY <2>1, <2>2, SMT
  <1> HIDE DEF f
  <1>2. \A u \in Users : f[u] \in Int
    BY <1>1
  <1>3. Total(f) \in Int
    BY <1>2, SumType, UsersFinite DEF Total
  <1> QED
    BY <1>2, <1>3 DEF f

LEMMA StandingsType ==
    /\ TypeOK => Standings \in Int /\ \A u \in Users : Standing(u) \in Int
    /\ TypeOK' => Standings' \in Int /\ \A u \in Users : Standing(u)' \in Int
  <1>1. ASSUME TypeOK PROVE Standings \in Int /\ \A u \in Users : Standing(u) \in Int
    <2>1. info \in [Users -> Staker] /\ earned \in [Users -> Nat]
      BY <1>1 DEF TypeOK, Staker
    <2> QED
      BY <2>1, StandingType DEF Standings, Standing
  <1>2. ASSUME TypeOK' PROVE Standings' \in Int /\ \A u \in Users : Standing(u)' \in Int
    <2>1. info' \in [Users -> Staker] /\ earned' \in [Users -> Nat]
      BY <1>2 DEF TypeOK, Staker
    <2> QED
      BY <2>1, StandingType DEF Standings, Standing
  <1> QED
    BY <1>1, <1>2

(* Settling moves the bond u had from his index to the global one, and     *)
(* values there the bond it leaves.                                        *)
LEMMA StandingSettled ==
    ASSUME TypeOK, TypeOK', NEW u \in Users, NEW e, Settles(u, e)
    PROVE  /\ info[u].bond \in Nat /\ e.bond \in Nat /\ IndexAt(now) \in Nat
           /\ Standings' = Standings + (times(info[u].bond, IndexAt(now))
                                           - times(e.bond, IndexAt(now)))
  <1> DEFINE i == IndexAt(now)
             s == info[u]
             paid == earned[u]
             next == earned'[u]
  <1>1. /\ s \in Staker /\ e \in Staker /\ i \in Nat /\ paid \in Nat
        /\ info'[u] = e /\ next = paid + (Settled(s, i).pending - e.pending)
        /\ \A v \in Users \ {u} : info'[v] = info[v] /\ earned'[v] = earned[v]
    BY HandedOut DEF TypeOK, Settles, Entry, Staker
  <1>2. /\ s.bond \in Nat /\ s.index \in Nat /\ s.pending \in Nat
        /\ e.bond \in Nat /\ e.index \in Nat /\ e.pending \in Nat
    BY <1>1 DEF Staker
  <1>3. times(e.bond, e.index) = times(e.bond, i)
    <2>1. CASE e = NoStake
      BY <1>1, <2>1, TimesZero DEF NoStake
    <2>2. CASE e.index = IndexAt(now)
      BY <2>2
    <2> QED
      BY <2>1, <2>2 DEF Settles, Entry
  <1>4. /\ times(s.bond, i) \in Nat /\ times(s.bond, s.index) \in Nat
        /\ times(e.bond, i) \in Nat
    BY <1>1, <1>2, TimesType
  <1>5. Settled(s, i).pending = s.pending + (times(s.bond, i) - times(s.bond, s.index))
    BY DEF Settled, Accrued
  <1> DEFINE a == s.pending + paid - times(s.bond, s.index)
             b == e.pending + next - times(e.bond, i)
  <1>6. b = a + (times(s.bond, i) - times(e.bond, i))
    <2> HIDE DEF s, i, paid, next
    <2> QED
      BY <1>1, <1>2, <1>4, <1>5, SMT
  <1>7. Standing(u) = a /\ Standing(u)' = b
    BY <1>1, <1>3 DEF Standing
  <1> HIDE DEF s, i, paid, next, a, b
  <1> DEFINE f == [v \in Users |-> Standing(v)]
             g == [v \in Users |-> Standing(v)']
  <1>8. /\ \A v \in Users : f[v] \in Int /\ g[v] \in Int
        /\ \A v \in Users \ {u} : g[v] = f[v]
        /\ f[u] = a /\ g[u] = b
    <2>1. \A v \in Users : Standing(v) \in Int /\ Standing(v)' \in Int
      BY StandingsType
    <2>2. \A v \in Users \ {u} : Standing(v)' = Standing(v)
      BY <1>1 DEF Standing
    <2> QED
      BY <1>7, <2>1, <2>2
  <1>9. Standings = Total(f) /\ Standings' = Total(g)
    BY DEF Standings
  <1> HIDE DEF f, g
  <1>10. Total(g) = Total(f) + (g[u] - f[u])
    BY ONLY <1>8, TotalChange, u \in Users
  <1>11. a \in Int /\ b \in Int /\ b - a = times(s.bond, i) - times(e.bond, i)
    BY <1>2, <1>4, <1>6, <1>8, SMT
  <1> QED
    BY <1>1, <1>2, <1>8, <1>9, <1>10, <1>11 DEF s, i

LEMMA PotentialType ==
    /\ TypeOK => Potential \in Int
    /\ TypeOK' => Potential' \in Int
  <1>1. DecOne \in Int
    BY StakingAssumption, SMT
  <1>2. ASSUME TypeOK PROVE Potential \in Int
    <2>1. Standings \in Int /\ totalBond \in Int /\ rewardIndex \in Int
      BY <1>2, StandingsType, SMT DEF TypeOK
    <2> QED
      BY <1>1, <2>1, SMT DEF Potential
  <1>3. ASSUME TypeOK' PROVE Potential' \in Int
    <2> DEFINE s == Standings'
               t == totalBond'
               i == rewardIndex'
    <2>1. s \in Int /\ t \in Nat /\ i \in Nat
      BY <1>3, StandingsType DEF TypeOK
    <2>2. Potential' = DecOne * s + t * i
      BY DEF Potential
    <2> HIDE DEF s, t, i
    <2>3. DecOne * s + t * i \in Int
      BY ONLY <1>1, <2>1, SMT
    <2> QED
      BY <2>2, <2>3
  <1> QED
    BY <1>2, <1>3

(* A transaction adds to the potential no more than it distributes, but    *)
(* for a rounding when it changes the bond.                                *)
LEMMA PotentialSettled ==
    ASSUME TypeOK, TypeOK', NEW u \in Users, NEW e, Settles(u, e)
    PROVE  /\ Handed \in Nat
           /\ Potential' <= Potential + DecOne * Handed + DecOne
           /\ e.bond = info[u].bond => Potential' <= Potential + DecOne * Handed
  <1> DEFINE i == IndexAt(now)
             b == info[u].bond
             c == e.bond
             x == times(b, i)
             y == times(c, i)
             s == Standings
             n == Handed
             D == DecOne
             T == totalBond
             r == rewardIndex
  <1>1. /\ b \in Nat /\ c \in Nat /\ i \in Nat /\ s \in Int /\ D \in Nat
        /\ Standings' = s + (x - y) /\ T \in Nat /\ r \in Nat
        /\ totalBond' = T + (c - b) /\ rewardIndex' = i
    <2>1. b \in Nat /\ c \in Nat /\ i \in Nat /\ Standings' = s + (x - y)
      BY StandingSettled
    <2>2. s \in Int /\ T \in Nat /\ r \in Nat
      BY StandingsType DEF TypeOK
    <2>3. totalBond' = T + (c - b) /\ rewardIndex' = i
      BY DEF Settles
    <2>4. D \in Nat
      BY StakingAssumption, SMT
    <2> QED
      BY <2>1, <2>2, <2>3, <2>4
  <1>2. n \in Nat /\ T * i <= T * r + D * n
    BY HandedOut DEF Settles
  <1>3. /\ x \in Nat /\ y \in Nat
        /\ b * i < D * x + D /\ D * x <= b * i /\ D * y <= c * i /\ c * i < D * y + D
        /\ b * i \in Nat /\ c * i \in Nat /\ D * x \in Nat /\ D * y \in Nat
    BY <1>1, TimesType, TimesRounds
  <1>4. /\ Potential = D * s + T * r
        /\ Potential' = D * (s + (x - y)) + (T + (c - b)) * i
    BY <1>1 DEF Potential
  <1>5. c = b => y = x
    OBVIOUS
  <1> HIDE DEF i, b, c, x, y, s, n, D, T, r
  <1>6. /\ D * (s + (x - y)) = D * s + (D * x - D * y)
        /\ (T + (c - b)) * i = T * i + (c * i - b * i)
        /\ D * s \in Int /\ T * i \in Nat /\ T * r \in Nat /\ D * n \in Nat
    BY <1>1, <1>2, <1>3, SMT
  <1>7. Potential' = D * s + T * i + ((D * x - b * i) + (c * i - D * y))
    BY <1>3, <1>4, <1>6, SMT
  <1>8. Potential' <= Potential + D * n + D
    BY <1>1, <1>2, <1>3, <1>4, <1>6, <1>7, SMT
  <1>9. c = b => Potential' <= Potential + D * n
    BY <1>1, <1>2, <1>3, <1>4, <1>5, <1>6, <1>7, SMT
  <1> QED
    BY <1>2, <1>8, <1>9 DEF b, c, n, D

(* What each step does to the potential.                                   *)
LEMMA PotentialMoves ==
    ASSUME TypeOK, TypeOK'
    PROVE  /\ \A u \in Users, amount \in Nat : Bond(u, amount) \/ Unbond(u, amount) =>
                 Handed \in Nat /\ Potential' <= Potential + DecOne * Handed + DecOne
           /\ \A u \in Users : Withdraw(u) \/ MigrateStaking(u) =>
                 Handed \in Nat /\ Potential' <= Potential + DecOne * Handed
           /\ \A u \in Users : Redeem(u) => Potential' = Potential
           /\ Quiet => Potential' = Potential
  <1>1. ASSUME UNCHANGED <<totalBond, rewardIndex, info, earned>>
        PROVE  Potential' = Potential
    BY <1>1 DEF Potential, Standings, Standing
  <1>2. ASSUME NEW u \in Users, NEW amount \in Nat, Bond(u, amount)
        PROVE  Handed \in Nat /\ Potential' <= Potential + DecOne * Handed + DecOne
    BY <1>2, BondSettles, PotentialSettled
  <1>3. ASSUME NEW u \in Users, NEW amount \in Nat, Unbond(u, amount)
        PROVE  Handed \in Nat /\ Potential' <= Potential + DecOne * Handed + DecOne
    BY <1>3, UnbondSettles, PotentialSettled
  <1>4. ASSUME NEW u \in Users, Withdraw(u)
        PROVE  Handed \in Nat /\ Potential' <= Potential + DecOne * Handed
    BY <1>4, WithdrawSettles, PotentialSettled
  <1>5. ASSUME NEW u \in Users, MigrateStaking(u)
        PROVE  Handed \in Nat /\ Potential' <= Potential + DecOne * Handed
    <2>1. /\ compute_reward_ok(now) /\ rewardIndex' = IndexAt(now)
          /\ totalBond' = totalBond /\ info' = info /\ earned' = earned
      BY <1>5, MigratePays
    <2> DEFINE n == Handed
               s == DecOne * Standings
               a == totalBond * rewardIndex
               b == totalBond * IndexAt(now)
               g == DecOne * n
    <2>2. n \in Nat /\ IndexAt(now) \in Nat /\ b <= a + g
      BY <2>1, HandedOut
    <2>3. s \in Int /\ a \in Int /\ b \in Int /\ g \in Int
      <3>1. Standings \in Int /\ totalBond \in Nat /\ rewardIndex \in Nat
        BY StandingsType DEF TypeOK
      <3>2. DecOne \in Nat
        BY StakingAssumption, SMT
      <3> HIDE DEF n
      <3> QED
        BY <2>2, <3>1, <3>2, SMT
    <2>4. Potential = s + a /\ Potential' = s + b
      BY <2>1 DEF Potential, Standings, Standing
    <2> HIDE DEF n, s, a, b, g
    <2>5. s + b <= s + a + g
      BY <2>2, <2>3, SMT
    <2> QED
      BY <2>2, <2>4, <2>5 DEF n, g
  <1>6. ASSUME NEW u \in Users, Redeem(u) PROVE Potential' = Potential
    BY <1>1, <1>6, RedeemPays DEF state
  <1>7. ASSUME Quiet PROVE Potential' = Potential
    BY <1>1, <1>7 DEF Quiet
  <1> QED
    BY <1>2, <1>3, <1>4, <1>5, <1>6, <1>7

(* A claim is a number: nobody's index is ahead of the global one.         *)
LEMMA ClaimType ==
    ASSUME TotalsInv, Handed \in Nat, NEW u \in Users
    PROVE  /\ Claim(u, now) \in Nat
           /\ Accrued(info[u], IndexAt(now)) \in Nat
           /\ Claim(u, now) + earned[u] = Standing(u) + times(info[u].bond, IndexAt(now))
  <1>1. /\ info[u] \in Staker /\ info[u].index <= rewardIndex /\ rewardIndex \in Nat
        /\ rewardIndex <= IndexAt(now) /\ IndexAt(now) \in Nat /\ earned[u] \in Nat
    BY IndexAdds DEF TotalsInv, TypeOK, Staker
  <1>2. /\ info[u].bond \in Nat /\ info[u].index \in Nat /\ info[u].pending \in Nat
    BY <1>1 DEF Staker
  <1>3. info[u].index <= IndexAt(now)
    BY <1>1, <1>2, SMT
  <1>4. /\ Accrued(info[u], IndexAt(now)) \in Nat
        /\ Settled(info[u], IndexAt(now)) \in Staker
    BY <1>1, <1>3, AccruedGrows
  <1>5. Claim(u, now) \in Nat
    BY <1>4 DEF Claim, Staker
  <1>6. times(info[u].bond, IndexAt(now)) \in Nat /\ times(info[u].bond, info[u].index) \in Nat
    BY <1>1, <1>2, TimesType
  <1>7. Claim(u, now) + earned[u] = Standing(u) + times(info[u].bond, IndexAt(now))
    BY <1>1, <1>2, <1>6, SMT DEF Claim, Settled, Accrued, Standing
  <1> QED
    BY <1>4, <1>5, <1>7

(* All claims and payments together are within the potential and what the  *)
(* schedule has released since the last distribution.                      *)
LEMMA ClaimsBelow ==
    ASSUME TotalsInv, Handed \in Nat
    PROVE  /\ Claims \in Nat /\ Total(earned) \in Nat
           /\ \A u \in Users : Claim(u, now) <= Claims
           /\ DecOne * (Claims + Total(earned)) <= Potential + DecOne * Handed
  <1> DEFINE D == DecOne
             i == IndexAt(now)
             f == [u \in Users |-> Standing(u)]
             w == [u \in Users |-> times(info[u].bond, i)]
             b == [u \in Users |-> info[u].bond]
             c == [u \in Users |-> Claim(u, now)]
             h == [u \in Users |-> Claim(u, now) + earned[u]]
             e == earned
  <1>1. TypeOK /\ i \in Nat /\ D \in Nat
    BY IndexAdds, StakingAssumption, SMT DEF TotalsInv
  <1>2. ASSUME NEW u \in Users
        PROVE  /\ f[u] \in Int /\ w[u] \in Int /\ b[u] \in Int /\ e[u] \in Nat /\ c[u] \in Nat
               /\ h[u] = c[u] + e[u] /\ h[u] = f[u] + w[u]
               /\ D * w[u] <= i * b[u]
    <2>1. f[u] = Standing(u) /\ w[u] = times(info[u].bond, i) /\ b[u] = info[u].bond
          /\ c[u] = Claim(u, now) /\ h[u] = Claim(u, now) + earned[u]
      OBVIOUS
    <2>2. info[u].bond \in Nat /\ earned[u] \in Nat /\ Standing(u) \in Int
      BY <1>1, StandingsType DEF TypeOK
    <2>3. times(info[u].bond, i) \in Nat /\ D * times(info[u].bond, i) <= info[u].bond * i
      BY <1>1, <2>2, TimesType, TimesRounds
    <2>4. info[u].bond * i = i * info[u].bond
      BY <1>1, <2>2, SMT
    <2>5. /\ c[u] \in Nat
          /\ Claim(u, now) + earned[u] = Standing(u) + times(info[u].bond, i)
      BY <2>1, ClaimType
    <2> HIDE DEF f, w, b, c, h, i
    <2>6. times(info[u].bond, i) \in Int /\ info[u].bond \in Int
      BY <2>2, <2>3, SMT
    <2> QED
      BY <2>1, <2>2, <2>3, <2>4, <2>5, <2>6
  <1>3. Claims = Total(c) /\ Standings = Total(f) /\ totalBond = Total(b)
    BY DEF Claims, Standings, TotalsInv, BondsAddUp, Bonds
  <1>4. totalBond \in Nat /\ rewardIndex \in Nat /\ Handed \in Nat
        /\ totalBond * i <= totalBond * rewardIndex + D * Handed
        /\ Standings \in Int
    BY <1>1, IndexAdds, StandingsType DEF TypeOK
  <1>5. \A u \in Users : Claim(u, now) = c[u]
    OBVIOUS
  <1> HIDE DEF D, i, f, w, b, c, h, e
  <1>6. /\ \A u \in Users : e[u] \in Int /\ c[u] \in Int
        /\ \A u \in Users : e[u] \in Nat
        /\ \A u \in Users : c[u] \in Nat
    BY <1>2, SMT
  <1>7. Total(e) \in Nat
    BY <1>6, TotalType
  <1>8. Total(c) \in Nat /\ \A u \in Users : c[u] <= Total(c)
    BY <1>6, TotalType
  <1>9. Total(h) = Total(c) + Total(e)
    BY <1>2, <1>6, SumPlus, UsersFinite DEF Total
  <1>10. Total(h) = Total(f) + Total(w)
    BY <1>2, SumPlus, UsersFinite DEF Total
  <1>11. D * Total(w) <= i * Total(b)
    <2>1. D \in Int /\ i \in Int
      BY <1>1, SMT
    <2>2. \A u \in Users : w[u] \in Int /\ b[u] \in Int /\ D * w[u] <= i * b[u]
      BY <1>2
    <2> QED
      BY ONLY <2>1, <2>2, SumScaled, UsersFinite DEF Total
  <1>12. Total(w) \in Int
    BY <1>2, SumType, UsersFinite DEF Total
  <1> DEFINE S == Standings
             W == Total(w)
             C == Total(c)
             E == Total(e)
             T == totalBond
             r == rewardIndex
             n == Handed
  <1>13. /\ S \in Int /\ W \in Int /\ C \in Nat /\ E \in Nat /\ T \in Nat /\ r \in Nat
         /\ n \in Nat /\ i \in Nat /\ D \in Nat
         /\ C + E = S + W /\ D * W <= i * T /\ T * i <= T * r + D * n
         /\ Potential = D * S + T * r
    BY <1>1, <1>3, <1>4, <1>7, <1>8, <1>9, <1>10, <1>11, <1>12 DEF Potential, D
  <1> HIDE DEF S, W, C, E, T, r, n
  <1>14. D * (C + E) = D * S + D * W /\ i * T = T * i
         /\ D * S \in Int /\ D * W \in Int /\ T * i \in Int /\ T * r \in Int /\ D * n \in Int
    BY <1>13, SMT
  <1>15. D * (C + E) <= Potential + D * n
    BY <1>13, <1>14, SMT
  <1> QED
    BY <1>3, <1>5, <1>7, <1>8, <1>15 DEF C, E, D, n, e

-----------------------------------------------------------------------------
(* Claims and the release, while the schedule is kept and not migrated.    *)

(* The inductive invariant: what was promised and paid at the global index *)
(* is within what the slots had released at the last distribution, but for *)
(* one unit for each rounding.                                             *)
ReleaseInv ==
    /\ TotalsInv
    /\ RewardsInv
    /\ Potential <= DecOne * (ReleasedAt(lastDistributed) + changes)

LEMMA HandedReleased ==
    ASSUME RewardsInv
    PROVE  /\ Handed \in Nat
           /\ ReleasedAt(lastDistributed) \in Nat
           /\ ReleasedAt(now) \in Nat
           /\ ReleasedAt(lastDistributed) + Handed <= ReleasedAt(now)
  <1>1. /\ ReleasedAt(lastDistributed) \in Nat /\ ReleasedAt(now) \in Nat
        /\ Distributed(now) \in Nat
        /\ ReleasedAt(lastDistributed) + Distributed(now) <= ReleasedAt(now)
    BY Releases
  <1>2. Handed = 0 \/ Handed = Distributed(now)
    BY DEF Handed
  <1> QED
    BY <1>1, <1>2, SMT

LEMMA ReleaseKept ==
    ASSUME ReleaseInv, WellFormed, ScheduleKept, ~Migrating, [Next]_vars
    PROVE  ReleaseInv'
  <1>1. TotalsInv /\ RewardsInv /\ TotalsInv' /\ RewardsInv' /\ TypeOK /\ TypeOK'
    BY TotalsKept, InvKept DEF ReleaseInv, TotalsInv
  <1> DEFINE D == DecOne
             P == Potential
             Q == Potential'
             n == Handed
             a == ReleasedAt(lastDistributed)
             b == ReleasedAt(now)
             k == changes
  <1>2. /\ D \in Nat /\ P \in Int /\ n \in Nat /\ a \in Nat /\ b \in Nat /\ a + n <= b
        /\ k \in Nat /\ P <= D * (a + k) /\ Q \in Int
    <2>1. D \in Nat
      BY StakingAssumption, SMT
    <2> QED
      BY <1>1, <2>1, PotentialType, HandedReleased DEF TypeOK, ReleaseInv
  <1>3. ASSUME schedule' = schedule, lastDistributed' = now
        PROVE  ReleasedAt(lastDistributed)' = b
    BY <1>3 DEF ReleasedAt, PartReleased
  <1>4. ASSUME Q <= P + D * n, schedule' = schedule, lastDistributed' = now, changes' = k
        PROVE  Q <= D * (ReleasedAt(lastDistributed)' + changes')
    <2>1. Q <= D * (b + k)
      <3> HIDE DEF D, P, Q, n, a, b, k
      <3>1. D * (a + k) + D * n = D * (a + n + k) /\ D * (a + n + k) <= D * (b + k)
        <4>1. a + n + k \in Nat /\ b + k \in Nat /\ a + n + k <= b + k
          BY <1>2, SMT
        <4>2. D * (a + n + k) <= D * (b + k)
          BY <1>2, <4>1, MulMono
        <4> QED
          BY <1>2, <4>2, SMT
      <3>2. D * (a + k) \in Int /\ D * n \in Int /\ D * (b + k) \in Int
        BY <1>2, SMT
      <3> QED
        BY <1>2, <1>4, <3>1, <3>2, SMT
    <2> QED
      BY <1>3, <1>4, <2>1
  <1>5. ASSUME Q <= P + D * n + D, schedule' = schedule, lastDistributed' = now,
               changes' = k + 1
        PROVE  Q <= D * (ReleasedAt(lastDistributed)' + changes')
    <2>1. Q <= D * (b + (k + 1))
      <3> HIDE DEF D, P, Q, n, a, b, k
      <3>1. /\ D * (a + k) + D * n + D = D * (a + n + (k + 1))
            /\ D * (a + n + (k + 1)) <= D * (b + (k + 1))
        <4>1. a + n + (k + 1) \in Nat /\ b + (k + 1) \in Nat /\ a + n + (k + 1) <= b + (k + 1)
          BY <1>2, SMT
        <4>2. D * (a + n + (k + 1)) <= D * (b + (k + 1))
          BY <1>2, <4>1, MulMono
        <4> QED
          BY <1>2, <4>2, SMT
      <3>2. D * (a + k) \in Int /\ D * n \in Int /\ D * (b + (k + 1)) \in Int
        BY <1>2, SMT
      <3> QED
        BY <1>2, <1>5, <3>1, <3>2, SMT
    <2> QED
      BY <1>3, <1>5, <2>1
  <1>6. ASSUME Q = P, schedule' = schedule, lastDistributed' = lastDistributed, changes' = k
        PROVE  Q <= D * (ReleasedAt(lastDistributed)' + changes')
    <2>1. ReleasedAt(lastDistributed)' = a
      BY <1>6 DEF ReleasedAt, PartReleased
    <2> QED
      BY <1>2, <1>6, <2>1
  <1>7. Q <= D * (ReleasedAt(lastDistributed)' + changes')
    <2>1. ASSUME NEW u \in Users, NEW amount \in Nat, Bond(u, amount) \/ Unbond(u, amount)
          PROVE  Q <= D * (ReleasedAt(lastDistributed)' + changes')
      <3>1. Q <= P + D * n + D
        BY <1>1, <2>1, PotentialMoves
      <3>2. schedule' = schedule /\ lastDistributed' = now /\ changes' = k + 1
        BY <2>1 DEF Bond, Unbond, RewardsComputed, Changing, config
      <3> QED
        BY <1>5, <3>1, <3>2
    <2>2. ASSUME NEW u \in Users, Redeem(u)
          PROVE  Q <= D * (ReleasedAt(lastDistributed)' + changes')
      <3>1. Q = P
        BY <1>1, <2>2, PotentialMoves
      <3> QED
        BY <1>6, <2>2, <3>1 DEF Redeem, config, state
    <2>3. ASSUME NEW u \in Users, Withdraw(u)
          PROVE  Q <= D * (ReleasedAt(lastDistributed)' + changes')
      <3>1. Q <= P + D * n
        BY <1>1, <2>3, PotentialMoves
      <3>2. schedule' = schedule /\ lastDistributed' = now /\ changes' = k
        BY <2>3 DEF Withdraw, RewardsComputed, config
      <3> QED
        BY <1>4, <3>1, <3>2
    <2>4. CASE Quiet
      <3>1. Q = P
        BY <1>1, <2>4, PotentialMoves
      <3>2. schedule' = schedule /\ lastDistributed' = lastDistributed /\ changes' = k
        BY <2>4 DEF Quiet, ScheduleKept
      <3> QED
        BY <1>6, <3>1, <3>2
    <2> QED
      BY <1>1, <2>1, <2>2, <2>3, <2>4, StepIs
  <1> QED
    BY <1>1, <1>7 DEF ReleaseInv

(* The potential of a contract without stakers.                            *)
LEMMA PotentialStart == ASSUME Init PROVE Potential = 0
  <1> DEFINE f == [u \in Users |-> Standing(u)]
  <1>1. ASSUME NEW u \in Users PROVE Standing(u) = 0
    <2>1. info[u] = NoStake /\ earned[u] = 0
      BY <1>1 DEF Init
    <2>2. times(0, 0) = 0
      BY TimesZero, SMT
    <2> QED
      BY <2>1, <2>2, SMT DEF Standing, NoStake
  <1>2. \A u \in Users : f[u] = 0
    BY <1>1
  <1>3. Standings = Total(f)
    BY DEF Standings
  <1> HIDE DEF f
  <1>4. Standings = 0
    BY <1>2, <1>3, SumZero, UsersFinite DEF Total
  <1>5. DecOne \in Nat /\ totalBond = 0 /\ rewardIndex = 0
    BY StakingAssumption, SMT DEF Init
  <1> QED
    BY <1>4, <1>5, SMT DEF Potential

LEMMA ReleaseStart == ASSUME Init, WellFormed PROVE ReleaseInv
  <1>1. TotalsInv /\ RewardsInv /\ Potential = 0 /\ changes = 0
    BY TotalsStart, InvStart, PotentialStart DEF Init
  <1>2. ReleasedAt(lastDistributed) \in Nat /\ DecOne \in Nat
    BY <1>1, HandedReleased, StakingAssumption, SMT
  <1> DEFINE a == ReleasedAt(lastDistributed)
  <1>3. 0 <= DecOne * (a + 0)
    <2> HIDE DEF a
    <2>1. a \in Nat
      BY <1>2 DEF a
    <2> QED
      BY <1>2, <2>1, SMT
  <1> QED
    BY <1>1, <1>3 DEF ReleaseInv

(* What fits DecOne times.                                                 *)
LEMMA Cancel ==
    ASSUME NEW a \in Int, NEW b \in Int, DecOne * a <= DecOne * b
    PROVE  a <= b
  <1>1. DecOne \in Nat /\ DecOne >= 1
    BY StakingAssumption, SMT
  <1>2. SUFFICES ASSUME b + 1 <= a PROVE FALSE
    BY SMT
  <1>3. DecOne * (a - (b + 1)) >= 0
    <2>1. a - (b + 1) \in Nat
      BY <1>2, SMT
    <2> QED
      BY <1>1, <2>1, SMT
  <1>4. DecOne * (a - (b + 1)) = DecOne * a - DecOne * b - DecOne
        /\ DecOne * a \in Int /\ DecOne * b \in Int
    BY <1>1, SMT
  <1> QED
    BY <1>1, <1>3, <1>4, SMT

LEMMA ClaimsReleased ==
    ASSUME ReleaseInv
    PROVE  /\ Claims \in Nat /\ Total(earned) \in Nat
           /\ \A u \in Users : Claim(u, now) <= Claims
           /\ Claims + Total(earned) <= ReleasedAt(now) + changes
  <1> DEFINE D == DecOne
             P == Potential
             n == Handed
             a == ReleasedAt(lastDistributed)
             b == ReleasedAt(now)
             k == changes
             c == Claims + Total(earned)
  <1>1. /\ TotalsInv /\ RewardsInv /\ TypeOK /\ P <= D * (a + k)
    BY DEF ReleaseInv, TotalsInv
  <1>2. /\ n \in Nat /\ a \in Nat /\ b \in Nat /\ a + n <= b /\ P \in Int
        /\ D \in Nat /\ k \in Nat
    <2>1. D \in Nat
      BY StakingAssumption, SMT
    <2> QED
      BY <1>1, <2>1, HandedReleased, PotentialType DEF TypeOK
  <1>3. /\ Claims \in Nat /\ Total(earned) \in Nat
        /\ \A u \in Users : Claim(u, now) <= Claims
        /\ D * c <= P + D * n
    BY <1>1, <1>2, ClaimsBelow
  <1>4. c \in Int
    BY <1>3, SMT
  <1> HIDE DEF D, P, n, a, b, k, c
  <1>5. D * c <= D * (b + k)
    <2>1. D * (a + k) + D * n = D * (a + n + k) /\ D * (a + n + k) <= D * (b + k)
      <3>1. a + n + k \in Nat /\ b + k \in Nat /\ a + n + k <= b + k
        BY <1>2, SMT
      <3>2. D * (a + n + k) <= D * (b + k)
        BY <1>2, <3>1, MulMono
      <3> QED
        BY <1>2, <3>2, SMT
    <2>2. D * (a + k) \in Int /\ D * n \in Int /\ D * (b + k) \in Int /\ D * c \in Int
      BY <1>2, <1>4, SMT
    <2> QED
      BY <1>1, <1>2, <1>3, <2>1, <2>2, SMT
  <1>6. b + k \in Int
    BY <1>2, SMT
  <1>7. c <= b + k
    BY <1>4, <1>5, <1>6, Cancel DEF D
  <1> QED
    BY <1>3, <1>7 DEF b, c, k

(* Stakers are never promised and paid more than the schedule has released *)
(* by now, but for less than one unit for each Bond and Unbond: however    *)
(* many they are and however their transactions interleave.                *)
THEOREM RewardsStayWithinRelease ==
    ASSUME WellFormed, ScheduleKept, ~Migrating PROVE Spec => []RewardsWithinRelease
  <1>1. Init => ReleaseInv
    BY ReleaseStart
  <1>2. ReleaseInv /\ [Next]_vars => ReleaseInv'
    BY ReleaseKept
  <1>3. Released = ReleasedAt(now)
    BY DEF Released, ReleasedAt, PartReleased, ReleasedOf
  <1>4. ReleaseInv => RewardsWithinRelease
    BY <1>3, ClaimsReleased DEF RewardsWithinRelease
  <1> QED
    BY <1>1, <1>2, <1>4, PTL DEF Spec

-----------------------------------------------------------------------------
(* Nobody is shut out but by an overflow.                                  *)

(* A product with the present index that fits, that with the staker's own  *)
(* index fits too.                                                         *)
LEMMA OwnIndexFits ==
    ASSUME TotalsInv, Handed \in Nat, NEW u \in Users, times_ok(info[u].bond, IndexAt(now))
    PROVE  times_ok(info[u].bond, info[u].index)
  <1>1. /\ info[u].bond \in Nat /\ info[u].index \in Nat
        /\ rewardIndex \in Nat /\ info[u].index <= rewardIndex
    BY DEF TotalsInv, TypeOK
  <1>2. IndexAt(now) \in Nat /\ rewardIndex <= IndexAt(now)
    BY IndexAdds DEF TotalsInv
  <1> DEFINE a == times(info[u].bond, info[u].index)
             b == times(info[u].bond, IndexAt(now))
  <1>3. info[u].index <= IndexAt(now)
    BY <1>1, <1>2, SMT
  <1>4. a \in Nat /\ b \in Nat /\ a <= b /\ b <= MaxUint /\ MaxUint \in Nat
    BY <1>1, <1>2, <1>3, TimesType, TimesMonoIndex, StakingAssumption DEF times_ok, Fits
  <1> HIDE DEF a, b
  <1>5. a <= MaxUint
    BY <1>4, SMT
  <1> QED
    BY <1>5 DEF times_ok, Fits, a

(* A bond at an index of no more than DecOne for each unit of r earns no   *)
(* more than bond * r.                                                     *)
LEMMA TimesWithin ==
    ASSUME NEW bond \in Nat, NEW i \in Nat, NEW r \in Nat, i <= r * DecOne
    PROVE  times(bond, i) <= bond * r
  <1>1. DecOne \in Nat /\ DecOne > 0 /\ bond * r \in Nat /\ r * DecOne \in Nat
    BY StakingAssumption, SMT
  <1> DEFINE x == times(bond, i)
             y == bond * r
  <1>2. x \in Nat /\ DecOne * x <= bond * i
    BY TimesType, TimesRounds
  <1>3. bond * i <= bond * (r * DecOne) /\ bond * i \in Nat
    BY <1>1, MulMono, SMT
  <1>4. bond * (r * DecOne) = DecOne * y
    BY <1>1, SMT
  <1> HIDE DEF x
  <1>5. DecOne * x <= DecOne * y
    <2>1. DecOne * y \in Nat /\ DecOne * x \in Nat
      BY <1>1, <1>2, SMT
    <2> HIDE DEF y
    <2> QED
      BY <1>2, <1>3, <1>4, <2>1, SMT
  <1>6. x \in Int /\ y \in Int
    BY <1>1, <1>2, SMT
  <1> QED
    BY <1>5, <1>6, Cancel DEF x

(* A slot releases no more than its amount.                                *)
LEMMA SlotReleasesAmount ==
    ASSUME NEW slot \in Slot, ~Malformed(slot), NEW t \in Nat
    PROVE  /\ ReleasedOf(slot, t) \in Nat
           /\ ReleasedOf(slot, t) <= slot.amount
  <1> DEFINE m == slot.end - slot.start
             n == Earlier(slot.end, t) - slot.start
             r == Rate(slot)
             a == slot.amount
  <1>1. /\ slot.start \in Nat /\ slot.end \in Nat /\ a \in Nat /\ m \in Nat /\ m > 0
    BY SMT DEF Slot, Malformed
  <1>2. CASE slot.start > t
    BY <1>1, <1>2, SMT DEF ReleasedOf
  <1>3. CASE ~(slot.start > t)
    <2>1. n \in Nat /\ n <= m
      BY <1>1, <1>3, SMT DEF Earlier
    <2>2. r \in Nat /\ m * r <= a * DecOne
      <3>1. a * DecOne \in Nat
        BY <1>1, StakingAssumption, SMT
      <3> QED
        BY <1>1, <3>1, DivFloor DEF Rate, from_ratio
    <2>3. ReleasedOf(slot, t) = times(n, r)
      BY <1>3 DEF ReleasedOf
    <2> HIDE DEF m, n, r, a
    <2>4. n * r <= m * r /\ m * r \in Nat /\ n * r \in Nat
      BY <1>1, <2>1, <2>2, MulMono, SMT
    <2>5. times(n, r) \in Nat /\ DecOne * times(n, r) <= n * r
      BY <2>1, <2>2, TimesType, TimesRounds
    <2> DEFINE x == times(n, r)
    <2>6. x \in Nat /\ DecOne * x <= DecOne * a
      <3>1. a * DecOne = DecOne * a /\ a * DecOne \in Nat /\ DecOne \in Nat
        BY <1>1, StakingAssumption, SMT
      <3>2. x \in Nat /\ DecOne * x <= n * r
        BY <2>5
      <3> HIDE DEF x
      <3>3. DecOne * x \in Nat
        BY <3>1, <3>2, SMT
      <3> QED
        BY <2>2, <2>4, <3>1, <3>2, <3>3, SMT
    <2> HIDE DEF x
    <2>7. x \in Int /\ a \in Int
      BY <1>1, <2>6, SMT
    <2>8. x <= a
      BY <2>6, <2>7, Cancel
    <2> QED
      BY <2>3, <2>6, <2>8 DEF x, a
  <1> QED
    BY <1>2, <1>3

(* The i-th slot's amount, nothing where there is no such slot.            *)
PartAmount(i) == IF i <= Len(schedule) THEN schedule[i].amount ELSE 0

LEMMA ReleasedWithinAmount ==
    ASSUME RewardsInv, NEW t \in Nat
    PROVE  /\ TotalAmount(schedule) \in Nat
           /\ ReleasedAt(t) \in Nat
           /\ ReleasedAt(t) <= TotalAmount(schedule)
           /\ \A i \in DOMAIN schedule : schedule[i].amount <= TotalAmount(schedule)
  <1>1. ASSUME NEW i \in {1, 2}
        PROVE  /\ PartAmount(i) \in Nat /\ PartReleased(i, t) \in Nat
               /\ PartReleased(i, t) <= PartAmount(i)
    <2>1. CASE i <= Len(schedule)
      <3>1. schedule[i] \in Slot /\ ~Malformed(schedule[i])
        BY <2>1, SlotIs, SMT
      <3>2. schedule[i].amount \in Nat
        BY <3>1 DEF Slot
      <3> QED
        BY <2>1, <3>1, <3>2, SlotReleasesAmount DEF PartAmount, PartReleased
    <2>2. CASE ~(i <= Len(schedule))
      BY <2>2, SMT DEF PartAmount, PartReleased
    <2> QED
      BY <2>1, <2>2
  <1>2. TotalAmount(schedule) = PartAmount(1) + PartAmount(2)
    BY DEF TotalAmount, PartAmount
  <1>3. ASSUME NEW i \in DOMAIN schedule
        PROVE  i \in {1, 2} /\ PartAmount(i) = schedule[i].amount
    <2> DEFINE len == Len(schedule)
    <2>1. len \in Nat /\ len <= 2 /\ DOMAIN schedule = 1 .. len
      BY SMT DEF RewardsInv, MaxSlots
    <2>2. i \in 1 .. len
      BY <2>1
    <2>3. i \in {1, 2} /\ i <= len
      <3> HIDE DEF len
      <3> QED
        BY <2>1, <2>2, SMT
    <2> QED
      BY <2>3 DEF PartAmount
  <1>4. ASSUME NEW i \in DOMAIN schedule PROVE schedule[i].amount <= TotalAmount(schedule)
    <2>1. i = 1 \/ i = 2
      BY <1>3
    <2>2. PartAmount(i) <= TotalAmount(schedule)
      BY <1>1, <1>2, <2>1, SMT
    <2> QED
      BY <1>3, <2>2
  <1>5. /\ TotalAmount(schedule) \in Nat /\ ReleasedAt(t) \in Nat
        /\ ReleasedAt(t) <= TotalAmount(schedule)
    BY <1>1, <1>2, SMT DEF ReleasedAt
  <1> QED
    BY <1>4, <1>5

(* What an amount promises at the most, in atomics and with one unit for   *)
(* each Bond and Unbond, fits in a Uint128.                                *)
Fitting(amount) == Fits(amount * DecOne) /\ Fits(amount + MaxChanges)

(* Whatever is instantiated promises no more than a Uint128 can hold.      *)
Roomy == \A msg \in Instantiations : Fitting(TotalAmount(msg.schedule))

RoomInv ==
    /\ ReleaseInv
    /\ IndexInv
    /\ Fitting(TotalAmount(schedule))

LEMMA RoomKept ==
    ASSUME RoomInv, WellFormed, ScheduleKept, ~Migrating, [Next]_vars
    PROVE  RoomInv'
  <1>1. TypeOK
    BY DEF RoomInv, ReleaseInv, TotalsInv
  <1>2. schedule' = schedule
    <2>1. ASSUME NEW u \in Users, NEW amount \in Nat, Bond(u, amount) \/ Unbond(u, amount)
          PROVE  schedule' = schedule
      BY <2>1 DEF Bond, Unbond, config
    <2>2. ASSUME NEW u \in Users, Redeem(u) \/ Withdraw(u) PROVE schedule' = schedule
      BY <2>2 DEF Redeem, Withdraw, config
    <2>3. CASE Quiet
      BY <2>3 DEF Quiet, ScheduleKept
    <2> QED
      BY <1>1, <2>1, <2>2, <2>3, StepIs
  <1>3. Fitting(TotalAmount(schedule))'
    BY <1>2 DEF RoomInv, Fitting, Fits, TotalAmount
  <1> QED
    BY <1>3, ReleaseKept, IndexInvKept DEF RoomInv

LEMMA RoomIsEnough == ASSUME RoomInv PROVE ShutOutOnlyByOverflow
  <1> DEFINE total == TotalAmount(schedule)
  <1>1. /\ RewardsInv /\ TotalsInv /\ ReleaseInv /\ IndexInv
        /\ total * DecOne <= MaxUint /\ total + MaxChanges <= MaxUint
    BY DEF RoomInv, ReleaseInv, Fitting, Fits
  <1>2. now \in Nat /\ lastDistributed \in Nat /\ lastDistributed <= now
        /\ DecOne \in Nat /\ MaxUint \in Nat /\ MaxChanges \in Nat
    BY <1>1, StakingAssumption, SMT DEF RewardsInv
  <1>3. /\ total \in Nat /\ ReleasedAt(now) \in Nat /\ ReleasedAt(now) <= total
        /\ \A i \in DOMAIN schedule : schedule[i].amount <= total
    BY <1>1, <1>2, ReleasedWithinAmount
  <1> HIDE DEF total
  <1>4. total * DecOne \in Nat /\ ReleasedAt(now) * DecOne <= total * DecOne
    BY <1>2, <1>3, MulMono, SMT
  <1>5. ASSUME NEW i \in DOMAIN schedule, ~Skipped(schedule[i], now)
        PROVE  Rate_ok(schedule[i]) /\ Passed(schedule[i], now) >= 0
    <2> DEFINE slot == schedule[i]
    <2>1. slot \in Slot /\ ~Malformed(slot)
      BY <1>1 DEF RewardsInv
    <2>2. Passed(slot, now) \in Nat
      BY <1>1, <1>2, <1>5, <2>1, SlotGrows
    <2>3. slot.amount <= total
      BY <1>3
    <2> HIDE DEF slot
    <2>4. slot.end - slot.start \in Nat /\ slot.end - slot.start > 0 /\ slot.amount \in Nat
          /\ slot.end > slot.start
      BY <2>1, SMT DEF Slot, Malformed
    <2>5. Rate(slot) \in Nat /\ Rate(slot) <= slot.amount * DecOne
      BY <2>4, RatioType DEF Rate
    <2>6. slot.amount * DecOne <= total * DecOne /\ slot.amount * DecOne \in Nat
      BY <1>2, <1>3, <2>3, <2>4, MulMono, SMT
    <2>7. Rate(slot) <= MaxUint
      BY <1>1, <1>2, <1>4, <2>5, <2>6, SMT
    <2>8. Rate_ok(slot)
      BY <2>4, <2>7 DEF Rate_ok, Rate, from_ratio_ok, from_ratio, Fits
    <2> QED
      BY <2>2, <2>8, SMT DEF slot
  <1>6. Fits(IndexAt(now))
    <2>1. IndexAt(now) <= ReleasedAt(now) * DecOne /\ IndexAt(now) \in Nat
      BY <1>1, <1>2, IndexBounded, IndexGrows
    <2>2. ReleasedAt(now) * DecOne \in Nat
      BY <1>2, <1>3, SMT
    <2> QED
      BY <1>1, <1>2, <1>4, <2>1, <2>2, SMT DEF Fits
  <1>7. compute_reward_ok(now)
    <2>1. ASSUME totalBond > 0 PROVE Fits(Distributed(now))
      <3>1. /\ Handed \in Nat /\ Handed <= ReleasedAt(now) - ReleasedAt(lastDistributed)
            /\ ReleasedAt(lastDistributed) \in Nat
        BY <1>1, HandedReleased
      <3>2. Distributed(now) = Handed
        BY <2>1, SMT DEF Handed
      <3> QED
        BY <1>1, <1>2, <1>3, <3>1, <3>2, SMT DEF Fits
    <2> QED
      BY <1>5, <1>6, <2>1 DEF compute_reward_ok
  <1>8. ASSUME NEW u \in Users, Fits(info[u].bond * Released)
        PROVE  Settled_ok(info[u], IndexAt(now))
    <2>1. Handed \in Nat
      BY <1>1, HandedReleased
    <2>2. Claim(u, now) \in Nat /\ Accrued(info[u], IndexAt(now)) \in Nat
      BY <1>1, <2>1, ClaimType
    <2>3. /\ Claims \in Nat /\ Total(earned) \in Nat /\ Claim(u, now) <= Claims
          /\ Claims + Total(earned) <= ReleasedAt(now) + changes
      BY <1>1, ClaimsReleased
    <2>4. changes \in Nat /\ changes <= MaxChanges
      BY <1>1 DEF TotalsInv, TypeOK
    <2>5. Claim(u, now) <= MaxUint
      BY <1>1, <1>2, <1>3, <2>2, <2>3, <2>4, SMT
    <2>6. Accrued(info[u], IndexAt(now)) >= 0
      BY <2>2, SMT
    <2>7. times_ok(info[u].bond, IndexAt(now))
      <3>1. info[u].bond \in Nat
        BY <1>1 DEF TotalsInv, TypeOK
      <3>2. /\ IndexAt(now) \in Nat /\ IndexAt(now) <= ReleasedAt(now) * DecOne
            /\ ReleasedAt(now) = Released
        BY <1>1, <1>2, IndexBounded, IndexGrows DEF Released, ReleasedAt, PartReleased, ReleasedOf
      <3>3. times(info[u].bond, IndexAt(now)) <= info[u].bond * Released
        BY <1>3, <3>1, <3>2, TimesWithin
      <3>4. times(info[u].bond, IndexAt(now)) \in Nat /\ info[u].bond * Released \in Nat
        <4>1. times(info[u].bond, IndexAt(now)) \in Nat
          BY <3>1, <3>2, TimesType
        <4>2. info[u].bond * Released \in Nat
          BY <1>3, <3>1, <3>2, SMT
        <4> QED
          BY <4>1, <4>2
      <3>5. info[u].bond * Released <= MaxUint
        BY <1>8 DEF Fits
      <3> QED
        BY <1>2, <3>3, <3>4, <3>5, SMT DEF times_ok, Fits
    <2>8. times_ok(info[u].bond, info[u].index)
      BY <1>1, <2>1, <2>7, OwnIndexFits
    <2> QED
      BY <2>5, <2>6, <2>7, <2>8 DEF Settled_ok, Fits, Claim
  <1> QED
    BY <1>7, <1>8 DEF ShutOutOnlyByOverflow

(* With a well-formed schedule that promises no more than fits, neither    *)
(* the subtractions nor a rate, the index or a pending reward of what      *)
(* Bond, Unbond and Withdraw compute first can fail, whoever bonded how    *)
(* little and whenever; nor can the product of a bond with the index, as   *)
(* long as the bond times the rewards released so far fits.                *)
THEOREM OnlyOverflowShutsOut ==
    ASSUME WellFormed, ScheduleKept, ~Migrating, Roomy
    PROVE  Spec => []ShutOutOnlyByOverflow
  <1>1. ASSUME Init PROVE RoomInv
    <2>1. ReleaseInv
      BY <1>1, ReleaseStart
    <2>2. IndexInv
      <3>1. RewardsInv /\ rewardIndex = 0
        BY <1>1, InvStart DEF Init
      <3>2. ReleasedAt(lastDistributed) * DecOne \in Nat
        BY <3>1, Releases, StakingAssumption, SMT
      <3> QED
        BY <3>1, <3>2, SMT DEF IndexInv
    <2>3. Fitting(TotalAmount(schedule))
      BY <1>1 DEF Init, Roomy
    <2> QED
      BY <2>1, <2>2, <2>3 DEF RoomInv
  <1>2. RoomInv /\ [Next]_vars => RoomInv'
    BY RoomKept
  <1>3. RoomInv => ShutOutOnlyByOverflow
    BY RoomIsEnough
  <1> QED
    BY <1>1, <1>2, <1>3, PTL DEF Spec

-----------------------------------------------------------------------------
(* Claims and the contract's reward tokens, migrations included.           *)

(* What the contract holds of the reward token beside the stakes, and what *)
(* it has paid out of it.                                                  *)
SetApart == IF rewardToken = lpToken THEN Stakes ELSE 0
Purse == bal[rewardToken][Staking] + Total(earned) - SetApart

LEMMA PurseType ==
    /\ TotalsInv => Purse \in Int
    /\ TotalsInv' => Purse' \in Int
  <1>1. ASSUME TotalsInv PROVE Purse \in Int
    <2>1. Stakes \in Nat /\ bal[rewardToken][Staking] \in Nat /\ Total(earned) \in Nat
      <3>1. \A u \in Users : earned[u] \in Nat
        BY <1>1 DEF TotalsInv, TypeOK
      <3> QED
        BY <1>1, <3>1, StakesNow, Accounts, TotalType DEF TotalsInv, TypeOK
    <2>2. SetApart \in Nat
      BY <2>1, SMT DEF SetApart
    <2> QED
      BY <2>1, <2>2, SMT DEF Purse
  <1>2. ASSUME TotalsInv' PROVE Purse' \in Int
    <2> DEFINE b == bal'[rewardToken'][Staking]
               e == Total(earned')
               s == SetApart'
    <2>1. b \in Nat /\ e \in Nat /\ Stakes' \in Nat
      <3>1. \A u \in Users : earned'[u] \in Nat
        BY <1>2 DEF TotalsInv, TypeOK
      <3> QED
        BY <1>2, <3>1, StakesNow, Accounts, TotalType DEF TotalsInv, TypeOK
    <2>2. s \in Nat
      BY <2>1 DEF SetApart
    <2>3. Purse' = b + e - s
      BY DEF Purse
    <2> HIDE DEF b, e, s
    <2>4. b + e - s \in Int
      BY ONLY <2>1, <2>2, SMT
    <2> QED
      BY <2>3, <2>4
  <1> QED
    BY <1>1, <1>2

(* Every step leaves the purse as it is or adds to it, except that a       *)
(* migration takes out no more than what it sends.                         *)
LEMMA PurseMoves ==
    ASSUME TotalsInv, TotalsInv'
    PROVE  /\ \A u \in Users, amount \in Nat :
                 Bond(u, amount) \/ Unbond(u, amount) => Purse' >= Purse
           /\ \A u \in Users : Redeem(u) \/ Withdraw(u) => Purse' >= Purse
           /\ \A u \in Users : MigrateStaking(u) => Purse' >= Purse - Remaining
           /\ Quiet /\ TokenPairs = {} => Purse' >= Purse
  <1> DEFINE b == bal[rewardToken][Staking]
             c == bal'[rewardToken][Staking]
             e == Total(earned)
             f == Total(earned')
             s == Stakes
             t == Stakes'
             same == rewardToken = lpToken
  <1>1. /\ TypeOK /\ TypeOK' /\ rewardToken \in Tokens /\ lpToken \in Tokens
        /\ Staking \in Account
        /\ b \in Nat /\ c \in Nat /\ e \in Nat /\ f \in Nat /\ s \in Nat /\ t \in Nat
    <2>1. TypeOK /\ TypeOK' /\ rewardToken \in Tokens /\ lpToken \in Tokens
          /\ Staking \in Account
      BY Accounts DEF TotalsInv, TypeOK
    <2>2. \A u \in Users : earned[u] \in Nat
      BY <2>1 DEF TypeOK
    <2>3. \A u \in Users : earned'[u] \in Nat
      BY <2>1 DEF TypeOK
    <2>4. e \in Nat /\ f \in Nat
      BY <2>2, <2>3, TotalType
    <2> QED
      BY <2>1, <2>4, StakesNow DEF TypeOK
  <1>2. Purse = IF same THEN b + e - s ELSE b + e - 0
    BY DEF Purse, SetApart
  <1>3. ASSUME lpToken' = lpToken, rewardToken' = rewardToken
        PROVE  Purse' = IF same THEN c + f - t ELSE c + f - 0
    BY <1>3 DEF Purse, SetApart
  <1>4. ASSUME lpToken' = lpToken, rewardToken' = rewardToken, NEW r \in Nat,
               same => c + f - t >= b + e - s - r,
               ~same => c + f >= b + e - r
        PROVE  Purse' >= Purse - r
    <2> DEFINE p == Purse
               q == Purse'
    <2>1. /\ p = IF same THEN b + e - s ELSE b + e - 0
          /\ q = IF same THEN c + f - t ELSE c + f - 0
      BY <1>2, <1>3, <1>4
    <2> HIDE DEF p, q, b, c, e, f, s, t, same
    <2>2. q >= p - r
      BY ONLY <1>1, <1>4, <2>1, SMT
    <2> QED
      BY <2>2 DEF p, q
  <1> HIDE DEF b, c, e, f, s, t
  <1>5. ASSUME Purse' >= Purse - 0 PROVE Purse' >= Purse
    <2> DEFINE p == Purse
               q == Purse'
    <2>1. p \in Int /\ q \in Int
      BY PurseType
    <2> HIDE DEF p, q
    <2>2. q >= p - 0 => q >= p
      BY <2>1, SMT
    <2> QED
      BY <1>5, <2>2 DEF p, q
  <1>6. ASSUME NEW u \in Users, NEW amount \in Nat, Bond(u, amount)
        PROVE  Purse' >= Purse
    <2>1. lpToken' = lpToken /\ rewardToken' = rewardToken /\ earned' = earned
      BY <1>6 DEF Bond, config
    <2>2. t = s + amount
      BY <1>6, StakesMove DEF s, t
    <2>3. /\ same => c = b + amount
          /\ ~same => c = b
      BY <1>1, <1>6, BondPays DEF b, c
    <2>4. f = e
      BY <2>1 DEF e, f
    <2>5. (same => c + f - t >= b + e - s - 0) /\ (~same => c + f >= b + e - 0)
      <3> HIDE DEF same
      <3> QED
        BY <1>1, <2>2, <2>3, <2>4, SMT
    <2> QED
      BY <1>4, <1>5, <2>1, <2>5
  <1>7. ASSUME NEW u \in Users, NEW amount \in Nat, Unbond(u, amount)
        PROVE  Purse' >= Purse
    <2>1. lpToken' = lpToken /\ rewardToken' = rewardToken /\ earned' = earned
      BY <1>7 DEF Unbond, config
    <2>2. t <= s
      BY <1>7, StakesMove DEF s, t
    <2>3. c = b
      BY <1>1, <1>7, UnbondPays DEF b, c
    <2>4. f = e
      BY <2>1 DEF e, f
    <2>5. (same => c + f - t >= b + e - s - 0) /\ (~same => c + f >= b + e - 0)
      <3> HIDE DEF same
      <3> QED
        BY <1>1, <2>2, <2>3, <2>4, SMT
    <2> QED
      BY <1>4, <1>5, <2>1, <2>5
  <1>8. ASSUME NEW u \in Users, Redeem(u)
        PROVE  Purse' >= Purse
    <2>1. lpToken' = lpToken /\ rewardToken' = rewardToken /\ earned' = earned
          /\ Due(u) \in Nat
      BY <1>1, <1>8, RedeemPays DEF config
    <2>2. t = s - Due(u)
      BY <1>8, StakesMove DEF s, t
    <2>3. /\ same => c = b - Due(u)
          /\ ~same => c = b
      BY <1>1, <1>8, RedeemPays DEF b, c
    <2>4. f = e
      BY <2>1 DEF e, f
    <2>5. (same => c + f - t >= b + e - s - 0) /\ (~same => c + f >= b + e - 0)
      <3> HIDE DEF same
      <3> QED
        BY <1>1, <2>1, <2>2, <2>3, <2>4, SMT
    <2> QED
      BY <1>4, <1>5, <2>1, <2>5
  <1>9. ASSUME NEW u \in Users, Withdraw(u)
        PROVE  Purse' >= Purse
    <2> DEFINE paid == Settled(info[u], IndexAt(now)).pending
    <2>1. /\ lpToken' = lpToken /\ rewardToken' = rewardToken
          /\ earned' = [earned EXCEPT ![u] = earned[u] + paid]
      BY <1>9 DEF Withdraw, config
    <2>2. t = s
      BY <1>9, StakesMove DEF s, t
    <2>3. paid \in Nat /\ c = b - paid
      BY <1>1, <1>9, WithdrawPays DEF b, c
    <2>4. f = e + paid
      <3> DEFINE g == earned
                 h == earned'
      <3>1. /\ g \in [Users -> Nat] /\ h \in [Users -> Nat] /\ h[u] = g[u] + paid
            /\ \A v \in Users \ {u} : h[v] = g[v]
        BY <1>1, <2>1 DEF TypeOK
      <3> HIDE DEF g, h, paid
      <3>2. /\ \A v \in Users : g[v] \in Int /\ h[v] \in Int
            /\ g[u] \in Nat
        BY <3>1, SMT
      <3>3. Total(h) = Total(g) + (h[u] - g[u])
        BY ONLY <3>1, <3>2, TotalChange, u \in Users
      <3>4. h[u] - g[u] = paid
        BY <2>3, <3>1, <3>2, SMT
      <3> QED
        BY <3>3, <3>4 DEF e, f, g, h
    <2> HIDE DEF paid
    <2>5. (same => c + f - t >= b + e - s - 0) /\ (~same => c + f >= b + e - 0)
      <3> HIDE DEF same
      <3> QED
        BY <1>1, <2>2, <2>3, <2>4, SMT
    <2> QED
      BY <1>4, <1>5, <2>1, <2>5
  <1>10. ASSUME NEW u \in Users, MigrateStaking(u)
         PROVE  Purse' >= Purse - Remaining
    <2>1. lpToken' = lpToken /\ rewardToken' = rewardToken /\ earned' = earned
          /\ Remaining \in Nat
      BY <1>1, <1>10, MigratePays
    <2>2. t = s
      BY <1>10, StakesMove DEF s, t
    <2>3. /\ same => c = b - Remaining
          /\ ~same => c = b
      BY <1>1, <1>10, MigratePays DEF b, c
    <2>4. f = e
      BY <2>1 DEF e, f
    <2>5. /\ same => c + f - t >= b + e - s - Remaining
          /\ ~same => c + f >= b + e - Remaining
      <3> HIDE DEF same
      <3> QED
        BY <1>1, <2>1, <2>2, <2>3, <2>4, SMT
    <2> QED
      BY <1>4, <2>1, <2>5
  <1>11. ASSUME Quiet, TokenPairs = {}
         PROVE  Purse' >= Purse
    <2>1. lpToken' = lpToken /\ rewardToken' = rewardToken /\ earned' = earned /\ bal' = bal
      BY <1>11 DEF Quiet
    <2>2. t = s
      BY <1>11, StakesMove DEF s, t
    <2>3. c = b /\ f = e
      BY <2>1 DEF b, c, e, f
    <2>4. (same => c + f - t >= b + e - s - 0) /\ (~same => c + f >= b + e - 0)
      <3> HIDE DEF same
      <3> QED
        BY <1>1, <2>2, <2>3, SMT
    <2> QED
      BY <1>4, <1>5, <2>1, <2>4
  <1> QED
    BY <1>6, <1>7, <1>8, <1>9, <1>10, <1>11

(* A slot that is stopped keeps what it has released, but for one unit, if *)
(* the time passed since its start is no more than DecOne: its new rate is *)
(* rounded down from an amount that was rounded down.                      *)
LEMMA StoppedReleases ==
    ASSUME NEW slot \in Slot, ~Malformed(slot), now \in Nat, slot.start < now, now <= DecOne
    PROVE  /\ ReleasedOf(slot, now) \in Nat
           /\ ReleasedOf(Stopped(slot), now) \in Nat
           /\ ReleasedOf(slot, now) <= ReleasedOf(Stopped(slot), now) + 1
  <1>1. slot.start \in Nat /\ slot.end \in Nat /\ ~(slot.start > now)
    BY SMT DEF Slot
  <1>2. ReleasedOf(slot, now) \in Nat
    BY SlotReleasesAmount
  <1>3. CASE slot.end < now
    <2>1. Stopped(slot) = slot
      BY <1>3 DEF Stopped
    <2> QED
      BY <1>2, <2>1, SMT
  <1>4. CASE ~(slot.end < now)
    <2> DEFINE n == now - slot.start
               R == Rate(slot)
               a == times(n, R)
               r == from_ratio(a, n)
               x == times(n, r)
    <2>1. n \in Nat /\ n > 0 /\ n <= DecOne /\ Earlier(slot.end, now) = now
          /\ Earlier(now, now) = now
      BY <1>1, <1>4, StakingAssumption, SMT DEF Earlier
    <2>2. R \in Nat
      BY RateType
    <2>3. Stopped(slot) = [start |-> slot.start, end |-> now, amount |-> a]
      BY <1>4 DEF Stopped
    <2>4. ReleasedOf(slot, now) = a /\ ReleasedOf(Stopped(slot), now) = x
      <3>1. /\ Stopped(slot).start = slot.start /\ Stopped(slot).end = now
            /\ Stopped(slot).amount = a
        BY <2>3
      <3>2. Rate(Stopped(slot)) = r
        BY <3>1 DEF Rate
      <3> QED
        BY <1>1, <2>1, <3>1, <3>2 DEF ReleasedOf
    <2> HIDE DEF n, R
    <2>5. a \in Nat
      BY <2>1, <2>2, TimesType
    <2> HIDE DEF a
    <2>6. r \in Nat /\ a * DecOne < n * r + n /\ a * DecOne \in Nat
      <3>1. a * DecOne \in Nat
        BY <2>5, StakingAssumption, SMT
      <3> QED
        BY <2>1, <3>1, DivFloor DEF from_ratio
    <2> HIDE DEF r
    <2>7. x \in Nat /\ n * r < DecOne * x + DecOne /\ n * r \in Nat /\ DecOne * x \in Nat
      BY <2>1, <2>6, TimesType, TimesRounds
    <2> HIDE DEF x
    <2>8. a <= x + 1
      <3>1. DecOne \in Nat /\ DecOne >= 1
        BY StakingAssumption, SMT
      <3>2. SUFFICES ASSUME x + 2 <= a PROVE FALSE
        BY <2>5, <2>7, SMT
      <3>3. (x + 2) * DecOne <= a * DecOne /\ (x + 2) * DecOne = DecOne * x + DecOne + DecOne
        <4>1. x + 2 \in Nat
          BY <2>7, SMT
        <4>2. (x + 2) * DecOne <= a * DecOne
          BY <2>5, <3>1, <3>2, <4>1, MulMono
        <4> QED
          BY <2>7, <3>1, <4>2, SMT
      <3> QED
        BY <2>1, <2>6, <2>7, <3>1, <3>3, SMT
    <2> QED
      BY <2>4, <2>5, <2>7, <2>8
  <1> QED
    BY <1>3, <1>4

(* A migration keeps what the schedule has released, but for one unit for  *)
(* each of its slots.                                                      *)
LEMMA MigrationReleases ==
    ASSUME RewardsInv, RewardsInv', now <= DecOne, schedule' = StoppedSchedule, now' = now
    PROVE  /\ ReleasedAt(now) \in Nat
           /\ ReleasedAt(now)' \in Nat
           /\ ReleasedAt(now) <= ReleasedAt(now)' + 2
  <1> DEFINE old(i) == PartReleased(i, now)
             new(i) == ReleasedOf(Stopped(schedule[i]), now)
             p == PartReleased(1, now)'
             q == PartReleased(2, now)'
  <1>1. schedule \in Seq(Slot) /\ Len(schedule) <= MaxSlots /\ now \in Nat
    BY DEF RewardsInv
  <1>2. ASSUME NEW i \in {1, 2}
        PROVE  /\ HasBegun(i) => new(i) \in Nat /\ old(i) <= new(i) + 1 /\ old(i) \in Nat
               /\ ~HasBegun(i) => old(i) = 0
    <2>1. CASE i <= Len(schedule)
      <3> DEFINE slot == schedule[i]
      <3>1. slot \in Slot /\ ~Malformed(slot)
        BY <2>1, SlotIs, SMT
      <3>2. old(i) = ReleasedOf(slot, now)
        BY <2>1 DEF PartReleased
      <3>3. HasBegun(i) <=> slot.start < now
        BY <2>1 DEF HasBegun
      <3> HIDE DEF slot
      <3>4. CASE slot.start < now
        BY <1>1, <3>1, <3>2, <3>3, <3>4, StoppedReleases DEF slot
      <3>5. CASE ~(slot.start < now)
        <4>1. slot.start \in Nat /\ slot.end \in Nat /\ Rate(slot) \in Nat
          BY <3>1, RateType DEF Slot
        <4>2. CASE slot.start > now
          BY <3>2, <3>3, <3>5, <4>2 DEF ReleasedOf
        <4>3. CASE ~(slot.start > now)
          <5>1. Earlier(slot.end, now) - slot.start = 0
            BY <1>1, <3>1, <3>5, <4>1, <4>3, SMT DEF Earlier, Malformed
          <5>2. ReleasedOf(slot, now) = 0
            BY <4>1, <4>3, <5>1, TimesZero DEF ReleasedOf
          <5> QED
            BY <3>2, <3>3, <3>5, <5>2
        <4> QED
          BY <4>2, <4>3
      <3> QED
        BY <3>4, <3>5
    <2>2. CASE ~(i <= Len(schedule))
      BY <2>2 DEF HasBegun, PartReleased
    <2> QED
      BY <2>1, <2>2
  <1>3. ReleasedAt(now) = old(1) + old(2) /\ ReleasedAt(now)' = p + q
    BY DEF ReleasedAt
  <1>4. /\ HasBegun(1) /\ HasBegun(2) => p = new(1) /\ q = new(2)
        /\ HasBegun(1) /\ ~HasBegun(2) => p = new(1) /\ q = 0
        /\ ~HasBegun(1) /\ HasBegun(2) => p = new(2) /\ q = 0
        /\ ~HasBegun(1) /\ ~HasBegun(2) => p = 0 /\ q = 0
    <2> DEFINE a == Stopped(schedule[1])
               b == Stopped(schedule[2])
               s == schedule'
               Of(i) == IF i <= Len(s) THEN ReleasedOf(s[i], now) ELSE 0
    <2>1. p = Of(1) /\ q = Of(2)
      BY DEF PartReleased, ReleasedOf, Rate, Earlier
    <2>2. /\ HasBegun(1) /\ HasBegun(2) => s = <<a, b>>
          /\ HasBegun(1) /\ ~HasBegun(2) => s = <<a>>
          /\ ~HasBegun(1) /\ HasBegun(2) => s = <<b>>
          /\ ~HasBegun(1) /\ ~HasBegun(2) => s = << >>
      BY <1>1, StoppedIs
    <2>3. CASE HasBegun(1) /\ HasBegun(2)
      <3>1. s = <<a, b>>
        BY <2>2, <2>3
      <3> HIDE DEF a, b, s, p, q
      <3>2. Len(s) = 2 /\ s[1] = a /\ s[2] = b
        BY <3>1, SMT
      <3>3. Of(1) = ReleasedOf(a, now) /\ Of(2) = ReleasedOf(b, now)
        BY <3>2, SMT
      <3> QED
        BY <2>1, <2>3, <3>3 DEF a, b
    <2>4. CASE HasBegun(1) /\ ~HasBegun(2)
      <3>1. s = <<a>>
        BY <2>2, <2>4
      <3> HIDE DEF a, b, s, p, q
      <3>2. Len(s) = 1 /\ s[1] = a
        BY <3>1, SMT
      <3>3. Of(1) = ReleasedOf(a, now) /\ Of(2) = 0
        BY <3>2, SMT
      <3> QED
        BY <2>1, <2>4, <3>3 DEF a
    <2>5. CASE ~HasBegun(1) /\ HasBegun(2)
      <3>1. s = <<b>>
        BY <2>2, <2>5
      <3> HIDE DEF a, b, s, p, q
      <3>2. Len(s) = 1 /\ s[1] = b
        BY <3>1, SMT
      <3>3. Of(1) = ReleasedOf(b, now) /\ Of(2) = 0
        BY <3>2, SMT
      <3> QED
        BY <2>1, <2>5, <3>3 DEF b
    <2>6. CASE ~HasBegun(1) /\ ~HasBegun(2)
      <3>1. s = << >>
        BY <2>2, <2>6
      <3> HIDE DEF a, b, s, p, q
      <3>2. Len(s) = 0
        BY <3>1, SMT
      <3>3. Of(1) = 0 /\ Of(2) = 0
        BY <3>2, SMT
      <3> QED
        BY <2>1, <2>6, <3>3
    <2> QED
      BY <2>3, <2>4, <2>5, <2>6
  <1> HIDE DEF old, new, p, q
  <1> QED
    BY <1>2, <1>3, <1>4, SMT

(* Bookkeeping of a step: what it adds to the left is within what it adds  *)
(* to the right.                                                           *)
LEMMA StaysBelow ==
    ASSUME NEW P \in Int, NEW Q \in Int, NEW m \in Int, NEW x \in Int, NEW y \in Int,
           NEW X \in Int, NEW Y \in Int,
           P + DecOne * x <= DecOne * y, Q <= P + DecOne * m, m + (X - x) <= Y - y
    PROVE  Q + DecOne * X <= DecOne * Y
  <1>1. DecOne \in Nat
    BY StakingAssumption, SMT
  <1>2. (Y - y) - (m + (X - x)) \in Nat
    BY SMT
  <1>3. DecOne * ((Y - y) - (m + (X - x))) \in Nat
    BY <1>1, <1>2, SMT
  <1>4. DecOne * ((Y - y) - (m + (X - x)))
            = DecOne * Y - DecOne * y - DecOne * m - DecOne * X + DecOne * x
    BY <1>1, SMT
  <1>5. /\ DecOne * Y \in Int /\ DecOne * y \in Int /\ DecOne * m \in Int
        /\ DecOne * X \in Int /\ DecOne * x \in Int
    BY <1>1, SMT
  <1> QED
    BY <1>3, <1>4, <1>5, SMT

(* Every instantiation comes with the reward tokens of its schedule.       *)
Prefunded ==
    \A msg \in Instantiations :
        InitialBalance[msg.reward][Staking] >= TotalAmount(msg.schedule)

(* The inductive invariant: what was promised and paid, and what is still  *)
(* to be released, are within what the contract holds and has paid.        *)
FundedInv ==
    /\ TotalsInv
    /\ RewardsInv
    /\ Potential + DecOne * (TotalAmount(schedule) - ReleasedAt(lastDistributed))
          <= DecOne * (Purse + 2 * changes)

LEMMA FundedKept ==
    ASSUME FundedInv, WellFormed, ScheduleKept, TokenPairs = {}, MaxTime <= DecOne,
           [Next]_vars
    PROVE  FundedInv'
  <1> DEFINE P == Potential
             Q == Potential'
             n == Handed
             a == ReleasedAt(lastDistributed)
             b == ReleasedAt(now)
             c == ReleasedAt(lastDistributed)'
             A == TotalAmount(schedule)
             B == TotalAmount(schedule')
             W == Purse
             V == Purse'
             k == changes
             j == changes'
  <1>1. TotalsInv /\ RewardsInv /\ TotalsInv' /\ RewardsInv' /\ TypeOK /\ TypeOK'
    BY TotalsKept, InvKept DEF FundedInv, TotalsInv
  <1>2. /\ P \in Int /\ Q \in Int /\ n \in Nat /\ a \in Nat /\ b \in Nat /\ a + n <= b
        /\ A \in Nat /\ B \in Nat /\ W \in Int /\ V \in Int /\ k \in Nat /\ j \in Nat
        /\ P + DecOne * (A - a) <= DecOne * (W + 2 * k)
    <2>1. P \in Int /\ Q \in Int /\ W \in Int /\ V \in Int
      BY <1>1, PotentialType, PurseType
    <2>2. A \in Nat /\ B \in Nat /\ k \in Nat /\ j \in Nat
      BY <1>1, TotalAmountType DEF TypeOK
    <2>3. n \in Nat /\ a \in Nat /\ b \in Nat /\ a + n <= b
      BY <1>1, HandedReleased
    <2> QED
      BY <2>1, <2>2, <2>3 DEF FundedInv
  <1>3. SUFFICES Q + DecOne * (B - c) <= DecOne * (V + 2 * j)
    BY <1>1 DEF FundedInv
  <1>4. ASSUME NEW m \in Int, Q <= P + DecOne * m, c \in Nat,
               m + ((B - c) - (A - a)) <= (V + 2 * j) - (W + 2 * k)
        PROVE  Q + DecOne * (B - c) <= DecOne * (V + 2 * j)
    <2> HIDE DEF P, Q, n, a, b, c, A, B, W, V, k, j
    <2>1. A - a \in Int /\ B - c \in Int /\ W + 2 * k \in Int /\ V + 2 * j \in Int
      BY <1>2, <1>4, SMT
    <2> DEFINE x == A - a
               X == B - c
               y == W + 2 * k
               Y == V + 2 * j
    <2>2. /\ x \in Int /\ X \in Int /\ y \in Int /\ Y \in Int /\ m + (X - x) <= Y - y
          /\ P + DecOne * x <= DecOne * y
      BY <1>2, <1>4, <2>1
    <2> HIDE DEF x, X, y, Y
    <2>3. Q + DecOne * X <= DecOne * Y
      BY <1>2, <1>4, <2>2, StaysBelow
    <2> QED
      BY <2>3 DEF X, Y
  <1>5. ASSUME schedule' = schedule, lastDistributed' = now PROVE c = b /\ B = A
    BY <1>5 DEF ReleasedAt, PartReleased
  <1>6. ASSUME schedule' = schedule, lastDistributed' = lastDistributed
        PROVE  c = a /\ B = A
    BY <1>6 DEF ReleasedAt, PartReleased
  <1>7. ASSUME NEW u \in Users, NEW amount \in Nat, Bond(u, amount) \/ Unbond(u, amount)
        PROVE  Q + DecOne * (B - c) <= DecOne * (V + 2 * j)
    <2>1. Q <= P + DecOne * n + DecOne
      BY <1>1, <1>7, PotentialMoves
    <2>2. schedule' = schedule /\ lastDistributed' = now /\ j = k + 1
      BY <1>7 DEF Bond, Unbond, RewardsComputed, Changing, config
    <2>3. V >= W
      BY <1>1, <1>7, PurseMoves
    <2>4. c = b /\ B = A
      BY <1>5, <2>2
    <2> HIDE DEF P, Q, n, a, b, c, A, B, W, V, k, j
    <2>5. DecOne * n + DecOne = DecOne * (n + 1) /\ DecOne * n \in Int /\ DecOne \in Int
          /\ n + 1 \in Int
      BY <1>2, StakingAssumption, SMT
    <2>6. Q <= P + DecOne * (n + 1)
      BY <1>2, <2>1, <2>5, SMT
    <2>7. (n + 1) + ((B - c) - (A - a)) <= (V + 2 * j) - (W + 2 * k) /\ c \in Nat
      BY <1>2, <2>2, <2>3, <2>4, SMT
    <2> QED
      BY <1>4, <2>5, <2>6, <2>7
  <1>8. ASSUME NEW u \in Users, Withdraw(u)
        PROVE  Q + DecOne * (B - c) <= DecOne * (V + 2 * j)
    <2>1. Q <= P + DecOne * n
      BY <1>1, <1>8, PotentialMoves
    <2>2. schedule' = schedule /\ lastDistributed' = now /\ j = k
      BY <1>8 DEF Withdraw, RewardsComputed, config
    <2>3. V >= W
      BY <1>1, <1>8, PurseMoves
    <2>4. c = b /\ B = A
      BY <1>5, <2>2
    <2> HIDE DEF P, Q, n, a, b, c, A, B, W, V, k, j
    <2>5. n + ((B - c) - (A - a)) <= (V + 2 * j) - (W + 2 * k) /\ c \in Nat /\ n \in Int
      BY <1>2, <2>2, <2>3, <2>4, SMT
    <2> QED
      BY <1>4, <2>1, <2>5
  <1>9. ASSUME NEW u \in Users, MigrateStaking(u)
        PROVE  Q + DecOne * (B - c) <= DecOne * (V + 2 * j)
    <2>1. Q <= P + DecOne * n
      BY <1>1, <1>9, PotentialMoves
    <2> DEFINE R == Remaining
    <2>2. /\ schedule' = StoppedSchedule /\ lastDistributed' = now /\ now' = now
          /\ j = k + 1 /\ R \in Nat /\ R > 0
      BY <1>1, <1>9, MigratePays
    <2>3. V >= W - R
      BY <1>1, <1>9, PurseMoves
    <2>4. R = Later(0, A - B)
      BY <2>2 DEF Remaining
    <2>5. B = A - R
      <3> HIDE DEF A, B, R
      <3> QED
        BY <1>2, <2>2, <2>4, SMT DEF Later
    <2>6. c \in Nat /\ b <= c + 2
      <3>1. now \in Nat /\ now <= DecOne
        <4>1. now \in Nat /\ now <= MaxTime /\ MaxTime \in Nat /\ DecOne \in Nat
          BY <1>1, StakingAssumption, SMT DEF TypeOK, Times
        <4> QED
          BY <4>1, SMT
      <3>2. ReleasedAt(now)' \in Nat /\ b <= ReleasedAt(now)' + 2
        BY <1>1, <2>2, <3>1, MigrationReleases
      <3>3. ReleasedAt(now)' = c
        BY <2>2
      <3> QED
        BY <3>2, <3>3
    <2> HIDE DEF P, Q, n, a, b, c, A, B, W, V, k, j, R
    <2>7. n + ((B - c) - (A - a)) <= (V + 2 * j) - (W + 2 * k) /\ n \in Int
      BY <1>2, <2>2, <2>3, <2>5, <2>6, SMT
    <2> QED
      BY <1>4, <2>1, <2>6, <2>7
  <1>10. ASSUME Q = P, V >= W, schedule' = schedule, lastDistributed' = lastDistributed,
                j = k
         PROVE  Q + DecOne * (B - c) <= DecOne * (V + 2 * j)
    <2>1. c = a /\ B = A
      BY <1>6, <1>10
    <2> HIDE DEF P, Q, n, a, b, c, A, B, W, V, k, j
    <2>2. DecOne * 0 = 0 /\ 0 \in Int
      BY StakingAssumption, SMT
    <2>3. Q <= P + DecOne * 0
      BY <1>2, <1>10, <2>2, SMT
    <2>4. 0 + ((B - c) - (A - a)) <= (V + 2 * j) - (W + 2 * k) /\ c \in Nat
      BY <1>2, <1>10, <2>1, SMT
    <2> QED
      BY <1>4, <2>2, <2>3, <2>4
  <1>11. ASSUME NEW u \in Users, Redeem(u)
         PROVE  Q + DecOne * (B - c) <= DecOne * (V + 2 * j)
    <2>1. Q = P /\ V >= W
      BY <1>1, <1>11, PotentialMoves, PurseMoves
    <2> QED
      BY <1>10, <1>11, <2>1 DEF Redeem, config, state
  <1>12. CASE Quiet
    <2>1. Q = P /\ V >= W
      BY <1>1, <1>12, PotentialMoves, PurseMoves
    <2> QED
      BY <1>10, <1>12, <2>1 DEF Quiet, ScheduleKept
  <1> QED
    BY <1>1, <1>7, <1>8, <1>9, <1>11, <1>12, StepIs

LEMMA FundedStart == ASSUME Init, WellFormed, Prefunded PROVE FundedInv
  <1> DEFINE a == ReleasedAt(lastDistributed)
             A == TotalAmount(schedule)
             W == Purse
             h == bal[rewardToken][Staking]
  <1>1. TotalsInv /\ RewardsInv /\ Potential = 0 /\ changes = 0
    BY TotalsStart, InvStart, PotentialStart DEF Init
  <1>2. a \in Nat /\ A \in Nat /\ h \in Nat /\ W \in Int
    BY <1>1, HandedReleased, TotalAmountType, PurseType, Accounts DEF TotalsInv, TypeOK
  <1>3. h >= A
    BY DEF Init, Prefunded
  <1>4. W = h
    <2>1. Total(earned) = 0
      <3>1. \A u \in Users : earned[u] = 0
        BY DEF Init
      <3> QED
        BY <3>1, SumZero, UsersFinite DEF Total
    <2>2. Stakes = 0
      <3>1. Stakes = totalBond + Positions /\ totalBond = 0 /\ Positions \in Nat
        BY <1>1, StakesNow DEF Init
      <3>2. Positions = 0
        BY PositionsStart
      <3> QED
        BY <3>1, <3>2, SMT
    <2>3. SetApart = 0
      BY <2>2 DEF SetApart
    <2> QED
      BY <1>2, <2>1, <2>3, SMT DEF Purse
  <1> HIDE DEF a, A, W, h
  <1>5. (W + 2 * 0) - (A - a) \in Nat
    BY <1>2, <1>3, <1>4, SMT
  <1>6. 0 + DecOne * (A - a) <= DecOne * (W + 2 * 0)
    <2> DEFINE d == (W + 2 * 0) - (A - a)
    <2>1. DecOne \in Nat /\ d \in Nat /\ DecOne * d \in Nat
      BY <1>5, StakingAssumption, SMT
    <2>2. DecOne * (W + 2 * 0) = DecOne * (A - a) + DecOne * d
          /\ DecOne * (A - a) \in Int
      BY <1>2, <2>1, SMT
    <2> QED
      BY <2>1, <2>2, SMT
  <1> QED
    BY <1>1, <1>6 DEF FundedInv, a, A, W

LEMMA FundedIsEnough == ASSUME FundedInv PROVE ClaimsFunded
  <1> DEFINE P == Potential
             n == Handed
             a == ReleasedAt(lastDistributed)
             b == ReleasedAt(now)
             A == TotalAmount(schedule)
             W == Purse
             k == changes
             C == Claims
             E == Total(earned)
             h == bal[rewardToken][Staking]
             s == SetApart
  <1>1. TotalsInv /\ RewardsInv /\ P + DecOne * (A - a) <= DecOne * (W + 2 * k) /\ TypeOK
    BY DEF FundedInv, TotalsInv
  <1>2. /\ P \in Int /\ W \in Int /\ A \in Nat /\ k \in Nat /\ h \in Nat
        /\ n \in Nat /\ a \in Nat /\ a + n <= b /\ b \in Nat /\ b <= A
    <2>1. now \in Nat
      BY <1>1 DEF RewardsInv
    <2> QED
      BY <1>1, <2>1, PotentialType, PurseType, HandedReleased, ReleasedWithinAmount, Accounts
         DEF TypeOK
  <1>3. C \in Nat /\ E \in Nat /\ DecOne * (C + E) <= P + DecOne * n
    BY <1>1, <1>2, ClaimsBelow
  <1>4. W = h + E - s /\ s \in Nat
    <2>1. Stakes \in Nat
      BY <1>1, StakesNow
    <2> QED
      BY <2>1, SMT DEF Purse, SetApart
  <1> HIDE DEF P, n, a, b, A, W, k, C, E, h, s
  <1>5. C + E <= W + 2 * k
    <2>1. DecOne \in Nat /\ (A - a) - n \in Nat
      BY <1>2, StakingAssumption, SMT
    <2>2. DecOne * ((A - a) - n) \in Nat
      BY <2>1, SMT
    <2>3. /\ DecOne * ((A - a) - n) = DecOne * (A - a) - DecOne * n
          /\ DecOne * (A - a) \in Int /\ DecOne * n \in Int
          /\ DecOne * (C + E) \in Int /\ DecOne * (W + 2 * k) \in Int
      BY <1>2, <1>3, <2>1, SMT
    <2>4. DecOne * (C + E) <= DecOne * (W + 2 * k)
      BY <1>1, <1>2, <1>3, <2>2, <2>3, SMT
    <2>5. C + E \in Int /\ W + 2 * k \in Int
      BY <1>2, <1>3, SMT
    <2> QED
      BY <2>4, <2>5, Cancel
  <1>6. h + 2 * k >= C + s
    BY <1>2, <1>3, <1>4, <1>5, SMT
  <1> QED
    BY <1>6 DEF ClaimsFunded, MaxSlots, SetApart, C, h, k, s

(* A contract that was funded with all of its schedule's rewards can pay   *)
(* every claim at any time, up to two units per Bond, Unbond and           *)
(* migration, also when the rewards are in the LP token and when a         *)
(* migration sends the rest of them away.                                  *)
THEOREM ClaimsStayFunded ==
    ASSUME WellFormed, ScheduleKept, TokenPairs = {}, MaxTime <= DecOne, Prefunded
    PROVE  Spec => []ClaimsFunded
  <1>1. Init => FundedInv
    BY FundedStart
  <1>2. FundedInv /\ [Next]_vars => FundedInv'
    BY FundedKept
  <1>3. FundedInv => ClaimsFunded
    BY FundedIsEnough
  <1> QED
    BY <1>1, <1>2, <1>3, PTL DEF Spec

-----------------------------------------------------------------------------
(* Malformed slots, under any schedules.                                   *)

(* No slot the contract may be given is of more than M.                    *)
AmountsWithin(M) ==
    /\ \A msg \in Instantiations : \A i \in DOMAIN msg.schedule : msg.schedule[i].amount <= M
    /\ \A s \in Schedules : \A i \in DOMAIN s : s[i].amount <= M

(* The inductive invariant: two slots of M hand out no more than 2 * M a   *)
(* second.                                                                 *)
PacedInv(M) ==
    /\ TotalsInv
    /\ \A i \in DOMAIN schedule : schedule[i].amount <= M
    /\ Potential <= DecOne * (2 * M * lastDistributed + changes)

LEMMA SlotPaced ==
    ASSUME TypeOK, NEW M \in Nat, NEW slot \in Slot, slot.amount <= M,
           ~Malformed(slot), lastDistributed <= now,
           ~Skipped(slot, now), Passed(slot, now) >= 0
    PROVE  /\ SlotReward(slot, now) \in Nat
           /\ SlotReward(slot, now) <= M * (now - lastDistributed)
  <1> DEFINE n == Passed(slot, now)
             R == Rate(slot)
             d == now - lastDistributed
             a == slot.amount
             x == times(n, R)
  <1>1. /\ n \in Nat /\ d \in Nat /\ n <= d /\ a \in Nat /\ a <= M
    BY SMT DEF TypeOK, Times, Slot, Passed, Earlier, Later
  <1>2. R \in Nat /\ R <= a * DecOne
    <2>1. slot.end - slot.start \in Nat /\ slot.end - slot.start > 0
      BY SMT DEF Slot, Malformed
    <2> QED
      BY <1>1, <2>1, RatioType, RateType DEF Rate
  <1>3. SlotReward(slot, now) = x
    BY DEF SlotReward
  <1> HIDE DEF n, R, d, a
  <1>4. x \in Nat /\ DecOne * x <= n * R
    BY <1>1, <1>2, TimesType, TimesRounds
  <1> HIDE DEF x
  <1>5. n * R <= DecOne * (n * a) /\ n * a \in Nat
    <2>1. a * DecOne \in Nat /\ n * a \in Nat /\ DecOne \in Nat
      BY <1>1, StakingAssumption, SMT
    <2>2. n * R <= n * (a * DecOne)
      BY <1>1, <1>2, <2>1, MulMono
    <2>3. n * (a * DecOne) = DecOne * (n * a)
      BY <1>1, <2>1, SMT
    <2> QED
      BY <2>1, <2>2, <2>3
  <1>6. x <= n * a
    <2>1. DecOne * x \in Int /\ n * R \in Int /\ DecOne * (n * a) \in Int
      BY <1>1, <1>2, <1>4, <1>5, StakingAssumption, SMT
    <2> DEFINE y == n * a
    <2>2. y \in Int /\ x \in Int /\ DecOne * x <= DecOne * y
      BY <1>4, <1>5, <2>1, SMT
    <2> HIDE DEF y
    <2>3. x <= y
      BY <2>2, Cancel
    <2> QED
      BY <2>3 DEF y
  <1>7. n * a <= M * d /\ M * d \in Nat
    <2>1. n * a <= d * a /\ a * d <= M * d /\ d * a = a * d /\ M * d \in Nat /\ a * d \in Nat
      BY <1>1, MulMono, SMT
    <2> QED
      BY <1>5, <2>1, SMT
  <1> QED
    BY <1>3, <1>4, <1>5, <1>6, <1>7, SMT DEF d

LEMMA HandedPaced ==
    ASSUME TotalsInv, NEW M \in Nat, \A i \in DOMAIN schedule : schedule[i].amount <= M,
           compute_reward_ok(now)
    PROVE  Handed \in Nat /\ Handed <= 2 * M * (now - lastDistributed)
  <1> DEFINE d == now - lastDistributed
             z == M * d
  <1>1. /\ TypeOK /\ d \in Nat /\ lastDistributed <= now /\ totalBond \in Nat
    BY SMT DEF TotalsInv, TypeOK, Times
  <1>2. z \in Nat
    BY <1>1, SMT
  <1>3. 2 * M * d = z + z
    BY <1>1, SMT
  <1> HIDE DEF z
  <1>4. CASE totalBond = 0
    BY <1>2, <1>3, <1>4, SMT DEF Handed
  <1>5. CASE totalBond # 0
    <2>1. ASSUME NEW i \in {1, 2} PROVE Part(i, now) \in Nat /\ Part(i, now) <= z
      <3>1. CASE i <= Len(schedule)
        <4> DEFINE slot == schedule[i]
        <4>1. i \in DOMAIN schedule /\ slot \in Slot
          BY <1>1, <3>1, SMT DEF TypeOK
        <4>2. ~Skipped(slot, now) => Rate_ok(slot) /\ Passed(slot, now) >= 0
          BY <1>1, <1>5, <4>1, SMT DEF compute_reward_ok
        <4>3. slot.amount <= M
          BY <4>1
        <4>4. Part(i, now) = SlotReward(slot, now)
          BY <3>1 DEF Part
        <4> HIDE DEF slot
        <4>5. CASE Skipped(slot, now)
          BY <1>2, <4>4, <4>5, SMT DEF SlotReward
        <4>6. CASE ~Skipped(slot, now)
          <5>1. ~Malformed(slot)
            BY <4>1, <4>2, <4>6, SMT DEF Rate_ok, Malformed, Slot
          <5> QED
            BY <1>1, <4>1, <4>2, <4>3, <4>4, <4>6, <5>1, SlotPaced DEF z
        <4> QED
          BY <4>5, <4>6
      <3>2. CASE ~(i <= Len(schedule))
        BY <1>2, <3>2, SMT DEF Part
      <3> QED
        BY <3>1, <3>2
    <2>2. Handed = Part(1, now) + Part(2, now)
      BY <1>5 DEF Handed, Distributed, Part
    <2> QED
      BY <1>2, <1>3, <2>1, <2>2, SMT
  <1> QED
    BY <1>4, <1>5

(* A stopped slot is of no more than it was.                               *)
LEMMA StoppedAmount ==
    ASSUME NEW slot \in Slot, now \in Nat, slot.start < now
    PROVE  Stopped(slot).amount <= slot.amount /\ Stopped(slot) \in Slot
  <1>1. CASE slot.end < now
    BY <1>1, SMT DEF Stopped, Slot
  <1>2. CASE ~(slot.end < now)
    <2>1. ~Malformed(slot) /\ ~(slot.start > now) /\ Earlier(slot.end, now) = now
      BY <1>2, SMT DEF Malformed, Earlier, Slot
    <2>2. ReleasedOf(slot, now) = times(now - slot.start, Rate(slot))
      BY <2>1 DEF ReleasedOf
    <2>3. Stopped(slot).amount = ReleasedOf(slot, now)
      BY <1>2, <2>2 DEF Stopped
    <2>4. Rate(slot) \in Nat
      BY <2>1, RateType
    <2> QED
      BY <2>1, <2>3, <2>4, SlotReleasesAmount, StoppedSlot
  <1> QED
    BY <1>1, <1>2

LEMMA PacedAmounts ==
    ASSUME NEW M \in Nat, AmountsWithin(M), TypeOK, [Next]_vars,
           \A i \in DOMAIN schedule : schedule[i].amount <= M
    PROVE  \A i \in DOMAIN schedule' : schedule'[i].amount <= M
  <1>1. ASSUME schedule' = schedule
        PROVE  \A i \in DOMAIN schedule' : schedule'[i].amount <= M
    BY <1>1
  <1>2. ASSUME NEW u \in Users, NEW amount \in Nat, Bond(u, amount) \/ Unbond(u, amount)
        PROVE  schedule' = schedule
    BY <1>2 DEF Bond, Unbond, config
  <1>3. ASSUME NEW u \in Users, Redeem(u) \/ Withdraw(u) PROVE schedule' = schedule
    BY <1>3 DEF Redeem, Withdraw, config
  <1>4. CASE Quiet
    BY <1>4 DEF Quiet, AmountsWithin
  <1>5. ASSUME NEW u \in Users, MigrateStaking(u)
        PROVE  \A i \in DOMAIN schedule' : schedule'[i].amount <= M
    <2>1. /\ schedule \in Seq(Slot) /\ Len(schedule) <= MaxSlots /\ now \in Nat
          /\ schedule' = StoppedSchedule
      BY <1>5, MigratePays, SMT DEF TypeOK, Times
    <2>2. ASSUME NEW i \in {1, 2}, HasBegun(i)
          PROVE  Stopped(schedule[i]).amount <= M /\ Stopped(schedule[i]) \in Slot
      <3> DEFINE slot == schedule[i]
      <3>1. i \in DOMAIN schedule /\ slot \in Slot /\ slot.start < now
        BY <2>1, <2>2, SMT DEF HasBegun
      <3>2. slot.amount <= M
        BY <3>1
      <3> HIDE DEF slot
      <3>3. /\ Stopped(slot).amount <= slot.amount /\ Stopped(slot) \in Slot
            /\ slot.amount \in Nat /\ Stopped(slot).amount \in Nat
        BY <2>1, <3>1, StoppedAmount DEF Slot
      <3> QED
        BY <3>2, <3>3, SMT DEF slot
    <2>3. \A j \in DOMAIN StoppedSchedule : \E i \in {1, 2} :
              HasBegun(i) /\ StoppedSchedule[j] = Stopped(schedule[i])
      BY <2>1, <2>2, StoppedSlots
    <2> QED
      BY <2>1, <2>2, <2>3
  <1> QED
    BY <1>1, <1>2, <1>3, <1>4, <1>5, StepIs

LEMMA PacedKept ==
    ASSUME NEW M \in Nat, AmountsWithin(M), PacedInv(M), [Next]_vars
    PROVE  PacedInv(M)'
  <1> DEFINE P == Potential
             Q == Potential'
             n == Handed
             k == changes
             j == changes'
             l == lastDistributed
             e == lastDistributed'
             T == 2 * M
  <1>1. /\ TotalsInv /\ TotalsInv' /\ TypeOK /\ TypeOK'
        /\ \A i \in DOMAIN schedule : schedule[i].amount <= M
    BY TotalsKept DEF PacedInv, TotalsInv
  <1>2. /\ P \in Int /\ Q \in Int /\ k \in Nat /\ j \in Nat /\ l \in Nat /\ e \in Nat
        /\ now \in Nat /\ l <= now /\ T \in Nat /\ P <= DecOne * (T * l + k)
    <2>1. T \in Nat
      BY SMT
    <2>2. now \in Nat
      BY <1>1, SMT DEF TypeOK, Times
    <2> QED
      BY <1>1, <2>1, <2>2, PotentialType DEF TypeOK, PacedInv, TotalsInv
  <1>3. \A i \in DOMAIN schedule' : schedule'[i].amount <= M
    BY <1>1, PacedAmounts
  <1>4. SUFFICES Q <= DecOne * (T * e + j)
    BY <1>1, <1>3 DEF PacedInv
  <1>5. ASSUME compute_reward_ok(now) PROVE n \in Nat /\ n <= T * (now - l)
    BY <1>1, <1>5, HandedPaced
  <1>6. ASSUME NEW m \in Int, Q <= P + DecOne * m, m <= (T * e + j) - (T * l + k)
        PROVE  Q <= DecOne * (T * e + j)
    <2> DEFINE y == T * l + k
               Y == T * e + j
    <2>1. y \in Int /\ Y \in Int /\ m <= Y - y /\ P <= DecOne * y
      <3> HIDE DEF P, Q, n, k, j, l, e, T
      <3>1. T * l \in Nat /\ T * e \in Nat
        BY <1>2, SMT
      <3> QED
        BY <1>2, <1>6, <3>1, SMT
    <2> HIDE DEF P, Q, n, k, j, l, e, T, y, Y
    <2>2. m + (0 - 0) <= Y - y /\ DecOne * 0 = 0
      BY <1>6, <2>1, StakingAssumption, SMT
    <2>3. P + DecOne * 0 <= DecOne * y
      BY <1>2, <2>1, <2>2, SMT
    <2>4. Q + DecOne * 0 <= DecOne * Y
      BY <1>2, <1>6, <2>1, <2>2, <2>3, StaysBelow
    <2> QED
      BY <1>2, <2>2, <2>4, SMT DEF Y
  <1>7. ASSUME compute_reward_ok(now), e = now, Q <= P + DecOne * n, j >= k
        PROVE  Q <= DecOne * (T * e + j)
    <2>1. n \in Nat /\ n <= T * (now - l)
      BY <1>5, <1>7
    <2> HIDE DEF P, Q, n, k, j, l, e, T
    <2>2. n <= (T * e + j) - (T * l + k) /\ n \in Int
      <3>1. T * (now - l) = T * now - T * l /\ T * now \in Nat /\ T * l \in Nat
        BY <1>2, SMT
      <3> QED
        BY <1>2, <1>7, <2>1, <3>1, SMT
    <2> QED
      BY <1>6, <1>7, <2>2
  <1>8. ASSUME NEW u \in Users, NEW amount \in Nat, Bond(u, amount) \/ Unbond(u, amount)
        PROVE  Q <= DecOne * (T * e + j)
    <2>1. compute_reward_ok(now) /\ e = now /\ j = k + 1
      BY <1>8 DEF Bond, Unbond, RewardsComputed, Changing
    <2>2. Q <= P + DecOne * n + DecOne
      BY <1>1, <1>8, PotentialMoves
    <2>3. n \in Nat /\ n <= T * (now - l)
      BY <1>5, <2>1
    <2> HIDE DEF P, Q, n, k, j, l, e, T
    <2>4. n + 1 <= (T * e + j) - (T * l + k) /\ n + 1 \in Int
      <3>1. T * (now - l) = T * now - T * l /\ T * now \in Nat /\ T * l \in Nat
        BY <1>2, SMT
      <3> QED
        BY <1>2, <2>1, <2>3, <3>1, SMT
    <2>5. DecOne * n + DecOne = DecOne * (n + 1) /\ DecOne * n \in Int /\ DecOne \in Int
      BY <2>3, StakingAssumption, SMT
    <2>6. Q <= P + DecOne * (n + 1)
      BY <1>2, <2>2, <2>5, SMT
    <2> QED
      BY <1>6, <2>4, <2>6
  <1>9. ASSUME NEW u \in Users, Withdraw(u) PROVE Q <= DecOne * (T * e + j)
    <2>1. compute_reward_ok(now) /\ e = now /\ j = k
      BY <1>9 DEF Withdraw, RewardsComputed
    <2>2. Q <= P + DecOne * n /\ j >= k
      <3>1. j >= k
        BY <1>2, <2>1, SMT
      <3> QED
        BY <1>1, <1>9, <3>1, PotentialMoves
    <2> QED
      BY <1>7, <2>1, <2>2
  <1>10. ASSUME NEW u \in Users, MigrateStaking(u) PROVE Q <= DecOne * (T * e + j)
    <2>1. compute_reward_ok(now) /\ e = now /\ j = k + 1
      BY <1>1, <1>10, MigratePays
    <2>2. Q <= P + DecOne * n /\ j >= k
      <3>1. j >= k
        BY <1>2, <2>1, SMT
      <3> QED
        BY <1>1, <1>10, <3>1, PotentialMoves
    <2> QED
      BY <1>7, <2>1, <2>2
  <1>11. ASSUME NEW u \in Users, Redeem(u) PROVE Q <= DecOne * (T * e + j)
    <2>1. Q = P /\ e = l /\ j = k
      BY <1>1, <1>11, PotentialMoves, RedeemPays DEF state
    <2> QED
      BY <1>2, <2>1
  <1>12. CASE Quiet
    <2>1. Q = P /\ e = l /\ j = k
      BY <1>1, <1>12, PotentialMoves DEF Quiet
    <2> QED
      BY <1>2, <2>1
  <1> QED
    BY <1>1, <1>8, <1>9, <1>10, <1>11, <1>12, StepIs

LEMMA PacedStart ==
    ASSUME NEW M \in Nat, AmountsWithin(M), Init
    PROVE  PacedInv(M)
  <1>1. TotalsInv /\ Potential = 0 /\ lastDistributed = 0 /\ changes = 0
    BY TotalsStart, PotentialStart DEF Init
  <1>2. \A i \in DOMAIN schedule : schedule[i].amount <= M
    BY DEF Init, AmountsWithin
  <1>3. 0 <= DecOne * (2 * M * 0 + 0)
    <2>1. 2 * M * 0 + 0 = 0 /\ DecOne * 0 = 0
      BY StakingAssumption, SMT
    <2> QED
      BY <2>1, SMT
  <1> QED
    BY <1>1, <1>2, <1>3 DEF PacedInv

(* A reward computation that succeeds can be settled for everybody whose   *)
(* bond times the index fits.                                              *)
LEMMA PacedSettles ==
    ASSUME NEW M \in Nat, PacedInv(M), Fits(2 * M * MaxTime + MaxChanges),
           compute_reward_ok(now), NEW u \in Users, times_ok(info[u].bond, IndexAt(now))
    PROVE  Settled_ok(info[u], IndexAt(now))
  <1> DEFINE P == Potential
             n == Handed
             k == changes
             l == lastDistributed
             T == 2 * M
             C == Claims
             E == Total(earned)
  <1>1. /\ TotalsInv /\ TypeOK /\ P <= DecOne * (T * l + k)
        /\ \A i \in DOMAIN schedule : schedule[i].amount <= M
    BY DEF PacedInv, TotalsInv
  <1>2. /\ n \in Nat /\ n <= T * (now - l) /\ P \in Int /\ k \in Nat /\ k <= MaxChanges
        /\ l \in Nat /\ now \in Nat /\ l <= now /\ now <= MaxTime
        /\ MaxTime \in Nat /\ MaxChanges \in Nat /\ MaxUint \in Nat /\ T \in Nat
        /\ T * MaxTime + MaxChanges <= MaxUint /\ DecOne \in Nat
    <2>1. n \in Nat /\ n <= T * (now - l)
      BY <1>1, HandedPaced
    <2>2. T \in Nat /\ MaxTime \in Nat /\ MaxChanges \in Nat /\ MaxUint \in Nat /\ DecOne \in Nat
      BY StakingAssumption, SMT
    <2>3. now \in Nat /\ now <= MaxTime
      BY <1>1, <2>2, SMT DEF TypeOK, Times
    <2> QED
      BY <1>1, <2>1, <2>2, <2>3, PotentialType DEF TotalsInv, TypeOK, Fits
  <1>3. /\ C \in Nat /\ E \in Nat /\ Claim(u, now) <= C
        /\ DecOne * (C + E) <= P + DecOne * n
        /\ Claim(u, now) \in Nat /\ Accrued(info[u], IndexAt(now)) \in Nat
    BY <1>1, <1>2, ClaimsBelow, ClaimType
  <1>4. C + E <= T * now + k
    <2> HIDE DEF P, n, k, l, T, C, E
    <2>1. T * l + k \in Int /\ T * now + k \in Int /\ C + E \in Int
          /\ T * (now - l) = T * now - T * l /\ T * l \in Nat /\ T * now \in Nat
      BY <1>2, <1>3, SMT
    <2> DEFINE y == T * l + k
               Y == T * now + k
    <2>2. n <= Y - y
      BY <1>2, <2>1, SMT
    <2>3. y \in Int /\ Y \in Int /\ P <= DecOne * y
      BY <1>1, <2>1
    <2> HIDE DEF y, Y
    <2>4. n + (0 - 0) <= Y - y /\ DecOne * 0 = 0 /\ n \in Int
      BY <1>2, <2>2, <2>3, SMT
    <2>5. P + DecOne * 0 <= DecOne * y
      BY <1>2, <2>3, <2>4, SMT
    <2> DEFINE Q == P + DecOne * n
    <2>6. Q \in Int /\ Q <= P + DecOne * n
      BY <1>2, SMT
    <2> HIDE DEF Q
    <2>7. Q + DecOne * 0 <= DecOne * Y
      BY <1>2, <2>3, <2>4, <2>5, <2>6, StaysBelow
    <2>8. DecOne * (C + E) <= DecOne * Y
      <3>1. DecOne * Y \in Int /\ DecOne * (C + E) \in Int
        BY <1>2, <2>1, <2>3, SMT
      <3>2. DecOne * (C + E) <= Q
        BY <1>3 DEF Q
      <3> QED
        BY <2>4, <2>6, <2>7, <3>1, <3>2, SMT
    <2> QED
      BY <2>1, <2>3, <2>8, Cancel DEF Y
  <1>5. Claim(u, now) <= MaxUint
    <2> HIDE DEF P, n, k, l, T, C, E
    <2>1. T * now <= T * MaxTime /\ T * now \in Nat /\ T * MaxTime \in Nat
      BY <1>2, MulMono, SMT
    <2> QED
      BY <1>2, <1>3, <1>4, <2>1, SMT
  <1>6. Accrued(info[u], IndexAt(now)) >= 0
    BY <1>3, SMT
  <1>7. times_ok(info[u].bond, info[u].index)
    BY <1>1, <1>2, OwnIndexFits
  <1> QED
    BY <1>5, <1>6, <1>7 DEF Settled_ok, Fits, Claim

(* The schedule without its malformed slots that have yet to begin is one  *)
(* UpdateConfig accepts.                                                   *)
LEMMA RepairAccepted ==
    ASSUME TotalsInv
    PROVE  assert_new_schedules(Repaired)
  <1> DEFINE S == schedule
             R == Repaired
             l == lastDistributed
             len == Len(S)
  <1>1. /\ S \in Seq(Slot) /\ l \in Nat /\ now \in Nat /\ l <= now
        /\ len \in Nat /\ DOMAIN S = 1 .. len
    BY SMT DEF TotalsInv, TypeOK, Times
  <1>2. R = [i \in 1 .. len |->
                IF Malformed(S[i]) /\ S[i].start > l
                THEN [start |-> now + 1, end |-> now + 2, amount |-> 0] ELSE S[i]]
    BY <1>1 DEF Repaired
  <1>3. DOMAIN R = 1 .. len
    BY <1>2
  <1>4. \A i \in 1 .. len : R[i] = S[i] \/ (R[i].start = now + 1 /\ S[i].start > l)
    BY <1>2
  <1>5. Len(R) >= len
    <2>1. R = [i \in 1 .. len |-> R[i]]
      BY <1>2
    <2> HIDE DEF R, len
    <2>2. Len(R) = len
      BY <1>1, <2>1, SMT
    <2> QED
      BY <1>1, <2>2, SMT
  <1>6. ASSUME NEW slot, slot.start <= l
        PROVE  Count(slot, R) = Count(slot, S)
    <2>1. \A i \in 1 .. len : R[i] = slot <=> S[i] = slot
      <3> TAKE i \in 1 .. len
      <3>1. CASE R[i] = S[i]
        BY <3>1
      <3>2. CASE R[i].start = now + 1 /\ S[i].start > l
        <4>1. S[i].start \in Nat
          <5>1. S[i] \in Slot
            BY <1>1
          <5> QED
            BY <5>1 DEF Slot
        <4> DEFINE a == S[i].start
                   b == R[i].start
                   c == slot.start
        <4>2. /\ a \in Nat /\ b = now + 1 /\ a > l /\ c <= l
          BY <1>6, <3>2, <4>1
        <4>3. a # c /\ b # c
          <5> HIDE DEF a, b, c, R, S, l
          <5> QED
            BY <1>1, <4>2, SMT
        <4>4. R[i] # slot /\ S[i] # slot
          BY <4>3
        <4> QED
          BY <4>4
      <3> QED
        BY <1>4, <3>1, <3>2
    <2>2. {i \in DOMAIN R : R[i] = slot} = {i \in DOMAIN S : S[i] = slot}
      BY <1>1, <1>3, <2>1
    <2> QED
      BY <2>2 DEF Count
  <1> QED
    BY <1>5, <1>6 DEF assert_new_schedules

(* Every slot that is left can be passed, but for one of no length in the  *)
(* very second of the last distribution.                                   *)
LEMMA RepairPasses ==
    ASSUME TotalsInv, NEW M \in Nat, Fits(M * DecOne),
           \A i \in DOMAIN schedule : schedule[i].amount <= M,
           NEW i \in DOMAIN schedule
    PROVE  LET slot == Repaired[i]
           IN  \/ Skipped(slot, now)
               \/ slot.start = lastDistributed /\ slot.end = lastDistributed
               \/ Rate_ok(slot) /\ Passed(slot, now) >= 0
  <1> DEFINE slot == Repaired[i]
             l == lastDistributed
             s == schedule[i]
  <1>1. /\ l \in Nat /\ now \in Nat /\ l <= now /\ s \in Slot /\ s.amount <= M
        /\ DecOne \in Nat /\ MaxUint \in Nat
    <2>1. schedule \in Seq(Slot) /\ s.amount <= M
      BY DEF TotalsInv, TypeOK
    <2>2. s \in Slot
      BY <2>1
    <2>3. l \in Nat /\ now \in Nat /\ l <= now
      BY SMT DEF TotalsInv, TypeOK, Times
    <2>4. DecOne \in Nat /\ MaxUint \in Nat
      BY StakingAssumption, SMT
    <2> QED
      BY <2>1, <2>2, <2>3, <2>4
  <1>2. slot = IF Malformed(s) /\ s.start > l
               THEN [start |-> now + 1, end |-> now + 2, amount |-> 0] ELSE s
    BY DEF Repaired
  <1> HIDE DEF s, slot
  <1>3. /\ s.start \in Nat /\ s.end \in Nat /\ s.amount \in Nat
    BY <1>1 DEF Slot
  <1>4. CASE Malformed(s) /\ s.start > l
    <2>1. slot.start = now + 1
      BY <1>2, <1>4
    <2>2. slot.start > now
      BY <1>1, <2>1, SMT
    <2> QED
      BY <2>2 DEF Skipped, slot
  <1>5. CASE Malformed(s) /\ ~(s.start > l)
    <2>1. slot = s
      BY <1>2, <1>5
    <2>2. s.end < l \/ (s.start = l /\ s.end = l)
      BY <1>1, <1>3, <1>5, SMT DEF Malformed
    <2> QED
      BY <2>1, <2>2 DEF Skipped, slot
  <1>6. CASE ~Malformed(s)
    <2>1. slot = s
      BY <1>2, <1>6
    <2>2. ~Skipped(s, now) => Passed(s, now) >= 0
      BY <1>1, <1>3, <1>6, SMT DEF Malformed, Skipped, Passed, Earlier, Later
    <2>3. Rate_ok(s)
      <3>1. s.end - s.start \in Nat /\ s.end - s.start > 0 /\ s.end > s.start
        BY <1>3, <1>6, SMT DEF Malformed
      <3>2. Rate(s) \in Nat /\ Rate(s) <= s.amount * DecOne
        BY <1>3, <3>1, RatioType DEF Rate
      <3>3. s.amount * DecOne <= M * DecOne /\ s.amount * DecOne \in Nat /\ M * DecOne \in Nat
            /\ M * DecOne <= MaxUint
        <4>1. M * DecOne \in Nat
          BY <1>1, SMT
        <4> QED
          BY <1>1, <1>3, <4>1, MulMono DEF Fits
      <3>4. Rate(s) <= MaxUint
        BY <1>1, <3>2, <3>3, SMT
      <3> QED
        BY <3>1, <3>4 DEF Rate_ok, Rate, from_ratio_ok, from_ratio, Fits
    <2> QED
      BY <2>1, <2>2, <2>3 DEF slot
  <1> QED
    BY <1>4, <1>5, <1>6

(* Malformed slots, whoever puts them in the schedule and when, shut       *)
(* stakers out for no longer than the administrator leaves them there,     *)
(* with the one exception the property names.  Whoever is shut out for     *)
(* another reason is so by an overflow of the index or of his bond times   *)
(* the index, while no slot is of so much that its rate overflows, or that *)
(* what the two slots hand out adds up to more than fits.                  *)
THEOREM ShutOutsCanBeLifted ==
    ASSUME NEW M \in Nat, AmountsWithin(M), Fits(M * DecOne),
           Fits(2 * M * MaxTime + MaxChanges)
    PROVE  Spec => []ShutOutCanBeLifted
  <1>1. ASSUME PacedInv(M) PROVE ShutOutCanBeLifted
    <2>1. TotalsInv /\ \A i \in DOMAIN schedule : schedule[i].amount <= M
      BY <1>1 DEF PacedInv
    <2>2. assert_new_schedules(Repaired)
      BY <2>1, RepairAccepted
    <2>3. \A i \in DOMAIN schedule :
              LET slot == Repaired[i]
              IN  \/ Skipped(slot, now)
                  \/ slot.start = lastDistributed /\ slot.end = lastDistributed
                  \/ Rate_ok(slot) /\ Passed(slot, now) >= 0
      BY <2>1, RepairPasses
    <2>4. \A u \in Users :
              compute_reward_ok(now) /\ times_ok(info[u].bond, IndexAt(now))
                  => Settled_ok(info[u], IndexAt(now))
      BY <1>1, PacedSettles
    <2> QED
      BY <2>2, <2>3, <2>4 DEF ShutOutCanBeLifted
  <1> DEFINE Inv == PacedInv(M)
  <1>2. Init => Inv
    BY PacedStart
  <1>3. Inv /\ [Next]_vars => Inv'
    BY PacedKept
  <1>4. Inv => ShutOutCanBeLifted
    BY <1>1
  <1> HIDE DEF Inv
  <1> QED
    BY <1>2, <1>3, <1>4, PTL DEF Spec
=============================================================================
