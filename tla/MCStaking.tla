----------------------------- MODULE MCStaking -----------------------------
(* Two stakers of LP tokens.  The cfg says what the rewards are paid in,   *)
(* what the transactions carry and what the administrator does.            *)
EXTENDS Staking, TLC

CONSTANTS
    alice, bob, staking, successor, lpt, rwd,
    Reward,     \* the reward token
    Supply,     \* LP tokens each staker starts with
    Funding,    \* reward tokens the contract starts with
    Admins,     \* who may be the administrator
    Lock,       \* lock_duration of the instantiation
    Plans,      \* numbers of the schedules of the instantiation
    NewPlans,   \* numbers of the schedules of updates
    NewPairs    \* whether an update may swap the two tokens

Holdings ==
    [t \in Tokens |-> [a \in Account |->
        IF a \in Users /\ t = lpt THEN Supply
        ELSE IF a = staking /\ t = Reward THEN Funding ELSE 0]]

S(start, end, amount) == [start |-> start, end |-> end, amount |-> amount]

(* Rates that are and are not a whole number of atomics, slots that follow *)
(* each other, with a gap or without, overlap, and repeat; amounts of a    *)
(* few units, where everything is rounding, and of many; at last, slots    *)
(* that do not end after they start.                                       *)
Plan ==
    << << S(0, 3, 5) >>,
       << S(1, 3, 3) >>,
       << S(0, 1, 2), S(2, 3, 1) >>,
       << S(0, 2, 3), S(1, 3, 2) >>,
       << S(1, 2, 3), S(2, 3, 2) >>,
       << S(1, 2, 3), S(1, 2, 3) >>,
       << S(2, 4, 3) >>,
       << S(3, 4, 3) >>,
       << S(1, 2, 3) >>,
       << S(0, 3, 20) >>,
       << S(0, 2, 9), S(1, 3, 11) >>,
       << S(1, 2, 3), S(2, 2, 1) >>,
       << S(1, 2, 3), S(3, 1, 2) >> >>

Stakers == Permutations(Users)

PlansOf(numbers) == {Plan[n] : n \in numbers}

Start ==
    {[lp |-> lpt, reward |-> Reward, schedule |-> s, admin |-> a, lock |-> Lock] :
        s \in PlansOf(Plans), a \in Admins}
Updates == PlansOf(NewPlans)
Pairs == IF NewPairs THEN {<<rwd, lpt>>, <<lpt, rwd>>} ELSE {}
=============================================================================
