SPECIFICATION Spec
CONSTANTS
    alice = alice
    bob = bob
    staking = staking
    successor = successor
    lpt = lpt
    rwd = rwd
    Staking = staking
    Successor = successor
    Tokens = {lpt, rwd}
    InitialBalance <- Holdings
    Instantiations <- Start
    Schedules <- Updates
    TokenPairs <- Pairs
    Supply = 9
    Admins = {alice, bob}
    Lock = 1
    Plans = {9}
    NewPlans = {6, 12, 13}
    NewPairs = TRUE
    Reward = rwd
    Funding = 5
    MaxTime = 3
    MaxChanges = 3
    Users = {alice, bob}
    Amounts = {1, 8}
    UnbondAmounts = {0, 1}
    LockDurations = {0, 2}
    Migrating = FALSE
    Electing = TRUE
    MaxUint = 21
    DecOne = 5
INVARIANTS BondsAddUp ShutOutCanBeLifted
PROPERTIES LockHonoured
SYMMETRY Stakers
CHECK_DEADLOCK FALSE
