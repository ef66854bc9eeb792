SPECIFICATION Spec
CONSTANTS
    alice = alice
    bob = bob
    staking = staking
    successor = successor
    lpt = lpt
    rwd = rwd
    Staking = staking
    Successor = successor
    Tokens = {lpt, rwd}
    InitialBalance <- Holdings
    Instantiations <- Start
    Schedules <- Updates
    TokenPairs <- Pairs
    Supply = 2
    Admins = {alice, bob}
    Lock = 1
    Plans = {10, 11}
    NewPlans = {}
    NewPairs = FALSE
    Reward = lpt
    Funding = 20
    MaxTime = 4
    MaxChanges = 3
    Users = {alice, bob}
    Amounts = {1, 2}
    UnbondAmounts = {1, 2}
    LockDurations = {}
    Migrating = TRUE
    Electing = FALSE
    MaxUint = 1000
    DecOne = 5
INVARIANTS ClaimsFunded
PROPERTIES ClaimsKept
SYMMETRY Stakers
CHECK_DEADLOCK FALSE
