SPECIFICATION FairSpec
CONSTANTS
    alice = alice
    bob = bob
    staking = staking
    successor = successor
    lpt = lpt
    rwd = rwd
    Staking = staking
    Successor = successor
    Tokens = {lpt, rwd}
    InitialBalance <- Holdings
    Instantiations <- Start
    Schedules <- Updates
    TokenPairs <- Pairs
    Supply = 9
    Admins = {alice}
    Lock = 1
    Plans = {3, 11}
    NewPlans = {}
    NewPairs = FALSE
    Reward = rwd
    Funding = 20
    MaxTime = 3
    MaxChanges = 3
    Users = {alice, bob}
    Amounts = {1, 8}
    UnbondAmounts = {1}
    LockDurations = {}
    Migrating = FALSE
    Electing = FALSE
    MaxUint = 160
    DecOne = 5
INVARIANTS TypeOK ShutOutOnlyByOverflow RewardsWithinRelease IndexWithinRelease StakesBacked
PROPERTIES ClaimsKept ClaimsOnlyFromTime UnbondedComesBack EveryClaimPaid
CHECK_DEADLOCK FALSE
