SPECIFICATION Spec
CONSTANTS
    p = p
    q = q
    alice = alice
    dev = dev
    hopers = hopers
    left = left
    right = right
    none = none
    never = never
    MaxUint = 400
    DecOne = 2
    Pools <- TwoPools
    Tokens <- ThreeTokens
    Denom <- PoolDenoms
    NoOwner = none
    NoExpiration = never
    InitialBalance <- Holdings
    InitialConfigs <- StartConfigs
    Supply <- SupplyOf
    Burns = {1, 2}
    Users = {alice}
    Others = {dev}
    Cw20 = {hopers, left}
    MaxHeight = 1
    Configs = {}
    BurnFees = {}
    Amounts = {1, 7}
    LpAmounts = {}
    LpMoves = {}
    Gifts = {7}
    Minimums = {0}
    Expirations = {1, never}
INVARIANTS LeftoverGrantExpires
PROPERTIES AllowanceNearlySpent SurplusNeverShrinks
CHECK_DEADLOCK FALSE
