SPECIFICATION Spec
CONSTANTS
    p = p
    alice = alice
    dev = dev
    hopers = hopers
    other = other
    none = none
    never = never
    MaxUint = 200
    DecOne = 2
    Pools <- OnePool
    Tokens <- TwoTokens
    Denom <- PoolDenom
    NoOwner = none
    NoExpiration = never
    InitialBalance <- Holdings
    InitialConfigs <- StartConfigs
    Supply = 5
    Users = {alice}
    Others = {dev}
    Cw20 = {hopers, other}
    StartBurn = {2}
    MaxHeight = 0
    Configs <- NewConfigs
    BurnFees = {2}
    Amounts = {1, 4}
    LpAmounts = {2}
    LpMoves = {}
    Gifts = {}
    Minimums = {0}
    Expirations = {never}
INVARIANTS BackedUpToBurns PricedSwapsGoThrough
PROPERTIES SurplusNeverShrinks OwnerlessPoolFrozen
CHECK_DEADLOCK FALSE
