SPECIFICATION Spec
CONSTANTS
    p = p
    alice = alice
    dev = dev
    hopers = hopers
    other = other
    none = none
    never = never
    MaxUint = 200
    DecOne = 2
    Pools <- OnePool
    Tokens <- TwoTokens
    Denom <- PoolDenom
    NoOwner = none
    NoExpiration = never
    InitialBalance <- Holdings
    InitialConfigs <- StartConfigs
    Supply = 7
    Users = {alice}
    Others = {dev}
    Cw20 = {hopers, other}
    StartBurn = {2}
    MaxHeight = 0
    Configs = {}
    BurnFees = {}
    Amounts = {1,5}
    LpAmounts = {2}
    LpMoves = {}
    Gifts = {}
    Minimums = {0}
    Expirations = {never}
INVARIANTS ReservesBacked
CHECK_DEADLOCK FALSE
