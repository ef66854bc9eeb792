SPECIFICATION Spec
CONSTANTS
    p = p
    alice = alice
    dev = dev
    hopers = hopers
    other = other
    none = none
    never = never
    MaxUint = 200
    DecOne = 2
    Pools <- OnePool
    Tokens <- TwoTokens
    Denom <- PoolDenom
    NoOwner = none
    NoExpiration = never
    InitialBalance <- Holdings
    InitialConfigs <- StartConfigs
    Supply = 5
    Users = {alice}
    Others = {dev}
    Cw20 = {other}
    StartBurn = {1}
    MaxHeight = 0
    Configs = {}
    BurnFees = {}
    Amounts = {1, 4}
    LpAmounts = {1, 2}
    LpMoves = {1}
    Gifts = {}
    Minimums = {0, 2}
    Expirations = {never}
INVARIANTS TypeOK ReservesBacked NoRoundTripProfit SharesRedeemable SeededWhileShared
PROPERTIES LiquidityNeverDiluted
CHECK_DEADLOCK FALSE
