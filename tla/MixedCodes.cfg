SPECIFICATION MixedSpec
CONSTANTS
    p = p
    q = q
    alice = alice
    hopers = hopers
    orders = orders
    other = other
    none = none
    never = never
    MaxUint = 9000
    DecOne = 2
    Pools <- TwoPools
    Tokens <- ThreeTokens
    Denom <- PoolDenoms
    NoOwner = none
    NoExpiration = never
    InitialBalance <- Holdings
    InitialConfigs <- StartConfigs
    StartCodes <- Started
    Recoded = {p}
    Supply <- SupplyOf
    Users = {alice}
    Others = {}
    Cw20 = {hopers, orders}
    MaxHeight = 0
    Configs <- NewConfigs
    BurnFees = {0}
    Amounts = {20}
    LpAmounts = {}
    LpMoves = {}
    Gifts = {}
    Minimums = {0}
    Expirations = {never}
INVARIANTS NoMigratedRoundTripProfit
PROPERTIES ImplementsHopersPool OrdersNeverLeaks
CHECK_DEADLOCK FALSE
