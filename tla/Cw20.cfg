SPECIFICATION FullSpec
CONSTANTS
    alice = alice
    bob = bob
    nobody = nobody
    nocap = nocap
    never = never
    kept = kept
    Nobody = nobody
    NoCap = nocap
    Never = never
    Kept = kept
    Genesis <- GenesisBalances
    Users = {alice, bob}
    MaxUint = 4
    MaxHeight = 1
    MaxIssued = 2
    Supplies = {1}
    Minters = {bob, nobody}
    Caps = {3, nocap}
    OldAllowances <- Left
    Senders = {bob}
    Amounts = {0, 1, 2}
    Expirations = {kept, never, 1}
    Campaigns <- CampaignsRun
    Logos <- LogosTried
    Texts = {"none", "blank", "text"}
    Promoters = {kept, alice, nobody}
INVARIANTS TypeOK SupplyIsOwned SupplyWithinCap MirrorExact LogoRecorded
PROPERTIES MinterGoneForGood ImplementsLedger OnlyByAllowance MarketingGoneForGood
CHECK_DEADLOCK FALSE
