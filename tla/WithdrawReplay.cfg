SPECIFICATION ApiSpec
CONSTANTS
    r1 = r1
    r2 = r2
    r3 = r3
    i1 = i1
    i2 = i2
    None = None
    Unset = Unset
    Malformed = Malformed
    Request = {r1, r2}
    Instance = {i1, i2}
    SeedLot = {"a1", "a2"}
    Client = {"alice"}
    Assets <- MCAssets
    OrderID = {"o1", "o2", "o3"}
    Times = {2}
    MaxFaults = 0
    AmountQuantum = 1
    PriceQuantum = 1
    ValueQuantum = 1
    GuardUnits = 10
    AmountLimit = 100
    PriceLimit = 100
    ValueLimit = 1000
    Int32Limit = 8
    Inputs <- ContendedInputs
    SeedTables <- TiedLots
    Environments <- PlainEnvironment
    Events <- Commands
INVARIANTS
    ReplayIsCounted
