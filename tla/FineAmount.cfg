SPECIFICATION Spec
CONSTANTS
    r1 = r1
    r2 = r2
    r3 = r3
    None = None
    Request = {r1}
    SeedLot = {"a1", "a2"}
    Client = {"alice"}
    Assets <- MCAssets
    OrderID = {"o1", "o2", "o3"}
    Times = {3}
    MaxFaults = 0
    AmountQuantum = 10
    PriceQuantum = 1
    ValueQuantum = 10
    GuardUnits = 10
    AmountLimit = 100
    PriceLimit = 100
    ValueLimit = 1000
    Inputs <- FineAmountInputs
    SeedTables <- NoLots
PROPERTIES
    SnapshotIsStoredState
