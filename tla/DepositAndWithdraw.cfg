SPECIFICATION Spec
CONSTANTS
    r1 = r1
    r2 = r2
    r3 = r3
    None = None
    Request = {r1, r2, r3}
    SeedLot = {"a1", "a2"}
    Client = {"alice"}
    Assets <- MCAssets
    OrderID = {"o1", "o2", "o3"}
    Times = {1, 2, 3}
    MaxFaults = 0
    AmountQuantum = 1
    PriceQuantum = 1
    ValueQuantum = 1
    GuardUnits = 10
    AmountLimit = 100
    PriceLimit = 100
    ValueLimit = 50
    Inputs <- MixedInputs
    SeedTables <- OneLot
SYMMETRY Symmetry
INVARIANTS
    TypeOK
    SuccessMatchesRecord
    DepositAtomic
PROPERTIES
    RefinesLedger
