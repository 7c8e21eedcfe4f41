\* Two accounts, share counts 0/50/51, prices 0/1, amounts 0/1 and u64::MAX+1.
CONSTANTS
    a1 = a1
    a2 = a2
    a3 = a3
    p1 = p1
    i1 = i1
    NoRecord = NoRecord
    NoOwner = NoOwner
    Accounts = {a1, a2}
    Payloads = {p1}
    Ids = {i1}
    Hash <- MCHash
    U64Max = 511
    Quantities = {0, 50, 51}
    Prices = {0, 1}
    Amounts = {0, 1, 512}
    InitBalance <- UnitBalance
SPECIFICATION Spec
SYMMETRY Symmetry
VIEW StorageView
INVARIANT TypeOK AssetIntegrity
PROPERTY TradesConserveShares SaleIsAtomic BuyerCredited ImplementsSettlement
