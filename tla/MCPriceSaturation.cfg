\* Two accounts, price 256 per share: 50 shares cost more than u64::MAX = 511.
CONSTANTS
    a1 = a1
    a2 = a2
    a3 = a3
    p1 = p1
    i1 = i1
    NoRecord = NoRecord
    NoOwner = NoOwner
    Accounts = {a1, a2}
    Payloads = {p1}
    Ids = {i1}
    Hash <- MCHash
    U64Max = 511
    Quantities = {0, 50}
    Prices = {0, 256}
    Amounts = {511}
    InitBalance <- RichBalance
SPECIFICATION Spec
SYMMETRY Symmetry
VIEW StorageView
PROPERTY SellerPaidFullPrice
