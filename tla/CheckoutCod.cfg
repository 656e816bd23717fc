\* Cash on delivery, shared Cart objects and late answers; no payment sheet.
CONSTANTS
    l1 = l1
    Lines = {l1, l2}
    MaxQty = 2
    Price <- MCPrice
    Rate <- MCRate
    CourierCharge = 5000
    MaxAmountCod = 50000
    PayTypes = {"cod"}
    Addresses = {a1}
    NoAddress = NoAddress
    Sessions = {s1, s2}
    NoSession = NoSession
    Payments = {}
    NoPayment = NoPayment
    NoReply = NoReply
    Batches = {b1, b2, b3, b4}
    NoBatch = NoBatch
    MaxCalls = 1
    MaxRestarts = 0
SPECIFICATION Spec
SYMMETRY Symmetry
VIEW View
INVARIANTS
    TypeOK
    TotalsMatchProducts
    CODWithinLimit
    OrderBilledAsListed
