\* Two pages, two payment sheets, a process death and resync; prepaid only.
CONSTANTS
    l1 = l1
    Lines = {l1}
    MaxQty = 1
    Price <- MCPrice
    Rate <- MCRate
    CourierCharge = 5000
    MaxAmountCod = 50000
    PayTypes = {"prepaid"}
    Addresses = {a1}
    NoAddress = NoAddress
    Sessions = {s1, s2}
    NoSession = NoSession
    Payments = {p1, p2}
    NoPayment = NoPayment
    NoReply = NoReply
    Batches = {b1, b2, b3, b4}
    NoBatch = NoBatch
    MaxCalls = 0
    MaxRestarts = 1
SPECIFICATION Spec
SYMMETRY Symmetry
VIEW View
PROPERTY IsPaymentLife
INVARIANTS
    ResultOrderedOnce
    TransactionIsPaid
    OrderHasAddress
    PaidOrderFromOpener
