\* One page, a payment sheet and cash on delivery, with edits; storage answers.
CONSTANTS
    l1 = l1
    Lines = {l1}
    MaxQty = 2
    Price <- MCPrice
    Rate <- MCRate
    CourierCharge = 5000
    MaxAmountCod = 50000
    PayTypes = {"cod", "prepaid"}
    Addresses = {a1}
    NoAddress = NoAddress
    Sessions = {s1}
    NoSession = NoSession
    Payments = {p1}
    NoPayment = NoPayment
    NoReply = NoReply
    Batches = {b1, b2, b3}
    NoBatch = NoBatch
    MaxCalls = 1
    MaxRestarts = 0
SPECIFICATION FairSpec
INVARIANTS
    CODOrderedOnce
    ChargedAsBilled
PROPERTY AcceptedIsOrdered
