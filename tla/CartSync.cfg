\* One line, two cart pages, Placeorder, two requests at once, which may fail.
CONSTANTS
    Lines = {l1}
    l1 = l1
    NoLine = NoLine
    MaxQty = 2
    Rate <- MCRate
    Views = {v1, v2}
    NoView = NoView
    Batches = {b1, b2, b3, b4}
    NoBatch = NoBatch
    Requests = {r1, r2}
    NoRequest = NoRequest
SPECIFICATION Spec
SYMMETRY Symmetry
VIEW StateView
INVARIANTS
    TypeOK
    CurrentIsServers
    BadgeCountsList
    TotalMatchesList
PROPERTY
    IsCartCopy
