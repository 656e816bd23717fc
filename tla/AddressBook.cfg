\* Two Account pages, two addresses, one text; answers in any order.
CONSTANTS
    Pages = {p1, p2}
    NoPage = NoPage
    Texts = {x}
    Empty = Empty
    MaxAddresses = 3
    MaxUpdates = 1
SPECIFICATION Spec
SYMMETRY Symmetry
INVARIANTS
    TypeOK
    SpinnerCoversRequest
    AddedComplete
    BookIsPrefix
    ShownIsSent
