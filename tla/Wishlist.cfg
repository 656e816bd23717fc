\* Two products of one colour, two requests at once.
CONSTANTS
    Products = {p1, p2}
    Colors = {c1}
    Tabs = {w1, w2}
    NoTab = NoTab
    Pages = {s1, s2}
    NoPage = NoPage
    Requests = {r1, r2}
    MaxWished = 3
SPECIFICATION Spec
SYMMETRY Symmetry
INVARIANTS
    TypeOK
    TapTakesEffect
PROPERTY
    BinRemovesShown
