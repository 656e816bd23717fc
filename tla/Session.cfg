\* Two accounts, two handlers at once, failures, a process that may end; second boots
\* come from a second Retry.
CONSTANTS
    Accounts = {a, b}
    None = None
    TotalPages = 2
    Tasks = {t1, t2}
    MaxChecks = 2
    MaxTaps = 0
    Reliable = FALSE
SPECIFICATION Spec
SYMMETRY Symmetry
INVARIANTS
    TypeOK
    CatalogueWhole
    BadgeCountable
    ListsOfBuyer
