\* Both guards, two pages, two events and two checks of a kind under way; the
\* platform answers every check.
CONSTANTS
    MaxPages = 2
    MaxEvents = 2
    MaxChecks = 2
SPECIFICATION FairSpec
INVARIANTS
    TypeOK
    DialogsCounted
PROPERTIES
    GuardsKeepPages
    RetryCloses
