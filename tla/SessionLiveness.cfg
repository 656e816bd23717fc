\* Every request succeeds; one notification is tapped.
CONSTANTS
    Accounts = {a}
    None = None
    TotalPages = 2
    Tasks = {t1, t2}
    MaxChecks = 2
    MaxTaps = 1
    Reliable = TRUE
SPECIFICATION FairSpec
PROPERTY BootEnds
\* A boot without the profile it asks for stops for good.
CHECK_DEADLOCK FALSE
