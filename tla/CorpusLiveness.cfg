\* Oldest-first limits: every version published in order is ingested.
SPECIFICATION FairSpec
CONSTANTS
    Dates = {1, 2, 3}
    Sections = {s1}
    Texts = {a, b}
    Absent = Absent
    LimitTakes = "oldest"
    PublishedInOrder = TRUE
    MayParseEmpty = FALSE
    MayWipe = TRUE
    MaxSuperseded = 0
    MaxRunFailures = 1
PROPERTIES
    EveryVersionIngested
