\* Any publication order, empty parses, replaced versions, failing runs and wipes.
SPECIFICATION Spec
CONSTANTS
    Dates = {1, 2, 3}
    Sections = {s1, s2}
    Texts = {a, b}
    Absent = Absent
    LimitTakes = "newest"
    PublishedInOrder = FALSE
    MayParseEmpty = TRUE
    MayWipe = TRUE
    MaxSuperseded = 1
    MaxRunFailures = 1
SYMMETRY MCSymmetry
PROPERTIES
    PointInTimeStore
