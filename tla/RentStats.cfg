\* Three months over the end of a year and two quarters (of one month each), an
\* annual workbook, a correction and a run cut short.
SPECIFICATION FairSpec
CONSTANTS
    LastMonth = 3
    MonthsPerYear = 2
    MonthsPerQuarter = 1
    UpdateMonths = 2
    Candidates = 2
    MaxCorrections = 1
    MaxFailures = 1
INVARIANTS
    NswStatsMatchRows
    VicNewestServed
PROPERTIES
    EveryMonthLoaded
    EveryQuarterServed
