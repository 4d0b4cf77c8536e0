\* One instrument of up to seven paragraphs, one audit after the other, one
\* section that changes.
SPECIFICATION MCSpec
CONSTANTS
    Schedules = {1, 2}
    Forms = {1, 2}
    Numbers = {1, 2}
    MaxParagraphs = 7
    SHINGLE_TOKENS = 2
    MAX_MISSING_SHINGLES = 1
    MIN_SCREEN_TOKENS = 3
    Jobs <- MCJobs
    RulesOf <- MCRulesOf
    Heading <- MCHeading
    Body <- MCBody
    Refs <- MCRefs
    Rows = {1, 2}
    TermNos = {1, 2, 3}
    RuleItems <- MCRuleItems
    TermItems <- MCTermItems
    FieldItems <- MCFieldItems
    BATCH_SIZE = 1
    Amended <- MCAmended
    MaxRefreshes = 1
    NswTerms = {3}
    MaxInstruments = 1
INVARIANTS
    KeysUnique
    SkippedFormsSilent
    NothingElseLost
    ReportedOnce
    CitedAsJudged
    OneContractorRule
    EditedTermsJudged
    ReportCoversInstrument
