INIT MCInit
NEXT MCNext
CONSTANTS
    Texts <- MCTexts
    KeyOf <- MCKeyOf
    Tokens <- MCTokens
    And = "and"
    None = "none"
    Blank = " "
    Sections <- MCSections
    MaxSubmits = 2
    MaxFailures = 1
    Readers = {s1, s2}
    Queries <- MCQueries
    SharesToken = {}
    ContainedIn <- MCContains
    RecallLimit = 2
    ResultLimit = 2
    PageChars = 5
    Lookahead = 2
    ContextChars = 2
    MaxQueryChars = 2
    Files <- MCFiles
    Uploads <- MCUploads
    Curators = {c1, c2}
    MaxDocuments = 3
    MaxAuditErrors = 1
    SearchQueries <- MCSearchQueries
    MaxHitsPerGroup = 3
    MaxTrackedHits = 6
    ResultsPerPage = 4
    Target = 3
    Maximum = 5
    Lookback = 3
    CivilYear = 24
    Calendars <- MCCalendars
    PeriodYears = 2
    FORTUNE_BIG_LUCK_PERIODS = 3
    FirstLucks = {0, 1, 11, 24}
SYMMETRY Sym
CHECK_DEADLOCK FALSE
INVARIANTS GraphIsSound RepeatAddsNothing SearchesAreSound ReadsFitTogether ShelfIsSound PagesShowMatches SectionsAreSound TimelineIsSound ChosenHolds
PROPERTIES WritesAreSound HitsAreFair
