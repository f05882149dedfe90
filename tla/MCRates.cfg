SPECIFICATION RatesSpec
CONSTANTS
    domestic = domestic
    summary = summary
    entry = entry
    bill = bill
    h1 = h1
    h2 = h2
    none = none
    Homes = {h1, h2}
    Plans = {domestic}
    Candidates = {summary, entry}
    Manual = {entry}
    Evidence <- MCEvidence
    Documents <- MCDocuments
    Rules <- MCRules
    NoRule = NoRule
    Offered <- MCOffered
    Intervals <- MCIntervals
    Horizon = 2
    MaxVersions = 2
    RootUrl = root
    Urls = {u1, u2, u3}
    OffsiteUrls = {pdf}
    Families = {prime, domestic}
    MaxDepth = 1
    MaxDocuments = 3
    MaxBytes = 4
    Slots = 3
    WeekendDays = {1}
    FirstDay = 0
    LastDay = 2
    PlanPeriods <- MCPeriods
    MaxPeriods = 3
    SeasonSets <- MCSeasons
    Calendars <- MCCalendars
    NoCalendar = none
    Unbounded = 99
    Usages = {0, 3, 4, 5, 9}
    Thresholds = {3, 5}
    MaxEnergy = 5
    MaxMinutes = 3
SYMMETRY RatesSymmetry
INVARIANTS
    RateRecordSound
    CrawlSound
    PublishedScheduleResolves
    PricingHolds
PROPERTIES
    RateLostOnlyAfterBoundedVersion
CHECK_DEADLOCK FALSE
