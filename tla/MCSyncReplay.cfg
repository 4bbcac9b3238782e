CONSTANTS
    Urls = {NoUrl, GoodUrl}
    NoUrl = NoUrl
    GoodUrl = GoodUrl
    NoAge = NoAge
    MaxEntries = 3
    InitEntries = 1
    JournalLimit = 2
    Ages = {0}
    StaleSettings = {10}
    MaxFailures = 1
    MaxInFlight = 3
CONSTRAINT InFlightBound
SPECIFICATION Spec
INVARIANT EntriesAnnouncedOnce
