CONSTANTS
    Urls = {NoUrl, GoodUrl}
    NoUrl = NoUrl
    GoodUrl = GoodUrl
    NoAge = NoAge
    MaxEntries = 2
    InitEntries = 1
    JournalLimit = 1
    Ages = {0}
    StaleSettings = {10}
    MaxFailures = 1
    MaxInFlight = 3
CONSTRAINT InFlightBound
SPECIFICATION Spec
INVARIANT RecoveringStaysRecovering
