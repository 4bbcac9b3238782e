CONSTANTS
    f = f
    NumericIds = TRUE
    RealIds = {1}
    BASE_DRAFT_ID = 2
    MaxDraftId = 2
    Fields = {f}
    Vals = {0, 1}
    Zero = 0
    AddFieldMaps <- MCAddFieldMaps
    EditFieldMaps <- MCEditFieldMaps
    PageSize = 1
    Timeout = 1
    MaxTime = 1
    MaxJournal = 2
    NetErrors = TRUE
    NoKey = NoKey
    MaxInFlight = 1
SPECIFICATION Spec
CONSTRAINT InFlightBound JournalBound
INVARIANT TypeOK
INVARIANT PendingRowsImplyFlag
INVARIANT ViewShowsCachedRows
