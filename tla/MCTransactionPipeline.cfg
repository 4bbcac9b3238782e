CONSTANTS
    MaxHead = 2
    MaxSubmits = 1
    MaxFailures = 1
    Forks = TRUE
    MaxInFlight = 3
    Lifetime = 1
    MaxActions = 1
    MaxSignatures = 2
    NoTrx = NoTrx
    Voters <- MCVoters
    UserActions <- MCUserActions
    QmlActions <- MCQmlActions
CONSTRAINT InFlightBound
SPECIFICATION PipeFairSpec
INVARIANT PipeTypeOK
INVARIANT LastSignatureCoversContent
INVARIANT NameRoundTrip
INVARIANT AuthorizationRoundTrip
INVARIANT ArgumentsRoundTrip
PROPERTIES ConfirmedResolves
VIEW PipeView
