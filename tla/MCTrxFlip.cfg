CONSTANTS
    MaxHead = 3
    MaxSubmits = 1
    MaxFailures = 1
    Forks = TRUE
    MaxInFlight = 3
CONSTRAINT InFlightBound
SPECIFICATION Spec
PROPERTY IrreversibleStays
