CONSTANTS
    MaxHead = 3
    MaxSubmits = 1
    MaxFailures = 1
    Forks = FALSE
    MaxInFlight = 3
CONSTRAINT InFlightBound
SPECIFICATION Spec
INVARIANT IrreversibleOnlyWhenFinal
