CONSTANTS
    MaxKey = 2
    Inputs <- MCInputs
    Exact = 100
    Limits = {1, 2}
    Room = 2
    MaxId = 0
    MaxCollection = 2
    MaxSteps = 2
    Mixed = FALSE
    CarryOn = TRUE
SPECIFICATION Spec
INVARIANT TotalsFollow
