CONSTANTS
    MaxKey = 2
    Inputs <- MCInputs
    Exact = 100
    Limits = {1, 2, 3}
    Room = 2
    MaxId = 0
    MaxCollection = 2
    MaxSteps = 2
    Mixed = FALSE
    CarryOn = FALSE
SPECIFICATION Spec
INVARIANTS TypeOK EntriesFollow UniqueHolds TotalsFollow AnswersAreWhole
PROPERTIES PagesCover
VIEW WithoutPage
