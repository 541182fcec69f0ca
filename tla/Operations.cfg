SPECIFICATION Spec
CONSTANTS
    Collections = {"c", "d"}
    Specs <- MCSpecs
    Names = {"low", "top", "n/low", "n/top"}
    NamespaceOf <- MCNamespaceOf
    Drafts <- MCDrafts
    Accesses <- MCAccesses
    Callers <- MCCallers
    Presented = {{}, {"r"}}
    IntMax = 1000
    MostRows = 2
    MaxOps = 3
    MaxHeld = 2
INVARIANTS Pinned RowsWithinLimit ScopesHold SharesExactly EnvelopeHolds OneHolder
PROPERTIES CostIsFixed
CHECK_DEADLOCK FALSE
