SPECIFICATION Spec
CONSTANTS
    Sessions = {s1, s2}
    Databases = {d1}
    Versions <- MCVersions
    Asked = {0, 1}
    MaxVersions = 2
INVARIANTS TypeOK WritersDisturbNobody RunsWhatItMay PinnedNeverWrites ClosedStaysClosed
PROPERTIES CallsAreAnswered CloseReturns
CHECK_DEADLOCK FALSE
