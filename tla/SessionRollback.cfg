SPECIFICATION Spec
CONSTANTS
    Sessions = {s1, s2}
    Databases = {d1}
    Versions <- MCVersions
    Asked = {0, 1}
    MaxVersions = 2
INVARIANTS ReadersUndisturbed
CHECK_DEADLOCK FALSE
