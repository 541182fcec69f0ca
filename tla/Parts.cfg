CONSTANTS
    Names = {1, 2, 3}
    Keep = 2
    Encrypted = TRUE
    LateKeys = FALSE
    CarryOn = FALSE
    MaxWrites = 4
SPECIFICATION Spec
INVARIANTS TypeOK Intact
PROPERTIES OneTransaction ExpiresTheOldest
