SPECIFICATION Spec
CONSTANTS
    Askers = {r1}
    Values <- ResetValue
    INACTIVITY_TIMEOUT = 2
    RESET_COOLOFF_DELAY = 4
    RESET_LENGTH = 10
    ConnectionIds <- OneId
    DIRECT_CONN = FALSE
    MAX_UP = 2
    MAX_DOWN = 5
PROPERTIES
    Recovers
