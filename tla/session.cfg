SPECIFICATION Spec
CONSTANTS
    Askers = {r1}
    Values <- MCValues
    INACTIVITY_TIMEOUT = 2
    RESET_COOLOFF_DELAY = 4
    RESET_LENGTH = 10
    ConnectionIds <- OneId
    DIRECT_CONN = FALSE
    MAX_UP = 2
    MAX_DOWN = 10
INVARIANTS
    RegistrationsAgree
PROPERTIES
    AnswersMatch
