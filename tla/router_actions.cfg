SPECIFICATION Spec
CONSTANTS
    Requests = {r1, r2}
    Values <- MCValues
    Input <- MCInput
    INACTIVITY_TIMEOUT = 1
    RESET_COOLOFF_DELAY = 1
    Commands = {0, 3, 13}
    ObjectIds = {1}
    TypeCodes = {0, 1}
SYMMETRY Symmetry
INVARIANTS
    TypeOK
    LinkOK
    WaitersOK
PROPERTIES
    AnswersInOrder
    ForgottenOnlyMidReturn
