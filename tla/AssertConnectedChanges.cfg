SPECIFICATION Spec
CONSTANTS
    Requests = {r1}
    Values <- MCValues
    Input <- MCInput
    INACTIVITY_TIMEOUT = 2
    RESET_COOLOFF_DELAY = 1
    Commands = {0, 2, 5, 13}
    ObjectIds = {1}
    TypeCodes = {0, 1}
PROPERTY AssertConnectedChanges
