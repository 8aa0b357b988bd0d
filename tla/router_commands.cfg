SPECIFICATION Spec
CONSTANTS
    Requests = {r1}
    Values <- MCValues
    Input <- MCInput
    INACTIVITY_TIMEOUT = 1
    RESET_COOLOFF_DELAY = 1
    Commands = {0, 1, 2, 4, 5, 6, 7, 8, 9, 13}
    ObjectIds = {1}
    TypeCodes = {0, 1, 3}
INVARIANTS
    LinkOK
    ParserOK
PROPERTIES
    Resynchronises
    RaisedIsRegistered
    SilenceClosesLink
