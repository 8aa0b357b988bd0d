SPECIFICATION Spec
CONSTANTS
    NUM_ACTIONS = 1
    NUM_EVENTS = 1
    NUM_PROPERTIES = 0
    LENGTH_OF_RESET_COMMAND = 1
    ConnectionIds <- MCConnectionIds
    EventValues <- MCEventValues
    Result <- MCResult
    Garbage = {255}
    DIRECT_CONN = TRUE
    COMMS_BUFFER_SIZE = 1
    Input = {0, 2, 10, 99}
INVARIANTS
    TypeOK
    AnswersOrResets
PROPERTIES
    DoSHETReturns
