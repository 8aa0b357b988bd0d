SPECIFICATION Spec
CONSTANTS
    NUM_ACTIONS = 0
    NUM_EVENTS = 0
    NUM_PROPERTIES = 1
    LENGTH_OF_RESET_COMMAND = 1
    ConnectionIds <- MCConnectionIds
    EventValues <- MCEventValues
    Result <- MCResult
    Garbage = {255}
    DIRECT_CONN = TRUE
    COMMS_BUFFER_SIZE = 1
    Input = {0, 11, 12}
INVARIANTS
    AnswersOrResets
PROPERTIES
    UnsentValueResets
