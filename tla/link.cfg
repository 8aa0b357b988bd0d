SPECIFICATION Spec
CONSTANTS
    Ends = {gateway, device}
    BITS = 2
    Written <- UnlikeBits
    TIMEOUT_CYCLES = 6
    COMMS_BUFFER_SIZE = 2
INVARIANTS
    TypeOK
PROPERTIES
    Implements
    CallsReturn
