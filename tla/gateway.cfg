SPECIFICATION Spec
CONSTANTS
    NUM_CLIENTS = 2
    Nibbles = {0}
    DeviceBytes <- OneByte
    ServerBytes <- OneByte
    COMMS_BUFFER_SIZE = 2
    SERIAL_BUFFER_SIZE = 3
    MAX_UP = 3
    MAX_DOWN = 3
    MAX_LOST_UP = 1
    MAX_LOST_DOWN = 1
INVARIANTS
    TypeOK
    InSync
    WholeFrames
PROPERTIES
    Served
