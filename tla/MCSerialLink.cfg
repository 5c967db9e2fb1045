SPECIFICATION LinkSpec
CONSTANTS
    Frames <- MCFrames
    ExclOr <- MCExclOr
    NoiseBytes = {0, 1, 254}
    PAYLOAD_MAX_LENGTH = 5
    RX_BUFFER_SIZE = 12
    MaxFrames = 2
    MaxNoise = 1
INVARIANTS
    ParsedAreSent
    LostOnlyIfOutOfStep
    ReaderDiesOnlyOf
\* The adapter may stop sending.
CHECK_DEADLOCK FALSE
