CONSTANTS
    Chunk = 3
    Keep = 3
    MaxStream = 9
SPECIFICATION ParserSpec
INVARIANTS ParserTypeOK EveryIdFound
CHECK_DEADLOCK FALSE
