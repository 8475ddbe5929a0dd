CONSTANTS
    ToolCalls <- MCToolCalls
    MaxItems = 1
    MaxChunks = 1
    JsonToStreams = TRUE
SPECIFICATION Spec
CHECK_DEADLOCK FALSE
INVARIANT EventsOnly
