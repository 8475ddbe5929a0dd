CONSTANTS
    ToolCalls <- MCToolCalls
    MaxItems = 2
    MaxChunks = 3
    JsonToStreams = FALSE
SPECIFICATION FairSpec
CHECK_DEADLOCK FALSE
INVARIANTS BlocksDistinct
PROPERTY ClientSpec
PROPERTY CloseCompletes
