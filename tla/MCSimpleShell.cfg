\* Three lines typed, four processes; a pipe that holds one line.
SPECIFICATION Spec
CONSTANTS
    Lines <- MC_Lines
    Programs <- MC_Programs
    Output <- MC_Output
    Files <- MC_Files
    FILE_LINES = 1
    PIPE_SIZE = 1
    Slots = 7
    MaxProcs = 4
    MaxLines = 3
INVARIANT OneReaderOfTerminal
INVARIANT UnwaitedChildrenStay
INVARIANT ArgvAsTyped
PROPERTY WaitEnds
CHECK_DEADLOCK FALSE
