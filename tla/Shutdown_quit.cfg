SPECIFICATION ProcessSpec
CONSTANTS
    ParseThreads = {parse1}
    OutputThread = output
PROPERTIES
    QuitEnds
CHECK_DEADLOCK FALSE
