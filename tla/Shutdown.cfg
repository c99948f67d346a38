SPECIFICATION ProcessSpec
CONSTANTS
    ParseThreads = {parse1, parse2, parse3}
    OutputThread = output
INVARIANTS
    
    OnlyWindowWaits
PROPERTIES
    QuitUnlessCaught
    NoCallbackAfterFini
CHECK_DEADLOCK FALSE
