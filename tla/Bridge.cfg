CONSTANTS
    NumBeats = 3
    Slaves = {"fifo", "ram"}
    LateAnswers = FALSE
    MaxOpen = 2
SPECIFICATION FairSpec
INVARIANTS TypeOK WholeLines NothingLeft
PROPERTIES KeepsContract NoStarvation
VIEW LiveState
