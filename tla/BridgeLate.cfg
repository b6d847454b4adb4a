CONSTANTS
    NumBeats = 3
    Slaves = {"fifo"}
    LateAnswers = TRUE
    MaxOpen = 2
SPECIFICATION Spec
INVARIANT OwnAnswer
VIEW LiveState
