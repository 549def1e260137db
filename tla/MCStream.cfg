CONSTANTS
    Tokens = {"x", "y"}
    CloseMayFail = TRUE
    MaxLines = 3
SPECIFICATION FairSpec
INVARIANTS TypeOK StreamWellFormed AnsweredUnlessCanceled
PROPERTIES HandlerEnds WatcherEnds
