CONSTANTS
    Tokens = {"x", "y"}
    CloseMayFail = FALSE
    MaxLines = 2
SPECIFICATION Spec
INVARIANTS ExactlyOneFinal
