CONSTANTS
    Tokens = {"x", "y"}
    CloseMayFail = TRUE
    MaxLines = 2
SPECIFICATION Spec
INVARIANTS CloseErrorReturned
