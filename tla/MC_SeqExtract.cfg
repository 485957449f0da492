CONSTANTS
    Chars = {"a", "b"}
    CharVars = {cv}
    SeqVars = {x, y}
    IntVars = {n}
    x = x
    y = y
    cv = cv
    n = n
    SeqVals <- MCSeqVals
    IntVals <- MCIntVals
    Inputs <- MCInputs
SPECIFICATION Spec
INVARIANTS ExtractSound
CHECK_DEADLOCK FALSE
