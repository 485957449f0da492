\* stoi of a unit whose character is a variable: the rewrite returns stoi of it again.
CONSTANTS
    Chars = {"0", "1", "a"}
    CharVars = {cv}
    SeqVars = {x, y}
    IntVars = {n}
    x = x
    y = y
    cv = cv
    n = n
    SeqVals <- MCSeqVals
    IntVals <- MCIntVals
    IndexInputs = {}
    AtInputs = {}
    LastIndexInputs = {}
    StoiInputs <- MCStoiInputs
    ItosInputs <- MCItosInputs
SPECIFICATION Spec
CHECK_DEADLOCK FALSE
INVARIANTS StoiProgress
