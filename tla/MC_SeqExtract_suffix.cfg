\* mk_seq_extract on bases that include an inner suffix extract whose length has a further len(y) summand.
CONSTANTS
    Chars = {"a", "b"}
    CharVars = {cv}
    SeqVars = {x, y}
    IntVars = {n}
    x = x
    y = y
    cv = cv
    n = n
    SeqVals <- MCSeqVals
    IntVals <- MCIntVals
    Inputs <- MCInputsExtraSuffix
SPECIFICATION Spec
INVARIANTS ExtractSound
CHECK_DEADLOCK FALSE
