\* mk_seq_replace and mk_seq_replace_all on the triples of MC_SeqReplace.
CONSTANTS
    Chars = {"a", "b"}
    CharVars = {cv}
    SeqVars = {x, y}
    IntVars = {}
    x = x
    y = y
    cv = cv
    SeqVals <- MCSeqVals
    IntVals = {}
    Inputs <- MCInputs
SPECIFICATION Spec
INVARIANTS ReplaceSound
CHECK_DEADLOCK FALSE
