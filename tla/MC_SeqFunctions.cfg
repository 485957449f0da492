\* mk_seq_index, mk_seq_at, mk_seq_last_index, mk_str_stoi and mk_str_itos on the inputs of MC_SeqFunctions.
CONSTANTS
    Chars = {"0", "1", "a", "b", "c"}
    CharVars = {cv}
    SeqVars = {x, y}
    IntVars = {n}
    x = x
    y = y
    cv = cv
    n = n
    SeqVals <- MCSeqVals
    IntVals <- MCIntVals
    IndexInputs <- MCIndexInputs
    AtInputs <- MCAtInputs
    LastIndexInputs <- MCLastIndexInputs
    StoiInputs <- MCStoiInputs
    ItosInputs <- MCItosInputs
SPECIFICATION Spec
INVARIANTS PositionSound StoiSound
CHECK_DEADLOCK FALSE
