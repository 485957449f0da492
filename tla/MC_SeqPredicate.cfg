\* mk_seq_prefix, mk_seq_suffix and mk_seq_contains on the inputs of MC_SeqPredicate.
CONSTANTS
    Chars = {"a", "b", "c"}
    CharVars = {cv}
    SeqVars = {x, y}
    IntVars = {}
    x = x
    y = y
    cv = cv
    SeqVals <- MCSeqVals
    IntVals <- MCIntVals
    PrefixInputs <- MCPrefixInputs
    ContainsInputs <- MCContainsInputs
SPECIFICATION Spec
INVARIANTS PredicateSound
CHECK_DEADLOCK FALSE
