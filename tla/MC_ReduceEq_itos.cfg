CONSTANTS
    Chars = {"0", "1", "a"}
    x = x
    y = y
    c1 = c1
    n1 = n1
    CharVars = {c1}
    SeqVars = {x}
    IntVars = {n1}
    MaxAtoms = 2
    Inputs <- MCInputs
    InputAtoms <- ItosAtoms
SPECIFICATION Spec
INVARIANTS ReductionSound
CHECK_DEADLOCK FALSE
