\* non_overlap against the contract of its comment, on equations between lists of units of a, b, c.
CONSTANTS
    Chars = {"a", "b", "c"}
    CharVars = {c1}
    SeqVars = {x, y}
    IntVars = {}
    x = x
    y = y
    c1 = c1
    n1 = n1
    MaxAtoms = 2
    Inputs <- MCInputs
    InputAtoms <- ValueUnitAtoms
SPECIFICATION Spec
INVARIANTS NonOverlapContract
CHECK_DEADLOCK FALSE
