CONSTANTS
    Chars = {"a", "b"}
    x = x
    y = y
    c1 = c1
    n1 = n1
    CharVars = {c1}
    SeqVars = {x, y}
    IntVars = {}
    MaxAtoms = 2
    Inputs <- CancelUnitInputs
    InputAtoms <- CancelAtoms
SPECIFICATION Spec
INVARIANTS ReductionSound NonOverlapSound
PROPERTIES Terminates
CHECK_DEADLOCK FALSE
