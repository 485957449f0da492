CONSTANTS
    MaxChar = 3
    UnicodeMaxChar = 3
    StartChar = 1
    MaxStrLen = 4
    Inputs <- MCUnsoundInputs
SPECIFICATION Spec
INVARIANTS SampleSound
CHECK_DEADLOCK FALSE
