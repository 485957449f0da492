CONSTANTS
    MaxChar = 3
    UnicodeMaxChar = 3
    StartChar = 1
    MaxStrLen = 4
    Inputs <- MCInputs
SPECIFICATION Spec
INVARIANTS SampleSound SampleComplete DerivSound
PROPERTIES SearchTerminates
CHECK_DEADLOCK FALSE
