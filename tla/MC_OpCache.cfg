CONSTANTS
    Addr = {a1, a2, a3, a4}
    Terms <- MCTerms
    F <- MCF
    Deps <- MCDeps
    MaxCacheSize = 2
    MaxCalls = 3
    Free = Free
    None = None
SPECIFICATION Spec
INVARIANTS CacheTransparent CacheBounded HeldResultsCorrect
PROPERTIES MemoRefinement
CHECK_DEADLOCK FALSE
