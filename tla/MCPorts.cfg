SPECIFICATION FairSpec
CONSTANTS
    c1 = c1
    c2 = c2
    Callers = {c1, c2}
    AppIds = {1}
    RangeStart <- MCRangeStart
    RangeEnd <- MCRangeEnd
INVARIANTS
    AnswerIsStable
    ExhaustionIsReal
PROPERTIES
    ImplementsRegistry
    CallReturns
