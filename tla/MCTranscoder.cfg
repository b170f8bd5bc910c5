SPECIFICATION Spec
CONSTANTS
    Responses <- MCResponses
    LineEnds <- MCLineEnds
    Body <- MCBody
INVARIANTS
    CutIndependent
    DamageConfined
    ReasoningSplitAgrees
    LogAgrees
CHECK_DEADLOCK FALSE
