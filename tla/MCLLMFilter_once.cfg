SPECIFICATION Spec
CONSTANTS
    MaxFrames = 3
INVARIANTS
    PromptReleasedOnce
CHECK_DEADLOCK FALSE
