SPECIFICATION FairSpec
CONSTANTS
    MaxFrames = 3
INVARIANTS
    TypeOK
    ReleaseOnlyRecorded
    PromptReleaseBound
    LoadGivenBack
    ErrorStandsAlone
PROPERTIES
    LoadReleased
CHECK_DEADLOCK FALSE
