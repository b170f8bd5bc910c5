SPECIFICATION FairSpec
CONSTANTS
    r1 = r1
    r2 = r2
    NoRequest = NoRequest
    Requests <- MCRequests
    Inputs <- MCInputs
    Configs <- GrayConfigs
    Envs <- MCEnvs
    Answers <- MCAnswers
    Provided <- MCProvided
    HostSets <- MCHostSets
    Prompt <- MCPrompt
    MaxChanges = 1
    MaxPushes = 2
PROPERTY
    HeadersChooseCluster
CHECK_DEADLOCK FALSE
