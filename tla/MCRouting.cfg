SPECIFICATION FairSpec
CONSTANTS
    r1 = r1
    r2 = r2
    NoRequest = NoRequest
    Requests <- MCRequests
    Inputs <- MCInputs
    Configs <- MCConfigs
    Envs <- MCEnvs
    Answers <- MCAnswers
    Provided <- MCProvided
    HostSets <- MCHostSets
    Prompt <- MCPrompt
    MaxChanges = 1
    MaxPushes = 1
INVARIANTS
    MostSpecificRule
    FewBetterHosts
    LoadsNormalised
    RoutedWhateverAnswered
    StaleOnlyIfRaced
PROPERTIES
    ClusterCreatedOnce
    RequestsAnswered
CHECK_DEADLOCK FALSE
