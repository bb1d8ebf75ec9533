SPECIFICATION FairSpec
CONSTANTS
    Temps <- MCTemps
    Invalid = Invalid
    Configs <- FewConfigs
    Default <- MCDefault
    PromptDriver = FALSE
    MaxFaults = 0
    MaxConfigs = 2
    MaxRestarts = 0
PROPERTY LockoutFollowsWeather
