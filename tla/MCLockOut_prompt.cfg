SPECIFICATION FairSpec
CONSTANTS
    Temps <- MCTemps
    Invalid = Invalid
    Configs <- MCConfigs
    Default <- MCDefault
    PromptDriver = TRUE
    MaxFaults = 1
    MaxConfigs = 2
    MaxRestarts = 1
INVARIANTS TypeOK LockoutHasEquipment ReinforcedWhileActive DeviceFollowsFlags
PROPERTY HeatingEnforced
