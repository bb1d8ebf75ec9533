SPECIFICATION FairSpec
CONSTANTS
    Gids = {1}
    Windows <- OneWindows
    Payloads <- OnePayloads
    NoWindow = NoWindow
    Malformed = Malformed
    None = None
    Events = {1, 2}
    Horizon = 3
    PromptDriver = FALSE
    MaxEdits = 2
    MaxFaults = 1
    MaxCommands = 1
    MaxRestarts = 1
INVARIANTS TypeOK LoadedOverridePending
PROPERTY EndIsCommanded
CHECK_DEADLOCK FALSE
