SPECIFICATION Spec
CONSTANTS
    Gids = {1, 2}
    Windows <- MCWindows
    Payloads <- MCPayloads
    NoWindow = NoWindow
    Malformed = Malformed
    None = None
    Events = {1, 2}
    Horizon = 3
    PromptDriver = TRUE
    MaxEdits = 3
    MaxFaults = 1
    MaxCommands = 1
    MaxRestarts = 1
INVARIANTS StoredOverridePending TrackedForCleanup CurrentOverrideEnds ClearedIsIdle
CHECK_DEADLOCK FALSE
