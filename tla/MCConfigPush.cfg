SPECIFICATION FairSpec
CONSTANTS
    Units = {1, 2}
    Configurations = {c1}
    ConfigurationOf <- MCConfigurationOf
    Calls <- MCCalls
    Startup = TRUE
    MaxEdits = 1
    MaxFaults = 1
INVARIANTS
    TypeOK
    CompleteWasDelivered
PROPERTIES
    KeepsPromise
    MarkIsHonoured
CHECK_DEADLOCK FALSE
