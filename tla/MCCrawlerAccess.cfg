CONSTANTS
    AppCount = 2
    MaxToken = 2
    MaxFault = 1
SPECIFICATION FairSpec
INVARIANTS
    ConfigurationSaved
    AppsLostOnlyByTornWrite
CHECK_DEADLOCK FALSE
PROPERTIES
    SchedulerGoesOn
    TokensRenewed
