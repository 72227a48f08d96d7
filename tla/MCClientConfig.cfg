SPECIFICATION Spec
CONSTANTS
    Option <- MCOption
    MaxOptions = 3
    Environment <- MCEnvironment
    Site <- MCSite
    Target <- MCTarget
INVARIANTS
    TypeOK
    ConfiguredAsDocumented
    AgentNamesRelease
    KeyStaysHome
    ItemKeepsItsRoute
    LogHidesSecrets
    LogsWhenAsked
CHECK_DEADLOCK FALSE
