CONSTANTS
    bronze = bronze
    silver = silver
    gold = gold
    Bronze = {bronze}
    Medallion = {silver, gold}
    Upstream <- MCUpstream
    CheckConfigs <- MCCheckConfigs
    NoResult = NoResult
    NoEntry = NoEntry
SPECIFICATION Spec
INVARIANTS TypeOK BronzeGateHolds PostLoadIsAboutLoad EveryFeedAccountedFor CompletedHidesNothing
PROPERTY FinallyRuns
\* The run ends.
CHECK_DEADLOCK FALSE
