SPECIFICATION Spec
CONSTANTS
    Sources <- MCSources
    ConfigWhitelist <- MCWhitelist
    DefaultWhitelist <- MCWhitelist
    FoundChain <- MCFoundChain
    IsRoot = TRUE
    DryRun = FALSE
    MaxFailures = 1
    MaxRules = 4
    Kinds <- MCKinds
    Messages <- MCMessages
    NoSource = NoSource
    NoKind = NoKind
    NoAnswer = NoAnswer
    classify_kind <- MCclassify_kind
    parent_kind <- MCparent_kind
    Calls <- MCCalls
    Attached <- MCAttached
    BlockEnabled = TRUE
    BlockOn <- MCBlockOn
    DedupSeconds = 2
    Second = 1
    PruneLimit = 1
    MaxTime = 4
    MaxAlerts = 3
INVARIANTS
    BlocksConsistent
    NoRepeatInWindow
    DropJustified
    SinksAgree
    TableBounded
PROPERTIES
    ImplementsAlertLog
CHECK_DEADLOCK FALSE
