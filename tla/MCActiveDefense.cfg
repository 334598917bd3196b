SPECIFICATION DefenseSpec
CONSTANTS
    Sources <- MCSources
    ConfigWhitelist = {}
    DefaultWhitelist = {"lo"}
    FoundChain <- MCFoundChain
    IsRoot = TRUE
    DryRun = FALSE
    MaxFailures = 2
    MaxRules = 4
INVARIANTS
    FoundRulesUntouched
    BooksMatchChain
    NeverBlockOurselves
