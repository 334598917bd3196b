SPECIFICATION Spec
CONSTANTS
    Addresses <- MCAddresses
    Digest <- MCDigest
    HashCount = 2
    Settings <- MCSettings
    Default <- MCDefault
    Numerals <- MCNumerals
    TrueWords <- MCTrueWords
    FalseTexts <- MCFalseTexts
    ConfigSize = 10
    TrainedSize = 7
    Seeds <- MCSeeds
    Feed <- MCFeed
    TrainingSets <- MCTrainingSets
    Families = {0, 1}
    Setups <- MCSetups
    NotRunning = NotRunning
    MaxTime = 1
    MaxFiles = 3
    MaxLessons = 1
INVARIANTS
    FilterExact
    NeverUnarmed
    LaterWins
PROPERTIES
    RestoresLastShutdown
