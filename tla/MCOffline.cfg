SPECIFICATION OfflineSpec
CONSTANTS
    Lower <- MCLower
    MIN_SCAN_PORTS = 10
    MIN_SCAN_RATIO = 20
    Words <- MCWords
    SeedWords = {"ALERT("}
    WEAK_SIGNALS = {"ROOT"}
    TopN = 2
    Confidence = 80
    Clusters = 2
    Iterations = 4
    LearningRate = 2
    RadiusMultiplier = 3
    MinSamples = 3
    Addresses = {"a", "b", "c"}
    Digest <- MCDigest
    HashCount = 2
    Sources <- MCSources
    SeedRows <- MCSeedRows
    SeedPayload <- MCSeedPayload
    SeedCentroids <- MCSeedCentroids
    FilterSize = 12
    MaxKnnSamples = 3
CHECK_DEADLOCK FALSE
INVARIANTS
    SplitSound
    KnnRowsSound
    EngineSurvivesBrain
    FloodStaysNovel
    ScoresHonest
