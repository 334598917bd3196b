SPECIFICATION Spec
CONSTANTS
    Capacity = 2
    Protos = {"TCP", "UDP"}
    Addresses = {"a", "b"}
    Limit = 2
    MaxSeen = 3
    MaxUpdates = 2
INVARIANTS
    StoreConsistent
    AnswersCoherent
    FiguresFresh
