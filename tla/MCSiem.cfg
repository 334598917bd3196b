SPECIFICATION FairSpec
CONSTANTS
    Datagrams <- MCDatagrams
    Passes <- MCPasses
    MAX_ALERTS = 2
    OverviewRows = 1
    Calls = {"first", "second"}
    MaxSent = 2
    MaxDeliveries = 3
INVARIANTS
    AnswersFromThePast

    
    
