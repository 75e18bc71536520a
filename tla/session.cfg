CONSTANTS
    Clusters <- MCClusters
    Local = "local"
    Specs <- MCMoves
    MaxGeneration = 2
    MaxTroubles = 1
    MaxUserDeletes = 1
SPECIFICATION FairSpec
INVARIANTS
    TypeOK
    DeletionIsComplete
    RerunsExplained
PROPERTIES
    ProbesConverge
    DeletionsComplete
