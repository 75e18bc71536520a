CONSTANTS
    Clusters <- MCClusters
    Local = "local"
    Specs <- MCModes
    MaxGeneration = 2
    MaxTroubles = 0
    MaxUserDeletes = 0
SPECIFICATION FairSpec
PROPERTY ContinuousKeepsItsClient
