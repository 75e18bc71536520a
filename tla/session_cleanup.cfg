CONSTANTS
    Clusters <- MCClusters
    Local = "local"
    Specs <- MCProbe
    MaxGeneration = 1
    MaxTroubles = 0
    MaxUserDeletes = 0
SPECIFICATION Spec
INVARIANT NothingLeftBehind
