CONSTANTS
    MaxExits = 3
    MaxSpawnFailures = 2
SPECIFICATION FairSpec
INVARIANTS
    TypeOK
    NoChildOutlives
    ProbeStatusTruthful
PROPERTIES
    ClientComesBack
