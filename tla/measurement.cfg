\* Two measurements of one name, one profile, endpoints in two clusters.
SPECIFICATION FairSpec
CONSTANTS
    Local = Local
    m1 = m1
    m2 = m2
    profile1 = profile1
    remote = remote
    Measurements = {m1, m2}
    NameOf <- MCNameOf
    Profiles = {profile1}
    UserSpecs <- MCUserSpecs
    MaxSaves = 2
    MaxEvents = 3
INVARIANTS
    TypeOK
    SettledIsExpanded
PROPERTIES
    MeasurementsConverge
CHECK_DEADLOCK FALSE
