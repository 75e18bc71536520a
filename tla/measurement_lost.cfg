\* One measurement whose directions and modes are edited, and what the documentation says of them.
SPECIFICATION Spec
CONSTANTS
    Local = Local
    m1 = m1
    m2 = m2
    profile1 = profile1
    remote = remote
    Measurements = {m1}
    NameOf <- MCNameOf
    Profiles = {profile1}
    UserSpecs <- MCUserSpecs
    MaxSaves = 2
    MaxEvents = 3
INVARIANTS
    EveryDemandHasItsSession
CHECK_DEADLOCK FALSE
