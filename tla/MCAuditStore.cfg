CONSTANTS
    Pods = {p, q}
    Cap = 2
    MaxOps = 2
    Before = {2}
SPECIFICATION FairSpec
INVARIANTS TypeOK NoHoles CleanMeansPersisted TrailContinues
PROPERTY EventuallyPersisted
