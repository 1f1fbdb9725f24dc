CONSTANTS
    Subs = {pods}
    NotInstalled = {}
    Slots = {k1, k2}
    Null = Null
    BaseBackoff = 1
    MaxBackoff = 2
    MaxMounts = 2
SPECIFICATION FairSpec
INVARIANTS TypeOK NeverDead IndicatorHonest
PROPERTY Recovers
