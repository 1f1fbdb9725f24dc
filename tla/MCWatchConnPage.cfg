CONSTANTS
    Subs = {pods, nads}
    NotInstalled = {nads}
    Slots = {k1}
    Null = Null
    BaseBackoff = 1
    MaxBackoff = 1
    MaxMounts = 1
SPECIFICATION FairSpec
INVARIANT IndicatorHonest
PROPERTY IndicatorRecovers
