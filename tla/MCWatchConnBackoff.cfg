CONSTANTS
    Subs = {pods}
    NotInstalled = {}
    Slots = {k1, k2}
    Null = Null
    BaseBackoff = 1
    MaxBackoff = 4
    MaxMounts = 1
SPECIFICATION FairSpec
PROPERTY ResetEarned
