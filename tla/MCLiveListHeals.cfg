CONSTANTS
    Objs = {a, b}
    MaxChanges = 3
    MaxWire = 1
SPECIFICATION FairSpec
PROPERTY SelfHeals
