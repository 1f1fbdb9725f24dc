CONSTANTS
    Objs = {a, b}
    MaxChanges = 3
    MaxWire = 1
SPECIFICATION FairSpec
INVARIANT TypeOK
PROPERTIES SignalsConverge RefreshHeals NeverBackInTime
