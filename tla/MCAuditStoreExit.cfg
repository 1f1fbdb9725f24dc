CONSTANTS
    Pods = {p}
    Cap = 2
    MaxOps = 2
    Before = {0, 1}
SPECIFICATION Spec
PROPERTY ExitPersists
