SPECIFICATION ServerSpec
CONSTANTS
  Pods = {p1}
  Editor = Editor
  Targets = {t1, t2}
  Syslog = {t1}
  Choices = {{}, {t1, t2}}
  Page = 2
  MaxLogged = 3
  MaxEdits = 1
  Names = {n1, n2}
  Exempt = {n2}
  Drains = {d1, d2}
  Requests = {q1, q2}
  Contents = {v1, v2, absent}
  Skipped = {absent}
  Captors = {c1, c2}
  Tickers = {c1}
  Keep = 2
  MaxChanges = 2
INVARIANTS
  ServerTypeOK
  NoneSkipped
  NodeEmptied
PROPERTIES
  AuditReaches
  DrainEnds
  GuardHolds
  EditKeepsProtection
  TimelineSettles
CHECK_DEADLOCK FALSE
