SPECIFICATION ConsoleSpec
CONSTANTS
  Pages <- AllPages
  Unsaid <- AllUnsaid
  Overtaken <- AllOvertaken
  Unasked <- AllUnasked
  Repeats <- AllRepeats
  Views <- AllViews
  Rows = {r1, r2}
  None = None
  MaxSent = 3
  MaxShown = 2
  MaxAsked = 3
  Scopes = {1, 2}
  Keys = {k1, k2, k3}
  Workers = 2
  Counts = {0, 20, 260}
  Sizes = {10, 25, 50, 100}
  MaxTurns = 3
INVARIANTS
  ConsoleTypeOK
  EmptyExplained
  SettlesOnScope
  WritesShown
  OnceEach
  LocksReleased
  WindowLeads
  NoIdleWorker
  ToastTrue
PROPERTIES
  NeverBack
  SizeTakes
  TriesEachOnce
SYMMETRY Symmetry
CHECK_DEADLOCK FALSE
