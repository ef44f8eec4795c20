SPECIFICATION LspFairSpec
CONSTANTS
  Roots = {"A"}
  Files = {"a", "t"}
  Home <- OneHome
  TestFiles = {"t"}
  Edited = {"a"}
  Watched = {"a", "t"}
  Configs = {}
  Failures = FALSE
  MaxChanges = 4
  None = None
CHECK_DEADLOCK FALSE
INVARIANT StaleFactsAreBeingReplaced
INVARIANT FreshFactsAreCurrent
INVARIANT SettledShowsProblems
PROPERTY DroppedRunIsRetried
PROPERTY EditsArePublished
