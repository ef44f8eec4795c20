SPECIFICATION Spec
CONSTANTS
  Roots = {"A", "B"}
  Files = {"a", "b"}
  Home <- TwoHome
  TestFiles = {}
  Edited = {"a", "b"}
  Watched = {"a"}
  Configs = {}
  Failures = FALSE
  MaxChanges = 4
  None = None
CHECK_DEADLOCK FALSE
INVARIANT FreshFactsAreCurrent
