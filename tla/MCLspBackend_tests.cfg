SPECIFICATION Spec
CONSTANTS
  Roots = {"A"}
  Files = {"a", "t"}
  Home <- OneHome
  TestFiles = {"t"}
  Edited = {"a"}
  Watched = {"t"}
  Configs = {}
  Failures = FALSE
  MaxChanges = 4
  None = None
CHECK_DEADLOCK FALSE
INVARIANT FullChecksCoverTests
