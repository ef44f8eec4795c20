SPECIFICATION Spec
CONSTANTS
  Roots = {"A", "B"}
  Files = {"a", "b"}
  Home <- TwoHome
  TestFiles = {}
  Edited = {"a", "b"}
  Watched = {"a", "b"}
  Configs = {"A"}
  Failures = TRUE
  MaxChanges = 4
  None = None
CHECK_DEADLOCK FALSE
INVARIANT TypeOK
INVARIANT BackendInv
INVARIANT TrackedIsShown
INVARIANT DeletedConfigStaysClear
PROPERTY PublishedIsCurrent
