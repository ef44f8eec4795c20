SPECIFICATION Spec
CONSTANTS
  Projects = {"A"}
  Files = {"a"}
  Home <- OneHome
  Under <- OneUnder
  Calls <- OneCalls
  Texts = {"s", "t"}
  Dropped = {}
  Unreadable = {}
  Catalogs = {None}
  Overlays = {"t"}
  BindFails = FALSE
  MaxChanges = 0
  None = None
CHECK_DEADLOCK FALSE
INVARIANT AnswersFollowTheSources
