SPECIFICATION Spec
CONSTANTS
  Projects = {"A", "B"}
  Files = {"a", "b", "x"}
  Home <- NestedHome
  Under <- NestedUnder
  Calls <- NestedCalls
  Texts = {"t", "u", "z"}
  Dropped = {"u"}
  Unreadable = {"z"}
  Catalogs = {None, "c"}
  Overlays = {"t"}
  BindFails = TRUE
  MaxChanges = 2
  None = None
CHECK_DEADLOCK FALSE
INVARIANT TypeOK
 
INVARIANT IndexIsOfTheAnalysis
PROPERTY PanicsOnlyUnchecked
