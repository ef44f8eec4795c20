SPECIFICATION FairSpec
CONSTANTS
  Calls <- AllCalls
  Projects = {"A", "B", "O"}
  Files = {"a", "b", "o", "x"}
  Home <- NestedHome
  Under <- NestedUnder
  Allowed = {"a", "b", "x", "A", "B"}
  Runs = {"r1", "r2"}
  MaxWrites = 1
  Cap = 2
  Printed <- TwoPrints
  None = None
CHECK_DEADLOCK FALSE
INVARIANT TypeOK
INVARIANT ReachIsBounded
INVARIANT WritesAreAccountedFor
INVARIANT RunRepliesToItsCall
INVARIANT CapturedIsAPrefix
PROPERTY RequestsAreAnswered
