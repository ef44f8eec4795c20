SPECIFICATION Spec
CONSTANTS
  Sources = {"a", "b"}
  Requests <- SessionRequests
  MaxRequests = 4
  MaxQueue = 2
  MaxEvents = 1
  MaxDepth = 2
PROPERTY EntryStopSatisfiesPause
