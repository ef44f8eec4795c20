SPECIFICATION FairSpec
CONSTANTS
  Sources = {"a"}
  Requests <- LivenessRequests
  MaxRequests = 6
  MaxQueue = 2
  MaxEvents = 1
  MaxDepth = 1
PROPERTIES PauseStops SessionEnds ResumeWakes
