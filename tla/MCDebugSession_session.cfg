SPECIFICATION Spec
CONSTANTS
  Sources = {"a", "b"}
  Requests <- SessionRequests
  MaxRequests = 5
  MaxQueue = 2
  MaxEvents = 2
  MaxDepth = 2
INVARIANTS TypeOK StoppedMeansParked WakesOnce TerminateIsPrompt EntryStopIsFirst StepStopsInRange
INVARIANTS IInv QueriesGetTheirAnswer ReferencesBelongToTheStop NoLostOutput
PROPERTIES ClientView EditsGovernNextStatement
