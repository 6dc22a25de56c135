SPECIFICATION Spec
CONSTANTS
  Requests <- SomeRequests
  Pulses <- SomePulses
  GapTicks = 1
  MaxPolls = 1
  MaxDue = 1
INVARIANTS
  BenchOwnsRelays
PROPERTIES
  PulseEnds
