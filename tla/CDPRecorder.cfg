CONSTANTS
  Requests = {r1}
  MaxHops = 2
  MaxWire = 1
  MaxOrphans = 1
  MaxPending = 1
SPECIFICATION Spec
INVARIANTS TypeOK OneEntryPerHop ExtrasNotShiftedUnlessDropped CacheHitsAreTrue BodiesAreTheirOwn NoBodyForgotten
