SPECIFICATION Spec
CONSTANTS
  \* more pollers than the viewer cap, more watchers than slots
  Pollers = {"p1", "p2"}
  Watchers = {"w1", "w2", "w3"}
  MaxViewers = 1
  MaxSlots = 2
  MaxFaults = 2
  MaxEarly = 1
CHECK_DEADLOCK FALSE
INVARIANT OneProducer
PROPERTY WorkerReturns
PROPERTY SnapshotsResume
PROPERTY PollerIsServed
PROPERTY LostSessionEnds
