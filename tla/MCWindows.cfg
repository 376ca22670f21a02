CONSTANTS
  BeaconDuration = 4
  ChildDuration = 2
  ParentDuration = 2
  Clearance = 1
  MsPerMin = 6
  MaxChildren = 6
  MaxWindows = 8
  Starts = {0, 1, 2, 3, 4, 5, 6, 7, 8, 9, 10, 11, 12, 13, 14, 15, 16}
SPECIFICATION Spec
INVARIANT QueueSeparated
INVARIANT DelayIsEarliestFit
PROPERTY ImplementsSchedule
