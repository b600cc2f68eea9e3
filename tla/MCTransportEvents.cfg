CONSTANTS
  Capacity = 2
  MaxBytes = 1
  Sizes = {1}
  Burst = 1
  SecurityBurst = 1
  DrainLimit = 1
  MaxPending = 1
  MaxAge = 1
  MaxEvents = 4
  MaxFrames = 2
  MaxWire = 1
  MaxClock = 1
  MaxBoots = 1
SPECIFICATION EventsSpec
CHECK_DEADLOCK FALSE
INVARIANTS
  ControlIsRetained
  ControlNotSkipped
PROPERTIES
  ControlArrives
