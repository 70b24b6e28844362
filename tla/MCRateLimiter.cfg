\* Two sends in a window of 2, three in a window of 4, a cooloff of 2: the
\* hourly window is still full when the cooloff of a burst ends.
SPECIFICATION Spec
CONSTANTS
  MaxBurst = 2
  BurstWindow = 2
  MaxHourly = 3
  HourlyWindow = 4
  Cooloff = 2
  MaxTime = 12
INVARIANTS
  BurstBound HourlyBound QuietWhileOpen RefusalEnds
