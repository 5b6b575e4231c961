SPECIFICATION Spec
CONSTANTS
  Thread = {t1, t2}
  Pools = {{t1}, {t1, t2}}
  Pins = {t2}
  Fiber = {f1, f2}
  Timed = {f1}
  Fd = {d1}
  MaxDelay = 1
  MaxTimeout = 1
  MaxCalls = 1
  Any = Any
  None = None
INVARIANTS FiberInv NoPanic OneWake NotBeforeTime NoOversleep
PROPERTIES WaitsEnd StopReturns
CHECK_DEADLOCK FALSE
