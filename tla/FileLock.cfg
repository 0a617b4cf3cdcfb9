SPECIFICATION Spec
CONSTANTS
  Procs = {p1}
  Serial = TRUE
  Backends = {"file"}
  InitSlots = 1
  MaxSlots = 1
  Caps = {2}
  LogUnits = 2
  Locks3 = {1}
  Capacity = 7
INVARIANT PayloadsKept
