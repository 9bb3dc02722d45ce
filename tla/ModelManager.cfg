SPECIFICATION Spec
CONSTANTS
  Clients = {c1, c2}
  pin = pin
  big = big
  small = small
  cpu = cpu
  Models <- MCModels
  Pinned = {pin}
  Gpu <- MCGpuModels
  Vram <- MCVram
  Budget = 3
  Ttl = 0
  MaxAge = 1
  Nobody = Nobody
INVARIANTS TypeOK OverBudgetOnlyForced LoadsOnlyUnserved
PROPERTIES PinnedStay EvictsOldestFirst IdleLeaves
