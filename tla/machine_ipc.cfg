CONSTANTS
  Thread = {idle, main, a, b}
  Idle = idle
  Main = main
  NumPrio = 3
  InitPrio <- RunPrio
  InitTick <- RunTick
  TickMod = 8
  MaxNest = 0
  Ipc = {fifo}
  PrioIpc = {}
  SleepTicks = {}
  WaitTicks = {0}
  NewPrios = {}
  Movable = {}
  Detachable = {}
  DetachUnarmed = TRUE
  Ist = Ist
  NoFrame = NoFrame
  MaxSwitch = 1
  Deciding = {TRUE, FALSE}
SPECIFICATION MachineSpec
INVARIANTS RunsCurrent FramesOwned LockedSections TrapStack
