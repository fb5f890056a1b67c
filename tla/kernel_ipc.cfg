CONSTANTS
  idle = idle
  main = main
  a = a
  b = b
  fifo = fifo
  byprio = byprio
  Thread <- MCThread
  Idle = idle
  Main = main
  NumPrio = 3
  InitPrio <- MCInitPrio
  InitTick <- MCInitTick
  TickMod = 8
  MaxNest = 0
  Ipc = {fifo, byprio}
  PrioIpc = {byprio}
  SleepTicks = {}
  WaitTicks = {0, 2}
  NewPrios = {}
  Movable = {}
  Detachable = {}
  DetachUnarmed = TRUE
SPECIFICATION Spec
INVARIANTS WaitersSuspended WaitOrder
PROPERTIES TimeoutOnTime WaitsAsPromised
