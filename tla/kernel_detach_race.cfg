CONSTANTS
  idle = idle
  main = main
  a = a
  b = b
  fifo = fifo
  byprio = byprio
  Thread <- MCThread3
  Idle = idle
  Main = main
  NumPrio = 3
  InitPrio <- MCInitPrio
  InitTick <- MCInitTick
  TickMod = 8
  MaxNest = 1
  Ipc = {}
  PrioIpc = {}
  SleepTicks = {1}
  WaitTicks = {0}
  NewPrios = {0, 1}
  Movable = {}
  Detachable = {a}
  DetachUnarmed = FALSE
SPECIFICATION Spec
INVARIANTS ClosedOffQueues
