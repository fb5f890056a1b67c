CONSTANTS
  idle = idle
  main = main
  a = a
  b = b
  fifo = fifo
  byprio = byprio
  Thread <- MCThread3
  Idle = idle
  Main = main
  NumPrio = 3
  InitPrio <- MCInitPrio
  InitTick <- MCInitTick
  TickMod = 8
  MaxNest = 1
  Ipc = {}
  PrioIpc = {}
  SleepTicks = {2}
  WaitTicks = {0}
  NewPrios = {}
  Movable = {}
  Detachable = {}
  DetachUnarmed = TRUE
SPECIFICATION FairSpec
PROPERTIES RoundRobin SleeperWakes
