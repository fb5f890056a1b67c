CONSTANTS
  idle = idle
  main = main
  a = a
  b = b
  fifo = fifo
  byprio = byprio
  Thread <- MCThread3
  Idle = idle
  Main = main
  NumPrio = 3
  InitPrio <- MCInitPrio
  InitTick <- MCInitTick
  TickMod = 6
  MaxNest = 1
  Ipc = {}
  PrioIpc = {}
  SleepTicks = {1}
  WaitTicks = {0}
  NewPrios = {0, 1}
  Movable = {a}
  Detachable = {a}
  DetachUnarmed = TRUE
SPECIFICATION Spec
INVARIANTS TypeOK ReadyTable BitmapExact CurrentIsHighest ClosedOffQueues
PROPERTIES TimerNeverDropped ClosedIsFinal
