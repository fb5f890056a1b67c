CONSTANTS
  a = a
  b = b
  c = c
  sem = sem
  Thread <- MCThread
  List <- MCList
  PrioList = {}
  Level <- MCLevel
  Sem = sem
  Initial = 1
  MaxValue = 2
  Resets = {0, 2}
  Detaches = TRUE
  DetachUnarmed = TRUE
  Timed = {TRUE, FALSE}
  None = None
  Timer = {t1, t2}
  Times = {1, 2}
  TickMod = 8
  HeapSize = 10
  PoolSize = 12
  Struct = 1
  MinSize = 2
  Cells = 26
  Most = 11
  From = {0, 1, 2}
  Long = 2
  Filler = 100
  Obj = {o1, o2, o3}
  Fetched = 2
  CmdSize = 4
  Lines = 2
  Typed <- MCTyped
  Commands <- MCCommands
  Byte <- MCByte
  Cycle = 3
  Prescales = {0, 1, 2}
  Loads = {2, 3}
  Width = 3
  AluWidth = 8
  ShortImm = 4
  LongImm = 6
  Operands <- MCOperands
  Size = 3
  Mtvec = 2
  Target = {0, 2}
  RegisterValues = {0, 1}
  Keys = {1, 2}
  Ahead = 2
  Places = 3
  Expr = {e1, e2}
  Digits <- MCDigits
  Longest = 7
  Deepest = 1
SPECIFICATION PartsSpec
INVARIANTS SemaphoreExact PeripheralsExact HeapsExact ShellExact ArithmeticRight SimulatorExact
PROPERTIES Served IsTimerService NemuIsArch
CHECK_DEADLOCK FALSE
