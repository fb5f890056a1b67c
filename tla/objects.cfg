CONSTANTS
  a = a
  b = b
  c = c
  Thread <- MCThread
  Level <- MCLevel
  Rx = rx
  Tx = tx
  Isr = isr
  None = None
  Msg = {m1, m2}
  Element = {e1, e2}
  Block = {b1, b2}
  Bits <- MCBits
  Options <- MCOptions
SPECIFICATION Spec
VIEW MCView
INVARIANTS NoLostWakeup NobodyWaitsForNothing PiecesExact DetachWakesAll OneInside PriorityInherited
PROPERTIES BitsGoOnce IsChannel
CHECK_DEADLOCK FALSE
