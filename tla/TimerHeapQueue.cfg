SPECIFICATION HSpec
CONSTANTS
  Timers = {t1, t2, t3, t4, t5, t6, t7}
  Ticks <- ThreeTicks
  CancelSize = 6
SYMMETRY AnyTimer
INVARIANTS HTypeOK HeapOrdered
PROPERTIES IsTimerQueue
