CONSTANTS
  t1 = t1
  t2 = t2
  t3 = t3
  idle = idle
  Tasks <- MCTasks
  Idle = idle
  MaxTicks = 3
SYMMETRY MCSymmetry
SPECIFICATION Spec
INVARIANTS
  LockHeldOnlyAcrossSwitch
  IrqOffWhileLocked
