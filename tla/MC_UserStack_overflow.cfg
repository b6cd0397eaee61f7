\* Laying out a stack is a finite sequence of pushes: when MaxOps pushes are
\* done the layout is finished, so the end state is not a deadlock.
CONSTANTS
  Width = 7
  Base = 117
  Ptr0 = 93
  StackSize = 48
  Types <- MCTypes
  Vals = {1, 2}
  Strs <- MCStrs
  MaxOps = 3
  Unset = Unset
SPECIFICATION Spec
CHECK_DEADLOCK FALSE
INVARIANT
  PushStaysInStack
