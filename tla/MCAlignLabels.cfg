CONSTANTS
  move = move
  ret = ret
  jump = jump
  Text <- MCText
  Inputs <- MCInputs
SPECIFICATION AlignSpec
INVARIANTS LabelsMeanAlignment NoiseIsSameFlow
CHECK_DEADLOCK FALSE
