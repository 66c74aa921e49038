SPECIFICATION Spec
CONSTANTS
  here = here
  there = there
  text = text
  far = far
  Names = {here, there, text, far}
  Base = 44116
  Programs <- AllPrograms
INVARIANTS TypeOK LandsOnLabel GoesWhereAsked OperandsSurvive
PROPERTY OnlyPlaceholders
CHECK_DEADLOCK FALSE
