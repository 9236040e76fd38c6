CONSTANTS
  Iterations = 2
  Sizes = 3
  Chunks = 4
SPECIFICATION Spec
INVARIANTS AnswerWhole LostInWindows ClosedWhenIdle
PROPERTIES Finishes
CHECK_DEADLOCK FALSE
