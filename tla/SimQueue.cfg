CONSTANTS
  QTypes = {"ideal", "pifo_naive", "pifo_naive_snapshot", "pifo_insertion_pulse"}
  PrioritySet = {0, 2}
  Slack = 2
  Frame = 2
  Lengths = {1, 5}
  Duration = 8
  Pulses = 1
  MaxSize = 4
  MaxMessages = 8
SPECIFICATION Spec
INVARIANTS Conserved FlagsRight LinkServed
PROPERTIES Finishes
