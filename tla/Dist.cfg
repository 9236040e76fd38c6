CONSTANTS
  Names = {"w1", "w2", "w3", "w4", "w5"}
  Fixed = {0, 100, 2000000}
  Arguments <- MCArguments
  RatioTen = 12
  Draws <- MCDraws
SPECIFICATION Spec
INVARIANTS Samplable QuantileClose MeanExact
