CONSTANTS
  Pages = {0, 1}
  Functions = {0, 64, 128}
  Bodies = {h1, h2}
  MaxWrites = 3
SPECIFICATION FairSpec
INVARIANTS OnboardedAsOne ServedInOrder ControlBlockReady
PROPERTIES FunctionsServed
