SPECIFICATION Spec
CONSTANTS
  Depth = 3
  Broad = 3
  Density = 2
  DenseLevels = 2
  Branching = 3
  RandomLevels = 2
  Values = 8  \* 2^3
  Seeds = {2}
  Mults = {3, 6}
INVARIANT TypeOK
INVARIANT ReplyIsProduct
INVARIANT CheckIsExact
INVARIANT HiddenNodesAreLeaves
