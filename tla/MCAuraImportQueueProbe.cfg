\* has_api may fail at a parent whose state is unavailable.
CONSTANTS
  g = g
  a1 = a1
  a2 = a2
  a3 = a3
  b1 = b1
  b2 = b2
  Blocks <- MCBlocks
  Genesis = g
  ParentOf <- MCParentOf
  AuraBlocks <- MCAuraBlocks
  ProbeMayFail = TRUE
SPECIFICATION Spec
INVARIANT AuraEraBlocksAuraVerified
