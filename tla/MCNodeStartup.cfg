\* Either role at every restart, a bounded number of startup errors and stops.
CONSTANTS
  g = g
  a1 = a1
  a2 = a2
  a3 = a3
  b1 = b1
  Blocks <- MCBlocks
  Genesis = g
  ParentOf <- MCParentOf
  AuraBlocks <- MCAuraBlocks
  ProbeMayFail = TRUE
  MaxInterruptions = 2
  Roles = {FALSE, TRUE}
SPECIFICATION Spec
INVARIANT TypeOK
PROPERTY NodeSettles
PROPERTY ImportsEveryBlock
