\* A collator started on a chain whose best block predates the Aura upgrade.
CONSTANTS
  g = g
  a1 = a1
  a2 = a2
  a3 = a3
  b1 = b1
  Blocks <- MCBlocks
  Genesis = g
  ParentOf <- MCParentOf
  AuraBlocks <- MCAuraBlocks
  ProbeMayFail = TRUE
  MaxInterruptions = 0
  Roles = {TRUE}
SPECIFICATION Spec
PROPERTY NodeComesUp
