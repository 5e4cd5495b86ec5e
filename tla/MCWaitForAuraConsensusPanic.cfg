\* Builder panics allowed: the guard must still be released.
CONSTANTS
  t1 = t1
  t2 = t2
  t3 = t3
  shellParent = shellParent
  auraParent = auraParent
  NoTask = NoTask
  Tasks <- MCTasks
  Parents <- MCParents
  AuraParents <- MCAuraParents
  ProbeMayFail = TRUE
  BuilderMayPanic = TRUE
SPECIFICATION Spec
INVARIANT HalfBuiltOnlyAfterPanic
PROPERTY AuraLockReleased
PROPERTY ImplementsLazyStrategy
