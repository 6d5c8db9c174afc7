\* Two shared executors; c1 makes the calls d1 and d2 at once, c2 reads an object,
\* d2 cannot be loaded.
CONSTANTS
  c1 = c1
  c2 = c2
  d1 = d1
  d2 = d2
  f = f
  g = g
  NoCall = NoCall
  NumExecutors = 2
  Calls = {c1, c2, d1, d2}
  Functions = {f, g}
  Func <- TreeFunc
  Roots = {c1, c2}
  Deps <- TreeDeps
  Named = {}
  Reading = {c2}
  Broken = {d2}
  DelayOn = TRUE
  Shared = TRUE
  RejectExtra = TRUE
  MaxReports = 2
SPECIFICATION FairSpec
INVARIANT NoExecutorLeak
 
PROPERTY CallsSettle
