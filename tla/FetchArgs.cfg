CONSTANTS
  c1 = c1
  c2 = c2
  c3 = c3
  x = x
  y = y
  z = z
  m = m
  n = n
  g1 = g1
  NoAddr = NoAddr
  Keys = {x, y, z}
  Calls = {c1, c2, c3}
  Gets = {g1}
  Others = {m, n}
  Args <- TwoArgs
  Addr <- RightAddr
  GetKey <- ReadY
  Holds <- XonM
SPECIFICATION FairSpec
CHECK_DEADLOCK FALSE
INVARIANT RunsWhenComplete
INVARIANT GetsAnsweredOnce
 
PROPERTY CallsStart
