\* Two applications with a bucket each; trigger t, and a by-time trigger w that
\* is made by registration only.  The clients stop after MaxOps requests.
CONSTANTS
  a1 = a1
  a2 = a2
  b1 = b1
  b2 = b2
  None = None
  Coords = {k1, k2}
  Nodes = {n1}
  Apps = {a1, a2}
  Buckets = {b1, b2}
  Names = {t, w}
  Timed = {w}
  Uses <- OwnBucket
  MaxOps = 5
  Added = {t}
  Deleted = {t}
  Registered = {t, w}
SPECIFICATION Spec
CHECK_DEADLOCK FALSE
 
INVARIANT NoTriggerMissing
INVARIANT NodesSurvive
