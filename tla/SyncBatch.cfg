\* A batch trigger when two nodes send objects.
CONSTANTS
  Nodes = {n1, n2}
  Sessions = {s1}
  Keys = {"a", "b", "c"}
  Primitive <- BatchPrimitive
  TriggerNames = {"batch"}
  Packing = {TRUE}
  MaxAvail = 1
  Coordinator = Coordinator
  NoNode = NoNode
SPECIFICATION Spec
INVARIANT AllTriggersConsumeOnce
