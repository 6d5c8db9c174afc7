\* Batch, redundant, dynamic-group and by-time triggers when one node sends everything.
CONSTANTS
  Nodes = {n1}
  Sessions = {s1, s2}
  Keys = {"a", "b", "c"}
  Primitive <- BufferPrimitive
  TriggerNames = {"batch", "red", "dyn", "time"}
  Packing = {TRUE}
  MaxAvail = 1
  Coordinator = Coordinator
  NoNode = NoNode
SPECIFICATION Spec
SYMMETRY Symmetry
INVARIANT OneSenderConsumesOnce
INVARIANT CopiesAgree
INVARIANT WindowKeepsObjects
