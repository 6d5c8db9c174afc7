\* Triggers evaluated per session, two nodes, one session, objects with and
\* without their value in the message.
CONSTANTS
  Nodes = {n1, n2}
  Sessions = {s1}
  Keys = {"a", "b", "c"}
  Primitive <- SharedPrimitive
  TriggerNames = {"imm", "name", "ab", "bc"}
  Packing = {TRUE, FALSE}
  MaxAvail = 1
  Coordinator = Coordinator
  NoNode = NoNode
SPECIFICATION FairSpec
INVARIANT SafeTriggersConsumeOnce
 
INVARIANT RerunsMissing
PROPERTY CompleteSetFires
