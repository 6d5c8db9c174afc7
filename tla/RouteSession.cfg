CONSTANTS
  a = a
  b = b
  r1 = r1
  r2 = r2
  r3 = r3
  r4 = r4
  NoNode = NoNode
  NoSession = NoSession
  NoClient = NoClient
  NoReport = NoReport
  NumNodes = 2
  Executors = 1
  Requests = {r1, r2, r3, r4}
  External <- TwoBatches
  Deps <- NoDeps
  Caller <- TwoCaller
SPECIFICATION Spec
INVARIANT AnswersReachCaller
