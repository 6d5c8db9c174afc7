\* Two waiters, one of them without a timeout; two senders, one of which
\* publishes by a plain store; a timeout, a signal, a
\* kill or a close.
CONSTANTS
  Waiters = {w1, w2}
  Senders = {s1, s2}
  Forever = {w1}
  Plain = {s1}
  MaxItems = 2
  MaxEvents = 1
  None = None
SPECIFICATION FairSpec
INVARIANT SleepersCovered
INVARIANT NoLostWakeup
PROPERTY BroadcastEnds
PROPERTY SleepersWake
\* processes end
CHECK_DEADLOCK FALSE
