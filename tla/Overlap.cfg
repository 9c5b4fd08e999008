SPECIFICATION Spec
CONSTANTS
  Messages = {m1, m2, m3}
INVARIANT
  TurnsNumberedOnce
\* All messages may have been handled.
CHECK_DEADLOCK FALSE
