\* Two setters, one of which also resets, and two waiters; fair threads.
CONSTANTS
  Setters = {s1, s2}
  Waiters = {w1, w2}
  Resetters = {s1}
  None = None
SPECIFICATION FairEventSpec
INVARIANTS NoLostSignal
PROPERTIES ImplementsAbstract
