\* A thread that may start the loop and uses it, and one that stops it, whose blocking Stop() is a
\* Wakeup() and a Wait().  The worker's sleep may time out, and discard a signal
\* as it does, but it does not have to.
CONSTANTS
  Clients = {h, s}
  Users = {h}
  Hosts = {h}
  Stoppers = {s}
  Nobody = Nobody
  HasTimeout = TRUE
SPECIFICATION FairSpec
INVARIANTS WaitMeansDone NoLostWakeup StopIsFinal
PROPERTIES ImplementsContract WakeupIsServed CallsReturn
