---------------------------- MODULE PayloadLoop ----------------------------
(***************************************************************************)
(* What Common::BlockingLoop (Common/BlockingLoop.h) promises to the code  *)
(* that uses it: a payload that runs again whenever somebody has called    *)
(* Wakeup(), and a state from which IsDone() and Wait() tell whether it    *)
(* has.  Locks, events and the sleep of the worker are left out, and with  *)
(* them the difference between STATE_SLEEPING and STATE_DONE.              *)
(*                                                                         *)
(* Wakeup() is one step although the code loads before it exchanges: if it *)
(* finds STATE_NEED_EXECUTION, storing the same value changes nothing.     *)
(***************************************************************************)
VARIABLES
  state,     \* m_running_state: "need", "last" or "done"
  phase,     \* where the worker is in Run(), and whether the loop is stopped
  shutdown   \* m_shutdown

vars == <<state, phase, shutdown>>

States == {"done", "last", "need"}

Phases == {"closed", "opening", "between", "payload", "closing"}

TypeOK == state \in States /\ phase \in Phases /\ shutdown \in BOOLEAN

Init == TypeOK /\ phase = "closed" /\ shutdown = FALSE

IsDone == phase = "closed" \/ state = "done"

Wakeup == state' = "need" /\ UNCHANGED <<phase, shutdown>>

\* The worker is not told to leave and enters the payload, whatever the state is.
Enter ==
  /\ phase = "between" /\ ~shutdown
  /\ phase' = "payload"
  /\ UNCHANGED <<state, shutdown>>

\* After the payload the state is one lower, unless it was done.
Lower == [s \in States |-> IF s = "need" THEN "last" ELSE "done"]

Finish ==
  /\ phase = "payload"
  /\ phase' = "between"
  /\ state' = Lower[state]
  /\ UNCHANGED shutdown

\* A worker that was about to sleep lowers a state that was touched meanwhile.
Doze ==
  /\ phase = "between" /\ state = "need"
  /\ state' = "last"
  /\ UNCHANGED <<phase, shutdown>>

Leave ==
  /\ phase = "between" /\ shutdown
  /\ phase' = "closing"
  /\ state' = "done"
  /\ UNCHANGED shutdown

Close == phase = "closing" /\ phase' = "closed" /\ UNCHANGED <<state, shutdown>>

\* Prepare() clears m_stopped, stores the state and clears m_shutdown.
PrepareTest == phase = "closed" /\ phase' = "opening" /\ UNCHANGED <<state, shutdown>>

PrepareState ==
  /\ phase = "opening"
  /\ phase' = "between"
  /\ state' = "last"
  /\ UNCHANGED shutdown

PrepareShutdown == phase = "between" /\ shutdown' = FALSE /\ UNCHANGED <<state, phase>>

\* The first half of Stop(); the second is Wakeup().
Stop == shutdown' = TRUE /\ UNCHANGED <<state, phase>>

Next ==
  \/ Wakeup \/ Stop
  \/ Enter \/ Finish \/ Doze \/ Leave \/ Close
  \/ PrepareTest \/ PrepareState \/ PrepareShutdown

Spec == Init /\ [][Next]_vars
=============================================================================
