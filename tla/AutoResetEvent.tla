--------------------------- MODULE AutoResetEvent ---------------------------
(***************************************************************************)
(* What Common::Event promises to its users (Common/Event.h), without its  *)
(* mutex and its condition variable: one signal that Set() raises, that a  *)
(* wait consumes when it returns, and that Reset() withdraws.              *)
(*                                                                         *)
(* A wait first looks at the signal, and a wait with a timeout may give up *)
(* after a last look that finds nothing.  In both cases it clears the      *)
(* signal as it returns, which is a second step: what is raised in between *)
(* is absorbed, even by a wait that reports a timeout.  The modules that   *)
(* use an Event (memory cards, DVD thread) are written against this one.   *)
(***************************************************************************)
CONSTANT Waiters

VARIABLES
  signal,   \* the event has been triggered and not yet consumed
  phase     \* what each waiting thread is doing

vars == <<signal, phase>>

Phases == {"idle", "waiting", "timedWaiting", "released", "expired"}

TypeOK ==
  /\ signal \in BOOLEAN
  /\ phase \in [Waiters -> Phases]

Init ==
  /\ signal = FALSE
  /\ phase = [w \in Waiters |-> "idle"]

Goto(w, p) == phase' = [phase EXCEPT ![w] = p]

Set == signal' = TRUE /\ UNCHANGED phase

Reset == signal' = FALSE /\ UNCHANGED phase

\* Wait() or WaitFor() on an event that is already triggered: it returns at once.
TakeAtOnce(w) ==
  /\ phase[w] = "idle"
  /\ signal
  /\ signal' = FALSE
  /\ UNCHANGED phase

\* Otherwise the call waits, with or without a timeout.
Block(w, timed) ==
  /\ phase[w] = "idle"
  /\ ~signal
  /\ Goto(w, IF timed THEN "timedWaiting" ELSE "waiting")
  /\ UNCHANGED signal

SeeSignal(w) ==
  /\ phase[w] \in {"waiting", "timedWaiting"}
  /\ signal
  /\ Goto(w, "released")
  /\ UNCHANGED signal

Expire(w) ==
  /\ phase[w] = "timedWaiting"
  /\ ~signal
  /\ Goto(w, "expired")
  /\ UNCHANGED signal

\* The call returns, TRUE from "released" and FALSE from "expired".
Return(w) ==
  /\ phase[w] \in {"released", "expired"}
  /\ signal' = FALSE
  /\ Goto(w, "idle")

Proceed(w) == SeeSignal(w) \/ Return(w)

Next ==
  \/ Set
  \/ Reset
  \/ \E w \in Waiters :
       \/ TakeAtOnce(w)
       \/ \E timed \in BOOLEAN : Block(w, timed)
       \/ Expire(w)
       \/ Proceed(w)

\* A thread that waits on a triggered event gets through.
Fairness == \A w \in Waiters : WF_vars(Proceed(w))

Spec == Init /\ [][Next]_vars /\ Fairness
=============================================================================
