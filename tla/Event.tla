------------------------------- MODULE Event -------------------------------
(***************************************************************************)
(* Common::Event (Common/Event.h) at the grain of its atomic operations:   *)
(* m_flag is a Common::Flag (Common/Flag.h), whose operations are single   *)
(* atomic accesses, m_mutex is held by at most one thread, and m_condvar   *)
(* is the set of threads parked in it.                                     *)
(*                                                                         *)
(* Set() changes m_flag outside m_mutex and notifies inside it; Wait()     *)
(* tests m_flag without the mutex first, then inside it.  Everything of    *)
(* interest is in the windows this leaves.                                 *)
(***************************************************************************)
EXTENDS FiniteSets

CONSTANTS
  Setters,    \* the threads that call Set()
  Waiters,    \* the threads that call Wait() and WaitFor()
  Resetters,  \* those of the setters that also call Reset()
  None        \* no thread holds the mutex

ASSUME CallersAssumption ==
  /\ Setters \cap Waiters = {}
  /\ Resetters \subseteq Setters
  /\ None \notin Setters \cup Waiters
  /\ IsFiniteSet(Setters)

VARIABLES
  m_flag,     \* m_flag.m_val
  m_mutex,    \* the thread that holds m_mutex, or None
  parked,     \* the threads blocked in m_condvar
  place,      \* where each thread is in Set(), Wait() or WaitFor()
  timed,      \* whether a waiter's call is WaitFor()
  signaled    \* the local of WaitFor(): what the call is going to return

eventState == <<m_flag, m_mutex, parked, place, timed, signaled>>

Callers == Setters \cup Waiters

SetterPCs == {"idle", "setLock", "setNotify", "setUnlock"}

WaiterPCs == {"idle", "waitLock", "waitTest", "waitPark", "waitParked",
              "waitRelock", "waitLastLock", "waitLastTest", "waitClear",
              "waitUnlock"}

\* The places where a thread has m_mutex.
Locked == {"setNotify", "setUnlock", "waitTest", "waitPark", "waitLastTest",
           "waitClear", "waitUnlock"}

EventTypeOK ==
  /\ m_flag \in BOOLEAN
  /\ m_mutex \in Callers \cup {None}
  /\ parked \subseteq Waiters
  /\ place \in [Callers -> SetterPCs \cup WaiterPCs]
  /\ \A s \in Setters : place[s] \in SetterPCs
  /\ \A w \in Waiters : place[w] \in WaiterPCs
  /\ timed \in [Waiters -> BOOLEAN]
  /\ signaled \in [Waiters -> BOOLEAN]

EventInit ==
  /\ m_flag = FALSE
  /\ m_mutex = None
  /\ parked = {}
  /\ place = [t \in Callers |-> "idle"]
  /\ timed = [w \in Waiters |-> FALSE]
  /\ signaled = [w \in Waiters |-> FALSE]

Go(t, from, to) == place[t] = from /\ place' = [place EXCEPT ![t] = to]

Lock(t) == m_mutex = None /\ m_mutex' = t

Unlock(t) == m_mutex = t /\ m_mutex' = None

-----------------------------------------------------------------------------
(* Set() and Reset() *)

\* A mutant: triggering without notifying.
SetFlag_NoNotify(s) ==
  /\ place[s] = "idle"
  /\ m_flag' = TRUE
  /\ UNCHANGED <<m_mutex, parked, place, timed, signaled>>

\* m_flag.TestAndSet(): only the call that changes the flag goes on to notify.
SetFlag(s) ==
  /\ IF m_flag THEN place[s] = "idle" /\ UNCHANGED place
               ELSE Go(s, "idle", "setLock")
  /\ m_flag' = TRUE
  /\ UNCHANGED <<m_mutex, parked, timed, signaled>>

\* A mutant: notifying without the mutex.
SetLock_NoMutex(s) ==
  /\ Go(s, "setLock", "setNotify")
  /\ UNCHANGED <<m_flag, m_mutex, parked, timed, signaled>>

SetLock(s) ==
  /\ Go(s, "setLock", "setNotify")
  /\ Lock(s)
  /\ UNCHANGED <<m_flag, parked, timed, signaled>>

\* notify_one() lets one parked thread go, if there is one.
SetNotify(s) ==
  /\ \/ /\ parked = {}
        /\ Go(s, "setNotify", "setUnlock")
        /\ UNCHANGED parked
     \/ \E w \in parked :
          /\ place[s] = "setNotify"
          /\ parked' = parked \ {w}
          /\ place' = [place EXCEPT ![s] = "setUnlock", ![w] = "waitRelock"]
  /\ UNCHANGED <<m_flag, m_mutex, timed, signaled>>

SetUnlock(s) ==
  /\ Go(s, "setUnlock", "idle")
  /\ Unlock(s)
  /\ UNCHANGED <<m_flag, parked, timed, signaled>>

Reset(s) ==
  /\ s \in Resetters
  /\ place[s] = "idle"
  /\ m_flag' = FALSE
  /\ UNCHANGED <<m_mutex, parked, place, timed, signaled>>

-----------------------------------------------------------------------------
(* Wait() and WaitFor() *)

\* m_flag.TestAndClear(): a triggered event is consumed without the mutex.
WaitFast(w) ==
  /\ place[w] = "idle"
  /\ m_flag
  /\ m_flag' = FALSE
  /\ UNCHANGED <<m_mutex, parked, place, timed, signaled>>

WaitSlow(w, withTimeout) ==
  /\ ~m_flag
  /\ Go(w, "idle", "waitLock")
  /\ timed' = [timed EXCEPT ![w] = withTimeout]
  /\ UNCHANGED <<m_flag, m_mutex, parked, signaled>>

WaitEnter(w) ==
  /\ Go(w, "waitLock", "waitTest")
  /\ Lock(w)
  /\ UNCHANGED <<m_flag, parked, timed, signaled>>

\* The predicate of m_condvar.wait(): the flag is read with the mutex held, but
\* Set() does not need the mutex to change it afterwards.
WaitTest(w) ==
  /\ Go(w, "waitTest", IF m_flag THEN "waitClear" ELSE "waitPark")
  /\ signaled' = [signaled EXCEPT ![w] = m_flag]
  /\ UNCHANGED <<m_flag, m_mutex, parked, timed>>

\* The condition variable releases the mutex and parks the thread in one step.
WaitPark(w) ==
  /\ Go(w, "waitPark", "waitParked")
  /\ Unlock(w)
  /\ parked' = parked \cup {w}
  /\ UNCHANGED <<m_flag, timed, signaled>>

\* A condition variable may let a thread go without a notification...
SpuriousWakeup(w) ==
  /\ Go(w, "waitParked", "waitRelock")
  /\ parked' = parked \ {w}
  /\ UNCHANGED <<m_flag, m_mutex, timed, signaled>>

\* ... and wait_for() does when the time is up.
Timeout(w) ==
  /\ timed[w]
  /\ Go(w, "waitParked", "waitLastLock")
  /\ parked' = parked \ {w}
  /\ UNCHANGED <<m_flag, m_mutex, timed, signaled>>

WaitRelock(w) ==
  /\ Go(w, "waitRelock", "waitTest")
  /\ Lock(w)
  /\ UNCHANGED <<m_flag, parked, timed, signaled>>

WaitLastLock(w) ==
  /\ Go(w, "waitLastLock", "waitLastTest")
  /\ Lock(w)
  /\ UNCHANGED <<m_flag, parked, timed, signaled>>

\* After a timeout wait_for() evaluates the predicate once more and returns it.
WaitLastTest(w) ==
  /\ Go(w, "waitLastTest", "waitClear")
  /\ signaled' = [signaled EXCEPT ![w] = m_flag]
  /\ UNCHANGED <<m_flag, m_mutex, parked, timed>>

\* m_flag.Clear(), whatever the predicate was.
WaitClear(w) ==
  /\ Go(w, "waitClear", "waitUnlock")
  /\ m_flag' = FALSE
  /\ UNCHANGED <<m_mutex, parked, timed, signaled>>

WaitLeave(w) ==
  /\ Go(w, "waitUnlock", "idle")
  /\ Unlock(w)
  /\ UNCHANGED <<m_flag, parked, timed, signaled>>

-----------------------------------------------------------------------------

\* What a thread does once it is inside a call: it keeps running.
SetContinues(s) == SetLock(s) \/ SetNotify(s) \/ SetUnlock(s)

WaitContinues(w) ==
  \/ WaitEnter(w) \/ WaitTest(w) \/ WaitPark(w)
  \/ WaitRelock(w) \/ WaitLastLock(w) \/ WaitLastTest(w)
  \/ WaitClear(w) \/ WaitLeave(w)

EventNext ==
  \/ \E s \in Setters : SetFlag(s) \/ Reset(s) \/ SetContinues(s)
  \/ \E w \in Waiters :
       \/ WaitFast(w)
       \/ \E withTimeout \in BOOLEAN : WaitSlow(w, withTimeout)
       \/ SpuriousWakeup(w)
       \/ Timeout(w)
       \/ WaitContinues(w)

\* Threads that can run do run; nobody has to call Set(), and neither a spurious
\* wakeup nor a timeout has to happen.
EventFairness ==
  /\ \A s \in Setters : WF_eventState(SetContinues(s))
  /\ \A w \in Waiters : WF_eventState(WaitContinues(w))

EventSpec == EventInit /\ [][EventNext]_eventState

FairEventSpec == EventSpec /\ EventFairness

-----------------------------------------------------------------------------
(* Properties *)

\* A thread has changed the flag and has still to notify.
NotifyPending == \E s \in Setters : place[s] \in {"setLock", "setNotify"}

\* A waiter is past its park and is going to look at the flag or to clear it.
WaiterAwake ==
  \E w \in Waiters : place[w] \in {"waitRelock", "waitTest", "waitLastLock",
                                   "waitLastTest", "waitClear"}

\* No wakeup is lost (Event.h:30-47).  The flag is set outside the mutex and a
\* waiter reads it before it parks, so a Set() may fall between the two; even then
\* no thread stays parked on a triggered event with nobody left to notify or wake.
NoLostSignal == m_flag /\ parked # {} => NotifyPending \/ WaiterAwake

\* With one waiter and no Reset(), the signal a wait has seen is still there when it
\* clears it: one trigger never releases two waits (Event.h:44-46).
SeenSignalStays ==
  \A w \in Waiters : place[w] = "waitClear" /\ signaled[w] => m_flag

\* How a waiter's place in the code reads as the phase of its wait.
PhaseOf(w) ==
  IF place[w] \in {"idle", "waitUnlock"} THEN "idle"
  ELSE IF place[w] = "waitClear" THEN IF signaled[w] THEN "released" ELSE "expired"
  ELSE IF timed[w] THEN "timedWaiting" ELSE "waiting"

Abstract == INSTANCE AutoResetEvent WITH
  signal <- m_flag,
  phase  <- [w \in Waiters |-> PhaseOf(w)]

\* Event implements its abstraction, liveness included: a wait on an event that is
\* triggered, and stays so, returns (Event.h:39-61).
ImplementsAbstract == Abstract!Spec
=============================================================================
