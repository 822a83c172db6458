---------------------------- MODULE CommonProof ----------------------------
(***************************************************************************)
(* Proofs about the two primitives of Common/ that other threads sleep in: *)
(* Event, for any number of threads, and BlockingLoop, for any number of   *)
(* clients, all of which may start and stop the loop.                      *)
(*                                                                         *)
(* Event: NoLostSignal needs two facts the runs do not name.  The mutex is *)
(* held by exactly the thread whose place says so, and a thread that is    *)
(* about to park on a triggered event still has the Set() that triggered   *)
(* it waiting for the mutex behind it.                                     *)
(*                                                                         *)
(* BlockingLoop: what a client has asked for is recorded in                *)
(* m_running_state once its Wakeup() has passed the exchange.  As long as  *)
(* a recorded request waits for a payload to begin, the state is           *)
(* NEED_EXECUTION, or LAST_EXECUTION with the worker before the payload;   *)
(* as long as the payload that serves it runs, the state is not below      *)
(* LAST_EXECUTION.  So a state that reads as done has no recorded request. *)
(*                                                                         *)
(* Two more results follow: every step is one of PayloadLoop, and a Stop   *)
(* by any client that did not run into a start is final.                   *)
(*                                                                         *)
(* The two modules share no variable.  No theorem relates them: what the   *)
(* loop takes from Event is AutoResetEvent's signal, which EventRefinement *)
(* justifies.                                                              *)
(***************************************************************************)
EXTENDS Event, BlockingLoop, TLAPS

-----------------------------------------------------------------------------
(* Event *)

\* A thread is in a critical section exactly when it has m_mutex.
MutexInv == \A t \in Callers : place[t] \in Locked <=> m_mutex = t

\* A thread is in the condition variable exactly when its place says so.
ParkedInv == \A w \in Waiters : w \in parked <=> place[w] = "waitParked"

\* Set() cannot have notified yet when the flag was raised under a waiter that has
\* tested it and holds the mutex.
ParkingInv ==
  \A w \in Waiters :
    place[w] = "waitPark" /\ m_flag => \E s \in Setters : place[s] = "setLock"

EventInv == MutexInv /\ ParkedInv /\ ParkingInv /\ NoLostSignal

\* Every reachable state is well typed (all of Event.h).
THEOREM EventTypeCorrect == EventSpec => []EventTypeOK
<1> USE CallersAssumption
<1>1. EventInit => EventTypeOK
  BY DEF EventInit, EventTypeOK, Callers, SetterPCs, WaiterPCs
<1>2. EventTypeOK /\ [EventNext]_eventState => EventTypeOK'
  <2> SUFFICES ASSUME EventTypeOK, [EventNext]_eventState PROVE EventTypeOK'
    OBVIOUS
  <2> USE DEF EventTypeOK, Callers, SetterPCs, WaiterPCs, Go, Lock, Unlock
  <2>1. ASSUME NEW s \in Setters, SetFlag(s) PROVE EventTypeOK'
    BY <2>1 DEF SetFlag
  <2>2. ASSUME NEW s \in Setters, Reset(s) PROVE EventTypeOK'
    BY <2>2 DEF Reset
  <2>3. ASSUME NEW s \in Setters, SetLock(s) PROVE EventTypeOK'
    BY <2>3 DEF SetLock
  <2>4. ASSUME NEW s \in Setters, SetNotify(s) PROVE EventTypeOK'
    BY <2>4 DEF SetNotify
  <2>5. ASSUME NEW s \in Setters, SetUnlock(s) PROVE EventTypeOK'
    BY <2>5 DEF SetUnlock
  <2>6. ASSUME NEW w \in Waiters, WaitFast(w) PROVE EventTypeOK'
    BY <2>6 DEF WaitFast
  <2>7. ASSUME NEW w \in Waiters, NEW b \in BOOLEAN, WaitSlow(w, b) PROVE EventTypeOK'
    BY <2>7 DEF WaitSlow
  <2>8. ASSUME NEW w \in Waiters, SpuriousWakeup(w) \/ Timeout(w) PROVE EventTypeOK'
    BY <2>8 DEF SpuriousWakeup, Timeout
  <2>9. ASSUME NEW w \in Waiters, WaitEnter(w) \/ WaitRelock(w) \/ WaitLastLock(w)
        PROVE EventTypeOK'
    BY <2>9 DEF WaitEnter, WaitRelock, WaitLastLock
  <2>10. ASSUME NEW w \in Waiters, WaitTest(w) \/ WaitLastTest(w) PROVE EventTypeOK'
    BY <2>10 DEF WaitTest, WaitLastTest
  <2>11. ASSUME NEW w \in Waiters, WaitPark(w) PROVE EventTypeOK'
    BY <2>11 DEF WaitPark
  <2>12. ASSUME NEW w \in Waiters, WaitClear(w) \/ WaitLeave(w) PROVE EventTypeOK'
    BY ZenonT(60), <2>12 DEF WaitClear, WaitLeave
  <2>13. CASE UNCHANGED eventState
    BY <2>13 DEF eventState
  <2>14. QED
    BY <2>1, <2>2, <2>3, <2>4, <2>5, <2>6, <2>7, <2>8, <2>9, <2>10, <2>11, <2>12,
       <2>13 DEF EventNext, SetContinues, WaitContinues
<1>3. QED
  BY <1>1, <1>2, PTL DEF EventSpec

-----------------------------------------------------------------------------

\* One step from a state of the invariant leads to a state of the invariant.
LEMMA EventInvariantStep ==
  ASSUME EventTypeOK, EventTypeOK', EventInv, [EventNext]_eventState
  PROVE  EventInv'
<1> USE CallersAssumption
    DEF EventInv, EventTypeOK, MutexInv, ParkedInv, ParkingInv, NoLostSignal, NotifyPending,
        WaiterAwake, Callers, SetterPCs, WaiterPCs, Locked, Go, Lock, Unlock
<1>1. ASSUME NEW s \in Setters, SetFlag(s) PROVE EventInv'
  BY <1>1 DEF SetFlag
<1>2. ASSUME NEW s \in Setters, Reset(s) PROVE EventInv'
  BY <1>2 DEF Reset
<1>3. ASSUME NEW s \in Setters, SetLock(s) PROVE EventInv'
  BY <1>3 DEF SetLock
<1>4. ASSUME NEW s \in Setters, SetNotify(s) PROVE EventInv'
  BY <1>4 DEF SetNotify
<1>5. ASSUME NEW s \in Setters, SetUnlock(s) PROVE EventInv'
  BY <1>5 DEF SetUnlock
<1>6. ASSUME NEW w \in Waiters, WaitFast(w) PROVE EventInv'
  BY <1>6 DEF WaitFast
<1>7. ASSUME NEW w \in Waiters, NEW b \in BOOLEAN, WaitSlow(w, b) PROVE EventInv'
  BY <1>7 DEF WaitSlow
<1>8. ASSUME NEW w \in Waiters, SpuriousWakeup(w) PROVE EventInv'
  BY <1>8 DEF SpuriousWakeup
<1>9. ASSUME NEW w \in Waiters, Timeout(w) PROVE EventInv'
  BY <1>9 DEF Timeout
<1>10. ASSUME NEW w \in Waiters, WaitEnter(w) PROVE EventInv'
  BY <1>10 DEF WaitEnter
<1>11. ASSUME NEW w \in Waiters, WaitTest(w) PROVE EventInv'
  BY <1>11 DEF WaitTest
<1>12. ASSUME NEW w \in Waiters, WaitPark(w) PROVE EventInv'
  BY <1>12 DEF WaitPark
<1>13. ASSUME NEW w \in Waiters, WaitRelock(w) PROVE EventInv'
  BY <1>13 DEF WaitRelock
<1>14. ASSUME NEW w \in Waiters, WaitLastLock(w) PROVE EventInv'
  BY <1>14 DEF WaitLastLock
<1>15. ASSUME NEW w \in Waiters, WaitLastTest(w) PROVE EventInv'
  BY <1>15 DEF WaitLastTest
<1>16. ASSUME NEW w \in Waiters, WaitClear(w) PROVE EventInv'
  BY <1>16 DEF WaitClear
<1>17. ASSUME NEW w \in Waiters, WaitLeave(w) PROVE EventInv'
  BY <1>17 DEF WaitLeave
<1>18. CASE UNCHANGED eventState
  BY <1>18 DEF eventState
<1>19. QED
  BY <1>1, <1>2, <1>3, <1>4, <1>5, <1>6, <1>7, <1>8, <1>9, <1>10, <1>11, <1>12, <1>13, <1>14, <1>15, <1>16, <1>17, <1>18
     DEF EventNext, SetContinues, WaitContinues

\* Whatever the number of setters and waiters, a thread never stays parked on a
\* triggered event without a notification on its way (Event.h:30-61).
THEOREM NothingIsLost == EventSpec => []NoLostSignal
<1>1. EventInit => EventInv
  BY CallersAssumption
     DEF EventInit, EventInv, MutexInv, ParkedInv, ParkingInv, NoLostSignal, Callers, Locked
<1>2. EventTypeOK /\ EventTypeOK' /\ EventInv /\ [EventNext]_eventState => EventInv'
  BY EventInvariantStep
<1>3. EventInv => NoLostSignal
  BY DEF EventInv
<1>4. QED
  BY <1>1, <1>2, <1>3, EventTypeCorrect, PTL DEF EventSpec

-----------------------------------------------------------------------------

\* With a single waiter and no Reset() a trigger that a wait has seen is consumed by
\* that wait and by no other (Event.h:41-46).
THEOREM TriggerReleasesOneWait ==
  ASSUME NEW w0 \in Waiters, Waiters = {w0}, Resetters = {}
  PROVE  EventSpec => []SeenSignalStays
<1>1. EventInit => SeenSignalStays
  BY CallersAssumption DEF EventInit, SeenSignalStays, Callers
<1>2. EventTypeOK /\ SeenSignalStays /\ [EventNext]_eventState => SeenSignalStays'
  <2> SUFFICES ASSUME EventTypeOK, SeenSignalStays, [EventNext]_eventState PROVE SeenSignalStays'
    OBVIOUS
  <2> USE CallersAssumption
      DEF EventTypeOK, SeenSignalStays, Callers, SetterPCs, WaiterPCs, Go, Lock, Unlock
  <2>1. ASSUME NEW s \in Setters, SetFlag(s) \/ Reset(s) \/ SetContinues(s)
        PROVE  SeenSignalStays'
    BY <2>1 DEF SetFlag, Reset, SetContinues, SetLock, SetNotify, SetUnlock
  <2>2. ASSUME NEW w \in Waiters,
               WaitFast(w) \/ \E b \in BOOLEAN : WaitSlow(w, b)
        PROVE  SeenSignalStays'
    BY <2>2 DEF WaitFast, WaitSlow
  <2>3. ASSUME NEW w \in Waiters, SpuriousWakeup(w) \/ Timeout(w) \/ WaitContinues(w)
        PROVE  SeenSignalStays'
    BY <2>3 DEF SpuriousWakeup, Timeout, WaitContinues, WaitEnter, WaitTest, WaitPark,
                WaitRelock, WaitLastLock, WaitLastTest, WaitClear, WaitLeave
  <2>4. CASE UNCHANGED eventState
    BY <2>4 DEF eventState
  <2>5. QED
    BY <2>1, <2>2, <2>3, <2>4 DEF EventNext
<1>3. QED
  BY <1>1, <1>2, EventTypeCorrect, PTL DEF EventSpec

-----------------------------------------------------------------------------

\* Only a call with a timeout takes its last look.
TimedInv == \A w \in Waiters : place[w] \in {"waitLastLock", "waitLastTest"} => timed[w]

AbstractSafety == Abstract!Init /\ [][Abstract!Next]_(Abstract!vars)

LEMMA TimedStep ==
  ASSUME EventTypeOK, TimedInv, [EventNext]_eventState
  PROVE  TimedInv'
<1> USE CallersAssumption
    DEF EventTypeOK, TimedInv, Callers, SetterPCs, WaiterPCs, Go
<1>1. ASSUME NEW s \in Setters, SetFlag(s) \/ Reset(s) \/ SetContinues(s)
      PROVE  TimedInv'
  BY <1>1 DEF SetFlag, Reset, SetContinues, SetLock, SetNotify, SetUnlock
<1>2. ASSUME NEW w \in Waiters, WaitFast(w) \/ \E b \in BOOLEAN : WaitSlow(w, b)
      PROVE  TimedInv'
  BY <1>2 DEF WaitFast, WaitSlow
<1>3. ASSUME NEW w \in Waiters, SpuriousWakeup(w) \/ Timeout(w) \/ WaitContinues(w)
      PROVE  TimedInv'
  BY <1>3 DEF SpuriousWakeup, Timeout, WaitContinues, WaitEnter, WaitTest, WaitPark,
              WaitRelock, WaitLastLock, WaitLastTest, WaitClear, WaitLeave
<1>4. CASE UNCHANGED eventState
  BY <1>4 DEF eventState
<1>5. QED
  BY <1>1, <1>2, <1>3, <1>4 DEF EventNext

\* Every step of the mutex and condition variable is a step of the abstract event or
\* changes nothing its users can see (Event.h:30-69).
THEOREM EventRefinement == EventSpec => AbstractSafety
<1>1. EventInit => Abstract!Init /\ TimedInv
  BY CallersAssumption DEF EventInit, TimedInv, Abstract!Init, PhaseOf, Callers
<1>2. EventTypeOK /\ TimedInv /\ ParkedInv /\ [EventNext]_eventState => [Abstract!Next]_(Abstract!vars)
  <2> SUFFICES ASSUME EventTypeOK, TimedInv, ParkedInv, [EventNext]_eventState
               PROVE  [Abstract!Next]_(Abstract!vars)
    OBVIOUS
  <2> USE CallersAssumption
      DEF EventTypeOK, Callers, SetterPCs, WaiterPCs, Go, PhaseOf, Abstract!vars
  <2>1. ASSUME NEW s \in Setters, SetFlag(s) PROVE Abstract!Set
    BY <2>1 DEF SetFlag, Abstract!Set
  <2>2. ASSUME NEW s \in Setters, Reset(s) PROVE Abstract!Reset
    BY <2>2 DEF Reset, Abstract!Reset
  <2>3. ASSUME NEW s \in Setters, SetContinues(s) PROVE UNCHANGED Abstract!vars
    <3>1. m_flag' = m_flag /\ timed' = timed /\ signaled' = signaled
      BY <2>3 DEF SetContinues, SetLock, SetNotify, SetUnlock
    <3>2. ASSUME NEW w \in Waiters PROVE PhaseOf(w)' = PhaseOf(w)
      BY <2>3, <3>1, <3>2 DEF SetContinues, SetLock, SetNotify, SetUnlock, ParkedInv
    <3>3. QED
      BY <3>1, <3>2
  <2>4. ASSUME NEW w \in Waiters, WaitFast(w) PROVE Abstract!TakeAtOnce(w)
    BY <2>4 DEF WaitFast, Abstract!TakeAtOnce
  <2>5. ASSUME NEW w \in Waiters, NEW b \in BOOLEAN, WaitSlow(w, b)
        PROVE  Abstract!Block(w, b)
    BY <2>5 DEF WaitSlow, Abstract!Block, Abstract!Goto
  <2>6. ASSUME NEW w \in Waiters,
               \/ SpuriousWakeup(w) \/ Timeout(w) \/ WaitPark(w) \/ WaitLeave(w)
               \/ WaitEnter(w) \/ WaitRelock(w) \/ WaitLastLock(w)
        PROVE  UNCHANGED Abstract!vars
    BY <2>6 DEF SpuriousWakeup, Timeout, WaitPark, WaitLeave, WaitEnter, WaitRelock,
                WaitLastLock
  <2>7. ASSUME NEW w \in Waiters, WaitTest(w)
        PROVE  Abstract!SeeSignal(w) \/ UNCHANGED Abstract!vars
    BY <2>7 DEF WaitTest, Abstract!SeeSignal, Abstract!Goto
  <2>8. ASSUME NEW w \in Waiters, WaitLastTest(w)
        PROVE  Abstract!SeeSignal(w) \/ Abstract!Expire(w)
    BY <2>8 DEF WaitLastTest, TimedInv, Abstract!SeeSignal, Abstract!Expire,
                Abstract!Goto
  <2>9. ASSUME NEW w \in Waiters, WaitClear(w) PROVE Abstract!Return(w)
    BY <2>9 DEF WaitClear, Abstract!Return, Abstract!Goto
  <2>10. CASE UNCHANGED eventState
    BY <2>10 DEF eventState
  <2>11. QED
    BY <2>1, <2>2, <2>3, <2>4, <2>5, <2>6, <2>7, <2>8, <2>9, <2>10
       DEF EventNext, WaitContinues, Abstract!Next, Abstract!Proceed
<1>3. EventInit => EventInv
  BY CallersAssumption
     DEF EventInit, EventInv, MutexInv, ParkedInv, ParkingInv, NoLostSignal, Callers, Locked
<1>4. EventTypeOK /\ EventTypeOK' /\ EventInv /\ TimedInv /\ [EventNext]_eventState => EventInv' /\ TimedInv'
  BY EventInvariantStep, TimedStep
<1>5. EventInv => ParkedInv
  BY DEF EventInv
<1>6. QED
  BY <1>1, <1>2, <1>3, <1>4, <1>5, EventTypeCorrect, PTL DEF EventSpec, AbstractSafety

-----------------------------------------------------------------------------
(* BlockingLoop *)

\* m_prepare_lock excludes.
PrepareInv ==
  /\ \A t \in Threads : pc[t] \in PreparePCs \ {"prepLock"} <=> m_prepare_lock = t
  /\ \A c \in Clients : pc[c] \in {"prepState", "prepShutdown", "prepMaySleep"}
                          => pc[Worker] \in {"out", "prepLock", "closeDone"}

\* What the worker knows of the state where it is.
StateInv ==
  /\ pc[Worker] = "need" => m_running_state = NEED_EXECUTION
  /\ pc[Worker] = "last" => m_running_state \in {LAST_EXECUTION, NEED_EXECUTION}
  /\ pc[Worker] \in {"setDone", "done", "doze"} => m_running_state \in {DONE, NEED_EXECUTION}
  /\ pc[Worker] = "sleep" => m_running_state \in {SLEEPING, NEED_EXECUTION}
  /\ pc[Worker] \in LoopPCs \cup {"closeState", "closeStopped", "prepState",
                                  "prepShutdown", "prepMaySleep", "prepUnlock"}
       => ~m_stopped

BeforePayload == {"out", "check", "begin", "closeState", "closeDone"} \cup PreparePCs

\* A request that has passed the exchange is visible in the state until it is served.
RequestInv ==
  \A c \in Clients :
    /\ owed[c] = "thisRun" => pc[Worker] = "payload"
    /\ pc[c] \notin {"wakeLoad", "wakeExchange"} =>
         /\ owed[c] = "aRun" => \/ m_running_state = NEED_EXECUTION
                                \/ /\ m_running_state = LAST_EXECUTION
                                   /\ pc[Worker] \in BeforePayload
         /\ owed[c] = "thisRun" => m_running_state >= LAST_EXECUTION

\* Who finds the worker asleep raises the event.
SleepInv ==
  pc[Worker] = "sleep" /\ ~m_new_work_event /\ m_running_state # SLEEPING
    => \E c \in Clients : pc[c] = "wakeSet"

IInv == PrepareInv /\ StateInv /\ RequestInv /\ SleepInv

\* Every reachable state is well typed; in particular the state stays within its four
\* values although it is decremented without a test (BlockingLoop.h:112, 120, 133).
THEOREM TypeAndInvariant == Spec => [](TypeOK /\ IInv)
<1> USE ThreadsAssumption
    DEF TypeOK, IInv, PrepareInv, StateInv, RequestInv, SleepInv, BeforePayload,
        Threads, Worker, PreparePCs, LoopPCs, ClosePCs, WorkerPCs, WakeupPCs, WaitPCs,
        ClientPCs, SLEEPING, DONE, LAST_EXECUTION, NEED_EXECUTION
<1>1. Init => TypeOK /\ IInv
  <2> SUFFICES ASSUME Init PROVE TypeOK /\ IInv
    OBVIOUS
  <2>1. pc[Worker] = "out" /\ \A c \in Clients : pc[c] = "idle" /\ owed[c] = "nothing"
    BY DEF Init
  <2>2. TypeOK
    BY <2>1 DEF Init
  <2>3. IInv
    BY <2>1 DEF Init
  <2>4. QED
    BY <2>2, <2>3
<1>2. TypeOK /\ IInv /\ [Next]_vars => TypeOK'
  <2> SUFFICES ASSUME TypeOK, IInv, [Next]_vars PROVE TypeOK'
    OBVIOUS
  <2> USE DEF Goto, SetState, loopVars, eventVars, lockVars, auxVars
  <2>1. ASSUME NEW c \in Clients, CallWakeup(c) PROVE TypeOK'
    BY <2>1 DEF CallWakeup
  <2>2. ASSUME NEW c \in Clients, WakeupLoad(c) PROVE TypeOK'
    BY <2>2 DEF WakeupLoad, AfterWakeup
  <2>3. ASSUME NEW c \in Clients, WakeupExchange(c) PROVE TypeOK'
    BY <2>3 DEF WakeupExchange, AfterWakeup
  <2>4. ASSUME NEW c \in Clients, WakeupSet(c) PROVE TypeOK'
    BY <2>4 DEF WakeupSet, AfterWakeup
  <2>5. ASSUME NEW c \in Clients, CallWait(c) PROVE TypeOK'
    BY <2>5 DEF CallWait
  <2>6. ASSUME NEW c \in Clients, FastStopped(c) PROVE TypeOK'
    BY <2>6 DEF FastStopped, Returned
  <2>7. ASSUME NEW c \in Clients, FastState(c) PROVE TypeOK'
    <3>1. CASE m_running_state <= DONE
    BY <2>7, <3>1 DEF FastState, Returned
    <3>2. CASE ~(m_running_state <= DONE)
    BY <2>7, <3>2 DEF FastState
    <3>3. QED
      BY <3>1, <3>2
  <2>8. ASSUME NEW c \in Clients, WaitLock(c) PROVE TypeOK'
    BY <2>8 DEF WaitLock
  <2>9. ASSUME NEW c \in Clients, LoopStopped(c) PROVE TypeOK'
    BY <2>9 DEF LoopStopped
  <2>10. ASSUME NEW c \in Clients, LoopState(c) PROVE TypeOK'
    BY <2>10 DEF LoopState
  <2>11. ASSUME NEW c \in Clients, WaitDone(c) PROVE TypeOK'
    BY ZenonT(60), <2>11 DEF WaitDone
  <2>12. ASSUME NEW c \in Clients, WaitMaySleep(c) PROVE TypeOK'
    BY <2>12 DEF WaitMaySleep
  <2>13. ASSUME NEW c \in Clients, WaitUnlock(c) PROVE TypeOK'
    BY <2>13 DEF WaitUnlock, Returned
  <2>14. ASSUME NEW c \in Clients, StopTest(c) PROVE TypeOK'
    BY <2>14 DEF StopTest
  <2>15. ASSUME NEW c \in Clients, StopShutdown(c) PROVE TypeOK'
    BY <2>15 DEF StopShutdown
  <2>16. ASSUME NEW c \in Clients, AllowSleep(c) PROVE TypeOK'
    BY <2>16 DEF AllowSleep
  <2>17. ASSUME NEW c \in Clients, Launch(c) PROVE TypeOK'
    BY <2>17 DEF Launch
  <2>18. ASSUME NEW c \in Clients, NEW block \in BOOLEAN, CallStop(c, block) PROVE TypeOK'
    BY <2>18 DEF CallStop
  <2>19. ASSUME NEW t \in Threads, PrepareLock(t) PROVE TypeOK'
    BY <2>19 DEF PrepareLock
  <2>20. ASSUME NEW t \in Threads, PrepareTest(t) PROVE TypeOK'
    BY ZenonT(60), <2>20 DEF PrepareTest
  <2>21. ASSUME NEW t \in Threads, PrepareState(t) PROVE TypeOK'
    BY <2>21 DEF PrepareState
  <2>22. ASSUME NEW t \in Threads, PrepareShutdown(t) PROVE TypeOK'
    BY <2>22 DEF PrepareShutdown
  <2>23. ASSUME NEW t \in Threads, PrepareMaySleep(t) PROVE TypeOK'
    BY <2>23 DEF PrepareMaySleep
  <2>24. ASSUME NEW t \in Threads, PrepareUnlock(t) PROVE TypeOK'
    BY <2>24 DEF PrepareUnlock
  <2>25. ASSUME Check PROVE TypeOK'
    BY <2>25 DEF Check
  <2>26. ASSUME PayloadBegin PROVE TypeOK'
    BY <2>26 DEF PayloadBegin
  <2>27. ASSUME PayloadEnd PROVE TypeOK'
    BY <2>27 DEF PayloadEnd
  <2>28. ASSUME Switch PROVE TypeOK'
    BY <2>28 DEF Switch
  <2>29. ASSUME CaseNeed PROVE TypeOK'
    BY <2>29 DEF CaseNeed
  <2>30. ASSUME CaseLast PROVE TypeOK'
    BY <2>30 DEF CaseLast
  <2>31. ASSUME SetDone PROVE TypeOK'
    BY <2>31 DEF SetDone
  <2>32. ASSUME CaseDone PROVE TypeOK'
    BY <2>32 DEF CaseDone
  <2>33. ASSUME Doze PROVE TypeOK'
    BY <2>33 DEF Doze
  <2>34. ASSUME Sleep PROVE TypeOK'
    BY <2>34 DEF Sleep
  <2>35. ASSUME CloseState PROVE TypeOK'
    BY <2>35 DEF CloseState
  <2>36. ASSUME CloseStopped PROVE TypeOK'
    BY <2>36 DEF CloseStopped
  <2>37. ASSUME CloseDone PROVE TypeOK'
    BY <2>37 DEF CloseDone
  <2>38. CASE UNCHANGED vars
    BY SMTT(40), <2>38 DEF vars, loopVars, eventVars, lockVars, auxVars
  <2>40. ASSUME Start PROVE TypeOK'
    BY <2>40 DEF Start
  <2>39. QED
    BY SMTT(30), <2>1, <2>2, <2>3, <2>4, <2>5, <2>6, <2>7, <2>8, <2>9, <2>10, <2>11, <2>12,
         <2>13, <2>14, <2>15, <2>16, <2>17, <2>18, <2>19, <2>20, <2>21, <2>22,
         <2>23, <2>24, <2>25, <2>26, <2>27, <2>28, <2>29, <2>30, <2>31, <2>32,
         <2>33, <2>34, <2>35, <2>36, <2>37, <2>38, <2>40
      DEF Next, Run, Call, Continue, InWakeup, InWait, InStop, Prepare, Threads
<1>3. TypeOK /\ TypeOK' /\ IInv /\ [Next]_vars => IInv'
  <2> SUFFICES ASSUME TypeOK, TypeOK', IInv, [Next]_vars PROVE IInv'
    OBVIOUS
  <2> USE DEF Goto, SetState, loopVars, eventVars, lockVars, auxVars
  <2>1. ASSUME NEW c \in Clients, CallWakeup(c) PROVE IInv'
    BY <2>1 DEF CallWakeup
  <2>2. ASSUME NEW c \in Clients, WakeupLoad(c) PROVE IInv'
    BY <2>2 DEF WakeupLoad, AfterWakeup
  <2>3. ASSUME NEW c \in Clients, WakeupExchange(c) PROVE IInv'
    BY <2>3 DEF WakeupExchange, AfterWakeup
  <2>4. ASSUME NEW c \in Clients, WakeupSet(c) PROVE IInv'
    BY <2>4 DEF WakeupSet, AfterWakeup
  <2>5. ASSUME NEW c \in Clients, CallWait(c) PROVE IInv'
    BY <2>5 DEF CallWait
  <2>6. ASSUME NEW c \in Clients, FastStopped(c) PROVE IInv'
    BY <2>6 DEF FastStopped, Returned
  <2>7. ASSUME NEW c \in Clients, FastState(c) PROVE IInv'
    BY <2>7 DEF FastState, Returned
  <2>8. ASSUME NEW c \in Clients, WaitLock(c) PROVE IInv'
    BY <2>8 DEF WaitLock
  <2>9. ASSUME NEW c \in Clients, LoopStopped(c) PROVE IInv'
    BY <2>9 DEF LoopStopped
  <2>10. ASSUME NEW c \in Clients, LoopState(c) PROVE IInv'
    BY <2>10 DEF LoopState
  <2>11. ASSUME NEW c \in Clients, WaitDone(c) PROVE IInv'
    BY <2>11 DEF WaitDone
  <2>12. ASSUME NEW c \in Clients, WaitMaySleep(c) PROVE IInv'
    BY <2>12 DEF WaitMaySleep
  <2>13. ASSUME NEW c \in Clients, WaitUnlock(c) PROVE IInv'
    BY <2>13 DEF WaitUnlock, Returned
  <2>14. ASSUME NEW c \in Clients, StopTest(c) PROVE IInv'
    BY <2>14 DEF StopTest
  <2>15. ASSUME NEW c \in Clients, StopShutdown(c) PROVE IInv'
    BY <2>15 DEF StopShutdown
  <2>16. ASSUME NEW c \in Clients, AllowSleep(c) PROVE IInv'
    BY <2>16 DEF AllowSleep
  <2>17. ASSUME NEW c \in Clients, Launch(c) PROVE IInv'
    BY <2>17 DEF Launch
  <2>18. ASSUME NEW c \in Clients, NEW block \in BOOLEAN, CallStop(c, block) PROVE IInv'
    BY <2>18 DEF CallStop
  <2>19. ASSUME NEW t \in Threads, PrepareLock(t) PROVE IInv'
    BY <2>19 DEF PrepareLock
  <2>20. ASSUME NEW t \in Threads, PrepareTest(t) PROVE IInv'
    <3>1. CASE m_stopped
      <4>1. /\ pc' = [pc EXCEPT ![t] = "prepState"] /\ pc[t] = "prepTest"
            /\ m_prepare_lock = t /\ UNCHANGED <<m_prepare_lock, m_running_state>>
            /\ UNCHANGED <<m_new_work_event, owed>> /\ ~m_stopped'
        BY <2>20, <3>1 DEF PrepareTest
      <4>2. pc[Worker] = "prepTest" => t = Worker
        BY <4>1
      <4>3. PrepareInv'
        <5>1. pc[Worker] \in {"out", "prepLock", "prepTest", "closeDone"}
          BY <3>1, <4>1
        <5>2. QED
          BY <4>1, <4>2, <5>1
      <4>4. StateInv' /\ RequestInv' /\ SleepInv'
        BY <4>1, <4>2
      <4>5. QED
        BY <4>3, <4>4
    <3>2. CASE ~m_stopped
      BY <2>20, <3>2 DEF PrepareTest
    <3>3. QED
      BY <3>1, <3>2
  <2>21. ASSUME NEW t \in Threads, PrepareState(t) PROVE IInv'
    BY <2>21 DEF PrepareState
  <2>22. ASSUME NEW t \in Threads, PrepareShutdown(t) PROVE IInv'
    BY <2>22 DEF PrepareShutdown
  <2>23. ASSUME NEW t \in Threads, PrepareMaySleep(t) PROVE IInv'
    BY <2>23 DEF PrepareMaySleep
  <2>24. ASSUME NEW t \in Threads, PrepareUnlock(t) PROVE IInv'
    BY <2>24 DEF PrepareUnlock
  <2>25. ASSUME Check PROVE IInv'
    BY <2>25 DEF Check
  <2>26. ASSUME PayloadBegin PROVE IInv'
    BY <2>26 DEF PayloadBegin
  <2>27. ASSUME PayloadEnd PROVE IInv'
    BY <2>27 DEF PayloadEnd
  <2>28. ASSUME Switch PROVE IInv'
    BY <2>28 DEF Switch
  <2>29. ASSUME CaseNeed PROVE IInv'
    BY <2>29 DEF CaseNeed
  <2>30. ASSUME CaseLast PROVE IInv'
    BY <2>30 DEF CaseLast
  <2>31. ASSUME SetDone PROVE IInv'
    BY <2>31 DEF SetDone
  <2>32. ASSUME CaseDone PROVE IInv'
    BY <2>32 DEF CaseDone
  <2>33. ASSUME Doze PROVE IInv'
    BY <2>33 DEF Doze
  <2>34. ASSUME Sleep PROVE IInv'
    BY <2>34 DEF Sleep
  <2>35. ASSUME CloseState PROVE IInv'
    BY <2>35 DEF CloseState
  <2>36. ASSUME CloseStopped PROVE IInv'
    BY <2>36 DEF CloseStopped
  <2>37. ASSUME CloseDone PROVE IInv'
    BY <2>37 DEF CloseDone
  <2>38. CASE UNCHANGED vars
    BY <2>38 DEF vars, loopVars, eventVars, lockVars, auxVars
  <2>40. CASE Start
    BY <2>40 DEF Start
  <2>39. QED
    BY SMTT(30), <2>1, <2>2, <2>3, <2>4, <2>5, <2>6, <2>7, <2>8, <2>9, <2>10, <2>11, <2>12,
         <2>13, <2>14, <2>15, <2>16, <2>17, <2>18, <2>19, <2>20, <2>21, <2>22,
         <2>23, <2>24, <2>25, <2>26, <2>27, <2>28, <2>29, <2>30, <2>31, <2>32,
         <2>33, <2>34, <2>35, <2>36, <2>37, <2>38, <2>40
      DEF Next, Run, Call, Continue, InWakeup, InWait, InStop, Prepare, Threads
<1>4. QED
  BY <1>1, <1>2, <1>3, PTL DEF Spec

\* "Wait for a complete payload run after the last Wakeup() call" (BlockingLoop.h:52-74),
\* for any number of clients, however often the loop is stopped and started.
THEOREM WaitIsSafe == Spec => []WaitMeansDone
<1>1. TypeOK /\ IInv => WaitMeansDone
  BY DEF TypeOK, IInv, RequestInv, WaitMeansDone, SLEEPING, DONE, LAST_EXECUTION,
         NEED_EXECUTION
<1>2. QED
  BY <1>1, TypeAndInvariant, PTL

\* The worker never sleeps on a request that nobody is going to signal
\* (BlockingLoop.h:36-50, 142-152).
THEOREM WakeupIsSafe == Spec => []NoLostWakeup
<1>1. TypeOK /\ IInv => NoLostWakeup
  BY DEF TypeOK, IInv, RequestInv, SleepInv, NoLostWakeup, BeforePayload, PreparePCs,
         SLEEPING, DONE, LAST_EXECUTION, NEED_EXECUTION
<1>2. QED
  BY <1>1, TypeAndInvariant, PTL

-----------------------------------------------------------------------------
(* BlockingLoop implements PayloadLoop.                                        *)

\* A thread that prepares the loop has opened it, and nobody closes it before; a worker that
\* leaves has been told to.
OpenInv ==
  /\ \A t \in Threads : pc[t] \in {"prepState", "prepShutdown", "prepMaySleep"} => ~m_stopped
  /\ pc[Worker] = "closeState" => m_shutdown

LEMMA OpenStep ==
  ASSUME TypeOK, IInv, OpenInv, [Next]_vars
  PROVE  OpenInv'
<1> USE ThreadsAssumption
    DEF TypeOK, IInv, PrepareInv, StateInv, OpenInv, Threads, Worker, PreparePCs,
        LoopPCs, Goto, SetState, loopVars, eventVars, lockVars, auxVars
<1>1. ASSUME NEW c \in Clients, Call(c) \/ InWakeup(c) \/ InWait(c) \/ InStop(c)
      PROVE  OpenInv'
  <2>1. m_stopped' = m_stopped /\ (m_shutdown => m_shutdown')
    BY <1>1 DEF Call, CallWakeup, CallWait, AllowSleep, Launch, CallStop, InWakeup,
       WakeupLoad, WakeupExchange, WakeupSet, InWait, FastStopped, FastState, WaitLock,
       LoopStopped, LoopState, WaitDone, WaitMaySleep, WaitUnlock, InStop, StopTest,
       StopShutdown
  <2>2. \A t \in Threads : pc'[t] \in {"prepState", "prepShutdown", "prepMaySleep",
                                       "closeState"} => pc'[t] = pc[t]
    BY <1>1 DEF Call, CallWakeup, CallWait, AllowSleep, Launch, CallStop, InWakeup,
       WakeupLoad, WakeupExchange, WakeupSet, InWait, FastStopped, FastState, WaitLock,
       LoopStopped, LoopState, WaitDone, WaitMaySleep, WaitUnlock, InStop, StopTest,
       StopShutdown, AfterWakeup
  <2>3. QED
    BY <2>1, <2>2
<1>2. ASSUME NEW t \in Threads, Prepare(t) PROVE OpenInv'
  BY <1>2 DEF Prepare, PrepareLock, PrepareTest, PrepareState, PrepareShutdown,
     PrepareMaySleep, PrepareUnlock
<1>3. CASE Check
  BY <1>3 DEF Check
<1>4. CASE PayloadBegin \/ PayloadEnd \/ Switch \/ CaseNeed \/ CaseLast \/ SetDone
  BY <1>4 DEF PayloadBegin, PayloadEnd, Switch, CaseNeed, CaseLast, SetDone
<1>5. CASE CaseDone \/ Doze \/ Sleep \/ CloseState \/ CloseDone
  BY <1>5 DEF CaseDone, Doze, Sleep, CloseState, CloseDone
<1>6. CASE CloseStopped
  BY <1>6 DEF CloseStopped
<1>7. CASE UNCHANGED vars
  BY <1>7 DEF vars
<1>9. CASE Start
  BY <1>9 DEF Start
<1>8. QED
  BY <1>1, <1>2, <1>3, <1>4, <1>5, <1>6, <1>7, <1>9 DEF Next, Run, Continue

\* Where clients are does not matter to the phase, unless they open the loop.
LEMMA SamePhase ==
  ASSUME NEW t \in Threads, NEW to, TypeOK, pc' = [pc EXCEPT ![t] = to],
         t # Worker, pc[t] # "prepState", to # "prepState", m_stopped' = m_stopped
  PROVE  LoopPhase' = LoopPhase
<1>1. \A u \in Threads : pc'[u] = "prepState" <=> pc[u] = "prepState"
  BY DEF TypeOK
<1>2. Opening' = Opening
  BY <1>1 DEF Opening
<1>3. pc'[Worker] = pc[Worker]
  BY DEF TypeOK, Threads
<1>4. QED
  BY <1>2, <1>3 DEF LoopPhase

\* The states of the loop but DONE and SLEEPING are told apart.
LEMMA SameState ==
  ASSUME m_running_state' = m_running_state
  PROVE  AbstractState' = AbstractState
BY DEF AbstractState

\* Every step is one of PayloadLoop, or changes nothing of it (BlockingLoop.h:34-217).
THEOREM Refinement == Spec => ImplementsContract
<1> USE ThreadsAssumption
<1>1. Init => Contract!Init /\ OpenInv
  <2> SUFFICES ASSUME Init PROVE Contract!Init /\ OpenInv
    OBVIOUS
  <2>1. \A t \in Threads : pc[t] \in {"out", "idle"}
    BY DEF Init
  <2>2. OpenInv
    BY <2>1 DEF OpenInv, Init, Threads
  <2>3. LoopPhase = "closed" /\ m_shutdown = FALSE
    BY DEF Init, LoopPhase
  <2>4. AbstractState \in {"done", "last", "need"}
    BY DEF AbstractState
  <2>5. QED
    BY <2>2, <2>3, <2>4 DEF Contract!Init, Contract!TypeOK, Contract!States, Contract!Phases
<1>2. TypeOK /\ IInv /\ OpenInv /\ [Next]_vars => [Contract!Next]_Contract!vars
  <2> SUFFICES ASSUME TypeOK, IInv, OpenInv, [Next]_vars
               PROVE  Contract!Next \/ UNCHANGED Contract!vars
    OBVIOUS
  <2> USE DEF Contract!Next, Contract!vars
  <2>1. ASSUME NEW c \in Clients,
               \/ Call(c) \/ InWait(c) \/ WakeupLoad(c) \/ WakeupSet(c) \/ StopTest(c)
        PROVE  UNCHANGED Contract!vars
    <3>1. m_stopped' = m_stopped /\ m_shutdown' = m_shutdown
          /\ m_running_state' = m_running_state
      BY <2>1 DEF Call, CallWakeup, CallWait, AllowSleep, Launch, CallStop, InWait,
         FastStopped, FastState, WaitLock, LoopStopped, LoopState, WaitDone,
         WaitMaySleep, WaitUnlock, WakeupLoad, WakeupSet, StopTest, loopVars
    <3>2. (\A t \in Threads : pc'[t] = "prepState" <=> pc[t] = "prepState")
          /\ (pc'[Worker] = pc[Worker] \/ (pc[Worker] = "out" /\ pc'[Worker] = "prepLock"))
      <4>1. CASE Launch(c)
        BY <4>1 DEF Launch, TypeOK, Threads
      <4>2. CASE AllowSleep(c)
        BY <4>2 DEF AllowSleep
      <4>3. ASSUME ~Launch(c), ~AllowSleep(c)
            PROVE  \E to : pc' = [pc EXCEPT ![c] = to] /\ to # "prepState"
                           /\ pc[c] # "prepState"
        BY <2>1, <4>3 DEF Call, CallWakeup, CallWait, CallStop, InWait, FastStopped, FastState,
           WaitLock, LoopStopped, LoopState, WaitDone, WaitMaySleep, WaitUnlock, WakeupLoad,
           WakeupSet, StopTest, Goto, AfterWakeup
      <4>4. QED
        BY <4>1, <4>2, <4>3 DEF TypeOK, Threads
    <3>3. LoopPhase' = LoopPhase
      BY <3>1, <3>2 DEF LoopPhase, Opening
    <3>4. QED
      BY <3>1, <3>3, SameState
  <2>2. ASSUME NEW c \in Clients, WakeupExchange(c) PROVE Contract!Wakeup
    <3>1. LoopPhase' = LoopPhase
      <4> DEFINE next == IF m_running_state # SLEEPING THEN AfterWakeup(c) ELSE "wakeSet"
      <4>1. pc' = [pc EXCEPT ![c] = next] /\ next # "prepState"
        BY <2>2 DEF WakeupExchange, Goto, AfterWakeup
      <4>2. c \in Threads /\ c # Worker /\ pc[c] # "prepState" /\ m_stopped' = m_stopped
        BY <2>2 DEF WakeupExchange, Goto, SetState, Threads
      <4>3. QED
        BY <4>1, <4>2, SamePhase
    <3>2. AbstractState' = "need" /\ m_shutdown' = m_shutdown
      BY <2>2 DEF WakeupExchange, SetState, AbstractState
    <3>3. QED
      BY <3>1, <3>2 DEF Contract!Wakeup
  <2>3. ASSUME NEW c \in Clients, StopShutdown(c) PROVE Contract!Stop
    <3>1. LoopPhase' = LoopPhase
      BY <2>3, SamePhase DEF StopShutdown, Goto, Threads
    <3>2. m_shutdown' = TRUE /\ AbstractState' = AbstractState
      BY <2>3, SameState DEF StopShutdown
    <3>3. QED
      BY <3>1, <3>2 DEF Contract!Stop
  <2>4. ASSUME NEW t \in Threads, Prepare(t)
        PROVE  Contract!Next \/ UNCHANGED Contract!vars
    <3>1. CASE PrepareLock(t) \/ PrepareMaySleep(t) \/ PrepareUnlock(t)
      <4>1. m_stopped' = m_stopped /\ m_shutdown' = m_shutdown
            /\ m_running_state' = m_running_state
        BY <3>1 DEF PrepareLock, PrepareMaySleep, PrepareUnlock, loopVars
      <4>2. Opening' = Opening
        BY <3>1 DEF PrepareLock, PrepareMaySleep, PrepareUnlock, Goto, TypeOK, Opening
      <4>3. pc'[Worker] = pc[Worker]
            \/ {pc[Worker], pc'[Worker]} \subseteq PreparePCs \cup {"check"}
        BY <3>1 DEF PrepareLock, PrepareMaySleep, PrepareUnlock, Goto, TypeOK, PreparePCs,
           Threads
      <4>4. LoopPhase' = LoopPhase
        BY <4>1, <4>2, <4>3 DEF LoopPhase, PreparePCs
      <4>5. QED
        BY <4>1, <4>4, SameState
    <3>2. CASE PrepareTest(t) /\ m_stopped
      <4>1. pc' = [pc EXCEPT ![t] = "prepState"] /\ ~m_stopped'
            /\ m_shutdown' = m_shutdown /\ m_running_state' = m_running_state
        BY <3>2 DEF PrepareTest, Goto
      <4>2. pc'[t] = "prepState"
        BY <4>1 DEF TypeOK
      <4>3. LoopPhase = "closed" /\ LoopPhase' = "opening"
        BY <3>2, <4>1, <4>2 DEF LoopPhase, Opening
      <4>4. QED
        BY <4>1, <4>3, SameState DEF Contract!PrepareTest
    <3>3. CASE PrepareTest(t) /\ ~m_stopped
      <4>1. pc' = [pc EXCEPT ![t] = "prepUnlock"] /\ ~m_stopped' /\ pc[t] = "prepTest"
            /\ m_shutdown' = m_shutdown /\ m_running_state' = m_running_state
        BY <3>3 DEF PrepareTest, Goto
      <4>2. Opening' = Opening
        BY <4>1 DEF TypeOK, Opening
      <4>3. pc'[Worker] = pc[Worker] \/ (pc[Worker] = "prepTest" /\ pc'[Worker] = "prepUnlock")
        <5>1. Worker \in Threads /\ pc \in [Threads -> WorkerPCs \cup ClientPCs]
          BY DEF TypeOK, Threads
        <5>2. CASE t = Worker
          BY <4>1, <5>1, <5>2
        <5>3. CASE t # Worker
          BY <4>1, <5>1, <5>3
        <5>4. QED
          BY <5>2, <5>3
      <4>4. LoopPhase' = LoopPhase
        BY <3>3, <4>1, <4>2, <4>3 DEF LoopPhase
      <4>5. QED
        BY <4>1, <4>4, SameState
    <3>4. CASE PrepareState(t)
      <4>1. /\ pc' = [pc EXCEPT ![t] = "prepShutdown"] /\ pc[t] = "prepState"
            /\ m_running_state' = LAST_EXECUTION
            /\ m_stopped' = m_stopped /\ m_shutdown' = m_shutdown
        BY <3>4 DEF PrepareState, Goto, SetState
      <4>2. ~m_stopped /\ Opening
        BY <4>1 DEF OpenInv, Opening
      <4>3. \A u \in Threads : pc[u] = "prepState" => u = t
        BY <4>1 DEF IInv, PrepareInv, PreparePCs, TypeOK
      <4>4. ~Opening'
        BY <4>1, <4>3 DEF Opening, TypeOK
      <4>5. pc'[Worker] \in {"out", "prepLock", "closeDone", "prepShutdown"}
        BY <4>1 DEF IInv, PrepareInv, TypeOK, Threads
      <4>6. LoopPhase = "opening" /\ LoopPhase' = "between"
        BY <4>1, <4>2, <4>4, <4>5 DEF LoopPhase
      <4>7. AbstractState' = "last"
        BY <4>1 DEF AbstractState, LAST_EXECUTION, NEED_EXECUTION
      <4>8. QED
        BY <4>1, <4>6, <4>7 DEF Contract!PrepareState
    <3>5. CASE PrepareShutdown(t)
      <4>1. /\ pc' = [pc EXCEPT ![t] = "prepMaySleep"] /\ pc[t] = "prepShutdown"
            /\ m_running_state' = m_running_state
            /\ m_stopped' = m_stopped /\ m_shutdown' = FALSE
        BY <3>5 DEF PrepareShutdown, Goto
      <4>2. ~m_stopped
        BY <4>1 DEF OpenInv
      <4>3. ~Opening /\ ~Opening'
        BY <4>1 DEF IInv, PrepareInv, PreparePCs, TypeOK, Opening
      <4>4. {pc[Worker], pc'[Worker]}
              \subseteq {"out", "prepLock", "closeDone", "prepShutdown", "prepMaySleep"}
        BY <4>1 DEF IInv, PrepareInv, TypeOK, Threads
      <4>5. LoopPhase = "between" /\ LoopPhase' = "between"
        BY <4>1, <4>2, <4>3, <4>4 DEF LoopPhase
      <4>6. QED
        BY <4>1, <4>5, SameState DEF Contract!PrepareShutdown
    <3>6. QED
      BY <2>4, <3>1, <3>2, <3>3, <3>4, <3>5 DEF Prepare
  <2>5. ASSUME Run, ~Prepare(Worker)
        PROVE  Contract!Next \/ UNCHANGED Contract!vars
    <3>1. pc[Worker] \in LoopPCs \cup ClosePCs
      BY <2>5 DEF Run, Check, PayloadBegin, PayloadEnd, Switch, CaseNeed, CaseLast, SetDone,
         CaseDone, Doze, Sleep, CloseState, CloseStopped, CloseDone, Goto, LoopPCs, ClosePCs
    <3>2. pc[Worker] # "closeDone" => ~m_stopped /\ ~Opening
      BY <3>1 DEF IInv, StateInv, PrepareInv, Opening, Threads, LoopPCs, ClosePCs, Worker
    <3>3. \A c \in Clients : pc'[c] = pc[c]
      BY <2>5 DEF Run, Check, PayloadBegin, PayloadEnd, Switch, CaseNeed, CaseLast, SetDone,
         CaseDone, Doze, Sleep, CloseState, CloseStopped, CloseDone, Goto, TypeOK, Threads
    <3>4. pc'[Worker] # "prepState" /\ pc[Worker] # "prepState"
      BY <2>5 DEF Run, Check, PayloadBegin, PayloadEnd, Switch, CaseNeed, CaseLast, SetDone,
         CaseDone, Doze, Sleep, CloseState, CloseStopped, CloseDone, Goto, TypeOK, Threads
    <3>5. Opening' = Opening
      BY <3>3, <3>4 DEF Opening, Threads
    <3> USE DEF Goto, SetState, TypeOK, Threads
    <3> HIDE DEF Contract!Next, Contract!vars
    <3>6. CASE Check \/ SetDone \/ CaseDone \/ Sleep
      <4>1. LoopPhase \in {"between"} /\ LoopPhase' \in {"between", "payload"}
            /\ (LoopPhase' = "payload" => ~m_shutdown)
        BY <3>2, <3>5, <3>6 DEF Check, SetDone, CaseDone, Sleep, LoopPhase, loopVars
      <4>2. m_shutdown' = m_shutdown /\ AbstractState' = AbstractState
        BY <3>6, SameState DEF Check, SetDone, CaseDone, Sleep, loopVars
      <4>3. QED
        BY <4>1, <4>2 DEF Contract!Next, Contract!vars, Contract!Enter
    <3>7. CASE PayloadBegin \/ PayloadEnd
      <4>1. LoopPhase' = LoopPhase
        BY <3>2, <3>5, <3>7 DEF PayloadBegin, PayloadEnd, LoopPhase, loopVars
      <4>2. m_shutdown' = m_shutdown /\ AbstractState' = AbstractState
        BY <3>7, SameState DEF PayloadBegin, PayloadEnd, loopVars
      <4>3. QED
        BY <4>1, <4>2 DEF Contract!vars
    <3>8. CASE Switch
      <4>1. m_shutdown' = m_shutdown /\ AbstractState' = AbstractState
        BY <3>8, SameState DEF Switch, loopVars
      <4>2. CASE m_running_state \in {NEED_EXECUTION, LAST_EXECUTION}
        <5>1. LoopPhase' = LoopPhase
          BY <3>2, <3>5, <3>8, <4>2 DEF Switch, LoopPhase, loopVars
        <5>2. QED
          BY <4>1, <5>1 DEF Contract!vars
      <4>3. CASE m_running_state \notin {NEED_EXECUTION, LAST_EXECUTION}
        <5>1. LoopPhase = "payload" /\ LoopPhase' = "between"
          BY <3>2, <3>5, <3>8, <4>3 DEF Switch, LoopPhase, loopVars
        <5>2. AbstractState = "done"
          BY <4>3 DEF AbstractState
        <5>3. QED
          BY <4>1, <5>1, <5>2 DEF Contract!Next, Contract!Finish, Contract!Lower,
             Contract!States
      <4>4. QED
        BY <4>2, <4>3
    <3>9. CASE CaseNeed \/ CaseLast
      <4>1. LoopPhase = "payload" /\ LoopPhase' = "between" /\ m_shutdown' = m_shutdown
        BY <3>2, <3>5, <3>9 DEF CaseNeed, CaseLast, LoopPhase
      <4>2. AbstractState' = Contract!Lower[AbstractState]
        BY <3>9 DEF CaseNeed, CaseLast, AbstractState, IInv, StateInv, Contract!Lower,
           Contract!States, NEED_EXECUTION, LAST_EXECUTION, DONE, SLEEPING
      <4>3. QED
        BY <4>1, <4>2 DEF Contract!Next, Contract!Finish
    <3>10. CASE Doze
      <4>1. LoopPhase = "between" /\ LoopPhase' = "between" /\ m_shutdown' = m_shutdown
        BY <3>2, <3>5, <3>10 DEF Doze, LoopPhase
      <4>2. \/ AbstractState = "need" /\ AbstractState' = "last"
            \/ AbstractState' = AbstractState
        BY <3>10 DEF Doze, AbstractState, IInv, StateInv, NEED_EXECUTION, LAST_EXECUTION,
           DONE, SLEEPING
      <4>3. QED
        BY <4>1, <4>2 DEF Contract!Next, Contract!vars, Contract!Doze
    <3>11. CASE CloseState
      <4>1. LoopPhase = "between" /\ LoopPhase' = "closing" /\ m_shutdown' = m_shutdown
        BY <3>2, <3>5, <3>11 DEF CloseState, LoopPhase
      <4>2. m_shutdown /\ AbstractState' = "done"
        BY <3>11 DEF CloseState, AbstractState, OpenInv, NEED_EXECUTION, LAST_EXECUTION, DONE
      <4>3. QED
        BY <4>1, <4>2 DEF Contract!Next, Contract!Leave
    <3>12. CASE CloseStopped
      <4>1. LoopPhase = "closing" /\ LoopPhase' = "closed" /\ m_shutdown' = m_shutdown
        BY <3>2, <3>5, <3>12 DEF CloseStopped, LoopPhase
      <4>2. AbstractState' = AbstractState
        BY <3>12, SameState DEF CloseStopped
      <4>3. QED
        BY <4>1, <4>2 DEF Contract!Next, Contract!Close
    <3>13. CASE CloseDone
      <4>1. LoopPhase' = LoopPhase /\ m_shutdown' = m_shutdown
        BY <3>5, <3>13 DEF CloseDone, LoopPhase, loopVars
      <4>2. AbstractState' = AbstractState
        BY <3>13, SameState DEF CloseDone, loopVars
      <4>3. QED
        BY <4>1, <4>2 DEF Contract!vars
    <3>14. QED
      BY <2>5, <3>6, <3>7, <3>8, <3>9, <3>10, <3>11, <3>12, <3>13 DEF Run
  <2>6. CASE UNCHANGED vars
    BY <2>6 DEF vars, loopVars, AbstractState, LoopPhase, Opening
  <2>8. CASE Start
    <3>1. m_stopped' = m_stopped /\ m_shutdown' = m_shutdown
          /\ m_running_state' = m_running_state
      BY <2>8 DEF Start, loopVars
    <3>2. (\A t \in Threads : pc'[t] = "prepState" <=> pc[t] = "prepState")
          /\ pc[Worker] = "out" /\ pc'[Worker] = "prepLock"
      BY <2>8 DEF Start, Goto, TypeOK, Threads
    <3>3. LoopPhase' = LoopPhase
      BY <3>1, <3>2 DEF LoopPhase, Opening
    <3>4. QED
      BY <3>1, <3>3, SameState
  <2>7. QED
    BY <2>1, <2>2, <2>3, <2>4, <2>5, <2>6, <2>8
       DEF Next, Continue, InWakeup, InStop, Threads
<1>3. QED
  BY <1>1, <1>2, OpenStep, TypeAndInvariant, PTL DEF Spec, ImplementsContract, Contract!Spec

-----------------------------------------------------------------------------
(* Stop() is final.                                                            *)

\* Only hosts and the worker prepare, and no host while a Stop() that promises something is
\* under way; a worker that begins to then finds the loop prepared, and never reaches the
\* steps between which m_shutdown is lost.
HostInv ==
  /\ \A c \in Clients : pc[c] \in PreparePCs => c \in Hosts
  /\ \A s \in stopping :
       /\ \A c \in Clients : pc[c] \notin PreparePCs
       /\ pc[s] # "stopTest" /\ pc[Worker] \in {"prepLock", "prepTest"} => ~m_stopped
       /\ pc[s] \notin {"stopTest", "stopShutdown"} =>
            pc[Worker] \notin {"prepState", "prepShutdown"}

Closed == pc[Worker] \in {"out", "closeStopped", "closeDone"}

\* The worker comes to its next test of m_shutdown before the state reads as done.
WillClose ==
  \/ m_running_state = NEED_EXECUTION
  \/ m_running_state = LAST_EXECUTION /\ pc[Worker] \in {"check", "closeState"}

\* What a blocking Stop() has reached.
ToldInv ==
  \A s \in stopping :
    /\ callee[s] = "stopAndWait"
    /\ pc[s] \in {"stopTest", "stopShutdown"} \cup WakeupPCs \cup WaitPCs
    /\ pc[s] \notin {"stopTest", "stopShutdown"} => m_shutdown
    /\ pc[s] \in WaitPCs \cup {"wakeSet"} => Closed \/ WillClose
    /\ pc[s] \in {"waitMaySleep", "waitUnlock"} => Closed

LEMMA HostStep ==
  ASSUME TypeOK, IInv, HostInv, ToldInv, [Next]_vars
  PROVE  HostInv'
<1> USE ThreadsAssumption
    DEF TypeOK, IInv, PrepareInv, StateInv, HostInv, Threads, Worker, PreparePCs, Goto,
        SetState, loopVars, eventVars, lockVars, auxVars
<1>0. CASE Start
  BY <1>0 DEF Start
<1>1. ASSUME NEW h \in Clients, Launch(h) PROVE HostInv'
  BY <1>1 DEF Launch
<1>2. ASSUME NEW c \in Clients, NEW block \in BOOLEAN, CallStop(c, block) PROVE HostInv'
  BY <1>2 DEF CallStop
<1>11. ASSUME NEW c \in Clients, StopTest(c) PROVE HostInv'
  BY <1>11 DEF StopTest
<1>12. ASSUME NEW c \in Clients, StopShutdown(c) PROVE HostInv'
  BY <1>12 DEF StopShutdown, Starting
<1>13. ASSUME NEW c \in Clients,
              CallWakeup(c) \/ CallWait(c) \/ AllowSleep(c) \/ InWakeup(c) \/ InWait(c)
       PROVE  HostInv'
  <2>1. m_stopped' = m_stopped /\ stopping' \subseteq stopping
    BY <1>13 DEF CallWakeup, CallWait, AllowSleep, InWakeup, WakeupLoad, WakeupExchange,
       WakeupSet, InWait, FastStopped, FastState, WaitLock, LoopStopped, LoopState, WaitDone,
       WaitMaySleep, WaitUnlock, Returned
  <2>2. CASE pc' = pc
    BY <2>1, <2>2
  <2>3. CASE pc' # pc
    <3>1. /\ pc[c] \notin PreparePCs /\ pc'[c] \notin PreparePCs
          /\ pc[c] \notin {"stopTest", "stopShutdown"}
          /\ \A t \in Threads \ {c} : pc'[t] = pc[t]
      BY <1>13, <2>3 DEF CallWakeup, CallWait, AllowSleep, InWakeup, WakeupLoad,
         WakeupExchange, WakeupSet, InWait, FastStopped, FastState, WaitLock, LoopStopped,
         LoopState, WaitDone, WaitMaySleep, WaitUnlock, AfterWakeup
    <3>2. QED
      BY <2>1, <3>1
  <2>4. QED
    BY <2>2, <2>3
<1>3. ASSUME NEW t \in Threads, PrepareLock(t) PROVE HostInv'
  BY <1>3 DEF PrepareLock
<1>4. ASSUME NEW t \in Threads, PrepareTest(t) PROVE HostInv'
  BY <1>4 DEF PrepareTest, ToldInv
<1>5. ASSUME NEW t \in Threads, PrepareState(t) \/ PrepareShutdown(t) \/ PrepareMaySleep(t)
      PROVE  HostInv'
  BY <1>5 DEF PrepareState, PrepareShutdown, PrepareMaySleep
<1>6. ASSUME NEW t \in Threads, PrepareUnlock(t) PROVE HostInv'
  BY <1>6 DEF PrepareUnlock
<1>7. CASE Check \/ PayloadBegin \/ PayloadEnd \/ Switch \/ CaseNeed \/ CaseLast \/ SetDone
  BY <1>7 DEF Check, PayloadBegin, PayloadEnd, Switch, CaseNeed, CaseLast, SetDone
<1>8. CASE CaseDone \/ Doze \/ Sleep \/ CloseState \/ CloseStopped \/ CloseDone
  BY <1>8 DEF CaseDone, Doze, Sleep, CloseState, CloseStopped, CloseDone
<1>9. CASE UNCHANGED vars
  BY <1>9 DEF vars
<1>10. QED
  BY <1>0, <1>1, <1>2, <1>3, <1>4, <1>5, <1>6, <1>7, <1>8, <1>9, <1>11, <1>12, <1>13
     DEF Next, Run, Call, Continue, Prepare, InStop

\* A loop that is stopped has been left, for a Stop() that found it running.
LEMMA StoppedIsClosed ==
  ASSUME TypeOK, IInv, HostInv, m_stopped, NEW s \in stopping, pc[s] # "stopTest"
  PROVE  Closed
<1>1. pc[Worker] \notin {"prepLock", "prepTest"}
  BY DEF HostInv
<1>2. pc[Worker] \in {"out", "closeDone"}
  BY <1>1 DEF TypeOK, IInv, StateInv, WorkerPCs, PreparePCs, LoopPCs, ClosePCs
<1>3. QED
  BY <1>2 DEF Closed

LEMMA ToldStep ==
  ASSUME TypeOK, IInv, HostInv, ToldInv, StopIsFinal, [Next]_vars
  PROVE  ToldInv' /\ StopIsFinal'
<1> USE ThreadsAssumption
    DEF TypeOK, ToldInv, StopIsFinal, Threads, Worker, WakeupPCs, WaitPCs, Closed,
        WillClose, Goto, SetState, loopVars, eventVars, lockVars, auxVars,
        SLEEPING, DONE, LAST_EXECUTION, NEED_EXECUTION
<1>0. m_stopped => \A s \in stopping : pc[s] # "stopTest" => Closed
  BY StoppedIsClosed
<1>23. CASE Start
  BY <1>23 DEF Start
<1>1. ASSUME NEW c \in Clients, Launch(c) PROVE ToldInv' /\ StopIsFinal'
  BY <1>1 DEF Launch
<1>2. ASSUME NEW c \in Clients, CallWakeup(c) \/ CallWait(c) \/ AllowSleep(c)
      PROVE  ToldInv' /\ StopIsFinal'
  BY <1>2 DEF CallWakeup, CallWait, AllowSleep
<1>3. ASSUME NEW c \in Clients, NEW block \in BOOLEAN, CallStop(c, block)
      PROVE  ToldInv' /\ StopIsFinal'
  BY <1>3 DEF CallStop
<1>4. ASSUME NEW c \in Clients, StopTest(c) PROVE ToldInv' /\ StopIsFinal'
  BY <1>4 DEF StopTest
<1>5. ASSUME NEW c \in Clients, StopShutdown(c) PROVE ToldInv' /\ StopIsFinal'
  BY <1>5 DEF StopShutdown
<1>6. ASSUME NEW c \in Clients, WakeupLoad(c) PROVE ToldInv' /\ StopIsFinal'
  BY <1>6 DEF WakeupLoad, AfterWakeup
<1>7. ASSUME NEW c \in Clients, WakeupExchange(c) PROVE ToldInv' /\ StopIsFinal'
  BY <1>7 DEF WakeupExchange, AfterWakeup
<1>8. ASSUME NEW c \in Clients, WakeupSet(c) PROVE ToldInv' /\ StopIsFinal'
  BY <1>8 DEF WakeupSet, AfterWakeup
<1>9. ASSUME NEW c \in Clients, FastStopped(c) PROVE ToldInv' /\ StopIsFinal'
  BY <1>0, <1>9 DEF FastStopped, Returned
<1>10. ASSUME NEW c \in Clients, FastState(c) PROVE ToldInv' /\ StopIsFinal'
  BY <1>10 DEF FastState, Returned
<1>11. ASSUME NEW c \in Clients, WaitLock(c) \/ WaitDone(c) \/ WaitMaySleep(c)
       PROVE  ToldInv' /\ StopIsFinal'
  BY <1>11 DEF WaitLock, WaitDone, WaitMaySleep
<1>12. ASSUME NEW c \in Clients, LoopStopped(c) PROVE ToldInv' /\ StopIsFinal'
  BY <1>0, <1>12 DEF LoopStopped
<1>13. ASSUME NEW c \in Clients, LoopState(c) PROVE ToldInv' /\ StopIsFinal'
  BY <1>13 DEF LoopState
<1>14. ASSUME NEW c \in Clients, WaitUnlock(c) PROVE ToldInv' /\ StopIsFinal'
  BY <1>14 DEF WaitUnlock, Returned
<1>15. ASSUME NEW t \in Threads, Prepare(t) PROVE ToldInv' /\ StopIsFinal'
  <2>1. stopping' = stopping /\ final' = final /\ callee' = callee
    BY <1>15 DEF Prepare, PrepareLock, PrepareTest, PrepareState, PrepareShutdown,
       PrepareMaySleep, PrepareUnlock
  <2>2. pc[t] \in PreparePCs
    BY <1>15 DEF Prepare, PrepareLock, PrepareTest, PrepareState, PrepareShutdown,
       PrepareMaySleep, PrepareUnlock, PreparePCs
  <2>3. \A u \in Threads \ {t} : pc'[u] = pc[u]
    BY <1>15 DEF Prepare, PrepareLock, PrepareTest, PrepareState, PrepareShutdown,
       PrepareMaySleep, PrepareUnlock
  <2>4. \A s \in stopping : s # t /\ pc'[s] = pc[s]
    BY <2>2, <2>3 DEF PreparePCs
  <2>5. Closed <=> Closed'
    <3>1. CASE t = Worker
      BY <2>2, <1>15, <3>1 DEF Prepare, PrepareLock, PrepareTest, PrepareState, PrepareShutdown,
         PrepareMaySleep, PrepareUnlock, PreparePCs
    <3>2. CASE t # Worker
      BY <2>3, <3>2
    <3>3. QED
      BY <3>1, <3>2
  <2>6. ASSUME NEW s \in stopping, pc[s] \notin {"stopTest", "stopShutdown"}
        PROVE  UNCHANGED <<m_running_state, m_shutdown>>
    <3>1. t = Worker
      BY <2>2 DEF HostInv
    <3>2. pc[t] \notin {"prepState", "prepShutdown"}
      BY <2>6, <3>1 DEF HostInv
    <3>3. QED
      BY <1>15, <3>2 DEF Prepare, PrepareLock, PrepareTest, PrepareState, PrepareShutdown,
         PrepareMaySleep, PrepareUnlock
  <2>7. pc[Worker] \in {"check", "closeState"} => pc'[Worker] = pc[Worker]
    BY <2>2, <2>3 DEF PreparePCs
  <2>8. QED
    BY <2>1, <2>4, <2>5, <2>6, <2>7
<1>16. CASE Check
  BY <1>16 DEF Check
<1>17. CASE PayloadBegin \/ PayloadEnd \/ Switch
  BY <1>17 DEF PayloadBegin, PayloadEnd, Switch
<1>18. CASE CaseNeed \/ CaseLast \/ Doze
  BY <1>18 DEF CaseNeed, CaseLast, Doze, IInv, StateInv
<1>19. CASE SetDone \/ CaseDone \/ Sleep
  BY <1>19 DEF SetDone, CaseDone, Sleep
<1>20. CASE CloseState \/ CloseStopped \/ CloseDone
  BY <1>20 DEF CloseState, CloseStopped, CloseDone
<1>21. CASE UNCHANGED vars
  BY <1>21 DEF vars
<1>22. QED
  BY <1>1, <1>2, <1>3, <1>4, <1>5, <1>6, <1>7, <1>8, <1>9, <1>10, <1>11, <1>12, <1>13,
     <1>14, <1>15, <1>16, <1>17, <1>18, <1>19, <1>20, <1>21, <1>23
     DEF Next, Run, Call, Continue, InWakeup, InWait, InStop

\* "By default, it will wait until the main loop quits" (BlockingLoop.h:164): after a Stop()
\* that waits, no payload runs until the next start, whoever else uses or stops the loop, unless
\* that Stop() set m_shutdown between the two steps of a Prepare().
THEOREM StopIsLast == Spec => []StopIsFinal
<1>1. Init => HostInv /\ ToldInv /\ StopIsFinal
  BY ThreadsAssumption DEF Init, HostInv, ToldInv, StopIsFinal, Threads, Worker, PreparePCs
<1>2. TypeOK /\ IInv /\ HostInv /\ ToldInv /\ StopIsFinal /\ [Next]_vars
        => HostInv' /\ ToldInv' /\ StopIsFinal'
  BY HostStep, ToldStep
<1>3. QED
  BY <1>1, <1>2, TypeAndInvariant, PTL DEF Spec
=============================================================================
