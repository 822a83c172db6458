---------------------------- MODULE BlockingLoop ----------------------------
(***************************************************************************)
(* Common::BlockingLoop (Common/BlockingLoop.h): a worker thread runs a    *)
(* payload again whenever another thread has called Wakeup(), and sleeps   *)
(* when there is nothing to do.  The GPU thread is such a loop.            *)
(*                                                                         *)
(* Each step is one access to an atomic, an event or a mutex.  The events  *)
(* are those of AutoResetEvent reduced to their signal: each has one       *)
(* waiter and is never Reset(), so that seeing the signal and clearing it  *)
(* may be taken together, and so may a timeout and the clear that follows  *)
(* it (which discards a signal raised in between).                         *)
(***************************************************************************)
EXTENDS Integers

CONSTANTS
  Clients,     \* the threads that use the loop
  Users,       \* those that call Wakeup(), Wait() and AllowSleep()
  Hosts,       \* those that start it on a new thread, and prepare it beside that thread
  Stoppers,    \* those that call Stop()
  Nobody,      \* no thread holds the lock
  HasTimeout   \* whether Run() was given a timeout

Worker == "worker"

ASSUME ThreadsAssumption ==
  /\ Users \subseteq Clients
  /\ Hosts \subseteq Clients
  /\ Stoppers \subseteq Clients
  /\ Worker \notin Clients
  /\ Nobody \notin Clients \cup {Worker}
  /\ HasTimeout \in BOOLEAN

VARIABLES
  m_running_state,  \* one of the four states below
  m_stopped, m_shutdown, m_may_sleep,   \* flags
  m_new_work_event, m_done_event,       \* signals of the events
  m_wait_lock, m_prepare_lock,          \* the thread that holds the mutex
  pc,               \* where each thread is
  callee,           \* what a client does when its Wakeup() returns: it was called
                    \* by itself ("return"), or by a Stop() that waits or does not
  owed,             \* auxiliary: the payload run a client's last Wakeup() asked for
  stopping,         \* auxiliary: who called the blocking Stop() since the last start, and
                    \* did not run into it
  final             \* auxiliary: one of these calls has returned

loopVars == <<m_running_state, m_stopped, m_shutdown, m_may_sleep>>
eventVars == <<m_new_work_event, m_done_event>>
lockVars == <<m_wait_lock, m_prepare_lock>>
auxVars == <<callee, owed, stopping, final>>
vars == <<loopVars, eventVars, lockVars, pc, auxVars>>

SLEEPING == 0
DONE == 1
LAST_EXECUTION == 2
NEED_EXECUTION == 3

Threads == Clients \cup {Worker}

PreparePCs == {"prepLock", "prepTest", "prepState", "prepShutdown", "prepMaySleep",
               "prepUnlock"}

LoopPCs == {"check", "begin", "payload", "switch", "need", "last", "setDone",
            "done", "doze", "sleep"}

ClosePCs == {"closeState", "closeStopped", "closeDone"}

WorkerPCs == {"out"} \cup PreparePCs \cup LoopPCs \cup ClosePCs

WakeupPCs == {"wakeLoad", "wakeExchange", "wakeSet"}

WaitPCs == {"fastStopped", "fastState", "waitLock", "loopStopped", "loopState",
            "waitDone", "waitMaySleep", "waitUnlock"}

ClientPCs == {"idle", "stopTest", "stopShutdown"}
               \cup WakeupPCs \cup WaitPCs \cup PreparePCs

TypeOK ==
  /\ m_running_state \in SLEEPING .. NEED_EXECUTION
  /\ m_stopped \in BOOLEAN /\ m_shutdown \in BOOLEAN /\ m_may_sleep \in BOOLEAN
  /\ m_new_work_event \in BOOLEAN /\ m_done_event \in BOOLEAN
  /\ m_wait_lock \in Clients \cup {Nobody}
  /\ m_prepare_lock \in Threads \cup {Nobody}
  /\ pc \in [Threads -> WorkerPCs \cup ClientPCs]
  /\ pc[Worker] \in WorkerPCs
  /\ \A c \in Clients : pc[c] \in ClientPCs
  /\ callee \in [Clients -> {"return", "stop", "stopAndWait"}]
  /\ owed \in [Clients -> {"nothing", "aRun", "thisRun"}]
  /\ stopping \subseteq Stoppers
  /\ final \in BOOLEAN

\* The constructor sets m_stopped and leaves m_running_state as it finds it.
Init ==
  /\ m_running_state \in SLEEPING .. NEED_EXECUTION
  /\ m_stopped = TRUE
  /\ m_shutdown = FALSE
  /\ m_may_sleep = FALSE
  /\ m_new_work_event = FALSE
  /\ m_done_event = FALSE
  /\ m_wait_lock = Nobody
  /\ m_prepare_lock = Nobody
  /\ pc = [t \in Threads |-> IF t = Worker THEN "out" ELSE "idle"]
  /\ callee = [c \in Clients |-> "return"]
  /\ owed = [c \in Clients |-> "nothing"]
  /\ stopping = {}
  /\ final = FALSE

Goto(t, from, to) == pc[t] = from /\ pc' = [pc EXCEPT ![t] = to]

SetState(s) ==
  m_running_state' = s /\ UNCHANGED <<m_stopped, m_shutdown, m_may_sleep>>

-----------------------------------------------------------------------------
(* Mutants: slips that the properties at the end detect, not part of Next.     *)

AfterWakeup(c) == IF callee[c] = "stopAndWait" THEN "fastStopped" ELSE "idle"

\* Never raising the event.
WakeupExchange_NoEvent(c) ==
  /\ Goto(c, "wakeExchange", AfterWakeup(c))
  /\ SetState(NEED_EXECUTION)
  /\ UNCHANGED <<eventVars, lockVars, auxVars>>

\* Preparing a loop that is prepared already.
PrepareTest_Always(t) ==
  /\ Goto(t, "prepTest", "prepState")
  /\ m_stopped' = FALSE
  /\ UNCHANGED <<m_running_state, m_shutdown, m_may_sleep, eventVars, lockVars, auxVars>>

\* Ignoring that the state was touched.
CaseLast_NoBreak ==
  /\ Goto(Worker, "last", "setDone")
  /\ SetState(m_running_state - 1)
  /\ UNCHANGED <<eventVars, lockVars, auxVars>>

\* Finishing without telling those that wait.
CaseLast_NoSignal ==
  /\ Goto(Worker, "last", IF m_running_state # LAST_EXECUTION THEN "check" ELSE "done")
  /\ SetState(m_running_state - 1)
  /\ UNCHANGED <<eventVars, lockVars, auxVars>>

\* Storing the sleeping state whatever the old one was.
Doze_Store ==
  /\ Goto(Worker, "doze", "sleep")
  /\ SetState(SLEEPING)
  /\ UNCHANGED <<eventVars, lockVars, auxVars>>

-----------------------------------------------------------------------------
(* Wakeup() *)

\* A client has made new data available and calls Wakeup().
CallWakeup(c) ==
  /\ c \in Users
  /\ Goto(c, "idle", "wakeLoad")
  /\ callee' = [callee EXCEPT ![c] = "return"]
  /\ owed' = [owed EXCEPT ![c] = "aRun"]
  /\ UNCHANGED <<loopVars, eventVars, lockVars, stopping, final>>

WakeupLoad(c) ==
  /\ Goto(c, "wakeLoad", IF m_running_state >= NEED_EXECUTION
                         THEN AfterWakeup(c) ELSE "wakeExchange")
  /\ UNCHANGED <<loopVars, eventVars, lockVars, auxVars>>

WakeupExchange(c) ==
  /\ Goto(c, "wakeExchange", IF m_running_state # SLEEPING
                             THEN AfterWakeup(c) ELSE "wakeSet")
  /\ SetState(NEED_EXECUTION)
  /\ UNCHANGED <<eventVars, lockVars, auxVars>>

WakeupSet(c) ==
  /\ Goto(c, "wakeSet", AfterWakeup(c))
  /\ m_new_work_event' = TRUE
  /\ UNCHANGED <<loopVars, m_done_event, lockVars, auxVars>>

-----------------------------------------------------------------------------
(* Wait() and IsDone(), which is two loads *)

CallWait(c) ==
  /\ c \in Users
  /\ Goto(c, "idle", "fastStopped")
  /\ callee' = [callee EXCEPT ![c] = "return"]
  /\ UNCHANGED <<loopVars, eventVars, lockVars, owed, stopping, final>>

\* The blocking Stop() returns with its Wait().
Returned(c) ==
  /\ final' = (final \/ c \in stopping)
  /\ stopping' = stopping \ {c}

FastStopped(c) ==
  /\ Goto(c, "fastStopped", IF m_stopped THEN "idle" ELSE "fastState")
  /\ IF m_stopped THEN Returned(c) ELSE UNCHANGED <<stopping, final>>
  /\ UNCHANGED <<loopVars, eventVars, lockVars, callee, owed>>

FastState(c) ==
  /\ Goto(c, "fastState", IF m_running_state <= DONE THEN "idle" ELSE "waitLock")
  /\ IF m_running_state <= DONE THEN Returned(c) ELSE UNCHANGED <<stopping, final>>
  /\ UNCHANGED <<loopVars, eventVars, lockVars, callee, owed>>

WaitLock(c) ==
  /\ Goto(c, "waitLock", "loopStopped")
  /\ m_wait_lock = Nobody
  /\ m_wait_lock' = c
  /\ UNCHANGED <<loopVars, eventVars, m_prepare_lock, auxVars>>

LoopStopped(c) ==
  /\ Goto(c, "loopStopped", IF m_stopped THEN "waitMaySleep" ELSE "loopState")
  /\ UNCHANGED <<loopVars, eventVars, lockVars, auxVars>>

LoopState(c) ==
  /\ Goto(c, "loopState", IF m_running_state <= DONE THEN "waitMaySleep"
                                                     ELSE "waitDone")
  /\ UNCHANGED <<loopVars, eventVars, lockVars, auxVars>>

WaitDone(c) ==
  /\ Goto(c, "waitDone", "loopStopped")
  /\ m_done_event
  /\ m_done_event' = FALSE
  /\ UNCHANGED <<loopVars, m_new_work_event, lockVars, auxVars>>

WaitMaySleep(c) ==
  /\ Goto(c, "waitMaySleep", "waitUnlock")
  /\ m_may_sleep' = TRUE
  /\ UNCHANGED <<m_running_state, m_stopped, m_shutdown, eventVars, lockVars, auxVars>>

WaitUnlock(c) ==
  /\ Goto(c, "waitUnlock", "idle")
  /\ m_wait_lock = c
  /\ m_wait_lock' = Nobody
  /\ Returned(c)
  /\ UNCHANGED <<loopVars, eventVars, m_prepare_lock, callee, owed>>

-----------------------------------------------------------------------------
(* Stop() and AllowSleep() *)

\* A thread that stops the loop knows that its host has prepared it.
CallStop(c, block) ==
  /\ c \in Stoppers
  /\ \A h \in Hosts \ {c} : pc[h] \notin PreparePCs
  /\ Goto(c, "idle", "stopTest")
  /\ callee' = [callee EXCEPT ![c] = IF block THEN "stopAndWait" ELSE "stop"]
  /\ stopping' = IF block THEN stopping \cup {c} ELSE stopping
  /\ UNCHANGED <<loopVars, eventVars, lockVars, owed, final>>

\* A Stop() that finds the loop stopped does nothing, and promises nothing.
StopTest(c) ==
  /\ Goto(c, "stopTest", IF m_stopped THEN "idle" ELSE "stopShutdown")
  /\ stopping' = IF m_stopped THEN stopping \ {c} ELSE stopping
  /\ UNCHANGED <<loopVars, eventVars, lockVars, callee, owed, final>>

\* A thread has cleared m_stopped and not yet m_shutdown, which nothing keeps from being set
\* in between.
Starting == \E t \in Threads : pc[t] \in {"prepState", "prepShutdown"}

\* What a Stop() does to a loop that is being started is undone by Prepare(), and promises
\* nothing.
StopShutdown(c) ==
  /\ Goto(c, "stopShutdown", "wakeLoad")
  /\ m_shutdown' = TRUE
  /\ stopping' = IF Starting THEN stopping \ {c} ELSE stopping
  /\ UNCHANGED <<m_running_state, m_stopped, m_may_sleep, eventVars, lockVars>>
  /\ UNCHANGED <<callee, owed, final>>

AllowSleep(c) ==
  /\ c \in Users
  /\ pc[c] = "idle"
  /\ m_may_sleep' = TRUE
  /\ UNCHANGED <<m_running_state, m_stopped, m_shutdown, eventVars, lockVars, pc, auxVars>>

-----------------------------------------------------------------------------
(* Prepare(), called by a host and by Run() itself *)

\* The emulator: the thread that becomes the worker calls Prepare() (in Fifo::Init()) and later
\* Run(), whose own Prepare() then does nothing.
Start ==
  /\ Goto(Worker, "out", "prepLock")
  /\ stopping' = {}
  /\ final' = FALSE
  /\ UNCHANGED <<loopVars, eventVars, lockVars, callee, owed>>

\* The unit test: a host starts a thread that calls Run(), once the previous one has left it
\* and nobody is in Stop(), and calls Prepare() beside it.
Launch(h) ==
  /\ h \in Hosts
  /\ pc[h] = "idle" /\ pc[Worker] = "out"
  /\ \A c \in Clients : pc[c] # "idle" => callee[c] = "return"
  /\ pc' = [pc EXCEPT ![h] = "prepLock", ![Worker] = "prepLock"]
  /\ stopping' = {}
  /\ final' = FALSE
  /\ UNCHANGED <<loopVars, eventVars, lockVars, callee, owed>>

PrepareLock(t) ==
  /\ Goto(t, "prepLock", "prepTest")
  /\ m_prepare_lock = Nobody
  /\ m_prepare_lock' = t
  /\ UNCHANGED <<loopVars, eventVars, m_wait_lock, auxVars>>

\* m_stopped.TestAndClear(): only the first caller prepares the loop.
PrepareTest(t) ==
  /\ Goto(t, "prepTest", IF m_stopped THEN "prepState" ELSE "prepUnlock")
  /\ m_stopped' = FALSE
  /\ UNCHANGED <<m_running_state, m_shutdown, m_may_sleep, eventVars, lockVars, auxVars>>

PrepareState(t) ==
  /\ Goto(t, "prepState", "prepShutdown")
  /\ SetState(LAST_EXECUTION)
  /\ UNCHANGED <<eventVars, lockVars, auxVars>>

PrepareShutdown(t) ==
  /\ Goto(t, "prepShutdown", "prepMaySleep")
  /\ m_shutdown' = FALSE
  /\ UNCHANGED <<m_running_state, m_stopped, m_may_sleep, eventVars, lockVars, auxVars>>

PrepareMaySleep(t) ==
  /\ Goto(t, "prepMaySleep", "prepUnlock")
  /\ m_may_sleep' = TRUE
  /\ UNCHANGED <<m_running_state, m_stopped, m_shutdown, eventVars, lockVars, auxVars>>

PrepareUnlock(t) ==
  /\ Goto(t, "prepUnlock", IF t = Worker THEN "check" ELSE "idle")
  /\ m_prepare_lock = t
  /\ m_prepare_lock' = Nobody
  /\ UNCHANGED <<loopVars, eventVars, m_wait_lock, auxVars>>

Prepare(t) ==
  \/ PrepareLock(t) \/ PrepareTest(t) \/ PrepareState(t)
  \/ PrepareShutdown(t) \/ PrepareMaySleep(t) \/ PrepareUnlock(t)

-----------------------------------------------------------------------------
(* Run(), after its Prepare() *)

Check ==
  /\ Goto(Worker, "check", IF m_shutdown THEN "closeState" ELSE "begin")
  /\ UNCHANGED <<loopVars, eventVars, lockVars, auxVars>>

\* The payload sees the data made available before it began.
PayloadBegin ==
  /\ Goto(Worker, "begin", "payload")
  /\ owed' = [c \in Clients |-> IF owed[c] = "aRun" THEN "thisRun" ELSE owed[c]]
  /\ UNCHANGED <<loopVars, eventVars, lockVars, callee, stopping, final>>

PayloadEnd ==
  /\ Goto(Worker, "payload", "switch")
  /\ owed' = [c \in Clients |-> IF owed[c] = "thisRun" THEN "nothing" ELSE owed[c]]
  /\ UNCHANGED <<loopVars, eventVars, lockVars, callee, stopping, final>>

\* switch (m_running_state.load())
Switch ==
  /\ Goto(Worker, "switch", IF m_running_state = NEED_EXECUTION THEN "need"
                            ELSE IF m_running_state = LAST_EXECUTION THEN "last"
                            ELSE IF m_running_state = DONE THEN "done" ELSE "sleep")
  /\ UNCHANGED <<loopVars, eventVars, lockVars, auxVars>>

CaseNeed ==
  /\ Goto(Worker, "need", "check")
  /\ SetState(m_running_state - 1)
  /\ UNCHANGED <<eventVars, lockVars, auxVars>>

\* m_running_state-- returns the old state: a Wakeup() may have touched it.
CaseLast ==
  /\ Goto(Worker, "last", IF m_running_state # LAST_EXECUTION THEN "check" ELSE "setDone")
  /\ SetState(m_running_state - 1)
  /\ UNCHANGED <<eventVars, lockVars, auxVars>>

SetDone ==
  /\ Goto(Worker, "setDone", "done")
  /\ m_done_event' = TRUE
  /\ UNCHANGED <<loopVars, m_new_work_event, lockVars, auxVars>>

\* m_may_sleep.TestAndClear(), or another round of the busy loop.
CaseDone ==
  /\ Goto(Worker, "done", IF m_may_sleep THEN "doze" ELSE "check")
  /\ m_may_sleep' = FALSE
  /\ UNCHANGED <<m_running_state, m_stopped, m_shutdown, eventVars, lockVars, auxVars>>

Doze ==
  /\ Goto(Worker, "doze", IF m_running_state # DONE THEN "check" ELSE "sleep")
  /\ SetState(m_running_state - 1)
  /\ UNCHANGED <<eventVars, lockVars, auxVars>>

\* m_new_work_event.Wait(), or WaitFor() when there is a timeout.
Sleep ==
  /\ Goto(Worker, "sleep", "check")
  /\ m_new_work_event \/ HasTimeout
  /\ m_new_work_event' = FALSE
  /\ UNCHANGED <<loopVars, m_done_event, lockVars, auxVars>>

\* Leaving the loop drops what was still asked for.
CloseState ==
  /\ Goto(Worker, "closeState", "closeStopped")
  /\ SetState(DONE)
  /\ owed' = [c \in Clients |-> "nothing"]
  /\ UNCHANGED <<eventVars, lockVars, callee, stopping, final>>

CloseStopped ==
  /\ Goto(Worker, "closeStopped", "closeDone")
  /\ m_stopped' = TRUE
  /\ UNCHANGED <<m_running_state, m_shutdown, m_may_sleep, eventVars, lockVars, auxVars>>

CloseDone ==
  /\ Goto(Worker, "closeDone", "out")
  /\ m_done_event' = TRUE
  /\ UNCHANGED <<loopVars, m_new_work_event, lockVars, auxVars>>

Run ==
  \/ Prepare(Worker)
  \/ Check \/ PayloadBegin \/ PayloadEnd \/ Switch
  \/ CaseNeed \/ CaseLast \/ SetDone \/ CaseDone \/ Doze \/ Sleep
  \/ CloseState \/ CloseStopped \/ CloseDone

-----------------------------------------------------------------------------

\* A client inside a call.
InWakeup(c) == WakeupLoad(c) \/ WakeupExchange(c) \/ WakeupSet(c)

InWait(c) ==
  \/ FastStopped(c) \/ FastState(c) \/ WaitLock(c) \/ LoopStopped(c)
  \/ LoopState(c) \/ WaitDone(c) \/ WaitMaySleep(c) \/ WaitUnlock(c)

InStop(c) == StopTest(c) \/ StopShutdown(c)

Continue(c) == InWakeup(c) \/ InWait(c) \/ InStop(c) \/ Prepare(c)

\* A client begins a call.
Call(c) ==
  \/ CallWakeup(c) \/ CallWait(c) \/ AllowSleep(c) \/ Launch(c)
  \/ \E block \in BOOLEAN : CallStop(c, block)

Next == Start \/ Run \/ \E c \in Clients : Call(c) \/ Continue(c)

Spec == Init /\ [][Next]_vars

\* Threads inside a call and the worker keep running; payloads end.  Nobody has to
\* call anything, and no timeout has to come to the rescue of a lost wakeup.
Fairness ==
  /\ WF_vars((pc[Worker] = "sleep" => m_new_work_event) /\ Run)
  /\ \A c \in Clients : WF_vars(Continue(c))

FairSpec == Spec /\ Fairness

-----------------------------------------------------------------------------
(* Properties *)

\* "Wait for a complete payload run after the last Wakeup() call" (BlockingLoop.h:52):
\* when a Wait() finds the state done, what its own thread asked for has been run from
\* beginning to end, unless the loop was left meanwhile.
WaitMeansDone ==
  \A c \in Clients :
    pc[c] \in {"fastState", "loopState"} /\ m_running_state <= DONE => owed[c] = "nothing"

\* "Triggers to rerun the payload at least once again" (BlockingLoop.h:34): the worker
\* never sleeps on work that was asked for by a Wakeup() that has returned, or on a
\* state that says there is work, without the signal or a thread about to raise it.
NoLostWakeup ==
  (pc[Worker] = "sleep" /\ ~m_new_work_event)
    => \/ \E c \in Clients : pc[c] = "wakeSet"
       \/ /\ m_running_state = SLEEPING
          /\ \A c \in Clients : owed[c] = "nothing" \/ pc[c] \in {"wakeLoad", "wakeExchange"}

\* "Quits the main loop.  By default, it will wait until the main loop quits"
\* (BlockingLoop.h:164): no payload runs after a blocking Stop(), by whatever thread, until the
\* next start, unless that Stop() set m_shutdown between the two steps of a Prepare() on another
\* thread (lines 85 and 88).
StopIsFinal == final => pc[Worker] \in {"out", "closeStopped", "closeDone"}

\* A request made while the loop runs is served by a payload that begins after it, or
\* the loop is left (BlockingLoop.h:34).
WakeupIsServed ==
  \A c \in Clients :
    owed[c] = "aRun" /\ pc[Worker] # "out"
      ~> (owed[c] # "aRun" \/ pc[Worker] = "out")

\* The calls that wait return: a started loop that is told to stop ends, and so does the Stop()
\* (BlockingLoop.h:164); "Wait() may block forever while Wakeup() is called regularly" (line 20),
\* and also while the loop is stopped and started again regularly, but only then.
CallsReturn ==
  /\ \A c \in Stoppers : c \in stopping ~> c \notin stopping
  /\ <>[][~Start /\ \A c \in Clients : ~CallWakeup(c) /\ ~Launch(c)]_vars
       => \A c \in Clients : pc[c] \in WaitPCs ~> pc[c] = "idle"

\* Where a thread has cleared m_stopped and not yet stored the state of the loop.
Opening == \E t \in Threads : pc[t] = "prepState"

\* The payload lasts until the state is lowered.
LoopPhase ==
  IF m_stopped THEN "closed"
  ELSE IF Opening THEN "opening"
  ELSE IF pc[Worker] \in {"begin", "payload", "switch", "need", "last"} THEN "payload"
  ELSE IF pc[Worker] = "closeStopped" THEN "closing" ELSE "between"

AbstractState ==
  IF m_running_state = NEED_EXECUTION THEN "need"
  ELSE IF m_running_state = LAST_EXECUTION THEN "last" ELSE "done"

Contract == INSTANCE PayloadLoop WITH
  state <- AbstractState, phase <- LoopPhase, shutdown <- m_shutdown

\* The loop does what its users are promised (PayloadLoop): in particular the state falls
\* from "need" to "done" only over two ends of a payload, or one that began after the last
\* Wakeup() and a failed attempt to sleep (BlockingLoop.h:106-153).
ImplementsContract == Contract!Spec
=============================================================================
