-------------------------------- MODULE CPU --------------------------------
(***************************************************************************)
(* The state of the emulated processor (Core/HW/CPU.cpp and the state part *)
(* of Core/PowerPC/PowerPC.cpp): the CPU thread executes the guest while   *)
(* `state' is CPU_RUNNING, waits for m_StepEvent while it is CPU_STEPPING  *)
(* and returns on CPU_POWERDOWN.  The host thread (the GUI) pauses,        *)
(* resumes, steps, locks and stops it; a breakpoint pauses it from inside. *)
(*                                                                         *)
(* `state' is a volatile variable that both threads read and write without *)
(* a lock, and every access is a step of its own.  The two Events are      *)
(* taken as their abstraction AutoResetEvent.  m_csCpuOccupied is held by  *)
(* the CPU thread except while it waits for a step.                        *)
(*                                                                         *)
(* Left out: what the guest executes, and the calls that pause the video   *)
(* FIFO and the audio buffer along with the processor.  The host acts on a *)
(* machine that has been booted (CORE_RUN or CORE_PAUSE at Core.cpp:490).  *)
(***************************************************************************)
CONSTANTS Cpu, Host, Nobody

ASSUME ThreadAssumption == Cpu # Host /\ Nobody \notin {Cpu, Host}

VARIABLES
  state,                      \* PowerPC::state
  m_csCpuOccupied,            \* the thread that holds the mutex, or Nobody
  m_SyncEvent,                \* somebody wants to know when the step is done
  stepSignal, stepPhase,      \* m_StepEvent
  changeSignal, changePhase,  \* s_state_change
  old_state,                  \* the local of Pause() and Stop() in each thread
  cpu,                        \* where the CPU thread is
  single,                     \* it is in the core through SingleStep()
  host,                       \* where the host thread is
  call,                       \* the call it is in
  wasUnpaused                 \* what PauseAndLock() returned

stepEvent == <<stepSignal, stepPhase>>
change == <<changeSignal, changePhase>>
cpuLocals == <<cpu, single>>
hostLocals == <<host, call, wasUnpaused>>
vars == <<state, m_csCpuOccupied, m_SyncEvent, stepEvent, change, old_state, cpuLocals,
          hostLocals>>

Threads == {Cpu, Host}

m_StepEvent == INSTANCE AutoResetEvent WITH
  Waiters <- {Cpu}, signal <- stepSignal, phase <- stepPhase

s_state_change == INSTANCE AutoResetEvent WITH
  Waiters <- Threads, signal <- changeSignal, phase <- changePhase

CPUState == {"running", "stepping", "powerdown"}

\* Where the CPU thread holds m_csCpuOccupied.
Inside == {"switch", "runLoop", "core", "breakStore", "breakWait", "breakEnd", "recheck",
           "sync"}

TypeOK ==
  /\ state \in CPUState
  /\ m_SyncEvent \in BOOLEAN /\ single \in BOOLEAN /\ wasUnpaused \in BOOLEAN
  /\ m_StepEvent!TypeOK /\ s_state_change!TypeOK
  /\ old_state \in [Threads -> CPUState]
  /\ cpu \in {"off", "start", "wait", "relock", "exited"} \cup Inside
  /\ host \in {"idle", "store", "changeWait", "reset", "lock", "locked", "guestStep", "start",
               "startKick", "unlock", "stepSync", "kick", "kicked", "stopped"}
  /\ call \in {"pause", "run", "lock", "step", "stop"}
  /\ m_csCpuOccupied \in {Cpu, Host, Nobody}
  /\ m_csCpuOccupied = Cpu <=> cpu \in Inside
  /\ m_csCpuOccupied = Host <=>
       host \in {"locked", "unlock"} \/ (host \in {"start", "startKick"} /\ call = "lock")

Init ==
  /\ state = "powerdown"
  /\ m_csCpuOccupied = Nobody
  /\ m_SyncEvent = FALSE
  /\ m_StepEvent!Init
  /\ s_state_change!Init
  /\ old_state = [t \in Threads |-> "powerdown"]
  /\ cpu = "off" /\ single = FALSE
  /\ host = "idle" /\ call = "stop" /\ wasUnpaused = FALSE

CpuGoto(from, to) == cpu = from /\ cpu' = to

HostGoto(from, to) == host = from /\ host' = to

Lock(t) == m_csCpuOccupied = Nobody /\ m_csCpuOccupied' = t

Unlock(t) == m_csCpuOccupied = t /\ m_csCpuOccupied' = Nobody

\* WaitFor() on s_state_change: waiting, and returning, for one reason or the other.
ChangeAwaited(t) ==
  \/ s_state_change!Block(t, TRUE)
  \/ s_state_change!SeeSignal(t)
  \/ s_state_change!Expire(t)

ChangeWaitReturns(t) == s_state_change!TakeAtOnce(t) \/ s_state_change!Return(t)

-----------------------------------------------------------------------------
(* The CPU thread. *)

\* PowerPC::Init(), CPU::Init() and the CORE_PAUSE or CORE_RUN that boot ends with.
Boot(paused) ==
  /\ CpuGoto("off", "start")
  /\ state' = IF paused THEN "stepping" ELSE "running"
  /\ m_SyncEvent' = FALSE
  /\ IF paused THEN m_StepEvent!Reset ELSE m_StepEvent!Set
  /\ UNCHANGED <<m_csCpuOccupied, change, old_state, single, hostLocals>>

Run ==
  /\ CpuGoto("start", "switch")
  /\ Lock(Cpu)
  /\ UNCHANGED <<state, m_SyncEvent, stepEvent, change, old_state, single, hostLocals>>

CaseRunning ==
  /\ state = "running"
  /\ CpuGoto("switch", "runLoop")
  /\ UNCHANGED <<state, m_csCpuOccupied, m_SyncEvent, stepEvent, change, old_state, single,
                 hostLocals>>

\* RunLoop() sets the state again, although the switch has just read it.
RunLoop ==
  /\ CpuGoto("runLoop", "core")
  /\ state' = "running"
  /\ single' = FALSE
  /\ UNCHANGED <<m_csCpuOccupied, m_SyncEvent, stepEvent, change, old_state, hostLocals>>

\* A mutant: waiting for a step with the mutex held.
CaseStepping_KeepLock ==
  /\ state = "stepping"
  /\ CpuGoto("switch", "wait")
  /\ UNCHANGED <<state, m_csCpuOccupied, m_SyncEvent, stepEvent, change, old_state, single,
                 hostLocals>>

CaseStepping ==
  /\ state = "stepping"
  /\ CpuGoto("switch", "wait")
  /\ Unlock(Cpu)
  /\ UNCHANGED <<state, m_SyncEvent, stepEvent, change, old_state, single, hostLocals>>

CasePowerdown ==
  /\ state = "powerdown"
  /\ CpuGoto("switch", "exited")
  /\ Unlock(Cpu)
  /\ UNCHANGED <<state, m_SyncEvent, stepEvent, change, old_state, single, hostLocals>>

WaitForStep ==
  /\ \/ cpu = "wait" /\ UNCHANGED cpu
        /\ (m_StepEvent!Block(Cpu, FALSE) \/ m_StepEvent!SeeSignal(Cpu))
     \/ CpuGoto("wait", "relock")
        /\ (m_StepEvent!TakeAtOnce(Cpu) \/ m_StepEvent!Return(Cpu))
  /\ UNCHANGED <<state, m_csCpuOccupied, m_SyncEvent, change, old_state, single, hostLocals>>

\* A mutant: not taking the mutex back.
Relock_NoLock ==
  /\ CpuGoto("relock", "recheck")
  /\ UNCHANGED <<state, m_csCpuOccupied, m_SyncEvent, stepEvent, change, old_state, single,
                 hostLocals>>

Relock ==
  /\ CpuGoto("relock", "recheck")
  /\ Lock(Cpu)
  /\ UNCHANGED <<state, m_SyncEvent, stepEvent, change, old_state, single, hostLocals>>

\* The event only says that something happened: the state tells what.
Recheck ==
  /\ \/ state = "powerdown" /\ CpuGoto("recheck", "exited") /\ Unlock(Cpu) /\ UNCHANGED single
     \/ state = "running" /\ CpuGoto("recheck", "switch") /\ UNCHANGED <<m_csCpuOccupied, single>>
     \/ state = "stepping" /\ CpuGoto("recheck", "core") /\ single' = TRUE
        /\ UNCHANGED m_csCpuOccupied
  /\ UNCHANGED <<state, m_SyncEvent, stepEvent, change, old_state, hostLocals>>

AfterCore == IF single THEN "sync" ELSE "switch"

\* The loop of a core looks at the state at the end of a slice.  A single step of the
\* recompiler is this loop too.
LeaveCore ==
  /\ state # "running"
  /\ CpuGoto("core", AfterCore)
  /\ s_state_change!Set
  /\ UNCHANGED <<state, m_csCpuOccupied, m_SyncEvent, stepEvent, old_state, single, hostLocals>>

\* A single step of an interpreter returns without FinishStateMove().
StepDone ==
  /\ single
  /\ CpuGoto("core", "sync")
  /\ UNCHANGED <<state, m_csCpuOccupied, m_SyncEvent, stepEvent, change, old_state, single,
                 hostLocals>>

Sync ==
  /\ CpuGoto("sync", "switch")
  /\ m_SyncEvent' = FALSE
  /\ UNCHANGED <<state, m_csCpuOccupied, stepEvent, change, old_state, single, hostLocals>>

\* A breakpoint, a memory check or HBReload() calls PowerPC::Pause() on the CPU thread,
\* most of them through CPU::Break().
BreakLoad ==
  /\ CpuGoto("core", "breakStore")
  /\ old_state' = [old_state EXCEPT ![Cpu] = state]
  /\ UNCHANGED <<state, m_csCpuOccupied, m_SyncEvent, stepEvent, change, single, hostLocals>>

BreakStore ==
  /\ CpuGoto("breakStore", IF old_state[Cpu] = "running" THEN "breakWait" ELSE "breakEnd")
  /\ state' = "stepping"
  /\ UNCHANGED <<m_csCpuOccupied, m_SyncEvent, stepEvent, change, old_state, single, hostLocals>>

\* The thread waits for itself to leave the core, for a second.
BreakWait ==
  /\ \/ cpu = "breakWait" /\ UNCHANGED cpu /\ ChangeAwaited(Cpu)
     \/ CpuGoto("breakWait", "breakEnd") /\ ChangeWaitReturns(Cpu)
  /\ UNCHANGED <<state, m_csCpuOccupied, m_SyncEvent, stepEvent, old_state, single, hostLocals>>

\* Break() resets m_StepEvent; the interpreter's loop then returns without FinishStateMove().
BreakEnd ==
  /\ \/ CpuGoto("breakEnd", "core") /\ UNCHANGED stepEvent
     \/ CpuGoto("breakEnd", "core") /\ m_StepEvent!Reset
     \/ ~single /\ CpuGoto("breakEnd", "switch") /\ m_StepEvent!Reset
  /\ UNCHANGED <<state, m_csCpuOccupied, m_SyncEvent, change, old_state, single, hostLocals>>

-----------------------------------------------------------------------------
(* The host thread. *)

\* Pause() and Stop() load the state; PauseAndLock() has asked for it just before.
Call(which) ==
  /\ cpu # "off"
  /\ HostGoto("idle", "store")
  /\ call' = which
  /\ old_state' = [old_state EXCEPT ![Host] = state]
  /\ wasUnpaused' = (which = "lock" /\ state # "stepping")
  /\ UNCHANGED <<state, m_csCpuOccupied, m_SyncEvent, stepEvent, change, cpuLocals>>

EnableStepping == Call("pause")

PauseAndLock == Call("lock")

Stop == Call("stop")

AfterPause ==
  IF call = "pause" THEN "reset" ELSE IF call = "lock" THEN "lock" ELSE "kick"

StoreState ==
  /\ HostGoto("store", IF old_state[Host] = "running" THEN "changeWait" ELSE AfterPause)
  /\ state' = IF call = "stop" THEN "powerdown" ELSE "stepping"
  /\ UNCHANGED <<m_csCpuOccupied, m_SyncEvent, stepEvent, change, old_state, cpuLocals, call,
                 wasUnpaused>>

WaitForCore ==
  /\ \/ host = "changeWait" /\ UNCHANGED host /\ ChangeAwaited(Host)
     \/ HostGoto("changeWait", AfterPause) /\ ChangeWaitReturns(Host)
  /\ UNCHANGED <<state, m_csCpuOccupied, m_SyncEvent, stepEvent, old_state, cpuLocals, call,
                 wasUnpaused>>

ResetStep ==
  /\ HostGoto("reset", "idle")
  /\ m_StepEvent!Reset
  /\ UNCHANGED <<state, m_csCpuOccupied, m_SyncEvent, change, old_state, cpuLocals, call,
                 wasUnpaused>>

HostLock ==
  /\ HostGoto("lock", "locked")
  /\ Lock(Host)
  /\ UNCHANGED <<state, m_SyncEvent, stepEvent, change, old_state, cpuLocals, call, wasUnpaused>>

\* PauseAndLock(false, unpause) with what PauseAndLock(true) returned.
Release ==
  /\ HostGoto("locked", IF wasUnpaused THEN "start" ELSE "unlock")
  /\ UNCHANGED <<state, m_csCpuOccupied, m_SyncEvent, stepEvent, change, old_state, cpuLocals,
                 call, wasUnpaused>>

\* EnableStepping(false) starts with a step on the host's thread if there may be a
\* breakpoint where the guest stands.
Resume ==
  /\ cpu # "off"
  /\ \/ HostGoto("idle", "guestStep") \/ HostGoto("idle", "start")
  /\ call' = "run"
  /\ UNCHANGED <<state, m_csCpuOccupied, m_SyncEvent, stepEvent, change, old_state, cpuLocals,
                 wasUnpaused>>

GuestStep ==
  /\ HostGoto("guestStep", "start")
  /\ UNCHANGED <<state, m_csCpuOccupied, m_SyncEvent, stepEvent, change, old_state, cpuLocals,
                 call, wasUnpaused>>

Start ==
  /\ HostGoto("start", "startKick")
  /\ state' = "running"
  /\ UNCHANGED <<m_csCpuOccupied, m_SyncEvent, stepEvent, change, old_state, cpuLocals, call,
                 wasUnpaused>>

StartKick ==
  /\ HostGoto("startKick", IF call = "lock" THEN "unlock" ELSE "idle")
  /\ m_StepEvent!Set
  /\ UNCHANGED <<state, m_csCpuOccupied, m_SyncEvent, change, old_state, cpuLocals, call,
                 wasUnpaused>>

HostUnlock ==
  /\ HostGoto("unlock", "idle")
  /\ Unlock(Host)
  /\ UNCHANGED <<state, m_SyncEvent, stepEvent, change, old_state, cpuLocals, call, wasUnpaused>>

\* A mutant: waking the thread only if it is stepping, the condition of the next line.
Kick_IfStepping ==
  /\ HostGoto("kick", "kicked")
  /\ stepSignal' = (stepSignal \/ state = "stepping")
  /\ UNCHANGED <<stepPhase, state, m_csCpuOccupied, m_SyncEvent, change, old_state, cpuLocals,
                 call, wasUnpaused>>

\* Core::Stop() wakes the thread with StepOpcode(): the event first ...
Kick ==
  /\ HostGoto("kick", "kicked")
  /\ m_StepEvent!Set
  /\ UNCHANGED <<state, m_csCpuOccupied, m_SyncEvent, change, old_state, cpuLocals, call,
                 wasUnpaused>>

\* ... then m_SyncEvent = nullptr.
Kicked ==
  /\ HostGoto("kicked", "stopped")
  /\ m_SyncEvent' = (m_SyncEvent /\ state # "stepping")
  /\ UNCHANGED <<state, m_csCpuOccupied, stepEvent, change, old_state, cpuLocals, call,
                 wasUnpaused>>

\* The debugger steps a processor that IsStepping(), and wants to know when it has.
StepOpcode ==
  /\ cpu # "off"
  /\ state = "stepping"
  /\ HostGoto("idle", "stepSync")
  /\ call' = "step"
  /\ m_StepEvent!Set
  /\ UNCHANGED <<state, m_csCpuOccupied, m_SyncEvent, change, old_state, cpuLocals, wasUnpaused>>

StepSync ==
  /\ HostGoto("stepSync", "idle")
  /\ m_SyncEvent' = (m_SyncEvent \/ state = "stepping")
  /\ UNCHANGED <<state, m_csCpuOccupied, stepEvent, change, old_state, cpuLocals, call,
                 wasUnpaused>>

\* The emulation thread joins the CPU thread and shuts the hardware down, and the host
\* joins the emulation thread.
Shutdown ==
  /\ HostGoto("stopped", "idle")
  /\ CpuGoto("exited", "off")
  /\ state' = "powerdown"
  /\ m_SyncEvent' = FALSE
  /\ UNCHANGED <<m_csCpuOccupied, stepEvent, change, old_state, single, call, wasUnpaused>>

-----------------------------------------------------------------------------

BreakStep == BreakStore \/ BreakWait \/ BreakEnd

CpuContinues ==
  \/ Run \/ CaseRunning \/ RunLoop \/ CaseStepping \/ CasePowerdown
  \/ WaitForStep \/ Relock \/ Recheck \/ LeaveCore \/ Sync \/ BreakStep

HostContinues ==
  \/ StoreState \/ WaitForCore \/ ResetStep \/ HostLock \/ Release \/ GuestStep \/ Start
  \/ StartKick \/ HostUnlock \/ Kick \/ Kicked \/ StepSync \/ Shutdown

Next ==
  \/ \E paused \in BOOLEAN : Boot(paused)
  \/ CpuContinues \/ StepDone \/ BreakLoad
  \/ EnableStepping \/ PauseAndLock \/ Stop \/ Resume \/ StepOpcode
  \/ HostContinues

Spec == Init /\ [][Next]_vars

\* Both threads run and a second passes.  A slice of the guest ends, however many
\* breakpoints it hits.  Nobody has to boot, to press a key or to hit a breakpoint.
Fairness == WF_vars(CpuContinues) /\ SF_vars(LeaveCore) /\ WF_vars(HostContinues)

FairSpec == Spec /\ Fairness

-----------------------------------------------------------------------------
(* Properties. *)

\* PauseAndLock() has "a lock on that state", "paused and fully idle" (CPU.h:41-43): while
\* the host is inside, the state is CPU_STEPPING and stays so, and the CPU thread is
\* outside the core, whatever raced with the pause before.
LockMeansPaused ==
  host = "locked" => state = "stepping" /\ cpu \in {"start", "wait", "relock"}

\* The host has changed the state and is on its way to m_StepEvent.Set().
KickComing ==
  \/ state = "running" /\ host = "startKick"
  \/ state = "powerdown" /\ call = "stop" /\ host \in {"changeWait", "kick"}

\* A CPU thread that waits for a step while the state says otherwise has been woken, or is
\* about to be (CPU.cpp:53-63, 135-136, 170-171, Core.cpp:269-272): no Reset() of a pause or
\* of a breakpoint takes the signal of a later start or stop away.
NoLostKick ==
  cpu = "wait" /\ state # "stepping" =>
    stepSignal \/ stepPhase[Cpu] = "released" \/ KickComing

\* What the host asks for happens, unless somebody overwrites the state before (CPU.cpp:60,
\* 77, 135, 154-171): a thread told to power down returns, a guest that is started runs, and
\* a host that locks gets the mutex: no wait for a step and no lock swallows the request.
HostIsServed ==
  /\ state = "powerdown" /\ cpu \notin {"off", "exited"} ~> cpu = "exited" \/ state # "powerdown"
  /\ state = "running" ~> cpu = "core" \/ state # "running"
  /\ host = "lock" /\ state = "stepping" ~> host = "locked" \/ state # "stepping"

\* "Stop the CPU" (Core.cpp:267), "Causes shutdown" (CPU.h:23): after Core::Stop() the CPU
\* thread returns, so that it can be joined.
StopReturns == host = "stopped" ~> cpu = "exited"
=============================================================================
