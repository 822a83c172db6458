------------------------------ MODULE CPUProof ------------------------------
(***************************************************************************)
(* LockMeansPaused and NoLostKick hold whatever the two threads do.        *)
(*                                                                         *)
(* Neither is inductive by itself: each follows from PauseHolds, that a    *)
(* CPU thread outside m_csCpuOccupied cannot change a state that the host  *)
(* has set to CPU_STEPPING, and from CallInv, which ties the host's place  *)
(* to the call it is in and a CPU thread that has returned to Stop().      *)
(***************************************************************************)
EXTENDS CPU, TLAPS

\* The host has stored CPU_STEPPING, for a pause or a lock, and not yet resumed.
HasPaused ==
  \/ host = "changeWait" /\ call \in {"pause", "lock"}
  \/ host \in {"reset", "lock", "locked"}

HasStopped == call = "stop" /\ host \in {"changeWait", "kick", "kicked", "stopped"}

PauseHolds == cpu \in {"start", "wait", "relock"} /\ HasPaused => state = "stepping"

CallInv ==
  /\ host \in {"store", "changeWait"} => call \in {"pause", "lock", "stop"}
  /\ host = "reset" => call = "pause"
  /\ host = "guestStep" => call = "run"
  /\ host \in {"lock", "locked", "unlock"} => call = "lock"
  /\ host \in {"kick", "kicked", "stopped"} => call = "stop"
  /\ cpu = "off" => host = "idle"
  /\ cpu = "exited" => HasStopped
  /\ state = "powerdown" => cpu = "off" \/ HasStopped

IInv == TypeOK /\ CallInv /\ PauseHolds /\ LockMeansPaused /\ NoLostKick

USE ThreadAssumption
    DEF stepEvent, change, cpuLocals, hostLocals, CpuGoto, HostGoto, Lock, Unlock, Threads,
        m_StepEvent!Goto, s_state_change!Goto

LEMMA TypeInit == Init => IInv
BY DEF Init, IInv, TypeOK, CallInv, PauseHolds, HasPaused, HasStopped, LockMeansPaused, NoLostKick,
       KickComing, CPUState, Inside, m_StepEvent!Init, s_state_change!Init, m_StepEvent!TypeOK,
       s_state_change!TypeOK, m_StepEvent!Phases, s_state_change!Phases

\* What a step does to the Events leaves their types alone.
LEMMA EventTypes ==
  ASSUME TypeOK, [Next]_vars PROVE (m_StepEvent!TypeOK /\ s_state_change!TypeOK)'
<1> USE DEF TypeOK, m_StepEvent!TypeOK, s_state_change!TypeOK, m_StepEvent!Phases,
            s_state_change!Phases, m_StepEvent!Set, m_StepEvent!Reset, m_StepEvent!Block,
            m_StepEvent!SeeSignal, m_StepEvent!TakeAtOnce, m_StepEvent!Return,
            s_state_change!Set, s_state_change!Block, s_state_change!SeeSignal,
            s_state_change!Expire, s_state_change!TakeAtOnce, s_state_change!Return,
            ChangeAwaited, ChangeWaitReturns
<1>1. CASE (\E paused \in BOOLEAN : Boot(paused)) \/ Run \/ CaseRunning \/ RunLoop \/ CaseStepping
           \/ CasePowerdown
  BY <1>1 DEF Boot, Run, CaseRunning, RunLoop, CaseStepping, CasePowerdown
<1>2. CASE WaitForStep
  BY <1>2 DEF WaitForStep
<1>3. CASE Relock \/ Recheck \/ LeaveCore \/ StepDone \/ Sync
  BY <1>3 DEF Relock, Recheck, LeaveCore, StepDone, Sync
<1>4. CASE BreakLoad \/ BreakStore \/ BreakEnd
  BY <1>4 DEF BreakLoad, BreakStore, BreakEnd
<1>5. CASE BreakWait
  BY <1>5 DEF BreakWait
<1>6. CASE WaitForCore
  BY <1>6 DEF WaitForCore
<1>7. CASE EnableStepping \/ PauseAndLock \/ Stop \/ StoreState \/ Resume \/ StepOpcode
  BY <1>7 DEF EnableStepping, PauseAndLock, Stop, Call, StoreState, Resume, StepOpcode
<1>8. CASE ResetStep \/ HostLock \/ Release \/ GuestStep \/ Start \/ StartKick \/ HostUnlock
  BY <1>8 DEF ResetStep, HostLock, Release, GuestStep, Start, StartKick, HostUnlock
<1>9. CASE Kick \/ Kicked \/ StepSync \/ Shutdown
  BY <1>9 DEF Kick, Kicked, StepSync, Shutdown
<1>10. CASE UNCHANGED vars
  BY <1>10 DEF vars
<1> QED
  BY <1>1, <1>2, <1>3, <1>4, <1>5, <1>6, <1>7, <1>8, <1>9, <1>10
     DEF Next, CpuContinues, HostContinues, BreakStep

LEMMA TypeStep ==
  ASSUME TypeOK, CallInv, [Next]_vars PROVE TypeOK'
<1>0. (m_StepEvent!TypeOK /\ s_state_change!TypeOK)'
  BY EventTypes
<1> USE DEF TypeOK, CPUState, Inside
<1>1. CASE \E paused \in BOOLEAN : Boot(paused)
  BY ZenonT(60), <1>0, <1>1 DEF Boot
<1>2. CASE Run
  BY <1>0, <1>2 DEF Run
<1>3. CASE CaseRunning
  BY <1>0, <1>3 DEF CaseRunning
<1>4. CASE RunLoop
  BY <1>0, <1>4 DEF RunLoop
<1>5. CASE CaseStepping
  BY <1>0, <1>5 DEF CaseStepping
<1>6. CASE CasePowerdown
  BY <1>0, <1>6 DEF CasePowerdown
<1>7. CASE WaitForStep
  <2>1. cpu = "wait" /\ cpu' \in {"wait", "relock"}
    BY <1>7 DEF WaitForStep
  <2>2. UNCHANGED <<state, m_csCpuOccupied, m_SyncEvent, change, old_state, single, hostLocals>>
    BY <1>7 DEF WaitForStep
  <2> QED
    BY <1>0, <2>1, <2>2
<1>8. CASE Relock
  BY <1>0, <1>8 DEF Relock
<1>9. CASE Recheck
  <2>1. CASE state = "powerdown"
    BY <1>0, <1>9, <2>1 DEF Recheck
  <2>2. CASE state = "running"
    BY <1>0, <1>9, <2>2 DEF Recheck
  <2>3. CASE state = "stepping"
    BY <1>0, <1>9, <2>3 DEF Recheck
  <2> QED
    BY <2>1, <2>2, <2>3
<1>10. CASE LeaveCore
  BY <1>0, <1>10 DEF LeaveCore, AfterCore
<1>11. CASE StepDone
  BY <1>0, <1>11 DEF StepDone
<1>12. CASE Sync
  BY ZenonT(60), <1>0, <1>12 DEF Sync
<1>13. CASE BreakLoad
  BY <1>0, <1>13 DEF BreakLoad
<1>14. CASE BreakStore
  BY <1>0, <1>14 DEF BreakStore
<1>15. CASE BreakWait
  BY <1>0, <1>15 DEF BreakWait
<1>16. CASE BreakEnd
  BY <1>0, <1>16 DEF BreakEnd
<1>17. CASE EnableStepping \/ PauseAndLock \/ Stop
  BY ZenonT(60), <1>0, <1>17 DEF EnableStepping, PauseAndLock, Stop, Call
<1>18. CASE StoreState
  BY <1>0, <1>18 DEF StoreState, AfterPause, CallInv
<1>19. CASE WaitForCore
  BY <1>0, <1>19 DEF WaitForCore, AfterPause, CallInv
<1>20. CASE Resume
  BY <1>0, <1>20 DEF Resume
<1>21. CASE StepOpcode
  BY <1>0, <1>21 DEF StepOpcode
<1>22. CASE GuestStep
  BY <1>0, <1>22 DEF GuestStep, CallInv
<1>23. CASE Start
  BY <1>0, <1>23 DEF Start
<1>24. CASE StartKick
  BY <1>0, <1>24 DEF StartKick
<1>25. CASE ResetStep
  BY <1>0, <1>25 DEF ResetStep
<1>26. CASE HostLock
  BY <1>0, <1>26 DEF HostLock, CallInv
<1>27. CASE Release
  BY <1>0, <1>27 DEF Release, CallInv
<1>28. CASE HostUnlock
  BY <1>0, <1>28 DEF HostUnlock, CallInv
<1>29. CASE Kick
  BY <1>0, <1>29 DEF Kick
<1>30. CASE Kicked
  BY <1>0, <1>30 DEF Kicked
<1>31. CASE StepSync
  BY <1>0, <1>31 DEF StepSync
<1>32. CASE Shutdown
  BY <1>0, <1>32 DEF Shutdown
<1>33. CASE UNCHANGED vars
  BY <1>0, <1>33 DEF vars
<1> QED
  BY <1>1, <1>2, <1>3, <1>4, <1>5, <1>6, <1>7, <1>8, <1>9, <1>10, <1>11, <1>12, <1>13,
     <1>14, <1>15, <1>16, <1>17, <1>18, <1>19, <1>20, <1>21, <1>22, <1>23, <1>24, <1>25,
     <1>26, <1>27, <1>28, <1>29, <1>30, <1>31, <1>32, <1>33
     DEF Next, CpuContinues, HostContinues, BreakStep

LEMMA CallStep ==
  ASSUME TypeOK, CallInv, [Next]_vars PROVE CallInv'
<1> USE DEF TypeOK, CPUState, CallInv, HasStopped
<1>1. CASE (\E paused \in BOOLEAN : Boot(paused)) \/ Run \/ CaseRunning \/ RunLoop \/ CaseStepping
           \/ CasePowerdown
  BY <1>1 DEF Boot, Run, CaseRunning, RunLoop, CaseStepping, CasePowerdown
<1>2. CASE WaitForStep \/ Relock \/ Recheck \/ LeaveCore \/ StepDone \/ Sync
  BY <1>2 DEF WaitForStep, Relock, Recheck, LeaveCore, StepDone, Sync, AfterCore
<1>3. CASE BreakLoad \/ BreakStore \/ BreakWait \/ BreakEnd
  BY <1>3 DEF BreakLoad, BreakStore, BreakWait, BreakEnd
<1>4. CASE EnableStepping \/ PauseAndLock \/ Stop
  BY <1>4 DEF EnableStepping, PauseAndLock, Stop, Call
<1>5. CASE StoreState \/ WaitForCore
  BY <1>5 DEF StoreState, WaitForCore, AfterPause
<1>6. CASE Resume \/ StepOpcode \/ GuestStep \/ Start \/ StartKick
  BY <1>6 DEF Resume, StepOpcode, GuestStep, Start, StartKick
<1>7. CASE ResetStep \/ HostLock \/ Release \/ HostUnlock
  BY <1>7 DEF ResetStep, HostLock, Release, HostUnlock
<1>8. CASE Kick \/ Kicked \/ StepSync \/ Shutdown
  BY <1>8 DEF Kick, Kicked, StepSync, Shutdown
<1>9. CASE UNCHANGED vars
  BY <1>9 DEF vars
<1> QED
  BY <1>1, <1>2, <1>3, <1>4, <1>5, <1>6, <1>7, <1>8, <1>9
     DEF Next, CpuContinues, HostContinues, BreakStep

\* The host stores CPU_STEPPING; until it resumes, the CPU thread can only overwrite that
\* inside the mutex.
LEMMA PauseStep ==
  ASSUME IInv, [Next]_vars PROVE PauseHolds' /\ LockMeansPaused'
<1> USE DEF IInv, TypeOK, CPUState, Inside, CallInv, HasStopped, PauseHolds, HasPaused,
            LockMeansPaused
<1>1. CASE (\E paused \in BOOLEAN : Boot(paused)) \/ Run \/ CaseRunning \/ RunLoop \/ CaseStepping
           \/ CasePowerdown
  BY <1>1 DEF Boot, Run, CaseRunning, RunLoop, CaseStepping, CasePowerdown
<1>2. CASE WaitForStep \/ Relock \/ Recheck \/ LeaveCore \/ StepDone \/ Sync
  BY ZenonT(90), <1>2 DEF WaitForStep, Relock, Recheck, LeaveCore, StepDone, Sync, AfterCore
<1>3. CASE BreakLoad \/ BreakStore \/ BreakWait \/ BreakEnd
  BY <1>3 DEF BreakLoad, BreakStore, BreakWait, BreakEnd
<1>4. CASE EnableStepping \/ PauseAndLock \/ Stop
  BY <1>4 DEF EnableStepping, PauseAndLock, Stop, Call
<1>5. CASE StoreState \/ WaitForCore
  BY <1>5 DEF StoreState, WaitForCore, AfterPause
<1>6. CASE Resume \/ StepOpcode \/ GuestStep \/ Start \/ StartKick
  BY <1>6 DEF Resume, StepOpcode, GuestStep, Start, StartKick
<1>7. CASE ResetStep \/ HostLock \/ Release \/ HostUnlock
  BY <1>7 DEF ResetStep, HostLock, Release, HostUnlock
<1>8. CASE Kick \/ Kicked \/ StepSync \/ Shutdown
  BY <1>8 DEF Kick, Kicked, StepSync, Shutdown
<1>9. CASE UNCHANGED vars
  BY <1>9 DEF vars
<1> QED
  BY <1>1, <1>2, <1>3, <1>4, <1>5, <1>6, <1>7, <1>8, <1>9
     DEF Next, CpuContinues, HostContinues, BreakStep

\* m_StepEvent is reset only by a CPU thread that does not wait for it, or while the state
\* is CPU_STEPPING; every other store to the state is followed by a Set().
LEMMA KickStep ==
  ASSUME IInv, [Next]_vars PROVE NoLostKick'
<1> USE DEF IInv, TypeOK, CPUState, CallInv, HasStopped, PauseHolds, HasPaused, NoLostKick,
            KickComing, m_StepEvent!TypeOK, m_StepEvent!Phases
<1>1. CASE (\E paused \in BOOLEAN : Boot(paused)) \/ Run \/ CaseRunning \/ RunLoop \/ CaseStepping
           \/ CasePowerdown
  BY <1>1 DEF Boot, Run, CaseRunning, RunLoop, CaseStepping, CasePowerdown
<1>2. CASE WaitForStep
  BY <1>2 DEF WaitForStep, m_StepEvent!Block, m_StepEvent!SeeSignal, m_StepEvent!TakeAtOnce,
              m_StepEvent!Return
<1>3. CASE Relock \/ Recheck \/ LeaveCore \/ StepDone \/ Sync
  BY <1>3 DEF Relock, Recheck, LeaveCore, StepDone, Sync, AfterCore
<1>4. CASE BreakLoad \/ BreakStore \/ BreakWait \/ BreakEnd
  BY <1>4 DEF BreakLoad, BreakStore, BreakWait, BreakEnd
<1>5. CASE EnableStepping \/ PauseAndLock \/ Stop
  BY <1>5 DEF EnableStepping, PauseAndLock, Stop, Call
<1>6. CASE StoreState \/ WaitForCore
  BY <1>6 DEF StoreState, WaitForCore, AfterPause
<1>7. CASE Resume \/ StepOpcode \/ GuestStep \/ Start \/ StartKick
  BY <1>7 DEF Resume, StepOpcode, GuestStep, Start, StartKick, m_StepEvent!Set
<1>8. CASE ResetStep \/ HostLock \/ Release \/ HostUnlock
  BY <1>8 DEF ResetStep, HostLock, Release, HostUnlock
<1>9. CASE Kick \/ Kicked \/ StepSync \/ Shutdown
  BY <1>9 DEF Kick, Kicked, StepSync, Shutdown, m_StepEvent!Set
<1>10. CASE UNCHANGED vars
  BY <1>10 DEF vars
<1> QED
  BY <1>1, <1>2, <1>3, <1>4, <1>5, <1>6, <1>7, <1>8, <1>9, <1>10
     DEF Next, CpuContinues, HostContinues, BreakStep

LEMMA Invariance == Spec => []IInv
<1>1. IInv /\ [Next]_vars => IInv'
  BY TypeStep, CallStep, PauseStep, KickStep DEF IInv
<1> QED
  BY TypeInit, <1>1, PTL DEF Spec

\* Every variable keeps its type, and each thread has m_csCpuOccupied exactly where the code
\* has locked it.
THEOREM TypeCorrect == Spec => []TypeOK
<1>1. IInv => TypeOK
  BY DEF IInv
<1> QED
  BY Invariance, <1>1, PTL

\* While the host is inside PauseAndLock() the processor is paused and stays so.
THEOREM LockIsExclusive == Spec => []LockMeansPaused
<1>1. IInv => LockMeansPaused
  BY DEF IInv
<1> QED
  BY Invariance, <1>1, PTL

\* A CPU thread that waits for a step although it should run or end has been woken, or is
\* about to be.
THEOREM KickArrives == Spec => []NoLostKick
<1>1. IInv => NoLostKick
  BY DEF IInv
<1> QED
  BY Invariance, <1>1, PTL
=============================================================================
