----------------------------- MODULE FifoProof ------------------------------
(***************************************************************************)
(* The safety of the handshakes around the FIFO, whatever the sizes, the   *)
(* distances, the costs and the settings are: TypeOK, NoLostSync,          *)
(* SyncGoesOn, OneInterruptOnItsWay, LockMeansIdle, NoStrandedWork and     *)
(* InterruptSettles.                                                       *)
(*                                                                         *)
(* None is inductive by itself.  RoomInv keeps the bursts between 0 and    *)
(* Capacity, across the handlers that run between a test and its use;      *)
(* TicksInv follows the bound on s_sync_ticks through SyncGPUCallback();   *)
(* LockInv follows a lock from the stored s_emu_running_state over the     *)
(* Wakeup() to a loop that is done, which means that the last payload has  *)
(* seen it.  WorkInv and SettleInv say that whoever changes what there is  *)
(* to do, or what the interrupt should be, is inside a handler that ends   *)
(* with RunGpu(), so that a payload is due that looks again.               *)
(***************************************************************************)
EXTENDS Fifo, TLAPS

\* The guest has seen room for a burst, the payload has seen one.
RoomInv ==
  /\ \/ cpu \in {"test", "set", "fifoEvents", "burst"}
     \/ cpu \in {"irqClear", "irqRunGpu"} /\ back = "burst"
     => CPReadWriteDistance < Capacity
  /\ gpu \in {"sync", "run"} => CPReadWriteDistance > 0

LoopInv ==
  /\ loopPhase = "payload" <=> gpu # "out"
  /\ loopPhase # "opening"

WithinReach(ticks) == \E late \in Lateness : ticks <= MaxDistance + late

UpdatePCs == {"isDone", "idleTest", "idleAdd", "idleRunGpu", "add", "addRunGpu", "maxTest",
              "waitTest", "wait", "updateEnd"}

\* The cycles until the next check take the CPU to MaxDistance at most, unless the GPU was
\* found idle, which takes it no further than MaxDistance beyond a distance of 0.
TicksInv ==
  /\ cpu \notin UpdatePCs =>
       /\ scheduled
       /\ WithinReach(s_sync_ticks)
       /\ next <= MaxDistance \/ s_sync_ticks + next <= MaxDistance
  /\ cpu \in {"isDone", "idleTest"} =>
       /\ WithinReach(s_sync_ticks)
       /\ WithinReach(next) \/ WithinReach(s_sync_ticks + next)
  /\ cpu = "idleAdd" => s_sync_ticks < 0 /\ WithinReach(s_sync_ticks + next)
  /\ cpu = "idleRunGpu" => WithinReach(s_sync_ticks)
  /\ cpu = "updateEnd" => s_sync_ticks < MaxDistance
  /\ gpu = "exchange" => s_sync_ticks > 0

InterruptInv == OneInterruptOnItsWay /\ (gpu = "raise" => ~s_interrupt_waiting)

LockInv ==
  /\ host \in {"lock", "lockFifo", "lockWake", "lockFlush", "locked"} => state = "stepping"
  /\ HostHasLock => cpu = "paused"
  /\ host \in {"lockWake", "lockFlush", "locked"} => ~s_emu_running_state
  /\ host = "lockFlush" => gpu \in {"out", "end"} \/ m_running_state = "need"
  /\ host = "locked" => gpu \in {"out", "end"}

IInv ==
  TypeOK /\ RoomInv /\ LoopInv /\ TicksInv /\ NoLostSync /\ InterruptInv /\ LockInv

USE FifoAssumption
    DEF syncEvent, loop, watermarks, registers, interruptVars, cpuLocals, gpuLocals, hostLocals,
        gpuShared, hostShared, CpuGoto, GpuGoto, HostGoto, s_sync_wakeup_event!Goto

LEMMA Start == Init => IInv
<1> SUFFICES ASSUME Init PROVE IInv
  OBVIOUS
<1> USE DEF Init, s_sync_wakeup_event!Init
<1>1. TypeOK
  <2>1. m_CPCtrlReg \in Ctrl /\ bFF \in Ctrl
    BY DEF Ctrl
  <2>2. interrupts \in Seq(BOOLEAN) /\ CPReadWriteDistance \in 0 .. Capacity
    OBVIOUS
  <2>3. s_sync_wakeup_event!TypeOK /\ s_gpu_mainloop!TypeOK
    BY DEF s_sync_wakeup_event!TypeOK, s_sync_wakeup_event!Phases, s_gpu_mainloop!TypeOK,
           s_gpu_mainloop!States, s_gpu_mainloop!Phases
  <2>4. /\ s_emu_running_state \in BOOLEAN /\ bFF_HiWatermark \in BOOLEAN
        /\ bFF_LoWatermark \in BOOLEAN /\ s_interrupt_set \in BOOLEAN
        /\ s_interrupt_waiting \in BOOLEAN /\ cpuInterrupt \in BOOLEAN
        /\ scheduled \in BOOLEAN /\ gpuInterrupt \in BOOLEAN /\ inLoop \in BOOLEAN
        /\ wasUnpaused \in BOOLEAN
    OBVIOUS
  <2>5. /\ state \in {"running", "stepping", "powerdown"} /\ s_sync_ticks \in Int
        /\ back \in {"guest", "burst"} /\ next \in Nat
    OBVIOUS
  <2>6. cpu \in CpuPCs /\ gpu \in GpuPCs /\ host \in HostPCs
    BY DEF CpuPCs, GpuPCs, HostPCs
  <2> QED
    BY <2>1, <2>2, <2>3, <2>4, <2>5, <2>6 DEF TypeOK
<1>2. RoomInv /\ LoopInv /\ NoLostSync /\ LockInv
  BY DEF RoomInv, LoopInv, NoLostSync, LockInv, HostHasLock
<1>3. InterruptInv
  BY DEF InterruptInv, OneInterruptOnItsWay
<1>4. TicksInv
  <2>1. PICK late \in Lateness : late \in Nat
    OBVIOUS
  <2> QED
    BY <2>1 DEF TicksInv, WithinReach, UpdatePCs
<1> QED
  BY <1>1, <1>2, <1>3, <1>4 DEF IInv

-----------------------------------------------------------------------------
(* The actions by what they leave alone. *)

\* Neither the Event nor the loop is touched by most of the CPU thread's steps.
CpuLocal ==
  \/ GatherPipeBursted \/ StatusFromCPU \/ SetFromCPU \/ Advance \/ ProcessFifoEvents
  \/ NoFifoEvents \/ ClearWaiting \/ LinkedBurst \/ UnlinkedBurst \/ FlushGpu \/ WriteControl
  \/ SetCpControlRegister \/ LeaveGuest \/ CpuRun

CpuWakes == BurstRunGpu \/ IrqRunGpu \/ AddRunGpu

CpuSync ==
  \/ SyncGPUCallback \/ Update_IsDone \/ IdleTest \/ IdleAdd \/ IdleRunGpu \/ Add
  \/ MaxTest \/ WaitTest \/ WaitForGpu \/ UpdateEnd

GpuChecks ==
  \/ SetCPStatusFromGPU \/ StatusTest \/ Raise \/ UpdateInterruptsFromVideoBackend \/ Guard
  \/ SyncTest \/ Execute

GpuTicks == Subtract \/ SubtractSet \/ Drain \/ Exchange \/ DrainSet

GpuLoop == Enter \/ Finish \/ BetweenPayloads

Host == Pause \/ Resume \/ PauseAndLock \/ Stop \/ HostContinues

LEMMA NextSplits ==
  [Next]_vars =>
    \/ CpuLocal \/ CpuWakes \/ CpuSync \/ GpuChecks \/ GpuTicks \/ GpuLoop \/ Host
    \/ UNCHANGED vars
BY DEF Next, CpuContinues, Gpu, Payload, CpuLocal, CpuWakes, CpuSync, GpuChecks, GpuTicks,
       GpuLoop, Host

-----------------------------------------------------------------------------
(* Types, and the room in the FIFO. *)

\* What a step does to the Event and to the loop leaves their types alone.
LEMMA ContractTypes ==
  ASSUME TypeOK, [Next]_vars
  PROVE  s_sync_wakeup_event!TypeOK' /\ s_gpu_mainloop!TypeOK'
<1> USE DEF TypeOK, s_sync_wakeup_event!TypeOK, s_sync_wakeup_event!Phases,
            s_gpu_mainloop!TypeOK, s_gpu_mainloop!States, s_gpu_mainloop!Phases
<1>1. CASE CpuLocal
  BY <1>1 DEF CpuLocal, GatherPipeBursted, StatusFromCPU, SetFromCPU, Advance, ProcessFifoEvents,
              UpdateInterrupts, NoFifoEvents, ClearWaiting, LinkedBurst, UnlinkedBurst, FlushGpu,
              WriteControl, SetCpControlRegister, StoreFlags, LeaveGuest, CpuRun
<1>2. CASE CpuWakes
  BY <1>2 DEF CpuWakes, BurstRunGpu, IrqRunGpu, AddRunGpu, RunGpu, s_gpu_mainloop!Wakeup
<1>3. CASE WaitForGpu
  BY <1>3 DEF WaitForGpu, s_sync_wakeup_event!Block, s_sync_wakeup_event!SeeSignal,
              s_sync_wakeup_event!TakeAtOnce, s_sync_wakeup_event!Return
<1>4. CASE CpuSync /\ ~WaitForGpu
  BY <1>4 DEF CpuSync, SyncGPUCallback, Update_IsDone, IdleTest, IdleAdd, IdleRunGpu, Add,
              MaxTest, WaitTest, UpdateEnd, s_gpu_mainloop!Wakeup
<1>5. CASE GpuChecks
  BY <1>5 DEF GpuChecks, SetCPStatusFromGPU, StatusTest, Raise, UpdateInterruptsFromVideoBackend,
              Guard, SyncTest, Execute
<1>6. CASE GpuTicks
  BY <1>6 DEF GpuTicks, Subtract, SubtractSet, Drain, Exchange, DrainSet, SignalSync,
              s_sync_wakeup_event!Set
<1>7. CASE GpuLoop
  BY <1>7 DEF GpuLoop, Enter, Finish, BetweenPayloads, s_gpu_mainloop!Enter,
              s_gpu_mainloop!Finish, s_gpu_mainloop!Lower, s_gpu_mainloop!Doze,
              s_gpu_mainloop!Leave, s_gpu_mainloop!Close
<1>8. CASE Host
  BY ZenonT(60), <1>8 DEF Host, Pause, Resume, PauseAndLock, Stop, HostCall, HostContinues, PauseDone,
              EmulatorState, StoreRunning, HostWakeup, TakeLock, HostFlush, Unlock, Powerdown,
              ExitShutdown, s_gpu_mainloop!Wakeup, s_gpu_mainloop!Stop
<1>9. CASE UNCHANGED vars
  BY <1>9 DEF vars
<1> QED
  BY NextSplits, <1>1, <1>2, <1>3, <1>4, <1>5, <1>6, <1>7, <1>8, <1>9

LEMMA RoomStep ==
  ASSUME TypeOK, RoomInv, [Next]_vars
  PROVE  RoomInv' /\ (CPReadWriteDistance \in 0 .. Capacity)'
<1> USE DEF TypeOK, RoomInv
<1>1. CASE CpuLocal
  BY <1>1 DEF CpuLocal, GatherPipeBursted, StatusFromCPU, SetFromCPU, Advance, ProcessFifoEvents,
              UpdateInterrupts, NoFifoEvents, ClearWaiting, LinkedBurst, UnlinkedBurst, FlushGpu,
              WriteControl, SetCpControlRegister, StoreFlags, LeaveGuest, CpuRun
<1>2. CASE CpuWakes
  BY <1>2 DEF CpuWakes, BurstRunGpu, IrqRunGpu, AddRunGpu, RunGpu
<1>3. CASE CpuSync
  BY <1>3 DEF CpuSync, SyncGPUCallback, Update_IsDone, IdleTest, IdleAdd, IdleRunGpu, Add,
              MaxTest, WaitTest, UpdateEnd, WaitForGpu
<1>4. CASE GpuChecks
  BY <1>4 DEF GpuChecks, SetCPStatusFromGPU, StatusTest, AfterStatus, Raise,
              UpdateInterruptsFromVideoBackend, Guard, CanRead, SyncTest, Execute
<1>5. CASE GpuTicks
  BY <1>5 DEF GpuTicks, Subtract, SubtractSet, Drain, Exchange, DrainSet, SignalSync
<1>6. CASE GpuLoop
  BY <1>6 DEF GpuLoop, Enter, Finish, BetweenPayloads
<1>7. CASE Host
  BY <1>7 DEF Host, Pause, Resume, PauseAndLock, Stop, HostCall, HostContinues, PauseDone,
              EmulatorState, StoreRunning, HostWakeup, TakeLock, HostFlush, Unlock, Powerdown,
              ExitShutdown
<1>8. CASE UNCHANGED vars
  BY <1>8 DEF vars
<1> QED
  BY NextSplits, <1>1, <1>2, <1>3, <1>4, <1>5, <1>6, <1>7, <1>8

LEMMA RegisterTypes == ASSUME TypeOK, [Next]_vars PROVE (m_CPCtrlReg \in Ctrl /\ bFF \in Ctrl)'
<1> USE DEF TypeOK
<1>0. CASE SetCpControlRegister
  BY <1>0 DEF SetCpControlRegister, StoreFlags, Ctrl
<1>1. CASE CpuLocal /\ ~SetCpControlRegister
  BY <1>1 DEF CpuLocal, GatherPipeBursted, StatusFromCPU, SetFromCPU, Advance, ProcessFifoEvents,
              UpdateInterrupts, NoFifoEvents, ClearWaiting, LinkedBurst, UnlinkedBurst, FlushGpu,
              WriteControl, LeaveGuest, CpuRun
<1>2. CASE CpuWakes \/ CpuSync
  BY <1>2 DEF CpuWakes, BurstRunGpu, IrqRunGpu, AddRunGpu, RunGpu, CpuSync, SyncGPUCallback,
              Update_IsDone, IdleTest, IdleAdd, IdleRunGpu, Add, MaxTest, WaitTest, UpdateEnd,
              WaitForGpu
<1>3. CASE GpuChecks \/ GpuTicks \/ GpuLoop
  BY <1>3 DEF GpuChecks, SetCPStatusFromGPU, StatusTest, Raise, UpdateInterruptsFromVideoBackend,
              Guard, SyncTest, Execute, GpuTicks, Subtract, SubtractSet, Drain, Exchange,
              DrainSet, SignalSync, GpuLoop, Enter, Finish, BetweenPayloads
<1>4. CASE Powerdown
  BY <1>4 DEF Powerdown, Ctrl
<1>5. CASE Host /\ ~Powerdown
  BY <1>5 DEF Host, Pause, Resume, PauseAndLock, Stop, HostCall, HostContinues, PauseDone,
              EmulatorState, StoreRunning, HostWakeup, TakeLock, HostFlush, Unlock, ExitShutdown
<1>6. CASE UNCHANGED vars
  BY <1>6 DEF vars
<1> QED
  BY NextSplits, <1>0, <1>1, <1>2, <1>3, <1>4, <1>5, <1>6

\* What the watermarks ask for is a truth value, and so are the watermarks.
LEMMA InterruptTypes ==
  ASSUME TypeOK PROVE InterruptOf(bFF_HiWatermark, bFF_LoWatermark) \in BOOLEAN
BY DEF TypeOK, Ctrl, InterruptOf

LEMMA FlagTypes ==
  ASSUME TypeOK, [Next]_vars
  PROVE  /\ (s_emu_running_state \in BOOLEAN /\ scheduled \in BOOLEAN)'
         /\ (inLoop \in BOOLEAN /\ wasUnpaused \in BOOLEAN)'
<1> USE DEF TypeOK
<1>1. CASE CpuLocal
  BY <1>1 DEF CpuLocal, GatherPipeBursted, StatusFromCPU, SetFromCPU, Advance, ProcessFifoEvents,
              UpdateInterrupts, NoFifoEvents, ClearWaiting, LinkedBurst, UnlinkedBurst, FlushGpu,
              WriteControl, SetCpControlRegister, StoreFlags, LeaveGuest, CpuRun
<1>2. CASE CpuWakes
  BY <1>2 DEF CpuWakes, BurstRunGpu, IrqRunGpu, AddRunGpu, RunGpu
<1>3. CASE CpuSync
  <2>1. CASE SyncGPUCallback \/ Update_IsDone \/ Add \/ MaxTest \/ WaitTest
    BY <2>1 DEF SyncGPUCallback, Update_IsDone, Add, MaxTest, WaitTest
  <2>2. CASE IdleTest \/ IdleAdd \/ IdleRunGpu \/ UpdateEnd
    <3>1. UNCHANGED <<s_emu_running_state, inLoop, wasUnpaused>>
      BY <2>2 DEF IdleTest, IdleAdd, IdleRunGpu, UpdateEnd
    <3>2. scheduled' = scheduled \/ scheduled' = TRUE \/ scheduled' = FALSE
      BY <2>2 DEF IdleTest, IdleAdd, IdleRunGpu, UpdateEnd, ScheduleSync
    <3>3. scheduled' \in BOOLEAN
      BY <3>2
    <3> QED
      BY <3>1, <3>3
  <2>3. CASE WaitForGpu
    BY <2>3 DEF WaitForGpu
  <2> QED
    BY <1>3, <2>1, <2>2, <2>3 DEF CpuSync
<1>4. CASE GpuChecks
  BY <1>4 DEF GpuChecks, SetCPStatusFromGPU, StatusTest, AfterStatus, Raise,
              UpdateInterruptsFromVideoBackend, Guard, SyncTest, Execute
<1>5. CASE GpuTicks
  BY <1>5 DEF GpuTicks, Subtract, SubtractSet, Drain, Exchange, DrainSet, SignalSync
<1>6. CASE GpuLoop
  BY <1>6 DEF GpuLoop, Enter, Finish, BetweenPayloads
<1>7. CASE Host
  BY <1>7 DEF Host, Pause, Resume, PauseAndLock, Stop, HostCall, HostContinues, PauseDone,
              EmulatorState, StoreRunning, HostWakeup, TakeLock, HostFlush, Unlock, Powerdown,
              ExitShutdown
<1>8. CASE UNCHANGED vars
  BY <1>8 DEF vars
<1> QED
  BY NextSplits, <1>1, <1>2, <1>3, <1>4, <1>5, <1>6, <1>7, <1>8

LEMMA AppendTypes ==
  \A s \in Seq(BOOLEAN), b \in BOOLEAN : Append(s, b) \in Seq(BOOLEAN)
OBVIOUS

LEMMA InterruptFlagTypes ==
  ASSUME TypeOK, [Next]_vars
  PROVE  /\ (bFF_HiWatermark \in BOOLEAN /\ bFF_LoWatermark \in BOOLEAN)'
         /\ (s_interrupt_set \in BOOLEAN /\ s_interrupt_waiting \in BOOLEAN)'
         /\ (cpuInterrupt \in BOOLEAN /\ gpuInterrupt \in BOOLEAN)'
         /\ (interrupts \in Seq(BOOLEAN))'
<1>a. InterruptOf(bFF_HiWatermark, bFF_LoWatermark) \in BOOLEAN
  BY InterruptTypes
<1> USE DEF TypeOK
<1>1. CASE CpuLocal
  <2>1. CASE GatherPipeBursted
    BY <2>1 DEF GatherPipeBursted, SetWatermarks
  <2>2. CASE StatusFromCPU
    BY <1>a, <2>2 DEF StatusFromCPU
  <2>3. CASE SetFromCPU \/ ClearWaiting
    BY <2>3 DEF SetFromCPU, ClearWaiting
  <2>4. CASE Advance \/ ProcessFifoEvents
    BY <2>4 DEF Advance, ProcessFifoEvents, UpdateInterrupts
  <2>5. CASE NoFifoEvents \/ LinkedBurst \/ UnlinkedBurst \/ FlushGpu
    BY <2>5 DEF NoFifoEvents, LinkedBurst, UnlinkedBurst, FlushGpu
  <2>6. CASE WriteControl \/ SetCpControlRegister \/ LeaveGuest \/ CpuRun
    BY <2>6 DEF WriteControl, SetCpControlRegister, StoreFlags, LeaveGuest, CpuRun
  <2> QED
    BY <1>1, <2>1, <2>2, <2>3, <2>4, <2>5, <2>6 DEF CpuLocal
<1>2. CASE CpuWakes
  BY <1>2 DEF CpuWakes, BurstRunGpu, IrqRunGpu, AddRunGpu, RunGpu
<1>3. CASE CpuSync
  <2>1. CASE SyncGPUCallback \/ Update_IsDone \/ Add \/ MaxTest \/ WaitTest
    BY <2>1 DEF SyncGPUCallback, Update_IsDone, Add, MaxTest, WaitTest
  <2>2. CASE IdleTest \/ IdleAdd \/ IdleRunGpu \/ UpdateEnd
    BY <2>2 DEF IdleTest, IdleAdd, IdleRunGpu, UpdateEnd, ScheduleSync
  <2>3. CASE WaitForGpu
    BY <2>3 DEF WaitForGpu
  <2> QED
    BY <1>3, <2>1, <2>2, <2>3 DEF CpuSync
<1>4. CASE GpuChecks
  <2>1. CASE SetCPStatusFromGPU
    BY <2>1 DEF SetCPStatusFromGPU, SetWatermarks
  <2>2. CASE StatusTest
    BY <1>a, <2>2 DEF StatusTest
  <2>3. CASE Raise
    BY <2>3 DEF Raise
  <2>4. CASE UpdateInterruptsFromVideoBackend
    <3>1. interrupts' = Append(interrupts, gpuInterrupt) /\ gpuInterrupt' = FALSE
      BY <2>4 DEF UpdateInterruptsFromVideoBackend
    <3>2. UNCHANGED <<watermarks, s_interrupt_set, s_interrupt_waiting, cpuInterrupt>>
      BY <2>4 DEF UpdateInterruptsFromVideoBackend
    <3>3. interrupts' \in Seq(BOOLEAN) /\ gpuInterrupt' \in BOOLEAN
      BY <3>1, AppendTypes
    <3> QED
      BY <3>2, <3>3
  <2>5. CASE Guard \/ SyncTest \/ Execute
    BY <2>5 DEF Guard, SyncTest, Execute
  <2> QED
    BY <1>4, <2>1, <2>2, <2>3, <2>4, <2>5 DEF GpuChecks
<1>5. CASE GpuTicks
  BY <1>5 DEF GpuTicks, Subtract, SubtractSet, Drain, Exchange, DrainSet, SignalSync
<1>6. CASE GpuLoop
  BY <1>6 DEF GpuLoop, Enter, Finish, BetweenPayloads
<1>7. CASE Host
  BY <1>7 DEF Host, Pause, Resume, PauseAndLock, Stop, HostCall, HostContinues, PauseDone,
              EmulatorState, StoreRunning, HostWakeup, TakeLock, HostFlush, Unlock, Powerdown,
              ExitShutdown
<1>8. CASE UNCHANGED vars
  BY <1>8 DEF vars
<1> QED
  BY NextSplits, <1>1, <1>2, <1>3, <1>4, <1>5, <1>6, <1>7, <1>8

LEMMA PlaceTypes ==
  ASSUME TypeOK, [Next]_vars
  PROVE  (cpu \in CpuPCs /\ gpu \in GpuPCs /\ host \in HostPCs /\ back \in {"guest", "burst"})'
<1> USE DEF TypeOK, CpuPCs, GpuPCs, HostPCs
<1>1. CASE CpuLocal
  BY <1>1 DEF CpuLocal, GatherPipeBursted, StatusFromCPU, SetFromCPU, Advance, ProcessFifoEvents,
              UpdateInterrupts, NoFifoEvents, ClearWaiting, LinkedBurst, UnlinkedBurst, FlushGpu,
              WriteControl, SetCpControlRegister, StoreFlags, LeaveGuest, CpuRun
<1>2. CASE CpuWakes
  BY <1>2 DEF CpuWakes, BurstRunGpu, IrqRunGpu, AddRunGpu, RunGpu
<1>3. CASE CpuSync
  <2>1. CASE SyncGPUCallback \/ Update_IsDone \/ Add \/ MaxTest \/ WaitTest
    BY <2>1 DEF SyncGPUCallback, Update_IsDone, Add, MaxTest, WaitTest
  <2>2. CASE IdleTest \/ IdleAdd \/ IdleRunGpu \/ UpdateEnd
    BY <2>2 DEF IdleTest, IdleAdd, IdleRunGpu, UpdateEnd, ScheduleSync
  <2>3. CASE WaitForGpu
    BY ZenonT(60), <2>3 DEF WaitForGpu
  <2> QED
    BY <1>3, <2>1, <2>2, <2>3 DEF CpuSync
<1>4. CASE GpuChecks
  BY <1>4 DEF GpuChecks, SetCPStatusFromGPU, StatusTest, AfterStatus, Raise,
              UpdateInterruptsFromVideoBackend, Guard, SyncTest, Execute
<1>5. CASE GpuTicks
  BY <1>5 DEF GpuTicks, Subtract, SubtractSet, Drain, Exchange, DrainSet, SignalSync
<1>6. CASE GpuLoop
  BY <1>6 DEF GpuLoop, Enter, Finish, BetweenPayloads
<1>7. CASE Host
  BY <1>7 DEF Host, Pause, Resume, PauseAndLock, Stop, HostCall, HostContinues, PauseDone,
              EmulatorState, StoreRunning, HostWakeup, TakeLock, HostFlush, Unlock, Powerdown,
              ExitShutdown
<1>8. CASE UNCHANGED vars
  BY <1>8 DEF vars
<1> QED
  BY NextSplits, <1>1, <1>2, <1>3, <1>4, <1>5, <1>6, <1>7, <1>8

LEMMA TickTypes ==
  ASSUME TypeOK, [Next]_vars
  PROVE  /\ (state \in {"running", "stepping", "powerdown"})'
         /\ (s_sync_ticks \in Int /\ next \in Nat)'
<1> USE DEF TypeOK
<1>1. CASE CpuLocal
  BY <1>1 DEF CpuLocal, GatherPipeBursted, StatusFromCPU, SetFromCPU, Advance, ProcessFifoEvents,
              UpdateInterrupts, NoFifoEvents, ClearWaiting, LinkedBurst, UnlinkedBurst, FlushGpu,
              WriteControl, SetCpControlRegister, StoreFlags, LeaveGuest, CpuRun
<1>2. CASE CpuWakes
  BY <1>2 DEF CpuWakes, BurstRunGpu, IrqRunGpu, AddRunGpu, RunGpu
<1>3. CASE CpuSync
  <2>1. CASE SyncGPUCallback \/ Update_IsDone \/ Add \/ MaxTest \/ WaitTest
    BY <2>1 DEF SyncGPUCallback, Update_IsDone, Add, MaxTest, WaitTest
  <2>2. CASE IdleTest \/ IdleAdd \/ IdleRunGpu \/ UpdateEnd
    BY <2>2 DEF IdleTest, IdleAdd, IdleRunGpu, UpdateEnd, ScheduleSync
  <2>3. CASE WaitForGpu
    BY <2>3 DEF WaitForGpu
  <2> QED
    BY <1>3, <2>1, <2>2, <2>3 DEF CpuSync
<1>4. CASE GpuChecks
  BY <1>4 DEF GpuChecks, SetCPStatusFromGPU, StatusTest, AfterStatus, Raise,
              UpdateInterruptsFromVideoBackend, Guard, SyncTest, Execute
<1>5. CASE GpuTicks
  BY <1>5 DEF GpuTicks, Subtract, SubtractSet, Drain, Exchange, DrainSet, SignalSync
<1>6. CASE GpuLoop
  BY <1>6 DEF GpuLoop, Enter, Finish, BetweenPayloads
<1>7. CASE Host
  BY <1>7 DEF Host, Pause, Resume, PauseAndLock, Stop, HostCall, HostContinues, PauseDone,
              EmulatorState, StoreRunning, HostWakeup, TakeLock, HostFlush, Unlock, Powerdown,
              ExitShutdown
<1>8. CASE UNCHANGED vars
  BY <1>8 DEF vars
<1> QED
  BY NextSplits, <1>1, <1>2, <1>3, <1>4, <1>5, <1>6, <1>7, <1>8

LEMMA TypeStep == ASSUME TypeOK, RoomInv, [Next]_vars PROVE TypeOK'
BY ContractTypes, RegisterTypes, RoomStep, FlagTypes, InterruptFlagTypes, PlaceTypes, TickTypes
   DEF TypeOK

-----------------------------------------------------------------------------
(* The distance between the CPU and the GPU. *)

\* The GPU takes cycles away, and gives none back by setting the distance to 0, which it
\* only does to a positive one.
LEMMA GpuLowers ==
  ASSUME TypeOK, TicksInv, GpuTicks
  PROVE  /\ s_sync_ticks' <= s_sync_ticks
         /\ gpu' = "exchange" => s_sync_ticks' > 0
         /\ UNCHANGED <<cpu, scheduled, next>>
<1> USE DEF TypeOK, TicksInv
<1>1. CASE Subtract
  BY <1>1 DEF Subtract
<1>2. CASE SubtractSet \/ Drain \/ Exchange \/ DrainSet
  BY <1>2 DEF SubtractSet, Drain, Exchange, DrainSet, SignalSync
<1> QED
  BY <1>1, <1>2 DEF GpuTicks

LEMMA ReachLowers ==
  ASSUME NEW m \in Int, NEW n \in Int, n <= m, WithinReach(m) PROVE WithinReach(n)
BY DEF WithinReach

LEMMA ReachHolds == ASSUME NEW n \in Int, n <= MaxDistance PROVE WithinReach(n)
<1>1. PICK late \in Lateness : late \in Nat
  OBVIOUS
<1> QED
  BY <1>1 DEF WithinReach

LEMMA Rescheduled ==
  ASSUME NEW n \in Nat \ {0}, ScheduleSync(n) PROVE scheduled' /\ next' = n
<1>1. n > 0 /\ next' = n
  BY DEF ScheduleSync
<1>2. scheduled' = (n > 0)
  BY DEF ScheduleSync
<1> QED
  BY Zenon, <1>1, <1>2

\* A smaller distance is within reach, also after the same number of cycles.
LEMMA Shift ==
  \A m, n \in Int, cycles \in Nat :
    n <= m =>
      /\ m < 0 => n < 0
      /\ m < MaxDistance => n < MaxDistance
      /\ m + cycles <= MaxDistance => n + cycles <= MaxDistance
      /\ WithinReach(m) => WithinReach(n)
      /\ WithinReach(m + cycles) => WithinReach(n + cycles)
BY DEF WithinReach

LEMMA TicksStep == ASSUME TypeOK, TicksInv, [Next]_vars PROVE TicksInv'
<1> USE DEF TicksInv, UpdatePCs
<1>1. CASE CpuLocal
  BY <1>1 DEF CpuLocal, GatherPipeBursted, StatusFromCPU, SetFromCPU, Advance, ProcessFifoEvents,
              UpdateInterrupts, NoFifoEvents, ClearWaiting, LinkedBurst, UnlinkedBurst, FlushGpu,
              WriteControl, SetCpControlRegister, StoreFlags, LeaveGuest, CpuRun, WithinReach
<1>2. CASE CpuWakes
  BY <1>2 DEF CpuWakes, BurstRunGpu, IrqRunGpu, AddRunGpu, RunGpu, TypeOK, WithinReach
<1>3. CASE CpuSync
  <2> USE DEF TypeOK
  <2>1. CASE SyncGPUCallback
    <3>1. PICK late \in Lateness : next' = next + late /\ late \in Nat
      BY <2>1 DEF SyncGPUCallback
    <3>2. UNCHANGED <<s_sync_ticks, gpu>> /\ cpu = "guest" /\ cpu' = "isDone"
      BY <2>1 DEF SyncGPUCallback
    <3>3. WithinReach(next') \/ WithinReach(s_sync_ticks' + next')
      BY <3>1, <3>2 DEF WithinReach
    <3> QED
      BY <3>2, <3>3 DEF WithinReach
  <2>2. CASE Update_IsDone \/ Add \/ MaxTest
    BY <2>2 DEF Update_IsDone, Add, MaxTest, WithinReach
  <2>3. CASE WaitTest
    BY <2>3 DEF WaitTest
  <2>4. CASE IdleTest
    <3>1. UNCHANGED <<s_sync_ticks, gpu>> /\ cpu = "idleTest"
      BY <2>4 DEF IdleTest
    <3>2. CASE s_sync_ticks >= 0
      <4>1. cpu' = "guest" /\ ScheduleSync(MaxDistance)
        BY <2>4, <3>2 DEF IdleTest
      <4>2. scheduled' /\ next' = MaxDistance
        BY <4>1, Rescheduled
      <4> QED
        BY <3>1, <4>1, <4>2 DEF WithinReach
    <3>3. CASE s_sync_ticks < 0
      <4>1. cpu' = "idleAdd" /\ UNCHANGED next
        BY <2>4, <3>3 DEF IdleTest
      <4>2. WithinReach(s_sync_ticks + next)
        BY <3>1, <3>3, ReachLowers
      <4> QED
        BY <3>1, <3>3, <4>1, <4>2 DEF WithinReach
    <3> QED
      BY <3>2, <3>3
  <2>5. CASE IdleAdd
    <3>1. s_sync_ticks' = s_sync_ticks + next /\ WithinReach(s_sync_ticks')
      BY <2>5 DEF IdleAdd, WithinReach
    <3>2. UNCHANGED gpu /\ gpu # "exchange"
      BY <2>5 DEF IdleAdd
    <3>3. \/ cpu' = "idleRunGpu"
          \/ cpu' = "guest" /\ scheduled' /\ next' = MaxDistance
      BY <2>5, Rescheduled DEF IdleAdd
    <3> QED
      BY <3>1, <3>2, <3>3 DEF WithinReach
  <2>6. CASE IdleRunGpu
    <3>1. UNCHANGED <<s_sync_ticks, gpu>> /\ WithinReach(s_sync_ticks)
      BY <2>6 DEF IdleRunGpu
    <3>2. cpu' = "guest" /\ scheduled' /\ next' = MaxDistance
      BY <2>6, Rescheduled DEF IdleRunGpu
    <3> QED
      BY <3>1, <3>2 DEF WithinReach
  <2>7. CASE WaitForGpu
    BY <2>7 DEF WaitForGpu
  <2>8. CASE UpdateEnd
    <3>1. UNCHANGED <<s_sync_ticks, gpu>> /\ s_sync_ticks < MaxDistance /\ cpu' = "guest"
      BY <2>8 DEF UpdateEnd
    <3>2. scheduled' /\ next' = MaxDistance - s_sync_ticks
      <4>1. ScheduleSync(MaxDistance - s_sync_ticks)
        BY <2>8 DEF UpdateEnd
      <4>2. MaxDistance - s_sync_ticks \in Nat \ {0}
        BY <3>1
      <4> QED
        BY <4>1, <4>2, Rescheduled
    <3>3. WithinReach(s_sync_ticks)
      BY <3>1, ReachHolds
    <3> QED
      BY <3>1, <3>2, <3>3 DEF WithinReach
  <2> QED
    BY <1>3, <2>1, <2>2, <2>3, <2>4, <2>5, <2>6, <2>7, <2>8 DEF CpuSync
<1>4. CASE GpuChecks
  BY <1>4 DEF GpuChecks, SetCPStatusFromGPU, StatusTest, AfterStatus, Raise,
              UpdateInterruptsFromVideoBackend, Guard, SyncTest, Execute, WithinReach
<1>5. CASE GpuTicks
  <2>1. /\ s_sync_ticks' <= s_sync_ticks
        /\ gpu' = "exchange" => s_sync_ticks' > 0
        /\ UNCHANGED <<cpu, scheduled, next>>
    BY <1>5, GpuLowers
  <2>2. s_sync_ticks \in Int /\ s_sync_ticks' \in Int /\ next \in Nat
    BY TickTypes DEF TypeOK
  <2>3. /\ s_sync_ticks + next <= MaxDistance => s_sync_ticks' + next <= MaxDistance
        /\ s_sync_ticks < 0 => s_sync_ticks' < 0
        /\ s_sync_ticks < MaxDistance => s_sync_ticks' < MaxDistance
        /\ WithinReach(s_sync_ticks) => WithinReach(s_sync_ticks')
        /\ WithinReach(s_sync_ticks + next) => WithinReach(s_sync_ticks' + next)
    <3> HIDE DEF TicksInv
    <3> QED
      BY Zenon, <2>1, <2>2, Shift
  <2>4. /\ WithinReach(s_sync_ticks)' <=> WithinReach(s_sync_ticks')
        /\ WithinReach(s_sync_ticks + next)' <=> WithinReach(s_sync_ticks' + next)
        /\ WithinReach(next)' <=> WithinReach(next)
    <3> HIDE DEF TicksInv
    <3> QED
      BY <2>1 DEF WithinReach
  <2> QED
    BY <2>1, <2>3, <2>4
<1>6. CASE GpuLoop
  BY <1>6 DEF GpuLoop, Enter, Finish, BetweenPayloads, WithinReach
<1>7. CASE Host
  BY <1>7 DEF Host, Pause, Resume, PauseAndLock, Stop, HostCall, HostContinues, PauseDone,
              EmulatorState, StoreRunning, HostWakeup, TakeLock, HostFlush, Unlock, Powerdown,
              ExitShutdown, WithinReach
<1>8. CASE UNCHANGED vars
  BY <1>8 DEF vars, WithinReach
<1> QED
  BY NextSplits, <1>1, <1>2, <1>3, <1>4, <1>5, <1>6, <1>7, <1>8

\* A CPU that waits on a distance that is not positive has its signal, or the thread that
\* took the distance there is about to raise it.
LEMMA SyncStep == ASSUME TypeOK, TicksInv, NoLostSync, [Next]_vars PROVE NoLostSync'
<1> USE DEF TypeOK, NoLostSync
<1>1. CASE CpuLocal
  BY <1>1 DEF CpuLocal, GatherPipeBursted, StatusFromCPU, SetFromCPU, Advance, ProcessFifoEvents,
              UpdateInterrupts, NoFifoEvents, ClearWaiting, LinkedBurst, UnlinkedBurst, FlushGpu,
              WriteControl, SetCpControlRegister, StoreFlags, LeaveGuest, CpuRun
<1>2. CASE CpuWakes
  BY <1>2 DEF CpuWakes, BurstRunGpu, IrqRunGpu, AddRunGpu, RunGpu
<1>3. CASE CpuSync
  <2>1. CASE WaitForGpu
    BY <2>1 DEF WaitForGpu, s_sync_wakeup_event!TypeOK, s_sync_wakeup_event!Phases,
                s_sync_wakeup_event!Block, s_sync_wakeup_event!SeeSignal,
                s_sync_wakeup_event!TakeAtOnce, s_sync_wakeup_event!Return
  <2>2. CASE WaitTest
    BY <2>2 DEF WaitTest
  <2>3. CASE CpuSync /\ ~WaitForGpu /\ ~WaitTest
    BY <2>3 DEF CpuSync, SyncGPUCallback, Update_IsDone, IdleTest, IdleAdd, IdleRunGpu, Add,
                MaxTest, UpdateEnd
  <2> QED
    BY <1>3, <2>1, <2>2, <2>3
<1>4. CASE GpuChecks
  BY <1>4 DEF GpuChecks, SetCPStatusFromGPU, StatusTest, AfterStatus, Raise,
              UpdateInterruptsFromVideoBackend, Guard, SyncTest, Execute
<1>5. CASE GpuTicks
  <2>1. CASE Subtract
    BY <2>1 DEF Subtract
  <2>2. CASE SubtractSet \/ DrainSet
    BY <2>2 DEF SubtractSet, DrainSet, SignalSync, s_sync_wakeup_event!Set
  <2>3. CASE Drain
    BY <2>3 DEF Drain
  <2>4. CASE Exchange
    BY <2>4 DEF Exchange, TicksInv
  <2> QED
    BY <1>5, <2>1, <2>2, <2>3, <2>4 DEF GpuTicks
<1>6. CASE GpuLoop
  BY <1>6 DEF GpuLoop, Enter, Finish, BetweenPayloads
<1>7. CASE Host
  BY <1>7 DEF Host, Pause, Resume, PauseAndLock, Stop, HostCall, HostContinues, PauseDone,
              EmulatorState, StoreRunning, HostWakeup, TakeLock, HostFlush, Unlock, Powerdown,
              ExitShutdown
<1>8. CASE UNCHANGED vars
  BY <1>8 DEF vars
<1> QED
  BY NextSplits, <1>1, <1>2, <1>3, <1>4, <1>5, <1>6, <1>7, <1>8

-----------------------------------------------------------------------------
(* The interrupt, and the lock. *)

\* Only the GPU thread sets s_interrupt_waiting, and only while nothing is on its way.
LEMMA InterruptsKept ==
  ASSUME InterruptInv,
         UNCHANGED <<interrupts, s_interrupt_waiting>>,
         cpu' = "irqClear" <=> cpu = "irqClear",
         gpu' = "schedule" <=> gpu = "schedule",
         gpu' = "raise" => gpu = "raise"
  PROVE  InterruptInv'
BY DEF InterruptInv, OneInterruptOnItsWay

LEMMA InterruptStep == ASSUME TypeOK, InterruptInv, [Next]_vars PROVE InterruptInv'
<1> USE InterruptsKept
<1>1. CASE CpuLocal
  <2>1. CASE Advance \/ ProcessFifoEvents
    <3>1. /\ interrupts # <<>> /\ interrupts' = Tail(interrupts)
          /\ cpu # "irqClear" /\ cpu' = "irqClear"
          /\ UNCHANGED <<gpu, s_interrupt_waiting>>
      BY <2>1 DEF Advance, ProcessFifoEvents, UpdateInterrupts
    <3>2. Len(interrupts) \in Nat \ {0} /\ Len(interrupts') = Len(interrupts) - 1
      BY <3>1 DEF TypeOK
    <3>3. s_interrupt_waiting /\ gpu # "schedule" /\ Len(interrupts) = 1
      <4>1. Len(interrupts) + (IF gpu = "schedule" THEN 1 ELSE 0) + 0
              = IF s_interrupt_waiting THEN 1 ELSE 0
        BY <3>1 DEF InterruptInv, OneInterruptOnItsWay
      <4> HIDE InterruptsKept
      <4>2. CASE gpu = "schedule"
        BY <3>2, <4>1, <4>2
      <4>3. CASE gpu # "schedule"
        BY <3>2, <4>1, <4>3
      <4> QED
        BY <4>2, <4>3
    <3>4. gpu # "raise" /\ Len(interrupts') = 0
      BY <3>2, <3>3 DEF InterruptInv
    <3> QED
      BY <3>1, <3>3, <3>4 DEF InterruptInv, OneInterruptOnItsWay
  <2>2. CASE ClearWaiting
    BY <2>2 DEF ClearWaiting, TypeOK, InterruptInv, OneInterruptOnItsWay
  <2>3. CASE CpuLocal /\ ~Advance /\ ~ProcessFifoEvents /\ ~ClearWaiting
    BY <2>3 DEF CpuLocal, GatherPipeBursted, StatusFromCPU, SetFromCPU, NoFifoEvents,
                LinkedBurst, UnlinkedBurst, FlushGpu, WriteControl, SetCpControlRegister,
                StoreFlags, LeaveGuest, CpuRun
  <2> QED
    BY <1>1, <2>1, <2>2, <2>3
<1>2. CASE CpuWakes
  BY <1>2 DEF CpuWakes, BurstRunGpu, IrqRunGpu, AddRunGpu, RunGpu, TypeOK
<1>3. CASE CpuSync
  BY <1>3 DEF CpuSync, SyncGPUCallback, Update_IsDone, IdleTest, IdleAdd, IdleRunGpu, Add,
              MaxTest, WaitTest, WaitForGpu, UpdateEnd
<1>4. CASE GpuChecks
  <2>1. CASE StatusTest
    BY <2>1 DEF StatusTest, AfterStatus, Outdated, TypeOK, InterruptInv, OneInterruptOnItsWay
  <2>2. CASE Raise
    BY <2>2 DEF Raise, TypeOK, InterruptInv, OneInterruptOnItsWay
  <2>3. CASE UpdateInterruptsFromVideoBackend
    BY <2>3 DEF UpdateInterruptsFromVideoBackend, AfterStatus, TypeOK, InterruptInv, OneInterruptOnItsWay
  <2>4. CASE SetCPStatusFromGPU \/ Guard \/ SyncTest \/ Execute
    BY <2>4 DEF SetCPStatusFromGPU, Guard, SyncTest, Execute
  <2> QED
    BY <1>4, <2>1, <2>2, <2>3, <2>4 DEF GpuChecks
<1>5. CASE GpuTicks
  BY <1>5 DEF GpuTicks, Subtract, SubtractSet, Drain, Exchange, DrainSet, SignalSync
<1>6. CASE GpuLoop
  BY <1>6 DEF GpuLoop, Enter, Finish, BetweenPayloads
<1>7. CASE Host
  BY <1>7 DEF Host, Pause, Resume, PauseAndLock, Stop, HostCall, HostContinues, PauseDone,
              EmulatorState, StoreRunning, HostWakeup, TakeLock, HostFlush, Unlock, Powerdown,
              ExitShutdown
<1>8. CASE UNCHANGED vars
  BY <1>8 DEF vars
<1> QED
  BY NextSplits, <1>1, <1>2, <1>3, <1>4, <1>5, <1>6, <1>7, <1>8

\* The payload is entered and left together with the loop's phase.
LEMMA LoopStep == ASSUME TypeOK, LoopInv, [Next]_vars PROVE LoopInv'
<1> USE DEF LoopInv
<1>1. CASE CpuLocal
  BY <1>1 DEF CpuLocal, GatherPipeBursted, StatusFromCPU, SetFromCPU, Advance, ProcessFifoEvents,
              UpdateInterrupts, NoFifoEvents, ClearWaiting, LinkedBurst, UnlinkedBurst, FlushGpu,
              WriteControl, SetCpControlRegister, StoreFlags, LeaveGuest, CpuRun
<1>2. CASE CpuWakes
  BY <1>2 DEF CpuWakes, BurstRunGpu, IrqRunGpu, AddRunGpu, RunGpu, s_gpu_mainloop!Wakeup
<1>3. CASE CpuSync
  BY <1>3 DEF CpuSync, SyncGPUCallback, Update_IsDone, IdleTest, IdleAdd, IdleRunGpu, Add,
              MaxTest, WaitTest, WaitForGpu, UpdateEnd, s_gpu_mainloop!Wakeup
<1>4. CASE GpuChecks
  BY <1>4 DEF GpuChecks, SetCPStatusFromGPU, StatusTest, AfterStatus, Raise,
              UpdateInterruptsFromVideoBackend, Guard, SyncTest, Execute
<1>5. CASE GpuTicks
  BY <1>5 DEF GpuTicks, Subtract, SubtractSet, Drain, Exchange, DrainSet, SignalSync
<1>6. CASE GpuLoop
  BY <1>6 DEF GpuLoop, Enter, Finish, BetweenPayloads, s_gpu_mainloop!Enter,
              s_gpu_mainloop!Finish, s_gpu_mainloop!Doze, s_gpu_mainloop!Leave,
              s_gpu_mainloop!Close
<1>7. CASE Host
  BY <1>7 DEF Host, Pause, Resume, PauseAndLock, Stop, HostCall, HostContinues, PauseDone,
              EmulatorState, StoreRunning, HostWakeup, TakeLock, HostFlush, Unlock, Powerdown,
              ExitShutdown, s_gpu_mainloop!Wakeup, s_gpu_mainloop!Stop
<1>8. CASE UNCHANGED vars
  BY <1>8 DEF vars
<1> QED
  BY NextSplits, <1>1, <1>2, <1>3, <1>4, <1>5, <1>6, <1>7, <1>8

\* While the state is CPU_STEPPING and the mutex is the host's, the CPU thread stays where it
\* is.  A payload that began before the emulator was paused ends with the state "last" at
\* the lowest, so that a loop that is done has run one that saw the pause.
LEMMA LockStep == ASSUME TypeOK, LoopInv, LockInv, [Next]_vars PROVE LockInv'
<1> USE DEF TypeOK, LockInv, HostHasLock
<1>1. CASE CpuLocal
  BY <1>1 DEF CpuLocal, GatherPipeBursted, StatusFromCPU, SetFromCPU, Advance, ProcessFifoEvents,
              UpdateInterrupts, NoFifoEvents, ClearWaiting, LinkedBurst, UnlinkedBurst, FlushGpu,
              WriteControl, SetCpControlRegister, StoreFlags, LeaveGuest, CpuRun
<1>2. CASE CpuWakes
  BY <1>2 DEF CpuWakes, BurstRunGpu, IrqRunGpu, AddRunGpu, RunGpu, s_gpu_mainloop!Wakeup
<1>3. CASE CpuSync
  BY <1>3 DEF CpuSync, SyncGPUCallback, Update_IsDone, IdleTest, IdleAdd, IdleRunGpu, Add,
              MaxTest, WaitTest, WaitForGpu, UpdateEnd, s_gpu_mainloop!Wakeup
<1>4. CASE GpuChecks
  BY <1>4 DEF GpuChecks, SetCPStatusFromGPU, StatusTest, AfterStatus, Raise,
              UpdateInterruptsFromVideoBackend, Guard, SyncTest, Execute
<1>5. CASE GpuTicks
  BY <1>5 DEF GpuTicks, Subtract, SubtractSet, Drain, Exchange, DrainSet, SignalSync
<1>6. CASE GpuLoop
  <2>1. CASE Enter
    BY <2>1 DEF Enter, s_gpu_mainloop!Enter
  <2>2. CASE Finish
    BY <2>2 DEF Finish, s_gpu_mainloop!Finish
  <2>3. CASE BetweenPayloads
    BY <2>3 DEF BetweenPayloads, LoopInv, s_gpu_mainloop!Doze, s_gpu_mainloop!Leave,
                s_gpu_mainloop!Close
  <2> QED
    BY <1>6, <2>1, <2>2, <2>3 DEF GpuLoop
<1>7. CASE Host
  <2>1. CASE Pause \/ Resume \/ PauseAndLock \/ Stop
    BY <2>1 DEF Pause, Resume, PauseAndLock, Stop, HostCall
  <2>2. CASE PauseDone \/ TakeLock \/ Unlock \/ Powerdown \/ ExitShutdown
    BY <2>2 DEF PauseDone, TakeLock, Unlock, Powerdown, ExitShutdown, s_gpu_mainloop!Stop
  <2>3. CASE EmulatorState("lockFifo", "lockWake", "lockFlush", FALSE)
    BY <2>3 DEF EmulatorState, StoreRunning, HostWakeup, s_gpu_mainloop!Wakeup
  <2>4. CASE \/ EmulatorState("paused", "pauseWake", "idle", FALSE)
             \/ EmulatorState("resume", "resumeWake", "idle", TRUE)
             \/ EmulatorState("stop", "stopWake", "powerdown", FALSE)
             \/ StoreRunning("exitRunning", "exitShutdown", TRUE)
             \/ HostWakeup("exitWake", "stopped")
    BY <2>4 DEF EmulatorState, StoreRunning, HostWakeup, s_gpu_mainloop!Wakeup
  <2>5. CASE HostFlush("lockFlush", "locked") \/ HostFlush("exitFlush", "exitRunning")
    BY <2>5 DEF HostFlush, LoopInv, s_gpu_mainloop!IsDone
  <2> QED
    BY <1>7, <2>1, <2>2, <2>3, <2>4, <2>5 DEF Host, HostContinues
<1>8. CASE UNCHANGED vars
  BY <1>8 DEF vars
<1> QED
  BY NextSplits, <1>1, <1>2, <1>3, <1>4, <1>5, <1>6, <1>7, <1>8

-----------------------------------------------------------------------------

LEMMA Invariance == Spec => []IInv
<1>1. IInv /\ [Next]_vars => IInv'
  BY TypeStep, RoomStep, LoopStep, TicksStep, SyncStep, InterruptStep, LockStep DEF IInv
<1> QED
  BY Start, <1>1, PTL DEF Spec

\* Every variable keeps its type; in particular the FIFO never holds less than nothing or
\* more than its capacity (Fifo.cpp:348, CommandProcessor.cpp:341).
THEOREM TypeCorrect == Spec => []TypeOK
<1>1. IInv => TypeOK
  BY DEF IInv
<1> QED
  BY Invariance, <1>1, PTL

\* No signal to a CPU that waits for the GPU is lost (Fifo.cpp:542-545, 362-366, 376-381).
THEOREM SignalIsNotLost == Spec => []NoLostSync
<1>1. IInv => NoLostSync
  BY DEF IInv
<1> QED
  BY Invariance, <1>1, PTL

\* Synchronisation never ends, and the CPU is never further ahead than MaxDistance and the
\* lateness of one event (Fifo.cpp:518-559).
THEOREM SyncIsBounded == Spec => []SyncGoesOn
<1>1. IInv => SyncGoesOn
  <2>1. "guest" \notin UpdatePCs /\ "paused" \notin UpdatePCs
    BY DEF UpdatePCs
  <2> QED
    BY <2>1 DEF IInv, TicksInv, SyncGoesOn, WithinReach
<1> QED
  BY Invariance, <1>1, PTL

\* s_interrupt_waiting stands for exactly one interrupt (CommandProcessor.cpp:365, 427-436).
THEOREM OneInterrupt == Spec => []OneInterruptOnItsWay
<1>1. IInv => OneInterruptOnItsWay
  BY DEF IInv, InterruptInv
<1> QED
  BY Invariance, <1>1, PTL

\* While the host is inside PauseAndLock() neither the CPU thread nor a payload touches the
\* FIFO (Fifo.cpp:92-105).
THEOREM LockIsIdle == Spec => []LockMeansIdle
<1>1. IInv => LockMeansIdle
  BY DEF IInv, LockInv, LockMeansIdle, HostHasLock
<1> QED
  BY Invariance, <1>1, PTL
-----------------------------------------------------------------------------
(* Nothing is left undone when everybody rests.                                *)

\* The handlers of the CPU thread that end with RunGpu().
Handlers == {"test", "set", "fifoEvents", "burst", "flush", "runGpu", "control",
             "underflow", "readEnable", "irqClear", "irqRunGpu"}

ExitPCs == {"exitFlush", "exitRunning", "exitShutdown", "exitWake", "stopped"}

\* The emulator runs, and the loop has been told so.
InService == s_emu_running_state /\ host \notin ExitPCs \cup {"resumeWake"}

\* A payload will begin without anybody's help.
PayloadDue == m_running_state = "need" \/ (m_running_state = "last" /\ gpu = "out")

\* What the watermark interrupt should be.
Wanted == InterruptOf(CPReadWriteDistance > CPHiWatermark, CPReadWriteDistance < CPLoWatermark)

FlagsFresh ==
  /\ bFF_HiWatermark = (CPReadWriteDistance > CPHiWatermark)
  /\ bFF_LoWatermark = (CPReadWriteDistance < CPLoWatermark)

ExitInv == m_shutdown => host \in {"exitWake", "stopped"}

\* If there is a burst to read, somebody is going to look.
WorkInv ==
  /\ InService /\ CanRead /\ s_sync_ticks >= MinDistance
  /\ cpu \notin Handlers \cup {"idleRunGpu", "addRunGpu"}
  => \/ PayloadDue
     \/ gpu \in {"status", "statusTest", "raise", "guard", "sync", "run", "subtract",
                 "subtractSet"}

\* If the interrupt is not as it should be, somebody is going to look.
SettleInv ==
  InService /\ ~s_interrupt_waiting /\ cpu \notin Handlers
  => \/ PayloadDue
     \/ gpu \in {"status", "raise"}
     \/ gpu = "statusTest" /\ FlagsFresh
     \/ s_interrupt_set = Wanted

LEMMA ExitStep == ASSUME ExitInv, [Next]_vars PROVE ExitInv'
<1> USE DEF ExitInv
<1>1. CASE CpuLocal
  BY <1>1 DEF CpuLocal, GatherPipeBursted, StatusFromCPU, SetFromCPU, Advance, ProcessFifoEvents,
              UpdateInterrupts, NoFifoEvents, ClearWaiting, LinkedBurst, UnlinkedBurst, FlushGpu,
              WriteControl, SetCpControlRegister, StoreFlags, LeaveGuest, CpuRun
<1>2. CASE CpuWakes \/ CpuSync
  BY <1>2 DEF CpuWakes, BurstRunGpu, IrqRunGpu, AddRunGpu, RunGpu, CpuSync, SyncGPUCallback,
              Update_IsDone, IdleTest, IdleAdd, IdleRunGpu, Add, MaxTest, WaitTest, WaitForGpu,
              UpdateEnd, s_gpu_mainloop!Wakeup
<1>3. CASE GpuChecks \/ GpuTicks
  BY <1>3 DEF GpuChecks, SetCPStatusFromGPU, StatusTest, Raise,
              UpdateInterruptsFromVideoBackend, Guard, SyncTest, Execute, GpuTicks, Subtract,
              SubtractSet, Drain, Exchange, DrainSet, SignalSync
<1>4. CASE GpuLoop
  BY <1>4 DEF GpuLoop, Enter, Finish, BetweenPayloads, s_gpu_mainloop!Enter,
              s_gpu_mainloop!Finish, s_gpu_mainloop!Doze, s_gpu_mainloop!Leave,
              s_gpu_mainloop!Close
<1>5. CASE Host
  BY <1>5 DEF Host, Pause, Resume, PauseAndLock, Stop, HostCall, HostContinues, PauseDone,
              EmulatorState, StoreRunning, HostWakeup, TakeLock, HostFlush, Unlock, Powerdown,
              ExitShutdown, s_gpu_mainloop!Wakeup, s_gpu_mainloop!Stop
<1>6. CASE UNCHANGED vars
  BY <1>6 DEF vars
<1> QED
  BY NextSplits, <1>1, <1>2, <1>3, <1>4, <1>5, <1>6

\* A step of the host: it stays in service, or leaves or enters it; entering ends with a
\* Wakeup().
LEMMA HostService ==
  ASSUME TypeOK, Host
  PROVE  /\ UNCHANGED <<s_sync_ticks, CPReadWriteDistance, m_CPCtrlReg, watermarks,
                        interruptVars, cpuLocals, gpuLocals>>
         /\ InService' => \/ InService /\ m_running_state' = m_running_state /\ bFF' = bFF
                          \/ m_running_state' = "need"
<1> USE DEF InService, ExitPCs
<1>1. UNCHANGED <<s_sync_ticks, CPReadWriteDistance, m_CPCtrlReg, watermarks,
                  interruptVars, cpuLocals, gpuLocals>>
  BY DEF Host, Pause, Resume, PauseAndLock, Stop, HostCall, HostContinues, PauseDone,
         EmulatorState, StoreRunning, HostWakeup, TakeLock, HostFlush, Unlock, Powerdown,
         ExitShutdown
<1>2. ASSUME InService'
      PROVE  \/ InService /\ m_running_state' = m_running_state /\ bFF' = bFF
             \/ m_running_state' = "need"
  <2>1. CASE Pause \/ Resume \/ PauseAndLock \/ Stop
    BY <1>2, <2>1 DEF Pause, Resume, PauseAndLock, Stop, HostCall
  <2>2. CASE PauseDone \/ TakeLock \/ Unlock
    BY <1>2, <2>2 DEF PauseDone, TakeLock, Unlock
  <2>3. CASE \/ EmulatorState("paused", "pauseWake", "idle", FALSE)
             \/ EmulatorState("resume", "resumeWake", "idle", TRUE)
             \/ EmulatorState("lockFifo", "lockWake", "lockFlush", FALSE)
             \/ EmulatorState("stop", "stopWake", "powerdown", FALSE)
    BY <1>2, <2>3 DEF EmulatorState, StoreRunning, HostWakeup, s_gpu_mainloop!Wakeup
  <2>4. CASE HostFlush("lockFlush", "locked")
    BY <1>2, <2>4 DEF HostFlush
  <2>5. CASE \/ Powerdown \/ ExitShutdown \/ HostFlush("exitFlush", "exitRunning")
             \/ StoreRunning("exitRunning", "exitShutdown", TRUE)
             \/ HostWakeup("exitWake", "stopped")
    BY <1>2, <2>5 DEF Powerdown, ExitShutdown, HostFlush, StoreRunning, HostWakeup
  <2> QED
    BY <2>1, <2>2, <2>3, <2>4, <2>5 DEF Host, HostContinues
<1> QED
  BY <1>1, <1>2

LEMMA WorkStep ==
  ASSUME TypeOK, LoopInv, TicksInv, ExitInv, WorkInv, [Next]_vars
  PROVE  WorkInv'
<1> USE DEF TypeOK, WorkInv, CanRead, PayloadDue, Handlers
<1>1. CASE CpuLocal
  <2> USE DEF InService
  <2> QED
    BY <1>1 DEF CpuLocal, GatherPipeBursted, StatusFromCPU, SetFromCPU, Advance, ProcessFifoEvents,
              UpdateInterrupts, NoFifoEvents, ClearWaiting, LinkedBurst, UnlinkedBurst, FlushGpu,
              WriteControl, SetCpControlRegister, StoreFlags, LeaveGuest, CpuRun
<1>2. CASE CpuWakes
  BY <1>2 DEF CpuWakes, BurstRunGpu, IrqRunGpu, AddRunGpu, RunGpu, s_gpu_mainloop!Wakeup
<1>3. CASE CpuSync
  <2>1. CASE IdleRunGpu
    BY <2>1 DEF IdleRunGpu, s_gpu_mainloop!Wakeup
  <2>2. CASE IdleAdd \/ Add
    <3>1. /\ UNCHANGED <<s_emu_running_state, host, CPReadWriteDistance, bFF,
                        s_interrupt_waiting, m_running_state, gpu>>
          /\ cpu \notin Handlers \cup {"idleRunGpu", "addRunGpu"}
      BY <2>2 DEF IdleAdd, Add
    <3>2. s_sync_ticks' >= MinDistance /\ cpu' \notin {"idleRunGpu", "addRunGpu"}
            => s_sync_ticks >= MinDistance
      BY <2>2 DEF IdleAdd, Add, Crosses
    <3> QED
      BY <3>1, <3>2 DEF InService
  <2>3. CASE CpuSync /\ ~IdleRunGpu /\ ~IdleAdd /\ ~Add
    <3>1. /\ UNCHANGED <<s_emu_running_state, host, CPReadWriteDistance, bFF,
                        s_interrupt_waiting, m_running_state, gpu, s_sync_ticks>>
          /\ cpu \notin Handlers \cup {"idleRunGpu", "addRunGpu"}
      BY <2>3 DEF CpuSync, SyncGPUCallback, Update_IsDone, IdleTest, MaxTest, WaitTest,
                  WaitForGpu, UpdateEnd
    <3> QED
      BY <3>1 DEF InService
  <2> QED
    BY <1>3, <2>1, <2>2, <2>3
<1>4. CASE GpuChecks
  <2>1. UNCHANGED <<s_emu_running_state, host, bFF, m_running_state, cpu, s_sync_ticks>>
    BY <1>4 DEF GpuChecks, SetCPStatusFromGPU, StatusTest, Raise,
                UpdateInterruptsFromVideoBackend, Guard, SyncTest, Execute
  <2>2. CASE gpu' = "drain"
    <3>1. ~CanRead' \/ s_sync_ticks' < MinDistance
      BY <1>4, <2>1, <2>2 DEF GpuChecks, SetCPStatusFromGPU, StatusTest, AfterStatus, Raise,
         UpdateInterruptsFromVideoBackend, Guard, SyncTest, Execute
    <3> QED
      BY <2>1, <3>1
  <2>3. CASE gpu' # "drain"
    <3>1. \/ gpu' \in {"status", "statusTest", "raise", "guard", "sync", "run", "subtract"}
          \/ s_interrupt_waiting'
      BY <1>4, <2>3 DEF GpuChecks, SetCPStatusFromGPU, StatusTest, AfterStatus, Raise,
         UpdateInterruptsFromVideoBackend, Guard, SyncTest, Execute
    <3> QED
      BY <3>1
  <2> QED
    BY <2>2, <2>3
<1>5. CASE GpuTicks
  <2>1. /\ UNCHANGED <<s_emu_running_state, host, bFF, m_running_state, cpu,
                      s_interrupt_waiting, CPReadWriteDistance>>
        /\ gpu # "out"
    BY <1>5 DEF GpuTicks, Subtract, SubtractSet, Drain, Exchange, DrainSet, SignalSync
  <2>2. InService' = InService /\ CanRead' = CanRead
    BY <2>1 DEF InService
  <2>3. CASE Subtract \/ SubtractSet
    BY <2>3 DEF Subtract, SubtractSet, SignalSync
  <2>4. CASE Drain \/ Exchange \/ DrainSet
    <3>1. s_sync_ticks' >= MinDistance => s_sync_ticks >= MinDistance
      BY <2>4 DEF Drain, Exchange, DrainSet, SignalSync, TicksInv
    <3>2. gpu \in {"drain", "exchange", "drainSet"}
      BY <2>4 DEF Drain, Exchange, DrainSet, SignalSync
    <3> QED
      BY <2>1, <2>2, <3>1, <3>2
  <2> QED
    BY <1>5, <2>3, <2>4 DEF GpuTicks
<1>6. CASE GpuLoop
  BY <1>6 DEF GpuLoop, Enter, Finish, BetweenPayloads, LoopInv, s_gpu_mainloop!Enter,
              s_gpu_mainloop!Finish, s_gpu_mainloop!Lower, s_gpu_mainloop!States,
              s_gpu_mainloop!TypeOK, s_gpu_mainloop!Doze, s_gpu_mainloop!Leave,
              s_gpu_mainloop!Close, ExitInv, InService, ExitPCs
<1>7. CASE Host
  BY <1>7, HostService
<1>8. CASE UNCHANGED vars
  BY <1>8 DEF vars, InService
<1> QED
  BY NextSplits, <1>1, <1>2, <1>3, <1>4, <1>5, <1>6, <1>7, <1>8

\* Wanted depends on the burst count and the registers only.
LEMMA WantedKept ==
  ASSUME UNCHANGED <<CPReadWriteDistance, m_CPCtrlReg, bFF>>
  PROVE  Wanted' = Wanted
BY DEF Wanted, InterruptOf

LEMMA SettleStep ==
  ASSUME TypeOK, LoopInv, ExitInv, SettleInv, [Next]_vars
  PROVE  SettleInv'
<1> USE WantedKept DEF TypeOK, SettleInv, PayloadDue, Handlers
<1>1. CASE CpuLocal
  <2>1. CASE LeaveGuest \/ CpuRun
    BY <2>1 DEF LeaveGuest, CpuRun, InService, FlagsFresh
  <2>2. CASE CpuLocal /\ ~LeaveGuest /\ ~CpuRun
    <3>1. cpu' \in Handlers
      BY <2>2 DEF CpuLocal, GatherPipeBursted, StatusFromCPU, SetFromCPU, Advance, ProcessFifoEvents,
              UpdateInterrupts, NoFifoEvents, ClearWaiting, LinkedBurst, UnlinkedBurst, FlushGpu,
              WriteControl, SetCpControlRegister, StoreFlags, LeaveGuest, CpuRun
    <3> QED
      BY <3>1
  <2> QED
    BY <1>1, <2>1, <2>2
<1>2. CASE CpuWakes
  BY <1>2 DEF CpuWakes, BurstRunGpu, IrqRunGpu, AddRunGpu, RunGpu, s_gpu_mainloop!Wakeup
<1>3. CASE CpuSync
  <2>1. CASE IdleRunGpu
    BY <2>1 DEF IdleRunGpu, s_gpu_mainloop!Wakeup
  <2>2. CASE CpuSync /\ ~IdleRunGpu
    <3>1. /\ UNCHANGED <<s_emu_running_state, host, CPReadWriteDistance, bFF, m_CPCtrlReg,
                        s_interrupt_waiting, s_interrupt_set, m_running_state, gpu,
                        watermarks>>
          /\ cpu \notin Handlers
      BY <2>2 DEF CpuSync, SyncGPUCallback, Update_IsDone, IdleTest, IdleAdd, Add, MaxTest,
                  WaitTest, WaitForGpu, UpdateEnd
    <3> QED
      BY <3>1 DEF InService, FlagsFresh
  <2> QED
    BY <1>3, <2>1, <2>2
<1>4. CASE GpuChecks
  <2>1. CASE SetCPStatusFromGPU
    BY <2>1 DEF SetCPStatusFromGPU, SetWatermarks, InService, FlagsFresh
  <2>2. CASE StatusTest
    <3>1. FlagsFresh => InterruptOf(bFF_HiWatermark, bFF_LoWatermark) = Wanted
      BY DEF FlagsFresh, Wanted
    <3> QED
      BY <2>2, <3>1 DEF StatusTest, Outdated, InService
  <2>3. CASE Raise
    BY <2>3 DEF Raise
  <2>4. CASE Execute
    BY <2>4 DEF Execute
  <2>5. CASE UpdateInterruptsFromVideoBackend \/ Guard \/ SyncTest
    BY <2>5 DEF UpdateInterruptsFromVideoBackend, AfterStatus, Guard, SyncTest, InService
  <2> QED
    BY <1>4, <2>1, <2>2, <2>3, <2>4, <2>5 DEF GpuChecks
<1>5. CASE GpuTicks
  BY <1>5 DEF GpuTicks, Subtract, SubtractSet, Drain, Exchange, DrainSet, SignalSync, InService
<1>6. CASE GpuLoop
  BY <1>6 DEF GpuLoop, Enter, Finish, BetweenPayloads, LoopInv, s_gpu_mainloop!Enter,
              s_gpu_mainloop!Finish, s_gpu_mainloop!Lower, s_gpu_mainloop!States,
              s_gpu_mainloop!TypeOK, s_gpu_mainloop!Doze, s_gpu_mainloop!Leave,
              s_gpu_mainloop!Close, ExitInv, InService, ExitPCs
<1>7. CASE Host
  BY <1>7, HostService DEF FlagsFresh
<1>8. CASE UNCHANGED vars
  BY <1>8 DEF vars, InService, FlagsFresh
<1> QED
  BY NextSplits, <1>1, <1>2, <1>3, <1>4, <1>5, <1>6, <1>7, <1>8

LEMMA RestInvariance == Spec => [](ExitInv /\ WorkInv /\ SettleInv)
<1>1. Init => ExitInv /\ WorkInv /\ SettleInv
  BY DEF Init, ExitInv, WorkInv, SettleInv, PayloadDue
<1>2. IInv /\ ExitInv /\ WorkInv /\ SettleInv /\ [Next]_vars
        => ExitInv' /\ WorkInv' /\ SettleInv'
  BY ExitStep, WorkStep, SettleStep DEF IInv
<1> QED
  BY <1>1, <1>2, Invariance, PTL DEF Spec

\* The loop never rests on a FIFO it could read (Fifo.cpp:333-385).
THEOREM NothingIsStranded == Spec => []NoStrandedWork
<1>1. TypeOK /\ WorkInv => NoStrandedWork
  BY DEF TypeOK, WorkInv, NoStrandedWork, Quiet, InService, ExitPCs, Handlers, PayloadDue
<1> QED
  BY <1>1, RestInvariance, TypeCorrect, PTL

\* When nothing is on its way the interrupt is what the registers and the FIFO ask for
\* (CommandProcessor.cpp:402-470).
THEOREM InterruptIsRight == Spec => []InterruptSettles
<1>1. SettleInv => InterruptSettles
  BY DEF SettleInv, InterruptSettles, Quiet, InService, ExitPCs, Handlers, PayloadDue, Wanted
<1> QED
  BY <1>1, RestInvariance, PTL

=============================================================================
