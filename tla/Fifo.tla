-------------------------------- MODULE Fifo --------------------------------
(***************************************************************************)
(* The CPU thread, the GPU thread and the host around the graphics FIFO    *)
(* (VideoCommon/Fifo.cpp, VideoCommon/CommandProcessor.cpp), in dual core  *)
(* mode with SyncGPU: the guest fills the FIFO and programs its registers, *)
(* the payload of the GPU loop drains it, s_sync_ticks says how far the    *)
(* CPU is ahead and makes it wait, and watermarks raise an interrupt that  *)
(* travels back to the CPU as a CoreTiming event.                          *)
(*                                                                         *)
(* Each step is one access to shared state, except that the two watermark  *)
(* flags are written together and that the tests of one condition are one  *)
(* step.  A local that is read no more is reset.  s_gpu_mainloop is taken  *)
(* as its contract PayloadLoop and s_sync_wakeup_event as AutoResetEvent.  *)
(*                                                                         *)
(* Left out: the pointers into the FIFO and with them breakpoints (the     *)
(* guest leaves BPEnable clear), the tokens of the pixel engine, requests  *)
(* of AsyncRequests, and the deterministic GPU thread.                     *)
(***************************************************************************)
EXTENDS Integers, Sequences

CONSTANTS
  Cpu,           \* the thread that waits on s_sync_wakeup_event
  Capacity,      \* the size of the guest's FIFO, in bursts of 32 bytes
  CPHiWatermark, CPLoWatermark,
  CtrlValues,    \* what the guest writes to CTRL_REGISTER
  MaxDistance, MinDistance,   \* iSyncGpuMaxDistance, iSyncGpuMinDistance
  Costs,         \* the cycles that the commands of a burst may take
  Lateness,      \* how late CoreTiming may call SyncGPUCallback()
  MayTimeOut,    \* PowerPC::Pause() may give up before the CPU thread leaves the guest
  ConfirmStop    \* the user stops a machine that has been paused

Ctrl == [GPReadEnable : BOOLEAN, GPLinkEnable : BOOLEAN,
         FifoOverflowIntEnable : BOOLEAN, FifoUnderflowIntEnable : BOOLEAN]

\* The distances are settings; the defaults are 200000 and -200000 (ConfigManager.cpp:526).
\* A positive MinDistance would never be reached by Update() while the GPU is idle.
ASSUME FifoAssumption ==
  /\ Capacity \in Nat
  /\ CPHiWatermark \in Int /\ CPLoWatermark \in Int
  /\ CtrlValues \subseteq Ctrl /\ CtrlValues # {}
  /\ MaxDistance \in Nat \ {0}
  /\ MinDistance \in Int /\ MinDistance <= 0
  /\ Costs \subseteq Nat /\ Costs # {}
  /\ Lateness \subseteq Nat /\ Lateness # {}
  /\ MayTimeOut \in BOOLEAN /\ ConfirmStop \in BOOLEAN

VARIABLES
  state,                 \* PowerPC::state
  s_emu_running_state,
  s_sync_ticks,
  syncSignal, syncPhase,                     \* s_sync_wakeup_event
  m_running_state, loopPhase, m_shutdown,    \* s_gpu_mainloop
  CPReadWriteDistance,
  m_CPCtrlReg,           \* the register as the guest wrote it ...
  bFF,                   \* ... and the flags the FIFO works with
  bFF_HiWatermark, bFF_LoWatermark,
  s_interrupt_set, s_interrupt_waiting,
  interrupts,            \* UpdateInterrupts events in CoreTiming, oldest first
  cpu,                   \* where the CPU thread is
  cpuInterrupt,          \* its local `interrupt'
  back,                  \* where it continues after UpdateInterrupts()
  scheduled,             \* the SyncGPU event is in CoreTiming ...
  next,                  \* ... this many cycles after the last; then the `ticks' of Update()
  gpu,                   \* where the payload is
  gpuInterrupt,          \* its local `interrupt'
  inLoop,                \* SetCPStatusFromGPU() was called after a burst
  host,                  \* where the host thread is
  wasUnpaused            \* what PauseAndLock() returned

syncEvent == <<syncSignal, syncPhase>>
loop == <<m_running_state, loopPhase, m_shutdown>>
watermarks == <<bFF_HiWatermark, bFF_LoWatermark>>
registers == <<m_CPCtrlReg, bFF>>
interruptVars == <<s_interrupt_set, s_interrupt_waiting, interrupts>>
cpuLocals == <<cpu, cpuInterrupt, back, scheduled, next>>
gpuLocals == <<gpu, gpuInterrupt, inLoop>>
hostLocals == <<state, host, wasUnpaused>>
vars == <<s_emu_running_state, s_sync_ticks, syncEvent, loop, CPReadWriteDistance, registers,
          watermarks, interruptVars, cpuLocals, gpuLocals, hostLocals>>

s_sync_wakeup_event == INSTANCE AutoResetEvent WITH
  Waiters <- {Cpu}, signal <- syncSignal, phase <- syncPhase

s_gpu_mainloop == INSTANCE PayloadLoop WITH
  state <- m_running_state, phase <- loopPhase, shutdown <- m_shutdown

CpuPCs == {"guest", "test", "set", "fifoEvents", "burst", "flush", "runGpu", "control",
           "underflow", "readEnable", "irqClear", "irqRunGpu",
           "isDone", "idleTest", "idleAdd", "idleRunGpu", "add", "addRunGpu", "maxTest",
           "waitTest", "wait", "updateEnd", "paused", "exited"}

\* "out": between two payloads.
GpuPCs == {"out", "status", "statusTest", "raise", "schedule", "guard", "sync",
           "run", "subtract", "subtractSet", "drain", "exchange", "drainSet", "end"}

HostPCs == {"idle", "pause", "paused", "pauseWake", "resume", "resumeWake", "lock", "lockFifo",
            "lockWake", "lockFlush", "locked", "stop", "stopWake", "powerdown",
            "exitFlush", "exitRunning", "exitShutdown", "exitWake", "stopped"}

TypeOK ==
  /\ state \in {"running", "stepping", "powerdown"}
  /\ s_emu_running_state \in BOOLEAN
  /\ s_sync_ticks \in Int
  /\ s_sync_wakeup_event!TypeOK /\ s_gpu_mainloop!TypeOK
  /\ CPReadWriteDistance \in 0 .. Capacity
  /\ m_CPCtrlReg \in Ctrl /\ bFF \in Ctrl
  /\ bFF_HiWatermark \in BOOLEAN /\ bFF_LoWatermark \in BOOLEAN
  /\ s_interrupt_set \in BOOLEAN /\ s_interrupt_waiting \in BOOLEAN
  /\ interrupts \in Seq(BOOLEAN)
  /\ cpu \in CpuPCs /\ cpuInterrupt \in BOOLEAN /\ back \in {"guest", "burst"}
  /\ scheduled \in BOOLEAN /\ next \in Nat
  /\ gpu \in GpuPCs /\ gpuInterrupt \in BOOLEAN /\ inLoop \in BOOLEAN
  /\ host \in HostPCs /\ wasUnpaused \in BOOLEAN

\* CommandProcessor::Init(), Fifo::Init() and Prepare(), and the CORE_RUN that boot ends
\* with, whose EmulatorState(true) has woken the prepared loop.
Init ==
  /\ state = "running" /\ s_emu_running_state = TRUE
  /\ s_sync_ticks = 0
  /\ s_sync_wakeup_event!Init
  /\ m_running_state = "need" /\ loopPhase = "between" /\ m_shutdown = FALSE
  /\ CPReadWriteDistance = 0
  /\ m_CPCtrlReg = [GPReadEnable |-> FALSE, GPLinkEnable |-> FALSE,
                    FifoOverflowIntEnable |-> FALSE, FifoUnderflowIntEnable |-> FALSE]
  /\ bFF = m_CPCtrlReg
  /\ bFF_HiWatermark = FALSE /\ bFF_LoWatermark = FALSE
  /\ s_interrupt_set = FALSE /\ s_interrupt_waiting = FALSE /\ interrupts = <<>>
  /\ cpu = "guest" /\ cpuInterrupt = FALSE /\ back = "guest"
  /\ scheduled = TRUE /\ next = 0
  /\ gpu = "out" /\ gpuInterrupt = FALSE /\ inLoop = FALSE
  /\ host = "idle" /\ wasUnpaused = FALSE

CpuGoto(from, to) == cpu = from /\ cpu' = to

GpuGoto(from, to) == gpu = from /\ gpu' = to

HostGoto(from, to) == host = from /\ host' = to

\* What the watermarks ask for, given the flags that are set.
InterruptOf(hi, lo) ==
  /\ \/ hi /\ bFF.FifoOverflowIntEnable
     \/ lo /\ bFF.FifoUnderflowIntEnable
  /\ m_CPCtrlReg.GPReadEnable

SetWatermarks ==
  /\ bFF_HiWatermark' = (CPReadWriteDistance > CPHiWatermark)
  /\ bFF_LoWatermark' = (CPReadWriteDistance < CPLoWatermark)

\* Both threads act only if the interrupt is not as it should be and not on its way.
Outdated(interrupt) == interrupt # s_interrupt_set /\ ~s_interrupt_waiting

-----------------------------------------------------------------------------
(* The guest writes to the FIFO: GatherPipeBursted(). *)

\* SetCPStatusFromCPU().  A guest that wrote more than the FIFO holds would trip the
\* assertion at the end of GatherPipeBursted().
GatherPipeBursted ==
  /\ CPReadWriteDistance < Capacity
  /\ CpuGoto("guest", "test")
  /\ SetWatermarks
  /\ UNCHANGED <<s_emu_running_state, s_sync_ticks, syncEvent, loop, CPReadWriteDistance,
                 registers, interruptVars, cpuInterrupt, back, scheduled, next, gpuLocals,
                 hostLocals>>

StatusFromCPU ==
  /\ LET interrupt == InterruptOf(bFF_HiWatermark, bFF_LoWatermark)
     IN  \/ /\ Outdated(interrupt)
            /\ cpuInterrupt' = interrupt
            /\ CpuGoto("test", "set")
         \/ /\ ~Outdated(interrupt)
            /\ CpuGoto("test", "fifoEvents")
            /\ UNCHANGED cpuInterrupt
  /\ UNCHANGED <<s_emu_running_state, s_sync_ticks, syncEvent, loop, CPReadWriteDistance,
                 registers, watermarks, interruptVars, back, scheduled, next, gpuLocals,
                 hostLocals>>

SetFromCPU ==
  /\ CpuGoto("set", "fifoEvents")
  /\ s_interrupt_set' = cpuInterrupt
  /\ cpuInterrupt' = FALSE
  /\ UNCHANGED <<s_emu_running_state, s_sync_ticks, syncEvent, loop, CPReadWriteDistance,
                 registers, watermarks, s_interrupt_waiting, interrupts, back, scheduled, next,
                 gpuLocals, hostLocals>>

\* UpdateInterrupts(), called by CoreTiming for the oldest event.
UpdateInterrupts(from, to) ==
  /\ interrupts # <<>>
  /\ CpuGoto(from, "irqClear")
  /\ interrupts' = Tail(interrupts)
  /\ s_interrupt_set' = Head(interrupts)
  /\ back' = to
  /\ UNCHANGED <<s_emu_running_state, s_sync_ticks, syncEvent, loop, CPReadWriteDistance,
                 registers, watermarks, s_interrupt_waiting, cpuInterrupt, scheduled, next,
                 gpuLocals, hostLocals>>

\* CoreTiming::Advance() and ProcessFifoEvents().
Advance == UpdateInterrupts("guest", "guest")

ProcessFifoEvents == s_interrupt_waiting /\ UpdateInterrupts("fifoEvents", "burst")

NoFifoEvents ==
  /\ ~s_interrupt_waiting \/ interrupts = <<>>
  /\ CpuGoto("fifoEvents", "burst")
  /\ UNCHANGED <<s_emu_running_state, s_sync_ticks, syncEvent, loop, CPReadWriteDistance,
                 registers, watermarks, interruptVars, cpuInterrupt, back, scheduled, next,
                 gpuLocals, hostLocals>>

\* A mutant: the GPU is not told that the interrupt has arrived.
ClearWaiting_NoRunGpu ==
  /\ CpuGoto("irqClear", back)
  /\ s_interrupt_waiting' = FALSE
  /\ UNCHANGED <<s_emu_running_state, s_sync_ticks, syncEvent, loop, CPReadWriteDistance,
                 registers, watermarks, s_interrupt_set, interrupts, cpuInterrupt, back,
                 scheduled, next, gpuLocals, hostLocals>>

ClearWaiting ==
  /\ CpuGoto("irqClear", "irqRunGpu")
  /\ s_interrupt_waiting' = FALSE
  /\ UNCHANGED <<s_emu_running_state, s_sync_ticks, syncEvent, loop, CPReadWriteDistance,
                 registers, watermarks, s_interrupt_set, interrupts, cpuInterrupt, back,
                 scheduled, next, gpuLocals, hostLocals>>

LinkedBurst ==
  /\ m_CPCtrlReg.GPLinkEnable
  /\ CpuGoto("burst", "runGpu")
  /\ CPReadWriteDistance' = CPReadWriteDistance + 1
  /\ UNCHANGED <<s_emu_running_state, s_sync_ticks, syncEvent, loop, registers, watermarks,
                 interruptVars, cpuInterrupt, back, scheduled, next, gpuLocals, hostLocals>>

\* The guest fills another FIFO, or with nothing read yet the same one again.
UnlinkedBurst ==
  /\ ~m_CPCtrlReg.GPLinkEnable
  /\ \/ CpuGoto("burst", "runGpu")
     \/ CPReadWriteDistance > 0 /\ CpuGoto("burst", "flush")
  /\ UNCHANGED <<s_emu_running_state, s_sync_ticks, syncEvent, loop, CPReadWriteDistance,
                 registers, watermarks, interruptVars, cpuInterrupt, back, scheduled, next,
                 gpuLocals, hostLocals>>

FlushGpu ==
  /\ s_gpu_mainloop!IsDone
  /\ CpuGoto("flush", "runGpu")
  /\ UNCHANGED <<s_emu_running_state, s_sync_ticks, syncEvent, loop, CPReadWriteDistance,
                 registers, watermarks, interruptVars, cpuInterrupt, back, scheduled, next,
                 gpuLocals, hostLocals>>

\* RunGpu(), at the end of whatever it was called for.
RunGpu(from, to) ==
  /\ CpuGoto(from, to)
  /\ s_gpu_mainloop!Wakeup
  /\ UNCHANGED <<s_emu_running_state, s_sync_ticks, syncEvent, CPReadWriteDistance, registers,
                 watermarks, interruptVars, cpuInterrupt, scheduled, next, gpuLocals,
                 hostLocals>>

BurstRunGpu == RunGpu("runGpu", "guest") /\ UNCHANGED back

IrqRunGpu == RunGpu("irqRunGpu", back) /\ back' = "guest"

\* The guest writes the control register.
WriteControl ==
  /\ CpuGoto("guest", "control")
  /\ m_CPCtrlReg' \in CtrlValues
  /\ UNCHANGED <<s_emu_running_state, s_sync_ticks, syncEvent, loop, CPReadWriteDistance, bFF,
                 watermarks, interruptVars, cpuInterrupt, back, scheduled, next, gpuLocals,
                 hostLocals>>

\* The flags that the GPU reads are stored one after another, without a lock.
StoreFlags(from, to, flags) ==
  /\ CpuGoto(from, to)
  /\ bFF' = flags
  /\ UNCHANGED <<s_emu_running_state, s_sync_ticks, syncEvent, loop, CPReadWriteDistance,
                 m_CPCtrlReg, watermarks, interruptVars, cpuInterrupt, back, scheduled, next,
                 gpuLocals, hostLocals>>

SetCpControlRegister ==
  \/ StoreFlags("control", "underflow",
       [bFF EXCEPT !.FifoOverflowIntEnable = m_CPCtrlReg.FifoOverflowIntEnable])
  \/ StoreFlags("underflow", "readEnable",
       [m_CPCtrlReg EXCEPT !.GPReadEnable = bFF.GPReadEnable])
  \/ StoreFlags("readEnable",
       IF bFF.GPReadEnable /\ ~m_CPCtrlReg.GPReadEnable THEN "flush" ELSE "runGpu",
       [bFF EXCEPT !.GPReadEnable = m_CPCtrlReg.GPReadEnable])

-----------------------------------------------------------------------------
(* SyncGPUCallback() and Update(): the CPU may have to wait. *)

SyncGPUCallback ==
  /\ scheduled
  /\ CpuGoto("guest", "isDone")
  /\ scheduled' = FALSE
  /\ \E late \in Lateness : next' = next + late
  /\ UNCHANGED <<s_emu_running_state, s_sync_ticks, syncEvent, loop, CPReadWriteDistance,
                 registers, watermarks, interruptVars, cpuInterrupt, back, gpuLocals,
                 hostLocals>>

Update_IsDone ==
  /\ CpuGoto("isDone", IF s_gpu_mainloop!IsDone THEN "idleTest" ELSE "add")
  /\ UNCHANGED <<s_emu_running_state, s_sync_ticks, syncEvent, loop, CPReadWriteDistance,
                 registers, watermarks, interruptVars, cpuInterrupt, back, scheduled, next,
                 gpuLocals, hostLocals>>

\* ScheduleEvent(next), unless it is not positive.
ScheduleSync(n) == scheduled' = (n > 0) /\ next' = (IF n > 0 THEN n ELSE 0)

\* A mutant: not counting the cycles while the GPU sleeps.
IdleTest_NoAdd ==
  /\ CpuGoto("idleTest", "guest")
  /\ ScheduleSync(MaxDistance)
  /\ UNCHANGED <<s_emu_running_state, s_sync_ticks, syncEvent, loop, CPReadWriteDistance,
                 registers, watermarks, interruptVars, cpuInterrupt, back, gpuLocals,
                 hostLocals>>

\* The GPU is sleeping, and is not late.
IdleTest ==
  /\ \/ s_sync_ticks < 0 /\ CpuGoto("idleTest", "idleAdd") /\ UNCHANGED <<scheduled, next>>
     \/ s_sync_ticks >= 0 /\ CpuGoto("idleTest", "guest") /\ ScheduleSync(MaxDistance)
  /\ UNCHANGED <<s_emu_running_state, s_sync_ticks, syncEvent, loop, CPReadWriteDistance,
                 registers, watermarks, interruptVars, cpuInterrupt, back, gpuLocals,
                 hostLocals>>

\* fetch_add() takes s_sync_ticks over the distance from which the GPU may run again.
Crosses == s_sync_ticks < MinDistance /\ s_sync_ticks + next >= MinDistance

\* A mutant: not waking the GPU when the distance is crossed while it sleeps.
IdleAdd_NoRunGpu ==
  /\ s_sync_ticks' = s_sync_ticks + next
  /\ CpuGoto("idleAdd", "guest")
  /\ ScheduleSync(MaxDistance)
  /\ UNCHANGED <<s_emu_running_state, syncEvent, loop, CPReadWriteDistance, registers,
                 watermarks, interruptVars, cpuInterrupt, back, gpuLocals, hostLocals>>

IdleAdd ==
  /\ s_sync_ticks' = s_sync_ticks + next
  /\ \/ Crosses /\ CpuGoto("idleAdd", "idleRunGpu") /\ UNCHANGED <<scheduled, next>>
     \/ ~Crosses /\ CpuGoto("idleAdd", "guest") /\ ScheduleSync(MaxDistance)
  /\ UNCHANGED <<s_emu_running_state, syncEvent, loop, CPReadWriteDistance, registers,
                 watermarks, interruptVars, cpuInterrupt, back, gpuLocals, hostLocals>>

IdleRunGpu ==
  /\ CpuGoto("idleRunGpu", "guest")
  /\ s_gpu_mainloop!Wakeup
  /\ ScheduleSync(MaxDistance)
  /\ UNCHANGED <<s_emu_running_state, s_sync_ticks, syncEvent, CPReadWriteDistance, registers,
                 watermarks, interruptVars, cpuInterrupt, back, gpuLocals, hostLocals>>

Add ==
  /\ s_sync_ticks' = s_sync_ticks + next
  /\ CpuGoto("add", IF Crosses THEN "addRunGpu" ELSE "maxTest")
  /\ next' = 0
  /\ UNCHANGED <<s_emu_running_state, syncEvent, loop, CPReadWriteDistance, registers,
                 watermarks, interruptVars, cpuInterrupt, back, scheduled, gpuLocals,
                 hostLocals>>

AddRunGpu == RunGpu("addRunGpu", "maxTest") /\ UNCHANGED back

\* A mutant: waiting only beyond MaxDistance.
MaxTest_Beyond ==
  /\ CpuGoto("maxTest", IF s_sync_ticks > MaxDistance THEN "waitTest" ELSE "updateEnd")
  /\ UNCHANGED <<s_emu_running_state, s_sync_ticks, syncEvent, loop, CPReadWriteDistance,
                 registers, watermarks, interruptVars, cpuInterrupt, back, scheduled, next,
                 gpuLocals, hostLocals>>

MaxTest ==
  /\ CpuGoto("maxTest", IF s_sync_ticks >= MaxDistance THEN "waitTest" ELSE "updateEnd")
  /\ UNCHANGED <<s_emu_running_state, s_sync_ticks, syncEvent, loop, CPReadWriteDistance,
                 registers, watermarks, interruptVars, cpuInterrupt, back, scheduled, next,
                 gpuLocals, hostLocals>>

WaitTest ==
  /\ CpuGoto("waitTest", IF s_sync_ticks > 0 THEN "wait" ELSE "updateEnd")
  /\ UNCHANGED <<s_emu_running_state, s_sync_ticks, syncEvent, loop, CPReadWriteDistance,
                 registers, watermarks, interruptVars, cpuInterrupt, back, scheduled, next,
                 gpuLocals, hostLocals>>

WaitForGpu ==
  /\ \/ cpu = "wait" /\ UNCHANGED cpu
        /\ (s_sync_wakeup_event!Block(Cpu, FALSE) \/ s_sync_wakeup_event!SeeSignal(Cpu))
     \/ CpuGoto("wait", "waitTest")
        /\ (s_sync_wakeup_event!TakeAtOnce(Cpu) \/ s_sync_wakeup_event!Return(Cpu))
  /\ UNCHANGED <<s_emu_running_state, s_sync_ticks, loop, CPReadWriteDistance, registers,
                 watermarks, interruptVars, cpuInterrupt, back, scheduled, next, gpuLocals,
                 hostLocals>>

UpdateEnd ==
  /\ CpuGoto("updateEnd", "guest")
  /\ ScheduleSync(MaxDistance - s_sync_ticks)
  /\ UNCHANGED <<s_emu_running_state, s_sync_ticks, syncEvent, loop, CPReadWriteDistance,
                 registers, watermarks, interruptVars, cpuInterrupt, back, gpuLocals,
                 hostLocals>>

-----------------------------------------------------------------------------
(* The CPU thread leaves the guest when the host says so (module CPU). *)

\* Where the host owns m_csCpuOccupied.
HostHasLock == host \in {"lockFifo", "lockWake", "lockFlush", "locked"}

LeaveGuest ==
  /\ state # "running"
  /\ CpuGoto("guest", "paused")
  /\ UNCHANGED <<s_emu_running_state, s_sync_ticks, syncEvent, loop, CPReadWriteDistance,
                 registers, watermarks, interruptVars, cpuInterrupt, back, scheduled, next,
                 gpuLocals, hostLocals>>

CpuRun ==
  /\ \/ state = "running" /\ ~HostHasLock /\ CpuGoto("paused", "guest")
     \/ state = "powerdown" /\ CpuGoto("paused", "exited")
  /\ UNCHANGED <<s_emu_running_state, s_sync_ticks, syncEvent, loop, CPReadWriteDistance,
                 registers, watermarks, interruptVars, cpuInterrupt, back, scheduled, next,
                 gpuLocals, hostLocals>>

-----------------------------------------------------------------------------
(* The GPU thread: the payload of RunGpuLoop(). *)

gpuShared == <<s_emu_running_state, registers, cpuLocals, hostLocals>>

\* "Do nothing while paused"
Enter ==
  /\ GpuGoto("out", IF s_emu_running_state THEN "status" ELSE "end")
  /\ s_gpu_mainloop!Enter
  /\ UNCHANGED <<gpuShared, s_sync_ticks, syncEvent, CPReadWriteDistance, watermarks,
                 interruptVars, gpuInterrupt, inLoop>>

SetCPStatusFromGPU ==
  /\ GpuGoto("status", "statusTest")
  /\ SetWatermarks
  /\ UNCHANGED <<gpuShared, s_sync_ticks, syncEvent, loop, CPReadWriteDistance, interruptVars,
                 gpuInterrupt, inLoop>>

AfterStatus == IF inLoop THEN "subtract" ELSE "guard"

\* A mutant: not looking whether an interrupt is on its way.
StatusTest_Impatient ==
  /\ LET interrupt == InterruptOf(bFF_HiWatermark, bFF_LoWatermark)
     IN  \/ /\ (interrupt # s_interrupt_set)
            /\ gpuInterrupt' = interrupt
            /\ GpuGoto("statusTest", "raise")
         \/ /\ ~(interrupt # s_interrupt_set)
            /\ GpuGoto("statusTest", AfterStatus)
            /\ UNCHANGED gpuInterrupt
  /\ UNCHANGED <<gpuShared, s_sync_ticks, syncEvent, loop, CPReadWriteDistance, watermarks,
                 interruptVars, inLoop>>

StatusTest ==
  /\ LET interrupt == InterruptOf(bFF_HiWatermark, bFF_LoWatermark)
     IN  \/ /\ Outdated(interrupt)
            /\ gpuInterrupt' = interrupt
            /\ GpuGoto("statusTest", "raise")
         \/ /\ ~Outdated(interrupt)
            /\ GpuGoto("statusTest", AfterStatus)
            /\ UNCHANGED gpuInterrupt
  /\ UNCHANGED <<gpuShared, s_sync_ticks, syncEvent, loop, CPReadWriteDistance, watermarks,
                 interruptVars, inLoop>>

Raise ==
  /\ GpuGoto("raise", "schedule")
  /\ s_interrupt_waiting' = TRUE
  /\ UNCHANGED <<gpuShared, s_sync_ticks, syncEvent, loop, CPReadWriteDistance, watermarks,
                 s_interrupt_set, interrupts, gpuInterrupt, inLoop>>

UpdateInterruptsFromVideoBackend ==
  /\ GpuGoto("schedule", AfterStatus)
  /\ interrupts' = Append(interrupts, gpuInterrupt)
  /\ gpuInterrupt' = FALSE
  /\ UNCHANGED <<gpuShared, s_sync_ticks, syncEvent, loop, CPReadWriteDistance, watermarks,
                 s_interrupt_set, s_interrupt_waiting, inLoop>>

CanRead == ~s_interrupt_waiting /\ bFF.GPReadEnable /\ CPReadWriteDistance > 0

Guard ==
  /\ GpuGoto("guard", IF CanRead THEN "sync" ELSE "drain")
  /\ UNCHANGED <<gpuShared, s_sync_ticks, syncEvent, loop, CPReadWriteDistance, watermarks,
                 interruptVars, gpuInterrupt, inLoop>>

SyncTest ==
  /\ GpuGoto("sync", IF s_sync_ticks < MinDistance THEN "drain" ELSE "run")
  /\ UNCHANGED <<gpuShared, s_sync_ticks, syncEvent, loop, CPReadWriteDistance, watermarks,
                 interruptVars, gpuInterrupt, inLoop>>

\* OpcodeDecoder::Run(), and the burst is off the FIFO.
Execute ==
  /\ GpuGoto("run", "status")
  /\ CPReadWriteDistance' = CPReadWriteDistance - 1
  /\ inLoop' = TRUE
  /\ UNCHANGED <<gpuShared, s_sync_ticks, syncEvent, loop, watermarks, interruptVars,
                 gpuInterrupt>>

\* A mutant: signalling only when the GPU is ahead.
Subtract_Below ==
  /\ \E cyclesExecuted \in Costs :
       /\ s_sync_ticks' = s_sync_ticks - cyclesExecuted
       /\ GpuGoto("subtract", IF s_sync_ticks > 0 /\ s_sync_ticks - cyclesExecuted < 0
                              THEN "subtractSet" ELSE "guard")
  /\ inLoop' = FALSE
  /\ UNCHANGED <<gpuShared, syncEvent, loop, CPReadWriteDistance, watermarks, interruptVars,
                 gpuInterrupt>>

Subtract ==
  /\ \E cyclesExecuted \in Costs :
       /\ s_sync_ticks' = s_sync_ticks - cyclesExecuted
       /\ GpuGoto("subtract", IF s_sync_ticks > 0 /\ s_sync_ticks - cyclesExecuted <= 0
                              THEN "subtractSet" ELSE "guard")
  /\ inLoop' = FALSE
  /\ UNCHANGED <<gpuShared, syncEvent, loop, CPReadWriteDistance, watermarks, interruptVars,
                 gpuInterrupt>>

SignalSync(from, to) ==
  /\ GpuGoto(from, to)
  /\ s_sync_wakeup_event!Set
  /\ UNCHANGED <<gpuShared, s_sync_ticks, loop, CPReadWriteDistance, watermarks,
                 interruptVars, gpuInterrupt, inLoop>>

SubtractSet == SignalSync("subtractSet", "guard")

\* A mutant: the GPU keeps the time it has not used.
Drain_Not ==
  /\ GpuGoto("drain", "end")
  /\ UNCHANGED <<gpuShared, s_sync_ticks, syncEvent, loop, CPReadWriteDistance, watermarks,
                 interruptVars, gpuInterrupt, inLoop>>

\* The rest of the time is skipped.
Drain ==
  /\ GpuGoto("drain", IF s_sync_ticks > 0 THEN "exchange" ELSE "end")
  /\ UNCHANGED <<gpuShared, s_sync_ticks, syncEvent, loop, CPReadWriteDistance, watermarks,
                 interruptVars, gpuInterrupt, inLoop>>

Exchange ==
  /\ GpuGoto("exchange", IF s_sync_ticks > 0 THEN "drainSet" ELSE "end")
  /\ s_sync_ticks' = 0
  /\ UNCHANGED <<gpuShared, syncEvent, loop, CPReadWriteDistance, watermarks, interruptVars,
                 gpuInterrupt, inLoop>>

DrainSet == SignalSync("drainSet", "end")

Finish ==
  /\ GpuGoto("end", "out")
  /\ s_gpu_mainloop!Finish
  /\ UNCHANGED <<gpuShared, s_sync_ticks, syncEvent, CPReadWriteDistance, watermarks,
                 interruptVars, gpuInterrupt, inLoop>>

\* The worker goes to sleep, or leaves the loop.
BetweenPayloads ==
  /\ s_gpu_mainloop!Doze \/ s_gpu_mainloop!Leave \/ s_gpu_mainloop!Close
  /\ UNCHANGED <<gpuShared, s_sync_ticks, syncEvent, CPReadWriteDistance, watermarks,
                 interruptVars, gpuLocals>>

-----------------------------------------------------------------------------
(* The host: EmulatorState() and the calls that lead to it. *)

hostShared == <<s_sync_ticks, syncEvent, CPReadWriteDistance, m_CPCtrlReg, watermarks,
                interruptVars, cpuLocals, gpuLocals>>

\* CPU::EnableStepping(true) and PowerPC::Stop() wait for the CPU thread to leave the
\* guest, but only for a second.
HostCall(to, newState) ==
  /\ HostGoto("idle", to)
  /\ state' = newState
  /\ wasUnpaused' = (to = "lock" /\ state = "running")
  /\ UNCHANGED <<hostShared, s_emu_running_state, loop, bFF>>

Pause == state = "running" /\ HostCall("pause", "stepping")

Resume == state = "stepping" /\ HostCall("resume", "running")

PauseAndLock == HostCall("lock", "stepping")

\* With ConfirmStop the GUI pauses the machine while it asks (FrameTools.cpp:1130).
Stop ==
  /\ ConfirmStop => cpu = "paused" /\ state = "stepping"
  /\ HostCall("stop", state)

PauseDone ==
  /\ MayTimeOut \/ cpu = "paused"
  /\ HostGoto("pause", "paused")
  /\ UNCHANGED <<hostShared, s_emu_running_state, loop, bFF, state, wasUnpaused>>

TakeLock ==
  /\ cpu = "paused"
  /\ HostGoto("lock", "lockFifo")
  /\ UNCHANGED <<hostShared, s_emu_running_state, loop, bFF, state, wasUnpaused>>

StoreRunning(from, to, running) ==
  /\ HostGoto(from, to)
  /\ s_emu_running_state' = running
  /\ UNCHANGED <<hostShared, loop, bFF, state, wasUnpaused>>

HostWakeup(from, to) ==
  /\ HostGoto(from, to)
  /\ s_gpu_mainloop!Wakeup
  /\ UNCHANGED <<hostShared, s_emu_running_state, bFF, state, wasUnpaused>>

\* A mutant: the loop is not told that the emulator pauses or resumes.
EmulatorState_NoWakeup(from, wake, to, running) ==
  \/ StoreRunning(from, wake, running)
  \/ /\ HostGoto(wake, to)
     /\ UNCHANGED <<hostShared, s_emu_running_state, loop, bFF, state, wasUnpaused>>

EmulatorState(from, wake, to, running) ==
  StoreRunning(from, wake, running) \/ HostWakeup(wake, to)

HostFlush(from, to) ==
  /\ s_gpu_mainloop!IsDone
  /\ HostGoto(from, to)
  /\ UNCHANGED <<hostShared, s_emu_running_state, loop, bFF, state, wasUnpaused>>

\* The CPU comes first, the FIFO last, in both directions.
Unlock ==
  /\ HostGoto("locked", IF wasUnpaused THEN "resume" ELSE "idle")
  /\ state' = IF wasUnpaused THEN "running" ELSE state
  /\ wasUnpaused' = FALSE
  /\ UNCHANGED <<hostShared, s_emu_running_state, loop, bFF>>

\* PowerPC::Stop(), and the first line of ExitGpuLoop().  A CPU thread that leaves the guest
\* between the two might as well leave it after the second.
Powerdown ==
  /\ HostGoto("powerdown", "exitFlush")
  /\ state' = "powerdown"
  /\ bFF' = [bFF EXCEPT !.GPReadEnable = FALSE]
  /\ UNCHANGED <<hostShared, s_emu_running_state, loop, wasUnpaused>>

\* Stop(false): the loop runs, as only Stop() makes it end.
ExitShutdown ==
  /\ HostGoto("exitShutdown", "exitWake")
  /\ s_gpu_mainloop!Stop
  /\ UNCHANGED <<hostShared, s_emu_running_state, bFF, state, wasUnpaused>>

HostContinues ==
  \/ PauseDone
  \/ EmulatorState("paused", "pauseWake", "idle", FALSE)
  \/ EmulatorState("resume", "resumeWake", "idle", TRUE)
  \/ TakeLock
  \/ EmulatorState("lockFifo", "lockWake", "lockFlush", FALSE)
  \/ HostFlush("lockFlush", "locked")
  \/ Unlock
  \/ EmulatorState("stop", "stopWake", "powerdown", FALSE)
  \/ Powerdown
  \/ HostFlush("exitFlush", "exitRunning")
  \/ StoreRunning("exitRunning", "exitShutdown", TRUE)
  \/ ExitShutdown
  \/ HostWakeup("exitWake", "stopped")

-----------------------------------------------------------------------------

\* The CPU thread inside the handler of a register, of a burst or of an event, or paused.
CpuContinues ==
  \/ StatusFromCPU \/ SetFromCPU \/ ProcessFifoEvents \/ NoFifoEvents \/ ClearWaiting
  \/ LinkedBurst \/ UnlinkedBurst \/ FlushGpu \/ BurstRunGpu \/ IrqRunGpu
  \/ SetCpControlRegister
  \/ Update_IsDone \/ IdleTest \/ IdleAdd \/ IdleRunGpu \/ Add \/ AddRunGpu
  \/ MaxTest \/ WaitTest \/ WaitForGpu \/ UpdateEnd
  \/ CpuRun

Payload ==
  \/ SetCPStatusFromGPU \/ StatusTest \/ Raise
  \/ UpdateInterruptsFromVideoBackend \/ Guard \/ SyncTest \/ Execute \/ Subtract
  \/ SubtractSet \/ Drain \/ Exchange \/ DrainSet \/ Finish

Gpu == Enter \/ Payload \/ BetweenPayloads

Next ==
  \/ GatherPipeBursted \/ WriteControl \/ Advance \/ SyncGPUCallback
  \/ CpuContinues \/ LeaveGuest
  \/ Gpu
  \/ Pause \/ Resume \/ PauseAndLock \/ Stop
  \/ HostContinues

Spec == Init /\ [][Next]_vars

\* Both threads run, and emulated time passes, so that the events of CoreTiming come.
\* The payload runs even if the loop has nothing to do: Run() was given a timeout of 100 ms
\* (Fifo.cpp:387).  Nobody has to write to the FIFO, to touch a register or to press a key.
Fairness ==
  /\ WF_vars(CpuContinues) /\ SF_vars(SyncGPUCallback) /\ SF_vars(Advance)
  /\ WF_vars(Gpu)

FairSpec == Spec /\ Fairness

-----------------------------------------------------------------------------
(* Properties. *)

\* "block the CPU if required" (Fifo.cpp:513): a CPU that waits although the GPU has
\* caught up has been signalled, or the GPU is about to signal it.
NoLostSync ==
  cpu = "wait" /\ s_sync_ticks <= 0 =>
    syncSignal \/ syncPhase[Cpu] = "released" \/ gpu \in {"subtractSet", "drainSet"}

\* Whenever the guest runs the next check is scheduled, and the CPU is at most MaxDistance
\* ahead, and as much more as CoreTiming was late (Fifo.cpp:523-558): an Update() that
\* returned nothing positive would be the last one.  The distance may reach MaxDistance
\* although Update() waits at that point, as it only adds the cycles if the GPU is idle.
SyncGoesOn ==
  cpu \in {"guest", "paused"} =>
    scheduled /\ \E late \in Lateness : s_sync_ticks <= MaxDistance + late

\* s_interrupt_waiting stands for exactly one interrupt on its way (CommandProcessor.cpp:
\* 365, 427-436): one that is lost would stop the GPU for ever, and a second one could
\* overtake what the guest has acknowledged.
OneInterruptOnItsWay ==
  /\ Len(interrupts) + (IF gpu = "schedule" THEN 1 ELSE 0) + (IF cpu = "irqClear" THEN 1 ELSE 0)
       = IF s_interrupt_waiting THEN 1 ELSE 0

\* Everybody has done what there was to do, and no payload has to run any more.
Quiet ==
  /\ m_running_state = "done" /\ gpu = "out"
  /\ s_emu_running_state /\ host = "idle"
  /\ cpu = "guest"

\* "check if we are able to run this buffer" (Fifo.cpp:333-337): the loop never rests on a
\* FIFO it could read.
NoStrandedWork == Quiet => ~CanRead \/ s_sync_ticks < MinDistance

\* The watermark interrupt is level triggered: when nothing is on its way the guest sees
\* what the registers and the FIFO ask for, however the two threads' checks overlapped
\* (CommandProcessor.cpp:425-436, 456-467).
InterruptSettles ==
  Quiet /\ ~s_interrupt_waiting =>
    s_interrupt_set = InterruptOf(CPReadWriteDistance > CPHiWatermark,
                                  CPReadWriteDistance < CPLoWatermark)

\* "We're good and paused, right?" (Fifo.cpp:84): while the host is inside PauseAndLock()
\* neither thread touches the FIFO, and no payload that saw the old state is still at work.
LockMeansIdle ==
  host = "locked" => cpu = "paused" /\ gpu \in {"out", "end"} /\ ~s_emu_running_state

\* The wait of Update() (Fifo.cpp:540-546) ends, unless the emulator is paused or stopped
\* meanwhile, and then it ends after the resume.
UpdateReturns ==
  []<>(cpu \notin {"waitTest", "wait"} \/ ~s_emu_running_state \/ host = "stopped")

\* A full FIFO that the GPU may read is read, unless the emulator pauses first: neither
\* the interrupt handshake nor the distance to the CPU stalls it.
FifoDrains ==
  CPReadWriteDistance = Capacity /\ bFF.GPReadEnable
    ~> CPReadWriteDistance < Capacity \/ ~bFF.GPReadEnable \/ host # "idle" \/ state # "running"
=============================================================================
