---------------------------- MODULE AsyncRequests ----------------------------
(***************************************************************************)
(* Requests of the CPU thread that only the GPU thread may carry out       *)
(* (VideoCommon/AsyncRequests.cpp): the guest reads and writes pixels of   *)
(* the frame buffer, asks for queries, and has frames shown.  The payload  *)
(* of the GPU loop (VideoCommon/Fifo.cpp) takes them from a queue; some    *)
(* callers wait.  The host pauses, resumes and stops both threads.         *)
(*                                                                         *)
(* m_mutex protects everything but m_empty.  A section of the GPU thread   *)
(* under it is one step; PushEvent() wakes the GPU loop while it holds the *)
(* mutex and is two.  s_gpu_mainloop is taken as its contract PayloadLoop. *)
(* Commands of the FIFO are left out, but for the fact that the payload    *)
(* looks for requests after each burst.                                    *)
(***************************************************************************)
EXTENDS Integers, Sequences

CONSTANTS
  Data,      \* what tells two requests of a type apart
  MaxQueue   \* bound: requests in the queue when the guest makes another

Pokes == {"EFB_POKE_COLOR", "EFB_POKE_Z"}

\* EFB_PEEK stands for all that PushEvent() is told to block for.
Types == Pokes \cup {"EFB_PEEK", "SWAP_EVENT"}
Requests == [type : Types, data : Data]
Blocking == {r \in Requests : r.type = "EFB_PEEK"}

ASSUME AsyncAssumption == MaxQueue \in Nat

VARIABLES
  m_queue, m_empty, m_enable, m_passthrough,
  m_wake_me_up_again,
  m_mutex,    \* the CPU thread is inside PushEvent() with the mutex
  e,          \* what PullEventsInternal() has in hand: m_merged_efb_pokes, or its `e'
  rendered,   \* the last request the renderer carried out
  cpu, request,                            \* the CPU thread, and what it asks for
  gpu,                                     \* the GPU thread
  m_running_state, loopPhase, m_shutdown,  \* s_gpu_mainloop
  s_emu_running_state, host

queueVars == <<m_queue, m_empty, m_enable, m_passthrough, m_wake_me_up_again>>
loop == <<m_running_state, loopPhase, m_shutdown>>
cpuVars == <<cpu, request>>
hostVars == <<s_emu_running_state, host>>
vars == <<queueVars, m_mutex, e, rendered, cpuVars, gpu, loop, hostVars>>

s_gpu_mainloop == INSTANCE PayloadLoop WITH
  state <- m_running_state, phase <- loopPhase, shutdown <- m_shutdown

CpuPCs == {"guest", "push", "runGpu", "parked", "woken", "paused", "off"}
GpuPCs == {"enable", "passthrough", "loop", "test", "pull", "lock", "poke", "again", "handle",
           "pop", "work", "end", "disable", "passthroughOn", "join", "off"}
HostPCs == {"idle", "pause", "pauseWake", "paused", "resume", "resumeWake", "stop", "stopWake",
            "powerdown", "exitFlush", "exitRunning", "exitShutdown", "exitWake", "stopped"}

TypeOK ==
  /\ m_queue \in Seq(Requests) /\ e \in Seq(Requests) /\ rendered \in Seq(Requests)
  /\ {m_empty, m_enable, m_passthrough, m_wake_me_up_again, m_mutex} \subseteq BOOLEAN
  /\ cpu \in CpuPCs /\ request \in Requests
  /\ gpu \in GpuPCs
  /\ s_gpu_mainloop!TypeOK
  /\ s_emu_running_state \in BOOLEAN /\ host \in HostPCs

Init ==
  /\ m_queue = <<>> /\ m_empty = FALSE
  /\ m_enable = FALSE /\ m_passthrough = TRUE /\ m_wake_me_up_again = FALSE
  /\ m_mutex = FALSE /\ e = <<>> /\ rendered = <<>>
  /\ cpu = "off" /\ request \in Requests
  /\ gpu = "off"
  /\ m_running_state = "done" /\ loopPhase = "closed" /\ m_shutdown = FALSE
  /\ s_emu_running_state = FALSE /\ host = "stopped"

CpuGoto(from, to) == cpu = from /\ cpu' = to
GpuGoto(from, to) == gpu = from /\ gpu' = to
HostGoto(from, to) == host = from /\ host' = to

-----------------------------------------------------------------------------
(* The CPU thread. *)

\* The guest makes a request: PushEvent() is called.
Call(r) ==
  /\ CpuGoto("guest", "push")
  /\ Len(m_queue) < MaxQueue
  /\ request' = r
  /\ UNCHANGED <<queueVars, m_mutex, e, rendered, gpu, loop, hostVars>>

PassThrough ==
  /\ CpuGoto("push", "guest")
  /\ ~m_mutex /\ m_passthrough
  /\ rendered' = <<request>>
  /\ UNCHANGED <<queueVars, m_mutex, e, request, gpu, loop, hostVars>>

\* Between SetEnable(false) and SetPassthrough(true) requests are lost.
Refuse ==
  /\ CpuGoto("push", "guest")
  /\ ~m_mutex /\ ~m_passthrough /\ ~m_enable
  /\ m_empty' = FALSE
  /\ m_wake_me_up_again' = (m_wake_me_up_again \/ request \in Blocking)
  /\ UNCHANGED <<m_queue, m_enable, m_passthrough, m_mutex, e, rendered, request, gpu, loop,
                 hostVars>>

Enqueue ==
  /\ CpuGoto("push", "runGpu")
  /\ ~m_mutex /\ ~m_passthrough /\ m_enable
  /\ m_mutex' = TRUE
  /\ m_empty' = FALSE
  /\ m_wake_me_up_again' = (m_wake_me_up_again \/ request \in Blocking)
  /\ m_queue' = Append(m_queue, request)
  /\ UNCHANGED <<m_enable, m_passthrough, e, rendered, request, gpu, loop, hostVars>>

\* Fifo::RunGpu(), and then the end of the call or m_cond.wait(), which releases the mutex.
RunGpu ==
  /\ CpuGoto("runGpu", IF request \in Blocking THEN "parked" ELSE "guest")
  /\ s_gpu_mainloop!Wakeup
  /\ m_mutex' = FALSE
  /\ UNCHANGED <<queueVars, e, rendered, request, gpu, hostVars>>

SpuriousWakeup ==
  /\ CpuGoto("parked", "woken")
  /\ UNCHANGED <<queueVars, m_mutex, e, rendered, request, gpu, loop, hostVars>>

\* A mutant: a wait without a condition.
TestEmpty_Not ==
  /\ CpuGoto("woken", "guest")
  /\ ~m_mutex
  /\ UNCHANGED <<queueVars, m_mutex, e, rendered, request, gpu, loop, hostVars>>

TestEmpty ==
  /\ CpuGoto("woken", IF m_queue = <<>> THEN "guest" ELSE "parked")
  /\ ~m_mutex
  /\ UNCHANGED <<queueVars, m_mutex, e, rendered, request, gpu, loop, hostVars>>

\* The host has told the CPU thread to pause, or to power down, between two blocks.
LeaveGuest ==
  /\ \/ CpuGoto("guest", "paused") /\ host = "pause"
     \/ cpu \in {"guest", "paused"} /\ cpu' = "off"
        /\ host \in {"exitFlush", "exitRunning", "exitShutdown", "exitWake", "stopped"}
  /\ UNCHANGED <<queueVars, m_mutex, e, rendered, request, gpu, loop, hostVars>>

CpuContinues == PassThrough \/ Refuse \/ Enqueue \/ RunGpu \/ TestEmpty

-----------------------------------------------------------------------------
(* The GPU thread: RunGpuLoop() and its payload. *)

gpuShared == <<m_mutex, request, hostVars>>

NotifyAll == cpu' = IF cpu = "parked" THEN "woken" ELSE cpu

\* SetEnable() and SetPassthrough()
SetEnable ==
  /\ GpuGoto("enable", "passthrough")
  /\ ~m_mutex
  /\ m_enable' = TRUE
  /\ UNCHANGED <<m_queue, m_empty, m_passthrough, m_wake_me_up_again, e, rendered, cpu, loop,
                 gpuShared>>

SetPassthrough(from, to, enable) ==
  /\ GpuGoto(from, to)
  /\ ~m_mutex
  /\ m_passthrough' = enable
  /\ UNCHANGED <<m_queue, m_empty, m_enable, m_wake_me_up_again, e, rendered, cpu, loop, gpuShared>>

\* A mutant: nobody is told that the queue has been emptied.
SetDisable_Silent ==
  /\ GpuGoto("disable", "passthroughOn")
  /\ ~m_mutex
  /\ m_enable' = FALSE
  /\ m_queue' = <<>>
  /\ UNCHANGED <<m_empty, m_passthrough, m_wake_me_up_again, e, rendered, cpu, loop, gpuShared>>

SetDisable ==
  /\ GpuGoto("disable", "passthroughOn")
  /\ ~m_mutex
  /\ m_enable' = FALSE
  /\ m_queue' = <<>>
  /\ IF m_wake_me_up_again THEN NotifyAll ELSE UNCHANGED cpu
  /\ UNCHANGED <<m_empty, m_passthrough, m_wake_me_up_again, e, rendered, loop, gpuShared>>

Enter ==
  /\ GpuGoto("loop", "test")
  /\ s_gpu_mainloop!Enter
  /\ UNCHANGED <<queueVars, e, rendered, cpu, gpuShared>>

\* "Do nothing while paused"
TestRunning ==
  /\ GpuGoto("test", IF s_emu_running_state THEN "pull" ELSE "end")
  /\ UNCHANGED <<queueVars, e, rendered, cpu, loop, gpuShared>>

PullEvents ==
  /\ GpuGoto("pull", IF m_empty THEN "work" ELSE "lock")
  /\ UNCHANGED <<queueVars, e, rendered, cpu, loop, gpuShared>>

\* So many pokes of one type are at the front.
SameType(q, n) ==
  /\ q[1].type \in Pokes
  /\ \A i \in 1 .. n : q[i].type = q[1].type

\* The head of the loop in PullEventsInternal(), with the queue it finds: the end and who is
\* to be woken, as many pokes as possible, or one request, which stays in the queue.
Pull(q) ==
  \/ /\ q = <<>>
     /\ m_queue' = q /\ e' = <<>> /\ gpu' = "work"
     /\ IF m_wake_me_up_again THEN NotifyAll ELSE UNCHANGED cpu
     /\ m_wake_me_up_again' = FALSE
  \/ \E n \in 1 .. Len(q) :
       /\ SameType(q, n) /\ (n < Len(q) => ~SameType(q, n + 1))
       /\ e' = SubSeq(q, 1, n) /\ m_queue' = SubSeq(q, n + 1, Len(q)) /\ gpu' = "poke"
       /\ UNCHANGED <<m_wake_me_up_again, cpu>>
  \/ /\ q # <<>> /\ q[1].type \notin Pokes
     /\ e' = <<q[1]>> /\ m_queue' = q /\ gpu' = "handle"
     /\ UNCHANGED <<m_wake_me_up_again, cpu>>

PullEventsInternal ==
  /\ gpu = "lock" /\ ~m_mutex
  /\ m_empty' = TRUE
  /\ Pull(m_queue)
  /\ UNCHANGED <<m_enable, m_passthrough, rendered, loop, gpuShared>>

PokeEFB ==
  /\ GpuGoto("poke", "again")
  /\ rendered' = <<e[Len(e)]>> /\ e' = <<>>
  /\ UNCHANGED <<queueVars, cpu, loop, gpuShared>>

HandleEvent ==
  /\ GpuGoto("handle", "pop")
  /\ rendered' = e /\ e' = <<>>
  /\ UNCHANGED <<queueVars, cpu, loop, gpuShared>>

\* The lock is taken again, and the loop goes on.
PullMore ==
  /\ ~m_mutex
  /\ \/ gpu = "again" /\ Pull(m_queue)
     \/ gpu = "pop" /\ Pull(Tail(m_queue))
  /\ UNCHANGED <<m_empty, m_enable, m_passthrough, rendered, loop, gpuShared>>

\* The payload reads a burst, after which it looks again, or has nothing to read.
Work(to) ==
  /\ GpuGoto("work", to)
  /\ UNCHANGED <<queueVars, e, rendered, cpu, loop, gpuShared>>

Finish ==
  /\ GpuGoto("end", "loop")
  /\ s_gpu_mainloop!Finish
  /\ UNCHANGED <<queueVars, e, rendered, cpu, gpuShared>>

BetweenPayloads ==
  /\ gpu = "loop"
  /\ \/ s_gpu_mainloop!Doze /\ UNCHANGED gpu
     \/ s_gpu_mainloop!Leave /\ UNCHANGED gpu
     \/ s_gpu_mainloop!Close /\ gpu' = "disable"
  /\ UNCHANGED <<queueVars, e, rendered, cpu, gpuShared>>

\* EmuThread() waits for the CPU thread.
Join ==
  /\ GpuGoto("join", "off")
  /\ cpu = "off"
  /\ UNCHANGED <<queueVars, e, rendered, cpu, loop, gpuShared>>

Gpu ==
  \/ SetEnable \/ SetPassthrough("passthrough", "loop", FALSE)
  \/ Enter \/ TestRunning \/ PullEvents \/ PullEventsInternal \/ PokeEFB \/ HandleEvent
  \/ PullMore \/ Work("pull") \/ Work("end") \/ Finish \/ BetweenPayloads
  \/ SetDisable \/ SetPassthrough("passthroughOn", "join", TRUE) \/ Join

-----------------------------------------------------------------------------
(* The host. *)

hostShared == <<queueVars, m_mutex, e, rendered, request, gpu>>

\* Fifo::Init() has prepared the loop, CORE_RUN has woken it, and EmuThread() spawns the CPU
\* thread and becomes the GPU thread.
Boot ==
  /\ HostGoto("stopped", "idle")
  /\ GpuGoto("off", "enable") /\ CpuGoto("off", "guest")
  /\ m_running_state' = "need" /\ loopPhase' = "between" /\ m_shutdown' = FALSE
  /\ s_emu_running_state' = TRUE
  /\ UNCHANGED <<queueVars, m_mutex, e, rendered, request>>

HostCall(from, to) ==
  /\ HostGoto(from, to)
  /\ UNCHANGED <<hostShared, s_emu_running_state, cpu, loop>>

Resume ==
  /\ HostGoto("paused", "resume")
  /\ CpuGoto("paused", "guest")
  /\ UNCHANGED <<hostShared, s_emu_running_state, loop>>

\* EmulatorState(), after PowerPC::Pause() has waited for the CPU thread.
StoreRunning(from, to, running) ==
  /\ HostGoto(from, to)
  /\ from = "pause" => cpu = "paused"
  /\ s_emu_running_state' = running
  /\ UNCHANGED <<hostShared, cpu, loop>>

HostWakeup(from, to) ==
  /\ HostGoto(from, to)
  /\ s_gpu_mainloop!Wakeup
  /\ UNCHANGED <<hostShared, s_emu_running_state, cpu>>

FlushGpu ==
  /\ HostGoto("exitFlush", "exitRunning")
  /\ s_gpu_mainloop!IsDone
  /\ UNCHANGED <<hostShared, s_emu_running_state, cpu, loop>>

ExitShutdown ==
  /\ HostGoto("exitShutdown", "exitWake")
  /\ s_gpu_mainloop!Stop
  /\ UNCHANGED <<hostShared, s_emu_running_state, cpu>>

User ==
  \/ HostCall("idle", "pause") \/ Resume
  \/ HostCall("idle", "stop") \/ HostCall("paused", "stop")
  \/ Boot

\* EnableStepping(), and Core::Stop() with ExitGpuLoop().
HostContinues ==
  \/ StoreRunning("pause", "pauseWake", FALSE) \/ HostWakeup("pauseWake", "paused")
  \/ StoreRunning("resume", "resumeWake", TRUE) \/ HostWakeup("resumeWake", "idle")
  \/ StoreRunning("stop", "stopWake", FALSE) \/ HostWakeup("stopWake", "powerdown")
  \/ HostCall("powerdown", "exitFlush") \/ FlushGpu
  \/ StoreRunning("exitRunning", "exitShutdown", TRUE)
  \/ ExitShutdown \/ HostWakeup("exitWake", "stopped")

-----------------------------------------------------------------------------
Next ==
  \/ \E r \in Requests : Call(r)
  \/ CpuContinues \/ SpuriousWakeup \/ LeaveGuest
  \/ Gpu
  \/ User \/ HostContinues

Spec == Init /\ [][Next]_vars

\* The threads run.  Nobody has to make a request, and the FIFO need never be empty.
Fairness == WF_vars(CpuContinues) /\ WF_vars(Gpu) /\ WF_vars(HostContinues)

FairSpec == Spec /\ Fairness

-----------------------------------------------------------------------------
(* Properties. *)

\* What has been asked for and not been carried out: pokes in hand have left the queue, and a
\* request that was carried out has still to be popped.
Unhandled ==
  IF gpu = "poke" THEN e \o m_queue
  ELSE IF gpu = "pop" THEN Tail(m_queue)
  ELSE m_queue

Waiting == cpu \in {"runGpu", "parked", "woken"} /\ request \in Blocking

Queue == INSTANCE RequestQueue WITH
  Mergeable <- {s \in Seq(Requests) : Len(s) = 1 \/ SameType(s, Len(s))},
  pending <- Unhandled, enabled <- m_enable, waiting <- Waiting

\* Requests are carried out in order, none twice, and a caller that waits goes on only when
\* his request and all before it have been carried out, although the requests are handled
\* outside the lock, pokes leave the queue before they are, and the wait is for the whole
\* queue (AsyncRequests.cpp:50-60, 91).
ImplementsQueue == Queue!Spec

\* A caller that waits goes on, whether the GPU thread answers, the host pauses and resumes, or
\* the machine is stopped and the queue emptied (AsyncRequests.cpp:63-67, 100-107).
PushReturns == cpu \in {"parked", "woken"} ~> cpu = "guest"
=============================================================================
