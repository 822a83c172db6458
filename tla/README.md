# A specification of Dolphin's threads and its emulated time

Dolphin emulates a GameCube or Wii on several threads: one executes the guest's processor,
one its graphics processor, one the user interface, and smaller ones write memory cards,
read discs and compress savestates. They meet in a few hundred lines of C++ that decide
whether the emulator is correct, deterministic and free of hangs. This directory holds TLA+
modules for those lines, configurations with which TLC checks them on small instances, and
proofs, checked by TLAPS, that hold for instances of every size.

Sources are named relative to `Source/Core/`. `PROJECT.json` maps each definition to the
lines it stands for and lists the hazards of the code with the properties that cover them.

## 1. The system

| Component | State | Operations | Modelled in |
|---|---|---|---|
| `Common/Event.h`, `Flag.h` | a flag, a mutex, a condition variable | Set, Wait, WaitFor, Reset | `Event`, `AutoResetEvent` |
| `Common/BlockingLoop.h` | running state, stopped, shutdown, two events, two mutexes | Run, Wakeup, Wait, Prepare, Stop, IsDone, AllowSleep | `BlockingLoop`, `PayloadLoop` |
| `Core/CoreTiming.cpp` | clock, slice, downcount, event list, cross-thread queue, overclocking factor | ScheduleEvent, ScheduleEvent_Threadsafe, RemoveEvent, RemoveAllEvents, Advance, ProcessFifoWaitEvents, Idle, ForceExceptionCheck, GetTicks, DoState, Init, Shutdown | `CoreTiming` (not the registry of event types) |
| `Core/HW/CPU.cpp`, `Core/PowerPC/PowerPC.cpp` (run state) | the state word, a step event, a state-change event, the mutex of the CPU thread | Run, Stop, Reset, Break, StepOpcode, EnableStepping, PauseAndLock, Start, Pause, RunLoop | `CPU` |
| `VideoCommon/Fifo.cpp`, `CommandProcessor.cpp` | distance between the FIFO's ends, control register, watermarks, interrupt flags, `s_sync_ticks`, the GPU loop | GatherPipeBursted, RunGpu, FlushGpu, the payload, Update, SyncGPUCallback, SetCpControlRegister, SetCPStatusFromCPU/GPU, UpdateInterrupts, EmulatorState, PauseAndLock, ExitGpuLoop | `Fifo` (pointers, breakpoints and the deterministic GPU thread left out) |
| `Core/HW/GCMemcardRaw.cpp` | the image, the flush buffer, a dirty flag, a trigger, the file | Read, Write, ClearBlock, ClearAll, FlushThread, DoState, destructor | `MemoryCard` |
| `VideoCommon/AsyncRequests.cpp` | a queue, `m_empty`, a mutex and a condition variable, two switches | PushEvent, PullEvents, HandleEvent, SetEnable, SetPassthrough | `AsyncRequests`, `RequestQueue` |
| `VideoCommon/PixelEngine.cpp` | token, finish flag and their interrupts | SetToken, SetFinish, their events | planned |
| `Core/HW/DVDThread.cpp` | a request, a buffer, two events | Start, StartRead, WaitUntilIdle, FinishRead, Stop, DoState | `DVDThread`, inside `WiiIpc` (not DoState) |
| `Core/HW/WII_IPC.cpp`, `Core/IPC_HLE/WII_IPC_HLE.cpp` | control flags, queues of requests, replies and acknowledgements | Update, ExecuteCommand, EnqueueRequest, EnqueueReply, GenerateReply, GenerateAck, UpdateInterrupts, Reset, ES_LAUNCH, the queue of `/dev/di` | `WiiIpc` (not the devices themselves) |
| `Core/HW/GCMemcardDirectory.cpp` | saves, per-save dirty flags, a flush thread | Read, Write, ClearBlock, FlushToFile, DoState | planned |
| `Common/FifoQueue.h` | a linked list, an atomic size | Push, Pop, Clear | planned |
| `Core/State.cpp` | a buffer, a thread that writes it | SaveAs, LoadAs, Flush | planned |
| `Core/NetPlayClient.cpp`, `NetPlayServer.cpp` | players, pad mapping, pad buffers, the current game, channels | OnConnect, OnDisconnect, OnData of both sides, StartGame, SetPadMapping, AdjustPadBufferSize, GetNetPads, NetPlay_Enable and Disable, the dialog's messages | `NetPlay` (not Wiimotes, time bases, chat) |
| `Core/Core.cpp` | booting, stopping, nested pauses | Init, EmuThread, Stop, PauseAndLock | in part: Stop in `CPU` and `Fifo` |

Left out for good: the interpreter and the recompilers of the guest's instructions, DSP and
video emulation, disc images, controllers, movies and the user interfaces. They compute,
parse or draw; what they contribute to coordination (a block of guest code that takes some
cycles, a payload that reads the FIFO, a user who pauses) is a nondeterministic
action of the modules that exist.

### How the parts interact

- The **CPU thread** sits in `CPU::Run()`. While `PowerPC::state` is `CPU_RUNNING` it
  executes blocks of guest code and, when `downcount` is used up, calls
  `CoreTiming::Advance()`, which moves the clock and calls the callbacks that are due. One of
  these, `SyncGPUCallback`, tells the GPU side how many cycles have passed and may
  block until the GPU has caught up.
- The **GPU thread** sits in `RunGpuLoop()`, that is, in `BlockingLoop::Run()` with a payload
  that reads bursts from the FIFO. It sleeps on an `Event`. The CPU thread wakes it with
  `RunGpu()`. It answers with an interrupt, queued with `ScheduleEvent_Threadsafe()` and
  delivered by `Advance()`. What only the GPU thread may do for the guest (reading and writing
  pixels, queries, showing a frame) the CPU thread pushes into the queue of `AsyncRequests`,
  which the payload pulls, and for an answer it waits.
- The **host thread** pauses, resumes, locks (`Core::PauseAndLock`, for savestates) and stops.
  It changes `PowerPC::state`, raises `m_StepEvent`, takes `m_csCpuOccupied` and tells the
  GPU loop through `EmulatorState()`, `FlushGpu()` and `ExitGpuLoop()`.
- Each memory card has a **flush thread** that looks every 15 seconds whether something was
  written, copies the image under a lock and writes it to a file.
- The **disc thread** waits for a request, reads, and says so. The CPU thread hands it a request,
  schedules the completion in emulated time, and waits for the thread if it is late.
- The **emulated IOS** of a Wii is no thread: its queues are moved, on the CPU thread, by events of
  `CoreTiming` and by what the guest writes to the mailbox's registers.
- In **NetPlay** each player's process has a network thread, the GUI and the CPU thread; the host's
  process has the server's thread as well. The network thread posts to the GUI, the CPU thread
  takes controller states from buffers that the network thread fills.

### What makes it hard

Flags are read and acted upon in different steps, without locks; wakeups race with the
decision to sleep; timed waits discard signals; several threads store the same state word;
a state may be loaded, or the machine stopped, between any two steps; an interval is
measured in units that the user may change in the middle; and a slice that has been handed
out has to be shortened for an event that comes later. None of the unit tests under
`Source/UnitTests` reaches these orders: `BlockingLoopTest.cpp`, `EventTest.cpp` and
`FifoQueueTest.cpp` run the primitives at full speed and count.

For each component, what has to hold:

| Component | Correct means |
|---|---|
| Event | no waiter sleeps on a triggered event; a trigger releases a wait; a timeout consumes at most one trigger |
| BlockingLoop | a request is run; Wait returns only then; Stop is final and returns |
| CoreTiming | events run in order, at their time or at the next possible moment; the clock is monotonic |
| CPU | a lock means a stopped guest; no start, step or stop is slept through |
| Fifo | the FIFO is drained; the two clocks stay close; interrupts are neither lost nor doubled; a lock means two idle threads |
| Memory card | what was written reaches the file, untorn; a destroyed card is on the disk |
| AsyncRequests | requests are carried out in order and once; a caller that wants an answer has it when he goes on, and does go on |
| NetPlay | all machines take the same state at the same poll; a machine does not wait for a player who has left |
| Wii IPC, DVD thread | every command is acknowledged once and then answered, in order; a read gets its own data from a disc that stays in the drive |

## 2. The modules

| Module | What it is |
|---|---|
| `AutoResetEvent` | the contract of `Common::Event`: a signal, and waits that are released or expire |
| `Event` | the class with its flag, mutex and condition variable, one action per access |
| `PayloadLoop` | the contract of `Common::BlockingLoop`: a payload, a state, `IsDone` |
| `BlockingLoop` | the class, one action per access, for a worker and any number of clients; its events are `AutoResetEvent`s |
| `CoreTiming` | the scheduler: CPU thread, other threads, guest blocks, savestates |
| `CPU` | the run state: CPU thread, host, breakpoints; its step event is an `AutoResetEvent` |
| `Fifo` | CPU, GPU and host around the FIFO; composes `PayloadLoop` (the GPU loop) and `AutoResetEvent` (`s_sync_wakeup_event`) |
| `RequestQueue` | the contract of `AsyncRequests`: a queue, and a caller who waits |
| `AsyncRequests` | the queue with its mutex, flags and condition variable; CPU thread, payload and host; composes `PayloadLoop` |
| `MemoryCard` | the guest, the flush thread and the destructor; its trigger is an `AutoResetEvent` |
| `NetPlay` | clients with three threads each, the server, and the channels between them |
| `DVDThread` | the thread that reads the disc and the calls of the CPU thread; its events are reduced to Booleans |
| `WiiIpc` | the guest, the mailbox, the queues of the IOS, the drive; composes `DVDThread` (`INSTANCE`) |
| `CommonProof` | theorems about `Event` and `BlockingLoop`, the two primitives of `Common/` |
| `CoreTimingProof`, `CPUProof`, `FifoProof`, `AsyncRequestsProof`, `MemoryCardProof`, `WiiIpcProof`, `NetPlayProof` | theorems about the module of that name |
| `MC...` | instances for TLC |

The refinements chain: `Event` implements `AutoResetEvent`, which `BlockingLoop` uses;
`BlockingLoop` implements `PayloadLoop`, which `Fifo` and `AsyncRequests` use; and `AsyncRequests`
implements `RequestQueue`, which is what the renderer's callers see. A component is thus checked
against what the one below it promises, and the promise against the code.

A *program counter* per thread names the place in the code (`pc`, `cpu`, `gpu`, `host`, `at`,
`thread`). Each action is one access to shared memory with what a thread does on its own
after it; a mutex is a variable that holds its owner; a condition variable is the set of
threads parked on it. Names of variables and actions are the code's where TLA+ allows it.

### How state and actions correspond to the code

**`Event`.** `m_flag` is `Flag::m_val`, `m_mutex` its holder, `parked` the threads inside
`m_condvar`. `SetFlag`, `SetLock`, `SetNotify`, `SetUnlock` are `Set()`; the `wait...` places
are `Wait()` and `WaitFor()` (`timed` tells which), whose predicate is evaluated before
parking, after every wakeup, and once more after a timeout. Spurious wakeups are a step of a
parked thread. `AutoResetEvent` reduces this to a signal and a phase for each waiter:
"waiting", "released" (it has seen the signal and will clear it), "expired" (it has timed out
and will clear it whether it is set or not).

**`BlockingLoop`.** `m_running_state`, `m_stopped`, `m_shutdown`, `m_may_sleep` and the two
events and mutexes are the members of the class. The worker's places follow `Run()` through
its switch; the load in the switch and the `m_running_state--` are separate steps, which is
where the class is subtle. Clients call Wakeup, Wait, AllowSleep, Prepare and both forms of
Stop. `Start` is the emulator's way: the thread that prepares the loop (`Fifo.cpp:114`) becomes
its worker. `Launch` is the unit test's: a host prepares it beside a new worker. `Starting` is the
moment between two steps of `Prepare()` in which a `Stop()` is erased. `owed[c]` (auxiliary) says which payload run a client's last Wakeup asked for.
`PayloadLoop` forgets locks, events and sleeping: a state with three values that `Finish`
lowers at the end of a payload and `Wakeup` raises.

**`CoreTiming`.** The list `first` is a sequence of events; times are unbounded integers
instead of 64-bit ones. A block of guest code is `StartBlock` and `EndBlock(n)`; between them
the guest calls into the file (`ScheduleEvent`, `RemoveEvent`, `CheckSoon`, ...). `Advance()`
is `AdvanceBegin`, one `MoveEvent` for each event of another thread, `AdvanceTimer`, one
`Dispatch` and `Return` for each event due (the callback may schedule and remove events
between them) and `AdvanceEnd`. `ProcessFifoWaitEvents()` and `DoState()` are split in the
same way, because other threads push at any point. A conversion between cycles and downcount
truncates as the code's cast does. `RunsAtZero` and `AdvanceOnEntry` describe the two kinds
of core: the x86 recompiler calls `Advance()` first, the interpreter and the ARM recompiler
do not, and the latter runs a block when `downcount` is exactly zero.

**`CPU`.** `state`, `m_StepEvent` (an `AutoResetEvent`), `s_state_change` (another),
`m_csCpuOccupied` and `m_SyncEvent` are the globals of `CPU.cpp` and `PowerPC.cpp`. The CPU
thread's places are those of `Run()`; while it is in the core it may leave (`LeaveCore`)
or hit a breakpoint (`BreakLoad` to `BreakEnd`), which is `PowerPC::Pause()` on the CPU thread.
The host's `call` says which of EnableStepping, PauseAndLock and Stop it is in.

**`Fifo`.** `CPReadWriteDistance` counts bursts of 32 bytes. `m_CPCtrlReg` is the register,
`bFF` the flags the FIFO works with: `SetCpControlRegister()` stores them one after another, without a
lock (`StoreFlags`), and flushes the GPU when reading has been switched off.
The CPU thread's places cover a burst (`GatherPipeBursted` to `LinkedBurst` and `BurstRunGpu`), a
write to the control register, the delivery of an interrupt (`UpdateInterrupts`,
`ClearWaiting`, `IrqRunGpu`) and `SyncGPUCallback()` with every access of `Update()`. The
GPU's places are the payload: status, the raising of an interrupt, the guard of the loop, one
burst, the subtraction of its cycles, the drain and exchange at the end. The host pauses,
resumes, locks and stops.

**`AsyncRequests`.** `m_queue` and the flags are the members of the class; `e` is what
`PullEventsInternal()` has in hand, one request or the pokes it has merged. The sections of
the GPU thread under `m_mutex` are `PullEventsInternal` (from the lock to the first release),
`PullMore` (from one release to the next, with the `pop()`), `SetEnable`, `SetDisable` and `SetPassthrough`;
`PokeEFB` and `HandleEvent` run without it. `PushEvent()` is `Enqueue` and `RunGpu`, between which
the CPU thread has the mutex (`m_mutex`), with `PassThrough` and `Refuse` for the other switches;
a caller that waits is "parked" until he is notified or wakes by himself, and then
tests the queue. The host is `EmulatorState()` and `ExitGpuLoop()` in their steps. `Unhandled`, to which
`RequestQueue`'s `pending` is mapped, is where the two differ: pokes leave the queue before they
are carried out, other requests after.

**`MemoryCard`.** An operation of the guest changes the image block by block under
`m_flush_mutex` (`Change`, `ChangeBlock`, `ChangeEnd`) and sets `m_dirty` after it
(`MakeDirty`); the flush thread tests and clears `m_dirty`, opens the file, copies block
by block under the mutex (`CopyBegin`, `CopyBlock`, `CopyEnd`) and writes (`WriteFile`).
`LoadState` changes the image without the lock, as `DoState()` does. `pending`, `gaveUp` and
`loaded` are auxiliary.

**`NetPlay`.** A channel to and from the server is a sequence; ENet's reliable channels keep the
order, and a client's `m_async_queue` is the end of its channel. `ClientOnData` and `OnData` are
the two `OnData()` with each of their branches; `SendAsyncToClients` empties the server's
`m_async_queue`, which the host's GUI fills (`StartGame`, `SetPadMapping`,
`AdjustPadBufferSize`). What the network thread may not do itself it posts to `gui`:
`StartMachine` is the dialog's answer to a start (`NetPlayClient::StartGame`, then the boot),
`StopMachine` its answer to a stop. `NetPlay_Disable` needs `crit_netplay_client`, which the
CPU thread holds from `NetPlay_GetInput` (GetNetPads fills the buffer of its own pad and sends) to
`Pop` or `GiveUp`: a thread that wants it is in `disabling`. A controller state is named by its
game and its number, so that a state in the wrong place shows. `overtaken` is auxiliary: it holds
the pairs of a client and a game of which something came to the client's network thread before its GUI
had done what came before (`Early`): a state or a DISABLE_GAME before the GUI has started the machine, a
START_GAME while an older one waits for the GUI. `InStep(c)` says that this has not happened to c in the game
that the server runs.

**`WiiIpc`.** `ios` is all that the CPU thread alone changes: the mailbox (`Y1`, `Y2`,
`ppc_irq_flags`, `arm_msg`), the three queues, `last_reply` (for `last_reply_time`), the pending
events of `CoreTiming` with the time that is left, and the drive's command queue and disc. A handler of
the code is a function from one such state to the next, so that an action is a whole handler
with all it calls: `Update`, `ExecuteCommand`, `EnqueueEvent`, `Reply`, `IOCtl`, `FinishIOCtl`.
`Send`, `TakeReply`, `TakeAck`, `ClearFlag` and `Reset` are the guest's writes to registers,
`DispatchIpc`, `FinishRead`, `FinishCommand`, `EjectDisc` and `InsertDisc` the events, `Elapse`
the passing of time; `BootDisc` opens the first disc, `ChangeDisc` is the user's. All that changes the
disc waits for the DVD thread first, as `SetVolumeName()` and `EjectDiscCallback()` do; what is open afterwards is a disc
that was not open before, or none (`Opened`). `DVDThread` adds the steps of the other thread (`Ready`, `Wake`, `Look`,
`Read`), `StartRead` and `WaitUntilIdle` of the CPU thread, and `Stop()` in three steps.
`unanswered`, `result` and `leftover` are auxiliary; `leftover` says that the session has met a signal
of the session before, left in `start_working` or taken from `done_working`.

## 3. The runs

Every configuration is small enough to be explored completely. Model values stand for
threads; there are so few of each kind that symmetry would not pay.

| Run | Instance | Shows |
|---|---|---|
| `event_refine` | two setters, one of which resets, two waiters | no thread stays parked on a triggered event; `Event` implements `AutoResetEvent` with its liveness |
| `loop_run` | a worker that prepares the loop itself, a host that starts it and uses it, a thread that stops it; timed sleeps | Wait means done, no wakeup is lost, Stop is final unless it meets a Prepare, requests are served, the calls that wait return, and every step is one of `PayloadLoop` |
| `coretiming_run` | two types of event, another thread, two clock factors, slices of at most 2, blocks of 2 cycles on a core that runs at zero; saving, loading and stepping | no slice reaches past an event of the CPU thread, no event is later than what is running accounts for, events of one time run in the order of scheduling, the clock does not go back |
| `cpu_run` | CPU thread, host, breakpoints, steps, repeated boots | a lock means a paused guest; no start, step or stop is slept through; what is not overwritten is served |
| `cpu_stop` | the same | **violation**: a power-down is overwritten and the thread does not return |
| `fifo_run` | a FIFO of two bursts, two settings of the register, overflow interrupts, pause, resume, lock, stop | the signal to a waiting CPU is not lost, the distance is bounded, one interrupt at a time, the loop never rests on work, the interrupt settles, a lock means idle, a full FIFO drains |
| `async_run` | three requests in the queue; two kinds of pokes, requests that are waited for and others that are not; pause, resume, stop, boot | the queue implements `RequestQueue`; a caller who waits goes on |
| `memcard_flush` | two blocks, two contents, states loaded, files that fail to open, cards destroyed and created | nothing written is forgotten, copies are whole, the last flush saves all, writes reach the disk |
| `memcard_exit` | one block | **violation**: the trigger of the destructor is discarded by a timeout and the join never ends |
| `netplay_games` | two players, two games, two pad mappings, two buffer sizes, a user who stops, a player who is thrown out | every machine takes the same state at the same poll; no state is lost, doubled or overtaken, whatever of the last game is still on its way and whenever a machine begins; between clients that are `InStep` |
| `netplay_leave` | the host, a player whose connection breaks, also while the game is being announced, and one who has no pad | a machine that waits for a pad goes on, and gets rid of NetPlay, if it was not told before its GUI began |
| `wii_run` | two commands out of two for a file, two for the disc, a launch and a launch that fails, and a change of discs, or one and two; delays of 1 and 2; two sessions | no message is left behind a free mailbox; acknowledgement before reply and replies in order; one disc command at a time, with its own data, from a disc that stays; everything is answered; Stop returns |

### Bounds, and why they are enough

- *Threads.* Two waiters and two setters show every way in which one thread can take
  another's notification; the proofs cover any number. In `loop_run` one thread starts and
  uses the loop and another stops it: any pair of operations may overlap with the worker, a Stop also
  with each step of the worker's own Prepare, and the
  safety properties are proved for any number of clients, each of which may start, stop and
  use the loop. A host that prepares the loop beside its worker does so when nobody stops it, as in the
  unit test.
- *Time* (`MaxTime`, `MaxPending`, `Delays`, `MaxSlice`, `Blocks`). The guest does not run past
  `MaxTime`, and at most `MaxPending` events are pending, beside the video event that keeps
  coming. A slice holds one block of 2 cycles, or is
  cut by an event after 1; an event after 3 lies beyond it. That lets an event be inserted before,
  between and after others, shorten a slice, meet another at the same time and come late, and a
  block end after its slice. The factors 1/2 and 2 make the conversions round in
  one direction and the deadline move in the other. A saved state doubles the variables (2.7 million
  states in all), hence `MaxTime` is 1: an event may still be scheduled inside the slice before
  and after a load. The proofs need none of these bounds.
- *FIFO* (`Capacity`, watermarks, `MaxDistance`, `MinDistance`, `Costs`, `Lateness`). With two
  bursts the FIFO can be empty, below, at and above the high watermark and full. A burst
  costs as much as the largest distance, so that one burst carries `s_sync_ticks` across each
  threshold. The low watermark is 0: an underflow interrupt is never raised, and the control
  values do not enable it.
- *Requests* (`MaxQueue`, `Data`). With three requests in the queue pokes can be merged, another kind of
  poke or a peek can follow them, and a poke can come while others are in hand. What
  tells two requests of one kind apart does not matter to the code, so `Data` has one element;
  the refinement is proved for any.
- *Memory card.* Two blocks let a copy be half old and half new, two contents tell them apart.
- *NetPlay.* Two players and two pads are the least at which a mapping can be swapped. The second game has
  two polls, so that a state of the last game or of the last poll can be told from the right one
  (`MaxGames`, `MaxPolls`). The buffer is 0 or 1 (`Targets`) and only grows during a game: a smaller one
  is filled by nobody until it has drained. The host uses the dialog when what he did before has arrived
  at the clients (`Arrived`), and a player joins only between games. Mappings have no gaps
  (`NoGaps`); section 4 says what happens otherwise. The last game is not stopped by its players (`UserStop`): what a
  late STOP does is seen in the game before. Messages, the GUIs' answers, boots, polls and leaving come in any
  order. `netplay_leave` needs a third player: one leaves, the host is the exception, and another goes on.
- *Wii IPC.* Two commands (`MaxSends`) meet in every queue, in the mailbox and in the drive;
  commands of one kind are interchangeable, so `Send` takes the first that is free. Delays of 1
  and 2 let a later command be ready before an earlier one. Changes of discs (`MaxSwaps`) fall
  before, into and after a read, and two of them overlap; `MaxAsked` bounds commands and changes together, so that
  two commands meet one change and one command meets two. Two sessions (`MaxBoots`) carry the DVD thread's signals
  from one to the next. The guest launches a title when it has no command to the disc
  outstanding, and then waits for it; it resets the mailbox with empty queues of disc commands and
  acknowledgements. Section 4 has the reasons.
- Events and signals are Booleans, and no other counter is unbounded.

### Fairness

A thread that can continue does so: weak fairness of each thread's steps, which the operating
system's scheduler gives. Nothing that the guest or the user decides is fair: no one has to
call, write, schedule or press a key. Beyond that:

- `BlockingLoop`: a sleep may time out, but fairness asks the sleeping worker for a step
  only when its event is set. So the properties hold without the help of timeouts.
- `CPU`: `SF(LeaveCore)`: the guest's code ends its slice again and again, and sees then that
  the state has changed.
- `MemoryCard`: `WF(FlushStep)` includes that the 15 seconds pass; `SF(CopyBegin)` says that the
  flush thread gets the mutex some time although the guest takes it again and again.
- `Fifo`: `SF(Advance)` and `SF(SyncGPUCallback)`: emulated time passes while the guest runs,
  so the events of `CoreTiming` come (`NoEventOverdue` there). `WF(Gpu)` also covers a
  payload when the loop is done, because `Run()` is given a timeout of 100 ms (`Fifo.cpp:387`).
  That timeout is needed: without it TLC finds a CPU thread that has tested `IsDone()`
  (line 523), after which the payload finishes and drains; the CPU adds its cycles
  without crossing `MinDistance`, so it does not call `RunGpu()`, and waits for a GPU that is
  asleep. The timeout turns a hang into a hiccup of up to 100 ms.
- `AsyncRequests`: weak fairness of the CPU thread inside `PushEvent()`, of the GPU thread and of a host
  inside a call. The FIFO need not run dry, the guest need not make another request, and a
  wait may end without a notification, but does not have to.
- `NetPlay`: weak fairness of the server's network thread, which sends and receives, and of each client as
  a whole: as long as one of its three threads can go on, one does. What users do (start, stop, leave, change
  a setting) is free, but for the message boxes that the network threads show when a player has been lost
  (`PanicAlertT`, `NetPlayServer.cpp:347`, `NetPlayClient.cpp:412` and 565): the thread waits until the user
  has dismissed the box, and the model takes it that he does. The server's comes before the others are told, so
  until then their machines wait.
- `WiiIpc`: `WF(Dispatch \/ Elapse)`: emulated time passes and due events are delivered;
  `WF(Guest)`: the guest handles its interrupts, takes the messages and clears the flag last, as IOS
  libraries do; the DVD thread runs; and a shutdown that has begun goes on.

### Deadlock

`cpu_run`, `cpu_stop`, `fifo_run`, the runs of `NetPlay` and `wii_run` do not check for deadlock: a
stopped or switched-off machine is a legitimate end in `Fifo` and `WiiIpc`, players who have done
all that the bounds allow are one in `NetPlay`, and the hang that `cpu_stop` is about is a
state without a successor. In these, liveness properties say where waiting has to end. All other
runs check it.

## 4. What the violations show

1. `memcard_exit`: "If triggered, we're exiting" (`GCMemcardRaw.cpp:83`). `WaitFor()` evaluates
   its predicate a last time and then clears the flag whatever it is; a `Set()` in between is
   lost, and the destructor waits in `join()` for a thread that goes on sleeping.
2. `cpu_stop`: "Stop the CPU" (`Core.cpp:267`). `RunLoop()` stores `CPU_RUNNING` (`PowerPC.cpp:218`)
   after `Run()` has read the state, and a breakpoint's `Pause()` stores `CPU_STEPPING`: a
   `CPU_POWERDOWN` between the two is overwritten.

### Other behaviour that the models bring out

These come with another value of a constant, which the runs exclude, or were met on the way.

- *BlockingLoop*. `Prepare()` clears `m_stopped` (`BlockingLoop.h:85`) and, three lines later,
  `m_shutdown` (line 88). A `Stop()` by another thread between them is erased; its Wait returns
  after the next payload, and the loop runs on. The GPU loop is prepared by the emulation thread
  at the end of the boot (`Fifo.cpp:114`, reached through `Video_Prepare()` at `Core.cpp:532`) and stopped
  by the host's. `StopIsFinal` excepts exactly the Stop that sets `m_shutdown` in that moment
  (`StopShutdown`, `Starting`); without the exception TLC finds `loop_run` violating it. With two
  `Hosts`, a `Prepare()` that comes when the worker has just left opens a loop that nobody runs, and a
  `Wait()` in it does not return.
- *CoreTiming* (`AdvanceOnEntry = FALSE`). `Init()` leaves `globalTimerIsSane` true
  (`CoreTiming.cpp:145`), so until the first `Advance()` no event shortens the first slice of
  20000 cycles, although line 328 promises it. The x86 recompiler is not affected, since it calls
  `Advance()` before its first block.
- *Fifo* (`ConfirmStop = FALSE`). "This should break the wait loop in CPU thread" (`Fifo.cpp:147`)
  does not, as `Core::Stop()` has told the payload to do nothing before (`Core.cpp:263`). A user
  who is asked for confirmation pauses first (`DolphinWX/FrameTools.cpp:1130`) and is safe. The same
  wait is reached if `PowerPC::Pause()` gives up after a second (`MayTimeOut`): the GPU is switched off
  under a CPU thread that may be waiting for it, and a `PauseAndLock()` then waits for a mutex
  that is not released until a resume.
- *AsyncRequests.* Requests are carried out on the CPU thread itself while `m_passthrough` is set: in
  dual core mode that is the moment between the start of the CPU thread (`Core.cpp:535`) and the
  GPU thread's `SetPassthrough(false)`, and again after the loop's end. Between
  `SetEnable(false)` and `SetPassthrough(true)` (`Fifo.cpp:389-390`) a request is dropped, and a peek
  returns a variable that nobody has set (`MainBase.cpp:90`); only a machine that
  is being stopped asks there. A request that was refused leaves `m_empty` false and
  `m_wake_me_up_again` set, which costs an extra pull.
- *NetPlay* (`overtaken`). Nothing makes a machine wait for the answers of the other GUIs, and a machine that
  starts late is in one of three troubles. The GUI's answer to START_GAME clears buffers
  (`NetPlayClient.cpp:706`) that already hold states of the new game, and this machine is out of step with
  the others. DISABLE_GAME, or the loss of the connection, is handled by the network thread before the GUI
  has started the machine, which then waits in NetPlay for a player who has left. And if a whole game
  has passed before the GUI answers its start, it answers twice with the number of the next. `overtaken` records
  each of these, and the four properties claim nothing between clients of which it does so in the game of the
  server, but everything of the others: without the exemption TLC finds each of them violated. A mapping with a gap makes machines wait for a pad that nobody owns, as devices are
  assigned by counting (`UpdateDevices`, line 752). The host's own machine is not told that a player left
  (`NetPlayServer.cpp:353`): it waits until the user stops it. A STOP that arrives late carries no
  game number and ends the next game; and after a change of the mapping a state of the last game is
  taken for an attempt to play with another's pad, and its sender is thrown out. The comparison of game
  numbers that is to ignore such data (`NetPlayServer.cpp:475` to 500) does not help, as the server's number
  changes with the next start only.
  `Core.cpp:141` tests `IsNetPlayRunning()` and then calls `SendTimeBase()`, which uses a pointer
  that another thread may have cleared.
- *DVD thread*. `done_working` is still set when `Stop()` has joined the
  thread, so in the next session a read may be started before the thread has said that it is idle;
  its first `Set()` then stands for a read that has not been made, and `FinishRead()` may take
  what is not there. `Stop()` (`DVDThread.cpp:71`) may also leave `start_working` set: the next
  session's thread then reads once without having been asked. `leftover` records that a session has met such a
  signal, and `RightData` and `DiscStaysForRead` claim nothing for the rest of it; without `~leftover` TLC
  finds both violated.
- *Wii IPC.* A guest that launches a title while the drive works gets a panic at the read's completion:
  `FinishExecutingCommand()` expects that the device may be gone (`DVDInterface.cpp:1280`), but a
  new one with an empty queue is there. `Reset()` of the mailbox drops events and two
  of the three queues, not the acknowledgements nor the drive's commands. A command to a device that
  does not exist is acknowledged and never answered.

Noted on the way, without a property: "We only permit one event of each type in the queue at
a time" (`CoreTiming.h:57`) is a convention that nothing enforces; callers remove before
they schedule. `Update()` adds the cycles of an idle GPU without comparing them with
`iSyncGpuMaxDistance` (`Fifo.cpp:525-531`), so the distance may reach the maximum, and
exceed it by as much as the callback was late, while the guest runs; `SyncGoesOn` states
the bound that does hold.

## 5. What is proved

The theorems hold for every value of the constants that satisfies the named assumption of the
module; they are checked by TLAPS with Z3, Zenon and LS4. Except for the types, `ListIsSorted`,
`TriggerReleasesOneWait` and the theorems named `Invariant`, a run checks the same property on a small
instance. All but the three refinements, `TriggerReleasesOneWait`, `ClockIsMonotonic`
and `DiscStays` are invariants; all proofs go through an inductive invariant.

| Theorem | Says |
|---|---|
| `CommonProof!EventRefinement` | every step of `Event` is one of `AutoResetEvent` or changes nothing of it, for any threads |
| `CommonProof!NothingIsLost` | no waiter is parked on a triggered event with nobody to wake it |
| `CommonProof!TriggerReleasesOneWait` | with one waiter and no Reset, the signal that a wait has seen is there when it clears it |
| `CommonProof!Refinement` | every step of `BlockingLoop` is one of `PayloadLoop` or changes nothing of it, for any clients |
| `CommonProof!WaitIsSafe`, `WakeupIsSafe` | Wait means done; no wakeup is lost; any clients |
| `CommonProof!StopIsLast` | what a Stop has ended stays ended, for any threads that start and stop, unless the Stop met a Prepare |
| `CoreTimingProof!ListIsSorted`, `SameTimeIsInOrder` | the list is sorted; events of one time run in the order in which they were scheduled |
| `CoreTimingProof!ClockIsMonotonic` | the clock that the devices and other threads read never goes back |
| `CoreTimingProof!NoDeadlineMissed` | no event of the CPU thread lies inside the running slice, if `AdvanceOnEntry` |
| `CoreTimingProof!EventsAreOnTime` | no event is later than what is running accounts for, if `AdvanceOnEntry` and `LateBound` |
| `CPUProof!LockIsExclusive`, `KickArrives` | a lock means a paused guest; a thread that waits for a step it should not wait for is being woken |
| `FifoProof!SignalIsNotLost`, `SyncIsBounded`, `OneInterrupt`, `LockIsIdle` | the signal to a waiting CPU is not lost, its distance is bounded, one interrupt at a time, a lock means idle |
| `FifoProof!NothingIsStranded`, `InterruptIsRight` | a loop at rest has no work that it could do, and the interrupt is as the status says |
| `AsyncRequestsProof!Refinement` | every step of `AsyncRequests` is one of `RequestQueue` or changes nothing of it, for queues of any length |
| `MemoryCardProof!FlushIsWhole`, `WritesAreRemembered`, `CardIsSaved` | a copy is the card of one moment; nothing written is forgotten; the last flush saves all |
| `WiiIpcProof!NothingWaits` | no message waits in a queue while the mailbox is free |
| `WiiIpcProof!RepliesInOrder` | the acknowledgement of a command comes before its reply, and delayed replies come in the order of their commands |
| `WiiIpcProof!ReadsAreRight`, `DiscStays` | the reply to a read finds the data of that read or an error; the disc stays while it is read; in every session that meets no signal of the one before (`leftover`) |
| `NetPlayProof!PlayersInLockstep` | every machine takes the same state at the same poll, between clients that no message of the game reached before their GUI had started it |
| `NetPlayProof!InputsArrive` | what one machine has given and another has not taken is on its way, in order and once, between the same clients |

and `TypeCorrect`, or `TypeAndInvariant`, for each module (`EventTypeCorrect` for `Event`, whose names
differ from those of `BlockingLoop` so that one module can extend both). The type invariants are not
repeated in the runs, but for that of `WiiIpc`.

**Event.** `Set()` changes the flag outside the mutex, so "nobody is parked while the flag is
set" is false. The invariant adds who has the mutex (`MutexInv`), that the parked threads are
those at the place of parking (`ParkedInv`), and `ParkingInv`: if the flag is set while a
waiter, having seen it clear, is about to park, then some setter is still waiting for the
mutex, hence will notify after the waiter has parked. The refinement needs only that a waiter
past its timeout is in a timed wait (`TimedInv`).

**BlockingLoop.** `RequestInv` is the heart: a request that no payload has taken up is visible
either as `STATE_NEED_EXECUTION` or as `STATE_LAST_EXECUTION` with the worker still before the
payload; one that a payload has taken up keeps the state from falling to done. It rests
on `StateInv`, which says how far a `Wakeup()` may have moved the state since the worker's
load, and on `PrepareInv`: nobody prepares a loop that runs. `SleepInv` says that a worker that
sleeps on a state other than `STATE_SLEEPING` has a client on its way to the event. For the
refinement of `PayloadLoop`, `OpenInv` adds that a loop with a worker in it, or a client in
`Prepare()`, is not stopped. `StopIsFinal` rests on `ToldInv`: once the `Wakeup()` of a Stop has passed,
the state stays `STATE_NEED_EXECUTION`, or is `STATE_LAST_EXECUTION` with the worker just before its
test of `m_shutdown`, until the worker has left.
This holds from the moment the Stop has set `m_shutdown`, provided that no Prepare is still to clear it, which is
what the exception of `StopIsFinal` says.

**CoreTiming.** The deadline follows from `SliceCut` (outside `Advance()` the slice never
reaches past an event of the CPU thread), which holds because scheduling shortens the
slice (`NotSane`: the timer is not marked as sane there), because events of others are
told apart (`FromOthers`), and because a saved state was cut as well (`SavedCut`). `NotSane` fails
on a core that does not call `Advance()` on entry, hence the hypothesis
`AdvanceOnEntry = TRUE`; without it TLC finds a missed deadline (section 4). That insertion
keeps a list sorted is a lemma about the function that inserts, proved without induction, since the
place of insertion is described by what is before and after it.

For the clock, `ClockInv` says that what is left of a slice is never more than the slice: `DowncountToCycles()`
and `CyclesToDowncount()` truncate, and going there and back never yields more
(`ThereAndBack`). The lemmas on positive fractions in the section *Cycles* are all the arithmetic
there is, and they hold for every factor. A video event is always pending, so each `Advance()` computes
the next slice. `OrderInv` says that the stamps grow along `tsQueue`, and from the list to the
queue, among events of the same time. `LateInv` says that a slice ends before every event but those
that other threads have queued since it began. `LateBound` is the meaning of `Overshoot`: a block at
any factor, and what rounding takes from the first slice, fit in it.

**CPU.** `CallInv` says which operation of the host each place belongs to, and that
`CPU_POWERDOWN` is stored only by one that stops. `PauseHolds` says that, once a host that pauses or locks has
stored `CPU_STEPPING`, a CPU thread outside the core leaves it there: only one
that has the mutex overwrites the state. With `NoLostKick` this is inductive.

**Fifo.** `TicksInv` bounds `s_sync_ticks` and the length of the next interval at each place of
`Update()`: whoever returns to the guest has seen a distance below the maximum, or an idle
GPU with a distance below zero. `WithinReach` is the bound of `SyncGoesOn`. The subtlety of
`NoLostSync` is that the GPU lowers the ticks and signals in two steps, and signals only if its
own subtraction crossed zero; `TicksInv` says that the final exchange happens with
ticks above zero, so that it signals too. `LockInv` is the argument of
`Fifo::PauseAndLock()`: `EmulatorState(false)` wakes the loop, so the loop is not done until a
payload has *begun* after the flag was cleared, and that payload leaves at once. It needs
only what `PayloadLoop` promises (`LoopInv` ties the payload's places to the
loop's phase). `RoomInv` carries the tests of free space and of a non-empty FIFO to the steps that rely
on them, and `InterruptInv` adds to `OneInterruptOnItsWay` that nobody raises a second one. `WorkInv` and `SettleInv`
are about a loop at rest: whoever changes what there is to do, or what the interrupt depends on, is
inside a handler that ends with `RunGpu()`, so a payload is due until it has seen the change.

**AsyncRequests.** The wait is for an empty queue, and pokes leave the queue before they are carried
out, so an empty queue alone does not mean that all is done. `LastBlocks` says why it does for whoever
waits: his request is the last, it is not a poke, so it is never merged, and as long as
pokes are in hand it is still in the queue. `InHand` says that the front of the queue stays what the
GPU thread handles while it has released the mutex: pushes go to the other end, and nobody else
pops. `Switched` ties the two switches to the place of the GPU thread, so that requests carried out by the
caller himself never overtake queued ones. The rest are lemmas about splitting and joining
sequences, from the library's theorems.

**MemoryCard.** `NoWriteForgotten` is inductive with the types, among which is who has the mutex, and `CopyIsWhole` follows
from both: the image does not change while the flush thread has it. `ShutdownSaves`
needs `ExitInv`: the trigger is raised by the destructor only, so a thread that was told to
exit has an owner that no longer writes, and what it copies from then on is the last image.

**WiiIpc.** Neither `NoStall` nor `InOrder` is inductive: what the mailbox will show depends on where
every command is, and on what is scheduled. `Holds(s, h, u)` therefore places each command: `h` is a function from
commands to places (an event of one of the three kinds, one of the four queues, the mailbox, or
nowhere), and each list of `ios` holds exactly the commands that `h` puts there, each once, the
Files among them in the order `u` in which they were sent. A list keeps that order when the
next command comes, since all requests have one latency and no reply is due before the last one
(`last_reply`): this is what "ensure replies happen in order" takes, and why the events are kept
sorted with ties in the order of scheduling. `InLine` compares Files in different places, and `Life`
says what the guest knows of a command in each place: a reply is under way only for a command that was acknowledged,
or whose acknowledgement is in the mailbox now, which is full then; and a launch that has been executed is alone.
The invariant asks for *some* such `h`; every lemma about a helper (`Schedule`, `Update`, `EnqueueEvent`,
`FinishIOCtl`...) says how the `h` after it comes from the one before. `Idle` is `NoStall` itself, restored by every `Update()`.

`DriveOk` says that a completion is scheduled exactly when the drive has a command, and only one. `Attends` follows a read through the DVD thread: asked for, under way, or
done with its data in the buffer; it is `Quiet` otherwise, and without a disc. So a `done_working` seen by `FinishRead()` or
whoever changes the disc is that of this read. All this is claimed while `leftover` is false: a
read that begins then has taken a `done_working` which the thread has set in this session, so the thread is at its wait,
and will not set it again before it has done the read.
`RemoveAllEvents`, which filters, is handled by induction without the library's theorems: a
set of numbers that is not empty has a least, hence there is no first prefix of which the claim is false.

**NetPlay.** The properties speak of states of controllers, which one machine makes and another takes; the
invariant that carries them is `Flow`. For a machine c and the owner d of a pad, both in the game, the
states that d has given and c has not taken are a run of numbers without a gap, cut at two places: the
first part is in c's buffer, the second in the channel to c, the third in the channel from d
(`OnItsWay`). Every step of the network moves a state over one of the cuts, polling adds one at the
end or takes one at the front. `RunGrown`, `RunShrunk`, `RunJoined` and the lemmas on `Carries` say so of
sequences. What a run in a channel reads as (`StatesOf` is a recursive function) is proved with a
least counterexample, as in `WiiIpc`.

That nothing else enters a run takes most of the proof, because two games overlap: while some machines are
in the new one, states, answers, starts and stops of the old one are still in the channels.
`Answered` says that on the way to the server a client's answer to START_GAME has all states of other games
before it and all of this game behind it, so the comparison of `current_game` in `OnData()`
(`NetPlayServer.cpp:497`) separates them, and that what follows is of the sender's own pads, so nobody is
thrown out. On the way back the announcement separates them: `Joining` says that,
while the game runs, a client has it still to come, from the server's queue or in its channel with nothing but
what belongs to this game behind it (`Told`), or has received it and expects nothing else (`InGame`). States
may thus reach a client before its machine has begun; `overtaken` has it from then on. That the GUI then really starts the machine (`NetPlayClient.cpp:693` does not if
`m_is_running`) is `Alternate`: in what a client still has to receive, and in what its GUI has still to do, START
and STOP take turns, and who still plays has a STOP before the next START. It holds because the server
starts a game only when the host may press the button, that is `HostKnows`: whenever anybody still plays,
or is going to, the host's own client knows, since the STOP that would free the button is sent to all in
one step and the channels keep the order. `Mapped` says that the last mapping on the way to a
client is the server's.

Machines begin at different times, and poll, and players without a pad leave, while others have not begun. So
`Taken`, `Held` and `Given` count what belongs to the server's game only: a machine that has not begun it has taken and
holds nothing, and what others have given is still on the way to it, or it has been overtaken. `StartsOnce` says
that the GUI of a client that was not overtaken is asked once to start the game, and never while it plays it, so
the buffers are cleared before the first state arrives and not again. `Answered` adds that who has answered the
announcement plays the game. The invariant itself was checked by TLC on small instances before it was proved.

### Only model-checked

- Liveness: whatever speaks of `~>` or `[]<>`, and the fairness part of `ImplementsAbstract`. The
  prover does not handle fairness and `ENABLED`.
- What a recursive definition computes for every input, in general: the library's induction theorems take an
  operator as a parameter, which the installed provers cannot instantiate (`RemoveAllEvents` of `WiiIpc` and
  `StatesOf` of `NetPlay` are the exceptions). No module
  here declares a `RECURSIVE` operator, as the SMT backend would be lost in it and in those
  that use it.

## 6. What is left out

- *Memory order.* The flags, the loop's state, `s_sync_ticks` and the interrupt flags are
  sequentially consistent atomics, as the models take them. `PowerPC::state` is a volatile
  variable, the flags and the register of the command processor are plain ones, and so is the
  clock that other threads read: their values are seen at once here.
- *CoreTiming*: the registry of event types, the decrementer and the time base, 64-bit
  wrap-around (a slice of 2^31 cycles does not come about while a video event is pending).
- *CPU*: more than one host thread, hence the nesting depth of `Core::PauseAndLock()`.
- *AsyncRequests*: what the renderer does, the FIFO's commands, single core mode (where the caller carries
  out every request himself), and the time-out of `PowerPC::Pause()`.
- *Fifo*: pointers and breakpoints, tokens, the deterministic GPU
  thread. The guest is taken to respect the capacity of its FIFO. `MayTimeOut` is FALSE in the
  runs (see section 4).
- *MemoryCard*: the format of the card; a write to a file that is open succeeds.
- *NetPlay*: Wiimotes (their buffers follow the same protocol), the comparison of time bases, SRAM,
  chat, pings, the choice of the game, the traversal server, the index of the current port
  that the guest's serial interface polls in any order.
- *WiiIpc*: what the devices do, opening and closing them, refused commands, devices that reply on their
  own account (STM, USB, sockets), savestates, the drive's registers for GameCube games.
- *Object lifetimes* everywhere: callers join the threads before they destroy what these use.

Hazards that are known and have no property yet, apart from those in `PROJECT.json`: two
waiters may both be released by one `Set()` (`Event.h:41`; the header asks for one waiter, and
`TriggerReleasesOneWait` is about it); `StepOpcode()` raises the event before it stores the
event that is to answer (`CPU.cpp:101`); a `Start()` followed by a `Pause()` leaves a step that
nobody asked for (`CPU.cpp:66`); `EnableStepping(false)` executes an instruction on the host's
thread without the mutex (`CPU.cpp:132`); a single step forgets the cycles since the last
`Advance()` (`Interpreter.cpp:181`); `WriteBytes()` is not checked (`GCMemcardRaw.cpp:129`); one
waiting flag stands for any number of tokens (`PixelEngine.cpp:294`); a savestate with a finished
read must hold buffer, parameters and event together (`DVDThread.cpp:81`); the nesting depth of
`PauseAndLock()` is an ordinary variable, and a nested call reports a machine that was running
(`Core.cpp:729`); a write to the block of a folder of saves that was written last does not mark the
save dirty, and is not flushed if a flush came in between (`GCMemcardDirectory.cpp:315`); the overclocking factor is read
again in the middle of `Advance()` (`CoreTiming.cpp:427`); `m_dirty` of a folder
of saves is cleared before the file is written (`GCMemcardDirectory.cpp:565`); the size of a
`FifoQueue` lags behind its elements (`FifoQueue.h:58`); `State::Flush()` tests and joins a thread
without a lock (`State.cpp:726`); the mixer's indices wrap (`Mixer.cpp:162`).

## 7. Plan

In this order; each item adds its run, properties, mutants and, where it says so, proofs.

1. `MemcardDirectory`, next to `MemoryCard`: per-save dirty flags; the same promises.
2. Tokens and finish interrupts as an extension of `Fifo`.
3. `CoreLifecycle`: boot, stop during boot, nested `PauseAndLock()` by two threads, savestates on
   top of it.
4. `FifoQueue` as a ring of one reader and one writer that implements a sequence.
5. An abstract timeline (a set of events and a clock) that `CoreTiming` implements.
6. Wiimotes in `NetPlay`.

Runs are shared where questions are: a component that is proved and has its liveness in one
configuration keeps that one only.

## 8. Checking it

    tlc -config Fifo_run.cfg MCFifo.tla      # and likewise for each run in PROJECT.json
    tlapm FifoProof.tla                      # and likewise for each ...Proof.tla

On two cores `coretiming_run` and `netplay_leave` take three minutes, `fifo_run` and `netplay_games` two,
`loop_run`, `async_run` and `wii_run` one to one and a half, the others less; the proofs of `NetPlay` take
fifteen minutes, those of `WiiIpc` five to ten, the others a few. For every
property of a passing run `PROJECT.json` names a mutant: an operator beside the
definition it alters (`..._NoLock`, `..._Never`), which is the code with a plausible mistake, and
with which TLC finds that property violated.
