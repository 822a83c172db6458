----------------------------- MODULE CoreTiming -----------------------------
(***************************************************************************)
(* The scheduler of emulated time (Core/CoreTiming.cpp).                   *)
(*                                                                         *)
(* The CPU thread runs the guest in slices of at most MaxSlice cycles and  *)
(* calls Advance() between them, which moves the clock and runs the events *)
(* that are due.  Events are kept in a list sorted by time.  Other threads *)
(* put theirs in a second queue, under a lock, that the CPU thread empties *)
(* into the list without taking that lock.                                 *)
(*                                                                         *)
(* The CPU thread's steps are: the start and the end of a block of guest   *)
(* code, one call into this file in between, and inside Advance(),         *)
(* ProcessFifoWaitEvents() and DoState() one turn of a loop or one callback.*)
(* Event types are names; the registry of callbacks, the payload of an     *)
(* event, the statistics of idle cycles and the starting values of the     *)
(* decrementer and time base are left out.                                 *)
(***************************************************************************)
EXTENDS Integers, Sequences

CONSTANTS
  Types,           \* the types of event
  Video,           \* the one of which an event is always pending
  Threads,         \* the threads other than the CPU thread that schedule events
  Cpu, Free,       \* who else may hold tsWriteLock: the CPU thread, nobody
  MaxSlice,        \* MAX_SLICE_LENGTH
  Factors,         \* overclocking factors the user may choose, as fractions
  Blocks,          \* the cycles a block of guest code takes
  RunsAtZero,      \* the ARM recompiler starts a block even when downcount is zero
  AdvanceOnEntry,  \* the x86 recompiler calls Advance() before its first block
  Stepping,        \* whether the debugger may single-step
  Delays,          \* bound: how far in the future events are scheduled
  MaxTime,         \* bound: the guest does not run past this time
  MaxPending,      \* bound on the number of pending events
  Savestates       \* bound: whether states are saved and loaded

ASSUME ConstantsAssumption ==
  /\ Video \in Types
  /\ MaxSlice \in Nat \ {0}
  /\ Factors \subseteq [num : Nat \ {0}, den : Nat \ {0}] /\ Factors # {}
  /\ Blocks \subseteq Nat \ {0}
  /\ {RunsAtZero, AdvanceOnEntry, Stepping, Savestates} \subseteq BOOLEAN
  /\ Delays \subseteq Nat
  /\ MaxTime \in Nat /\ MaxPending \in Nat
  /\ {Cpu, Free} \cap Threads = {} /\ Cpu # Free

VARIABLES
  first,             \* the list of events
  tsQueue,           \* the events of other threads
  tsWriteLock,
  g_globalTimer,     \* the time at the start of the slice
  g_slicelength,     \* cycles in the slice
  downcount,         \* PowerPC::ppcState.downcount
  globalTimerIsSane, \* "Are we in a function that has been called from Advance()"
  s_lastOCFactor,
  at,                \* where the CPU thread is
  caller,            \* where it goes when RemoveAllEvents() returns
  cyclesLate,        \* the argument of the running callback
  tsTime,            \* what each other thread has read of the clock, when it is
                     \* inside ScheduleEvent_Threadsafe()
  saved              \* the saved state, if any

\* The core leaves its loop when downcount is not above this.
BailAt == IF RunsAtZero THEN -1 ELSE 0

sliceVars == <<g_globalTimer, g_slicelength, downcount, globalTimerIsSane, s_lastOCFactor>>
queueVars == <<first, tsQueue, tsWriteLock, tsTime>>
cpuVars == <<at, caller, cyclesLate>>
vars == <<queueVars, sliceVars, cpuVars, saved>>

Outside == -1   \* the thread is not in ScheduleEvent_Threadsafe()

\* An event remembers who scheduled it and in which slice (auxiliary: origin, and the
\* time at the start of that slice as stamp).
Event == [time : Int, type : Types, origin : {"cpu", "other"}, stamp : Int]

Snapshot == [first : Seq(Event), timer : Int, slice : Int, downcount : Int,
             factor : Factors]

\* "guest" is inside a block of code, "dispatcher" between two.
Places == {"off", "boot", "guest", "dispatcher", "advanceMove", "advance",
           "advanceCallback", "fifoMove", "fifo", "fifoCallback", "removeMove",
           "stateMove", "offMove"}

\* Where the guest and the devices call CoreTiming; in "dispatcher" it is the debugger
\* or another thread while the core is stopped.
MayCall == {"guest", "dispatcher", "advanceCallback", "fifoCallback"}

TypeOK ==
  /\ first \in Seq(Event) /\ tsQueue \in Seq(Event)
  /\ tsWriteLock \in Threads \cup {Cpu, Free}
  /\ g_globalTimer \in Int /\ g_slicelength \in Int /\ downcount \in Int
  /\ globalTimerIsSane \in BOOLEAN
  /\ s_lastOCFactor \in Factors
  /\ at \in Places
  /\ caller \in MayCall
  /\ cyclesLate \in Int
  /\ tsTime \in [Threads -> Int]
  /\ saved \subseteq Snapshot
  /\ \A t \in Threads : tsTime[t] # Outside => tsWriteLock = t
  /\ at \in {"stateMove", "offMove"} => tsWriteLock = Cpu

-----------------------------------------------------------------------------
(* Cycles.  A conversion through float truncates towards zero; the factors are *)
(* such that they and their inverses are exact.                                *)

Truncate(a, b) == IF a >= 0 THEN a \div b ELSE -((-a) \div b)

DowncountToCycles(d) == Truncate(d * s_lastOCFactor.den, s_lastOCFactor.num)

CyclesToDowncount(c, f) == Truncate(c * f.num, f.den)

GetTicks ==
  IF globalTimerIsSane THEN g_globalTimer
  ELSE g_globalTimer + g_slicelength - DowncountToCycles(downcount)

Goto(from, to) == at = from /\ at' = to

-----------------------------------------------------------------------------
(* Mutants: slips that the properties at the end detect, not part of Next.     *)

\* Shortening the slice without accounting for the cycles already executed.
ForceExceptionCheck_NoAdjust(cycles) ==
  /\ downcount' = IF DowncountToCycles(downcount) > cycles
                  THEN CyclesToDowncount(cycles, s_lastOCFactor) ELSE downcount
  /\ UNCHANGED <<g_slicelength, g_globalTimer, globalTimerIsSane, s_lastOCFactor>>

\* Inserting before the first event that is not earlier.
AddEventToQueue_Before(e) ==
  \E k \in 0 .. Len(first) :
    /\ \A i \in 1 .. k : first[i].time < e.time
    /\ k < Len(first) => e.time <= first[k + 1].time
    /\ first' = SubSeq(first, 1, k) \o <<e>> \o SubSeq(first, k + 1, Len(first))

\* Reading the setting before the executed cycles are counted.
AdvanceTimer_NewFactor ==
  /\ Goto("advanceMove", "advance")
  /\ tsQueue = <<>>
  /\ s_lastOCFactor' \in Factors
  /\ g_globalTimer' = g_globalTimer + (g_slicelength
       - Truncate(downcount * s_lastOCFactor'.den, s_lastOCFactor'.num))
  /\ g_slicelength' = MaxSlice
  /\ globalTimerIsSane' = TRUE
  /\ UNCHANGED <<queueVars, downcount, caller, cyclesLate, saved>>

\* Forgetting the clock when a state is loaded.
LoadState_NoTimer ==
  /\ Goto("stateMove", "dispatcher")
  /\ tsQueue = <<>>
  /\ \E s \in saved :
       /\ first' = s.first
       /\ g_slicelength' = s.slice
       /\ downcount' = s.downcount
       /\ s_lastOCFactor' = s.factor
  /\ tsWriteLock' = Free
  /\ UNCHANGED <<tsQueue, tsTime, g_globalTimer, globalTimerIsSane, caller, cyclesLate, saved>>

-----------------------------------------------------------------------------
(* The slice and the list. *)

\* ForceExceptionCheck(): the slice ends so many cycles from now at the latest.
ForceExceptionCheck(cycles) ==
  /\ IF DowncountToCycles(downcount) > cycles
     THEN /\ g_slicelength' = g_slicelength - (DowncountToCycles(downcount) - cycles)
          /\ downcount' = CyclesToDowncount(cycles, s_lastOCFactor)
     ELSE UNCHANGED <<g_slicelength, downcount>>
  /\ UNCHANGED <<g_globalTimer, globalTimerIsSane, s_lastOCFactor>>

\* AddEventToQueue(): before the first event that is strictly later.
AddEventToQueue(e) ==
  \E k \in 0 .. Len(first) :
    /\ \A i \in 1 .. k : first[i].time <= e.time
    /\ k < Len(first) => e.time < first[k + 1].time
    /\ first' = [i \in 1 .. Len(first) + 1 |->
                   IF i <= k THEN first[i]
                   ELSE IF i = k + 1 THEN e
                   ELSE first[i - 1]]

\* RemoveEvent(): the list without the events of this type.
RemoveFromQueue(type) ==
  LET kept == {i \in 1 .. Len(first) : first[i].type # type}
  IN  \E n \in 0 .. Len(first) : \E place \in [1 .. n -> kept] :
        /\ \A i, j \in 1 .. n : i < j => place[i] < place[j]
        /\ \A i \in kept : \E j \in 1 .. n : place[j] = i
        /\ first' = [j \in 1 .. n |-> first[place[j]]]

\* The machine always has a video event pending: VideoInterface schedules one before
\* the guest runs, and its callback the next one.
Beating == \E i \in 1 .. Len(first) : first[i].type = Video

\* The bound on pending events leaves room for that one.
HasRoom(type) ==
  IF type = Video THEN ~Beating
  ELSE Len(first) + Len(tsQueue) < MaxPending - (IF Beating THEN 0 ELSE 1)

-----------------------------------------------------------------------------
(* The life of the scheduler. *)

Init ==
  /\ first = <<>> /\ tsQueue = <<>>
  /\ tsWriteLock = Free
  /\ tsTime = [t \in Threads |-> Outside]
  /\ g_globalTimer = 0 /\ g_slicelength = 0 /\ downcount = 0
  /\ globalTimerIsSane = FALSE
  /\ s_lastOCFactor \in Factors
  /\ at = "off" /\ caller = "guest" /\ cyclesLate = 0
  /\ saved = {}

\* CoreTiming::Init()
Boot ==
  /\ Goto("off", "boot")
  /\ \E f \in Factors :
       /\ s_lastOCFactor' = f
       /\ downcount' = CyclesToDowncount(MaxSlice, f)
  /\ g_slicelength' = MaxSlice
  /\ g_globalTimer' = 0
  /\ globalTimerIsSane' = TRUE
  /\ UNCHANGED <<queueVars, caller, cyclesLate, saved>>

\* The CPU core starts to run the guest.
EnterCore ==
  /\ Beating
  /\ Goto("boot", IF AdvanceOnEntry THEN "advanceMove" ELSE "dispatcher")
  /\ UNCHANGED <<queueVars, sliceVars, caller, cyclesLate, saved>>

\* Shutdown() takes the lock; see MoveEvent and ShutdownEnd for the rest.
ShutdownBegin ==
  /\ Goto("dispatcher", "offMove")
  /\ tsWriteLock = Free
  /\ tsWriteLock' = Cpu
  /\ UNCHANGED <<first, tsQueue, tsTime, sliceVars, caller, cyclesLate, saved>>

ShutdownEnd ==
  /\ Goto("offMove", "off")
  /\ tsQueue = <<>>
  /\ first' = <<>>
  /\ tsWriteLock' = Free
  /\ UNCHANGED <<tsQueue, tsTime, sliceVars, caller, cyclesLate, saved>>

-----------------------------------------------------------------------------
(* The guest. *)

\* The core goes on as long as downcount allows.
StartBlock ==
  /\ Goto("dispatcher", "guest")
  /\ downcount > BailAt
  /\ GetTicks <= MaxTime
  /\ UNCHANGED <<queueVars, sliceVars, caller, cyclesLate, saved>>

\* The cycles of a block are accounted for at its end.
EndBlock(n) ==
  /\ Goto("guest", "dispatcher")
  /\ downcount' = downcount - n
  /\ UNCHANGED <<queueVars, g_globalTimer, g_slicelength, globalTimerIsSane,
                 s_lastOCFactor, caller, cyclesLate, saved>>

\* Interpreter::SingleStep(), the part after the instruction itself.
SingleStep ==
  /\ Stepping
  /\ at \in {"boot", "dispatcher"}
  /\ Beating
  /\ GetTicks <= MaxTime
  /\ g_slicelength' = 1
  /\ downcount' = 0
  /\ at' = "advanceMove"
  /\ UNCHANGED <<queueVars, g_globalTimer, globalTimerIsSane, s_lastOCFactor, caller,
                 cyclesLate, saved>>


ScheduleEvent(c, type) ==
  /\ at \in MayCall \cup {"boot"}
  /\ HasRoom(type)
  /\ IF globalTimerIsSane THEN UNCHANGED sliceVars ELSE ForceExceptionCheck(c)
  /\ AddEventToQueue([time |-> GetTicks + c, type |-> type,
                      origin |-> "cpu", stamp |-> g_globalTimer])
  /\ UNCHANGED <<tsQueue, tsWriteLock, tsTime, cpuVars, saved>>

RemoveEvent(type) ==
  /\ at \in MayCall
  /\ RemoveFromQueue(type)
  /\ UNCHANGED <<tsQueue, tsWriteLock, tsTime, sliceVars, cpuVars, saved>>

CheckSoon(c) ==
  /\ at \in MayCall
  /\ ForceExceptionCheck(c)
  /\ UNCHANGED <<queueVars, cpuVars, saved>>

\* RemoveAllEvents() first empties the other threads' queue.
RemoveAllBegin ==
  /\ at \in MayCall
  /\ at' = "removeMove"
  /\ caller' = at
  /\ UNCHANGED <<queueVars, sliceVars, cyclesLate, saved>>

RemoveAllEnd(type) ==
  /\ Goto("removeMove", caller)
  /\ tsQueue = <<>>
  /\ RemoveFromQueue(type)
  /\ caller' = "guest"
  /\ UNCHANGED <<tsQueue, tsWriteLock, tsTime, sliceVars, cyclesLate, saved>>

-----------------------------------------------------------------------------
(* Advance() and the loops it shares with others. *)

\* MoveEvents(): one turn, for whichever function called it.
MoveEvent ==
  /\ at \in {"advanceMove", "fifoMove", "removeMove", "stateMove", "offMove"}
  /\ tsQueue # <<>>
  /\ AddEventToQueue(Head(tsQueue))
  /\ tsQueue' = Tail(tsQueue)
  /\ UNCHANGED <<tsWriteLock, tsTime, sliceVars, cpuVars, saved>>

AdvanceBegin ==
  /\ Goto("dispatcher", "advanceMove")
  /\ GetTicks <= MaxTime
  /\ downcount <= BailAt \/ AdvanceOnEntry
  /\ UNCHANGED <<queueVars, sliceVars, caller, cyclesLate, saved>>

\* The clock moves; the user's overclocking setting is read again.
AdvanceTimer ==
  /\ Goto("advanceMove", "advance")
  /\ tsQueue = <<>>
  /\ g_globalTimer' = g_globalTimer + (g_slicelength - DowncountToCycles(downcount))
  /\ s_lastOCFactor' \in Factors
  /\ g_slicelength' = MaxSlice
  /\ globalTimerIsSane' = TRUE
  /\ UNCHANGED <<queueVars, downcount, caller, cyclesLate, saved>>

\* The first event is due: its callback starts.
Dispatch(from, to) ==
  /\ Goto(from, to)
  /\ first # <<>>
  /\ Head(first).time <= g_globalTimer
  /\ first' = Tail(first)
  /\ cyclesLate' = g_globalTimer - Head(first).time
  /\ UNCHANGED <<tsQueue, tsWriteLock, tsTime, sliceVars, caller, saved>>

Return(from, to) ==
  /\ Goto(from, to)
  /\ Beating
  /\ cyclesLate' = 0
  /\ UNCHANGED <<queueVars, sliceVars, caller, saved>>

NothingDue == first # <<>> => Head(first).time > g_globalTimer

\* A block follows, whatever downcount is.
AdvanceEnd ==
  /\ Goto("advance", "guest")
  /\ NothingDue
  /\ globalTimerIsSane' = FALSE
  /\ g_slicelength' =
       IF first = <<>> THEN g_slicelength
       ELSE IF Head(first).time - g_globalTimer > MaxSlice THEN MaxSlice
       ELSE Head(first).time - g_globalTimer
  /\ downcount' = CyclesToDowncount(g_slicelength', s_lastOCFactor)
  /\ UNCHANGED <<queueVars, g_globalTimer, s_lastOCFactor, caller, cyclesLate, saved>>

\* ProcessFifoWaitEvents(), called while the guest waits for the GPU.
FifoBegin ==
  /\ Goto("guest", "fifoMove")
  /\ UNCHANGED <<queueVars, sliceVars, caller, cyclesLate, saved>>

FifoMoved ==
  /\ Goto("fifoMove", "fifo")
  /\ tsQueue = <<>>
  /\ UNCHANGED <<queueVars, sliceVars, caller, cyclesLate, saved>>

FifoEnd ==
  /\ Goto("fifo", "guest")
  /\ NothingDue
  /\ UNCHANGED <<queueVars, sliceVars, caller, cyclesLate, saved>>

\* Idle() skips the rest of the slice, after the above if the GPU is synchronised.
Idle ==
  /\ \/ Goto("guest", "guest")
     \/ Goto("fifo", "guest") /\ NothingDue
  /\ downcount' = 0
  /\ UNCHANGED <<queueVars, g_globalTimer, g_slicelength, globalTimerIsSane,
                 s_lastOCFactor, caller, cyclesLate, saved>>

-----------------------------------------------------------------------------
(* Other threads, and saved states. *)

\* ScheduleEvent_Threadsafe() takes the lock, reads the clock ...
ThreadsafeBegin(t) ==
  /\ at # "off"
  /\ tsTime[t] = Outside
  /\ tsWriteLock = Free
  /\ tsWriteLock' = t
  /\ tsTime' = [tsTime EXCEPT ![t] = g_globalTimer]
  /\ UNCHANGED <<first, tsQueue, sliceVars, cpuVars, saved>>

\* ... and queues the event.
ThreadsafePush(t, c, type) ==
  /\ tsTime[t] # Outside
  /\ HasRoom(type)
  /\ tsQueue' = Append(tsQueue, [time |-> tsTime[t] + c, type |-> type,
                                 origin |-> "other", stamp |-> g_globalTimer])
  /\ tsTime' = [tsTime EXCEPT ![t] = Outside]
  /\ tsWriteLock' = Free
  /\ UNCHANGED <<first, sliceVars, cpuVars, saved>>

\* DoState(), while the core is stopped, holds the lock.
StateBegin ==
  /\ Savestates
  /\ Goto("dispatcher", "stateMove")
  /\ tsWriteLock = Free
  /\ tsWriteLock' = Cpu
  /\ UNCHANGED <<first, tsQueue, tsTime, sliceVars, caller, cyclesLate, saved>>

SaveState ==
  /\ Goto("stateMove", "dispatcher")
  /\ tsQueue = <<>>
  /\ saved' = {[first |-> first, timer |-> g_globalTimer, slice |-> g_slicelength,
                downcount |-> downcount, factor |-> s_lastOCFactor]}
  /\ tsWriteLock' = Free
  /\ UNCHANGED <<first, tsQueue, tsTime, sliceVars, caller, cyclesLate>>

\* PowerPC::DoState() restores downcount.
LoadState ==
  /\ Goto("stateMove", "dispatcher")
  /\ tsQueue = <<>>
  /\ \E s \in saved :
       /\ first' = s.first
       /\ g_globalTimer' = s.timer
       /\ g_slicelength' = s.slice
       /\ downcount' = s.downcount
       /\ s_lastOCFactor' = s.factor
  /\ tsWriteLock' = Free
  /\ UNCHANGED <<tsQueue, tsTime, globalTimerIsSane, caller, cyclesLate, saved>>

-----------------------------------------------------------------------------
\* How far ahead an event is scheduled: a delay or, by the callback of a periodic
\* event, what is left of the period.  No periodic event runs in fifoCallback.
CpuDelays ==
  Delays \cup {d - cyclesLate : d \in IF at = "advanceCallback" THEN Delays ELSE {}}

Next ==
  \/ Boot \/ EnterCore \/ ShutdownBegin \/ ShutdownEnd
  \/ StartBlock \/ \E n \in Blocks : EndBlock(n)
  \/ SingleStep
  \/ \E type \in Types :
       \E c \in CpuDelays : ScheduleEvent(c, type)
  \/ \E type \in Types \ {Video} : RemoveEvent(type) \/ RemoveAllEnd(type)
  \/ \E c \in Delays : CheckSoon(c)
  \/ RemoveAllBegin
  \/ MoveEvent
  \/ AdvanceBegin \/ AdvanceTimer \/ AdvanceEnd
  \/ Dispatch("advance", "advanceCallback") \/ Return("advanceCallback", "advance")
  \/ FifoBegin \/ FifoMoved \/ FifoEnd
  \/ Dispatch("fifo", "fifoCallback") \/ Return("fifoCallback", "fifo")
  \/ Idle
  \/ \E t \in Threads :
       \/ ThreadsafeBegin(t)
       \/ \E c \in Delays, type \in Types \ {Video} : ThreadsafePush(t, c, type)
  \/ StateBegin \/ SaveState \/ LoadState

Spec == Init /\ [][Next]_vars

-----------------------------------------------------------------------------
(* Properties. *)

\* Advance() looks at the first event only, so the list has to be sorted, whoever
\* added to it (AddEventToQueue, MoveEvents) or removed from it.
Sorted ==
  \A i, j \in 1 .. Len(first) : i < j => first[i].time <= first[j].time

\* "If this event needs to be scheduled before the next advance(), force one early":
\* while the guest runs, no event that the CPU thread scheduled lies inside the
\* slice, however it and the slice came about.
DeadlineKept ==
  at \in {"guest", "dispatcher"} =>
    \A i \in 1 .. Len(first) :
      first[i].origin = "cpu" => g_globalTimer + g_slicelength <= first[i].time

\* Events of the same time run in the order in which the CPU thread, or the others,
\* scheduled them, also when they come from different slices or from MoveEvents.
SameTimeInOrder ==
  \A i, j \in 1 .. Len(first) :
    (i < j /\ first[i].origin = first[j].origin /\ first[i].time = first[j].time)
      => first[i].stamp <= first[j].stamp

\* How far the guest may run past the end of a slice.
Overshoot ==
  LET longest == CHOOSE n \in Blocks : \A m \in Blocks : m <= n
      late(f) == Truncate(longest * f.den, f.num)
  IN  CHOOSE m \in {late(f) : f \in Factors} : \A f \in Factors : late(f) <= m

Later(a, b) == IF a >= b THEN a ELSE b

\* An event of the CPU thread is late by no more than the block that was running when
\* it fell due; one of another thread, which may still be in tsQueue, also by the slice
\* during which it was queued.
Due(e) ==
  IF e.origin = "cpu" THEN Later(e.time, e.stamp)
  ELSE Later(e.time, e.stamp + MaxSlice)

NoEventOverdue ==
  \A queue \in {first, tsQueue} :
    \A i \in DOMAIN queue : GetTicks <= Due(queue[i]) + Overshoot

\* The clock that GetTicks() shows the guest never runs backwards, whatever the user does
\* to the factor, except when a state is loaded, the machine starts again, or the debugger's
\* step overwrites a slice of which a part has been executed (Interpreter.cpp:181).
TimeNeverGoesBack ==
  [][at \notin {"off", "stateMove"} /\ ~SingleStep => GetTicks' >= GetTicks]_vars
=============================================================================
