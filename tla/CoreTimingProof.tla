-------------------------- MODULE CoreTimingProof --------------------------
(***************************************************************************)
(* Proofs about CoreTiming for any slice length, any overclocking factors, *)
(* any blocks of guest code and any number of events and threads.          *)
(*                                                                         *)
(* The list stays sorted because AddEventToQueue() inserts between an      *)
(* event that is not later and one that is strictly later, and the other   *)
(* operations only take events out.  A slice ends no later than the first  *)
(* event of the CPU thread: Advance() ends it at the head of the sorted    *)
(* list, and ScheduleEvent() cuts it to the new event's time; the only     *)
(* events that enter the list without cutting it are those of other        *)
(* threads.                                                                *)
(*                                                                         *)
(* The clock does not go back because cutting a slice takes off what is    *)
(* left, and truncating twice never yields more than there was.  Hence     *)
(* stamps grow along the queue of the other threads and from the list to   *)
(* it, which keeps events of one time in order; and an event is late by    *)
(* the block that was running, and by the slice in which another thread    *)
(* queued it.                                                              *)
(***************************************************************************)
EXTENDS CoreTiming, TLAPS

USE DEF sliceVars, queueVars, cpuVars

SortedList(s) == \A i, j \in 1 .. Len(s) : i < j => s[i].time <= s[j].time

\* No event of the CPU thread before this time.
NoneBefore(s, time) ==
  \A i \in 1 .. Len(s) : s[i].origin = "cpu" => time <= s[i].time

\* How the list and a new one may differ when events were taken out.
Sublist(s, t) ==
  /\ Len(t) <= Len(s)
  /\ \E place \in [1 .. Len(t) -> 1 .. Len(s)] :
       /\ \A i, j \in 1 .. Len(t) : i < j => place[i] < place[j]
       /\ \A i \in 1 .. Len(t) : t[i] = s[place[i]]

LEMMA TruncateType ==
  ASSUME NEW a \in Int, NEW b \in Nat \ {0}
  PROVE  Truncate(a, b) \in Int
BY DEF Truncate

LEMMA CyclesType ==
  ASSUME TypeOK, NEW d \in Int, NEW f \in Factors
  PROVE  /\ DowncountToCycles(d) \in Int
         /\ CyclesToDowncount(d, f) \in Int
<1>1. /\ s_lastOCFactor.num \in Nat \ {0} /\ s_lastOCFactor.den \in Nat \ {0}
      /\ f.num \in Nat \ {0} /\ f.den \in Nat \ {0}
  BY ConstantsAssumption DEF TypeOK
<1>2. d * s_lastOCFactor.den \in Int /\ d * f.num \in Int
  BY <1>1
<1> QED
  BY <1>1, <1>2, TruncateType DEF DowncountToCycles, CyclesToDowncount

LEMMA TicksType ==
  ASSUME TypeOK PROVE GetTicks \in Int
<1>1. DowncountToCycles(downcount) \in Int
  BY CyclesType DEF TypeOK
<1> QED
  BY <1>1 DEF TypeOK, GetTicks

\* AddEventToQueue() adds the event, keeps the others and keeps the list sorted.
LEMMA Insertion ==
  ASSUME TypeOK, NEW e \in Event, AddEventToQueue(e)
  PROVE  /\ first' \in Seq(Event)
         /\ Sorted => SortedList(first')
         /\ \A time \in Int : NoneBefore(first, time) /\ (e.origin = "cpu" => time <= e.time)
                                => NoneBefore(first', time)
<1>1. PICK k \in 0 .. Len(first) :
         /\ \A i \in 1 .. k : first[i].time <= e.time
         /\ k < Len(first) => e.time < first[k + 1].time
         /\ first' = [i \in 1 .. Len(first) + 1 |->
                        IF i <= k THEN first[i]
                        ELSE IF i = k + 1 THEN e
                        ELSE first[i - 1]]
  BY DEF AddEventToQueue
<1>2. first \in Seq(Event) /\ Len(first) \in Nat
  BY DEF TypeOK
<1>3. \A i \in 1 .. Len(first) : first[i] \in Event /\ first[i].time \in Int
  <2>1. \A i \in 1 .. Len(first) : first[i] \in Event
    BY <1>2
  <2>2. \A x \in Event : x.time \in Int
    BY DEF Event
  <2> QED
    BY <2>1, <2>2
<1>4. first' \in Seq(Event) /\ Len(first') = Len(first) + 1
  BY <1>1, <1>2, <1>3
<1>5. ASSUME Sorted PROVE SortedList(first')
  <2> SUFFICES ASSUME NEW i \in 1 .. Len(first'), NEW j \in 1 .. Len(first'), i < j
               PROVE  first'[i].time <= first'[j].time
    BY DEF SortedList
  <2>2. e.time \in Int
    BY DEF Event
  <2>1. ASSUME NEW m \in k + 1 .. Len(first) PROVE e.time < first[m].time
    <3>1. e.time < first[k + 1].time /\ k + 1 \in 1 .. Len(first) /\ m \in 1 .. Len(first)
      BY <1>1, <1>2
    <3>2. first[k + 1].time <= first[m].time
      BY <3>1, <1>2, <1>3, <1>5 DEF Sorted
    <3> QED
      BY <2>2, <3>1, <3>2, <1>3
  <2>3. CASE j <= k
    BY <1>1, <1>2, <1>3, <1>4, <1>5, <2>3 DEF Sorted
  <2>4. CASE j = k + 1
    BY <1>1, <1>2, <1>3, <1>4, <2>4
  <2>5. CASE j > k + 1
    <3>1. first'[j] = first[j - 1] /\ j - 1 \in k + 1 .. Len(first)
      BY <1>1, <1>2, <1>4, <2>5
    <3>2. CASE i <= k
      BY <1>1, <1>2, <1>3, <1>4, <1>5, <2>5, <3>1, <3>2 DEF Sorted
    <3>3. CASE i = k + 1
      BY <1>1, <1>2, <1>3, <1>4, <2>1, <2>2, <3>1, <3>3
    <3>4. CASE i > k + 1
      <4>1. first'[i] = first[i - 1] /\ i - 1 \in 1 .. Len(first) /\ i - 1 < j - 1
        BY <1>1, <1>2, <1>4, <3>4
      <4>2. j - 1 \in 1 .. Len(first)
        BY <1>1, <1>2, <3>1
      <4> QED
        BY <1>5, <3>1, <4>1, <4>2 DEF Sorted
    <3> QED
      BY <1>1, <1>4, <3>2, <3>3, <3>4
  <2> QED
    BY <1>1, <1>4, <2>3, <2>4, <2>5
<1>6. ASSUME NEW time \in Int, NoneBefore(first, time), e.origin = "cpu" => time <= e.time
      PROVE  NoneBefore(first', time)
  BY <1>1, <1>2, <1>4, <1>6 DEF NoneBefore
<1> QED
  BY <1>4, <1>5, <1>6

\* What is left when events are taken out of a list keeps its order.
LEMMA TakingOut ==
  ASSUME NEW s \in Seq(Event), NEW t \in Seq(Event), Sublist(s, t)
  PROVE  /\ SortedList(s) => SortedList(t)
         /\ \A time \in Int : NoneBefore(s, time) => NoneBefore(t, time)
BY DEF Sublist, SortedList, NoneBefore

LEMMA Removal ==
  ASSUME TypeOK, NEW type, RemoveFromQueue(type)
  PROVE  first' \in Seq(Event) /\ Sublist(first, first')
<1> DEFINE kept == {i \in 1 .. Len(first) : first[i].type # type}
<1>0. PICK n \in 0 .. Len(first) : \E place \in [1 .. n -> kept] :
        /\ \A i, j \in 1 .. n : i < j => place[i] < place[j]
        /\ first' = [j \in 1 .. n |-> first[place[j]]]
  BY DEF RemoveFromQueue
<1>1. PICK place \in [1 .. n -> kept] :
        /\ \A i, j \in 1 .. n : i < j => place[i] < place[j]
        /\ first' = [j \in 1 .. n |-> first[place[j]]]
  BY <1>0
<1>2. first \in Seq(Event) /\ Len(first) \in Nat
  BY DEF TypeOK
<1>3. first' \in Seq(Event) /\ Len(first') = n
  BY <1>1, <1>2
<1>4. place \in [1 .. Len(first') -> 1 .. Len(first)]
  BY <1>1, <1>3
<1>5. \A i \in 1 .. Len(first') : first'[i] = first[place[i]]
  BY <1>1, <1>3
<1>6. \A i, j \in 1 .. Len(first') : i < j => place[i] < place[j]
  BY <1>1, <1>3
<1>7. Len(first') <= Len(first)
  BY <1>2, <1>3
<1> QED
  BY <1>3, <1>4, <1>5, <1>6, <1>7 DEF Sublist

LEMMA RemovalOfHead ==
  ASSUME NEW s \in Seq(Event), s # <<>>
  PROVE  Tail(s) \in Seq(Event) /\ Sublist(s, Tail(s))
<1>1. Tail(s) \in Seq(Event) /\ Len(Tail(s)) = Len(s) - 1 /\ Len(s) \in Nat
      /\ \A i \in 1 .. Len(s) - 1 : Tail(s)[i] = s[i + 1]
  OBVIOUS
<1> DEFINE place == [i \in 1 .. Len(Tail(s)) |-> i + 1]
<1>2. place \in [1 .. Len(Tail(s)) -> 1 .. Len(s)]
  BY <1>1
<1>3. \A i, j \in 1 .. Len(Tail(s)) : i < j => place[i] < place[j]
  BY <1>1
<1>4. \A i \in 1 .. Len(Tail(s)) : Tail(s)[i] = s[place[i]]
  BY <1>1
<1>5. Len(Tail(s)) <= Len(s)
  BY <1>1
<1> HIDE DEF place
<1> QED
  BY <1>1, <1>2, <1>3, <1>4, <1>5 DEF Sublist

LEMMA DelayType ==
  ASSUME TypeOK, NEW c \in CpuDelays PROVE c \in Int
<1>1. Delays \subseteq Int /\ cyclesLate \in Int
  BY ConstantsAssumption DEF TypeOK
<1>2. CASE c \in Delays
  BY <1>1, <1>2
<1>3. CASE c \notin Delays
  <2>1. PICK d \in IF at = "advanceCallback" THEN Delays ELSE {} : c = d - cyclesLate
    BY <1>3 DEF CpuDelays
  <2>2. d \in Int
    BY <2>1, <1>1
  <2> QED
    BY <2>1, <2>2, <1>1
<1> QED
  BY <1>2, <1>3

LEMMA ScheduledEvent ==
  ASSUME TypeOK, NEW c \in CpuDelays, NEW type \in Types
  PROVE  [time |-> GetTicks + c, type |-> type, origin |-> "cpu", stamp |-> g_globalTimer]
           \in Event
<1>1. GetTicks \in Int /\ c \in Int /\ g_globalTimer \in Int
  BY TicksType, DelayType DEF TypeOK
<1>2. GetTicks + c \in Int
  BY <1>1
<1> QED
  BY <1>1, <1>2 DEF Event

\* ForceExceptionCheck() either leaves the slice alone or cuts it at the given time.
LEMMA Forcing ==
  ASSUME TypeOK, NEW c \in Int, ForceExceptionCheck(c)
  PROVE  /\ g_slicelength' \in Int /\ downcount' \in Int
         /\ g_slicelength' <= g_slicelength
         /\ ~globalTimerIsSane => g_globalTimer + g_slicelength' <= GetTicks + c
<1>1. DowncountToCycles(downcount) \in Int /\ CyclesToDowncount(c, s_lastOCFactor) \in Int
  BY CyclesType DEF TypeOK
<1>2. g_slicelength \in Int /\ downcount \in Int /\ g_globalTimer \in Int
  BY DEF TypeOK
<1> QED
  BY <1>1, <1>2 DEF ForceExceptionCheck, GetTicks

LEMMA TypeStep ==
  ASSUME TypeOK, [Next]_vars PROVE TypeOK'
<1> USE ConstantsAssumption DEF TypeOK
<1>1. CASE Boot
  <2>1. \A f \in Factors : CyclesToDowncount(MaxSlice, f) \in Int
    BY CyclesType
  <2> QED
    BY <1>1, <2>1 DEF Boot, Goto, Places
<1>2. CASE EnterCore
  BY <1>2 DEF EnterCore, Goto, Places
<1>3. CASE ShutdownBegin \/ ShutdownEnd
  <2>1. first' \in Seq(Event)
    BY <1>3 DEF ShutdownBegin, ShutdownEnd
  <2>2. /\ tsWriteLock' \in {Cpu, Free}
        /\ at' = "offMove" => tsWriteLock' = Cpu
        /\ at' \in {"off", "offMove"}
    BY <1>3 DEF ShutdownBegin, ShutdownEnd, Goto
  <2>3. \A t \in Threads : tsTime[t] = Outside
    BY <1>3 DEF ShutdownBegin, ShutdownEnd, Goto
  <2> QED
    BY <1>3, <2>1, <2>2, <2>3 DEF ShutdownBegin, ShutdownEnd, Places
<1>4. CASE StartBlock
  BY <1>4 DEF StartBlock, Goto, Places
<1>5. ASSUME NEW n \in Blocks, EndBlock(n) PROVE TypeOK'
  BY <1>5 DEF EndBlock, Goto, Places
<1>6. CASE SingleStep
  BY <1>6 DEF SingleStep, Places
<1>7. ASSUME NEW type \in Types, NEW c \in CpuDelays, ScheduleEvent(c, type) PROVE TypeOK'
  <2>1. first' \in Seq(Event)
    BY <1>7, ScheduledEvent, Insertion DEF ScheduleEvent
  <2>2. g_slicelength' \in Int /\ downcount' \in Int
    BY <1>7, Forcing, DelayType DEF ScheduleEvent
  <2>3. UNCHANGED <<g_globalTimer, globalTimerIsSane, s_lastOCFactor>>
    BY <1>7 DEF ScheduleEvent, ForceExceptionCheck
  <2> QED
    BY <1>7, <2>1, <2>2, <2>3 DEF ScheduleEvent
<1>8. ASSUME NEW type \in Types, RemoveEvent(type) PROVE TypeOK'
  BY <1>8, Removal DEF RemoveEvent
<1>9. ASSUME NEW type \in Types, RemoveAllEnd(type) PROVE TypeOK'
  BY <1>9, Removal DEF RemoveAllEnd, Goto, MayCall, Places
<1>10. ASSUME NEW c \in Delays, CheckSoon(c) PROVE TypeOK'
  <2>0. c \in Int
    BY <1>10
  <2>1. g_slicelength' \in Int /\ downcount' \in Int
    BY <1>10, <2>0, Forcing DEF CheckSoon
  <2> QED
    BY <1>10, <2>1 DEF CheckSoon, ForceExceptionCheck
<1>11. CASE RemoveAllBegin
  BY <1>11 DEF RemoveAllBegin, MayCall, Places
<1>12. CASE MoveEvent
  <2>1. Head(tsQueue) \in Event /\ Tail(tsQueue) \in Seq(Event)
    BY <1>12 DEF MoveEvent
  <2>2. first' \in Seq(Event)
    BY <1>12, <2>1, Insertion DEF MoveEvent
  <2> QED
    BY <1>12, <2>1, <2>2 DEF MoveEvent
<1>13. CASE AdvanceBegin
  BY <1>13 DEF AdvanceBegin, Goto, Places
<1>14. CASE AdvanceTimer
  <2>1. DowncountToCycles(downcount) \in Int
    BY CyclesType
  <2> QED
    BY <1>14, <2>1 DEF AdvanceTimer, Goto, Places
<1>15. CASE AdvanceEnd
  <2>1. g_slicelength' \in Int
    <3>1. first # <<>> => Head(first) \in Event
      OBVIOUS
    <3>2. \A x \in Event : x.time \in Int
      BY DEF Event
    <3> QED
      BY <1>15, <3>1, <3>2 DEF AdvanceEnd
  <2>2. downcount' \in Int
    BY <1>15, <2>1, CyclesType DEF AdvanceEnd
  <2> QED
    BY <1>15, <2>1, <2>2 DEF AdvanceEnd, Goto, Places
<1>16. ASSUME NEW from, NEW to \in Places \ {"stateMove", "offMove"}, Dispatch(from, to) PROVE TypeOK'
  <2>1. Head(first) \in Event /\ Tail(first) \in Seq(Event)
    BY <1>16 DEF Dispatch
  <2>2. \A x \in Event : x.time \in Int
    BY DEF Event
  <2> QED
    BY <1>16, <2>1, <2>2 DEF Dispatch, Goto
<1>17. ASSUME NEW from, NEW to \in Places \ {"stateMove", "offMove"}, Return(from, to) PROVE TypeOK'
  BY <1>17 DEF Return, Goto
<1>18. CASE FifoBegin \/ FifoMoved \/ FifoEnd
  BY <1>18 DEF FifoBegin, FifoMoved, FifoEnd, Goto, Places
<1>19. CASE Idle
  BY <1>19 DEF Idle, Goto, Places
<1>20. ASSUME NEW t \in Threads, ThreadsafeBegin(t) PROVE TypeOK'
  BY <1>20 DEF ThreadsafeBegin, Outside
<1>21. ASSUME NEW t \in Threads, NEW c \in Delays, NEW type \in Types,
              ThreadsafePush(t, c, type)
       PROVE  TypeOK'
  <2>1. [time |-> tsTime[t] + c, type |-> type, origin |-> "other", stamp |-> g_globalTimer]
          \in Event
    <3>0. Delays \subseteq Int
      BY DEF ConstantsAssumption
    <3>1. g_globalTimer \in Int /\ tsTime[t] \in Int /\ c \in Int
      BY <3>0 DEF TypeOK
    <3>2. tsTime[t] + c \in Int
      BY <3>1
    <3> QED
      BY <3>1, <3>2 DEF Event
  <2>2. tsQueue' \in Seq(Event)
    BY <1>21, <2>1 DEF ThreadsafePush
  <2> QED
    BY <1>21, <2>2 DEF ThreadsafePush, Outside
<1>22. CASE StateBegin
  BY <1>22 DEF StateBegin, Goto, Places
<1>23. CASE SaveState
  <2> DEFINE s == [first |-> first, timer |-> g_globalTimer, slice |-> g_slicelength,
                   downcount |-> downcount, factor |-> s_lastOCFactor]
  <2>1. s \in Snapshot
    BY DEF Snapshot
  <2>2. saved' = {s} /\ at' = "dispatcher" /\ tsWriteLock' = Free
    BY <1>23 DEF SaveState, Goto
  <2>3. \A t \in Threads : tsTime[t] = Outside
    BY <1>23 DEF SaveState, Goto
  <2> HIDE DEF s
  <2> QED
    BY <1>23, <2>1, <2>2, <2>3 DEF SaveState, Places
<1>24. CASE LoadState
  <2>1. PICK s \in saved :
          /\ first' = s.first /\ g_globalTimer' = s.timer /\ g_slicelength' = s.slice
          /\ downcount' = s.downcount /\ s_lastOCFactor' = s.factor
    BY <1>24 DEF LoadState
  <2>2. s \in Snapshot
    OBVIOUS
  <2>3. /\ s.first \in Seq(Event) /\ s.timer \in Int /\ s.slice \in Int
        /\ s.downcount \in Int /\ s.factor \in Factors
    BY <2>2 DEF Snapshot
  <2>4. \A t \in Threads : tsTime[t] = Outside
    BY <1>24 DEF LoadState, Goto
  <2>5. at' = "dispatcher" /\ tsWriteLock' = Free
    BY <1>24 DEF LoadState, Goto
  <2> QED
    BY <1>24, <2>1, <2>3, <2>4, <2>5 DEF LoadState, Places
<1>25. CASE UNCHANGED vars
  BY <1>25 DEF vars
<1> QED
  BY <1>1, <1>2, <1>3, <1>4, <1>5, <1>6, <1>7, <1>8, <1>9, <1>10, <1>11, <1>12, <1>13,
     <1>14, <1>15, <1>16, <1>17, <1>18, <1>19, <1>20, <1>21, <1>22, <1>23, <1>24, <1>25
     DEF Next, Places

LEMMA InitType == Init => TypeOK
<1> SUFFICES ASSUME Init PROVE TypeOK
  OBVIOUS
<1>1. first \in Seq(Event) /\ tsQueue \in Seq(Event)
  BY DEF Init
<1>2. \A t \in Threads : tsTime[t] = Outside
  BY DEF Init
<1>3. tsTime \in [Threads -> Int]
  BY DEF Init, Outside
<1>4. saved \subseteq Snapshot
  BY DEF Init
<1>5. at \in Places /\ caller \in MayCall /\ at \notin {"stateMove", "offMove"}
  BY DEF Init, Places, MayCall
<1>6. tsWriteLock = Free /\ s_lastOCFactor \in Factors /\ globalTimerIsSane = FALSE
  BY DEF Init
<1>7. /\ g_globalTimer \in Int /\ g_slicelength \in Int /\ downcount \in Int
      /\ cyclesLate \in Int
  BY DEF Init
<1>8. tsWriteLock \in Threads \cup {Cpu, Free} /\ globalTimerIsSane \in BOOLEAN
  BY <1>6
<1> QED
  BY <1>1, <1>2, <1>3, <1>4, <1>5, <1>6, <1>7, <1>8 DEF TypeOK

\* Every variable has its type: in particular the lock is held by the thread that is
\* inside ScheduleEvent_Threadsafe(), or by nobody else when the CPU thread holds it.
THEOREM TypeCorrect == Spec => []TypeOK
<1>1. Init => TypeOK
  BY InitType
<1>2. TypeOK /\ [Next]_vars => TypeOK'
  BY TypeStep
<1> QED
  BY <1>1, <1>2, PTL DEF Spec

-----------------------------------------------------------------------------
(* Sorted. *)

SavedSorted == \A s \in saved : SortedList(s.first)

LEMMA HeadIsFirst ==
  ASSUME NEW s \in Seq(Event), SortedList(s), s # <<>>
  PROVE  NoneBefore(s, Head(s).time)
<1>1. Len(s) \in Nat /\ Len(s) > 0 /\ Head(s) = s[1]
  OBVIOUS
<1>2. \A i \in 1 .. Len(s) : s[i] \in Event
  OBVIOUS
<1>3. \A x \in Event : x.time \in Int
  BY DEF Event
<1> QED
  BY <1>1, <1>2, <1>3 DEF SortedList, NoneBefore

\* What a step may do to the list: nothing, insert an event, take some out, restore
\* a saved one.
LEMMA ListStep ==
  ASSUME TypeOK, [Next]_vars
  PROVE  \/ first' = first
         \/ \E e \in Event : AddEventToQueue(e)
         \/ first' \in Seq(Event) /\ Sublist(first, first')
         \/ LoadState
         \/ first' = <<>>
<1>1. ASSUME NEW type \in Types, NEW c \in CpuDelays, ScheduleEvent(c, type)
      PROVE  \E e \in Event : AddEventToQueue(e)
  BY <1>1, ScheduledEvent DEF ScheduleEvent
<1>2. ASSUME NEW type \in Types, RemoveEvent(type) \/ RemoveAllEnd(type)
      PROVE  first' \in Seq(Event) /\ Sublist(first, first')
  BY <1>2, Removal DEF RemoveEvent, RemoveAllEnd
<1>3. ASSUME MoveEvent PROVE \E e \in Event : AddEventToQueue(e)
  <2>1. Head(tsQueue) \in Event
    BY <1>3 DEF MoveEvent, TypeOK
  <2> QED
    BY <1>3, <2>1 DEF MoveEvent
<1>4. ASSUME NEW from, NEW to, Dispatch(from, to)
      PROVE  first' \in Seq(Event) /\ Sublist(first, first')
  BY <1>4, RemovalOfHead DEF Dispatch, TypeOK
<1>5. ASSUME NEW t \in Threads, NEW c \in Delays, NEW type \in Types,
             ThreadsafeBegin(t) \/ ThreadsafePush(t, c, type)
      PROVE  first' = first
  BY <1>5 DEF ThreadsafeBegin, ThreadsafePush
<1> QED
  BY <1>1, <1>2, <1>3, <1>4, <1>5
     DEF Next, vars, Boot, EnterCore, ShutdownBegin, ShutdownEnd, StartBlock, EndBlock,
         SingleStep, CheckSoon, RemoveAllBegin, AdvanceBegin, AdvanceTimer, AdvanceEnd,
         Return, FifoBegin, FifoMoved, FifoEnd, Idle, ThreadsafeBegin, ThreadsafePush,
         StateBegin, SaveState

LEMMA SavedStep ==
  ASSUME [Next]_vars PROVE saved' = saved \/ SaveState
BY DEF Next, vars, Boot, EnterCore, ShutdownBegin, ShutdownEnd, StartBlock, EndBlock,
       SingleStep, ScheduleEvent, RemoveEvent, CheckSoon, RemoveAllBegin, RemoveAllEnd,
       MoveEvent, AdvanceBegin, AdvanceTimer, AdvanceEnd, Dispatch, Return, FifoBegin,
       FifoMoved, FifoEnd, Idle, ThreadsafeBegin, ThreadsafePush, StateBegin, LoadState

LEMMA SortedStep ==
  ASSUME TypeOK, Sorted, SavedSorted, [Next]_vars
  PROVE  Sorted' /\ SavedSorted'
<1>0. Sorted <=> SortedList(first)
  BY DEF Sorted, SortedList
<1>1. SortedList(first')
  <2>1. CASE first' = first
    BY <2>1, <1>0
  <2>2. ASSUME NEW e \in Event, AddEventToQueue(e) PROVE SortedList(first')
    BY <2>2, Insertion
  <2>3. CASE first' \in Seq(Event) /\ Sublist(first, first')
    BY <2>3, <1>0, TakingOut DEF TypeOK
  <2>4. CASE LoadState
    BY <2>4 DEF LoadState, SavedSorted
  <2>5. CASE first' = <<>>
    BY <2>5 DEF SortedList
  <2> QED
    BY <2>1, <2>2, <2>3, <2>4, <2>5, ListStep
<1>2. SavedSorted'
  <2>1. CASE saved' = saved
    BY <2>1 DEF SavedSorted
  <2>2. CASE SaveState
    BY <2>2, <1>0 DEF SaveState, SavedSorted
  <2> QED
    BY <2>1, <2>2, SavedStep
<1>3. Sorted' <=> SortedList(first')
  BY DEF Sorted, SortedList
<1> QED
  BY <1>1, <1>2, <1>3

\* The list is sorted whichever thread an event comes from, also after loading a state.
THEOREM ListIsSorted == Spec => []Sorted
<1>1. Init => TypeOK
  BY InitType
<1>2. Init => Sorted /\ SavedSorted
  BY DEF Init, Sorted, SavedSorted
<1>3. TypeOK /\ [Next]_vars => TypeOK'
  BY TypeStep
<1>4. TypeOK /\ Sorted /\ SavedSorted /\ [Next]_vars => Sorted' /\ SavedSorted'
  BY SortedStep
<1> QED
  BY <1>1, <1>2, <1>3, <1>4, PTL DEF Spec

-----------------------------------------------------------------------------
(* Deadlines, on a core that calls Advance() before its first block. *)

\* The events of other threads do not count.
FromOthers == \A i \in 1 .. Len(tsQueue) : tsQueue[i].origin = "other"

\* While the guest runs the clock is not "sane", and it becomes so in Advance() only.
NotSane ==
  /\ at \in {"guest", "dispatcher", "fifoMove", "fifo", "fifoCallback", "stateMove"}
       => ~globalTimerIsSane
  /\ at = "removeMove" /\ caller # "advanceCallback" => ~globalTimerIsSane

SliceEnds == g_globalTimer + g_slicelength

\* A slice ends before the first event, from the moment Advance() has computed it to
\* the next Advance().  SingleStep() replaces the slice, but calls Advance() at once.
SliceCut == ~globalTimerIsSane /\ at # "advanceMove" => NoneBefore(first, SliceEnds)

SavedCut == \A s \in saved : NoneBefore(s.first, s.timer + s.slice)

DeadlineInv == FromOthers /\ NotSane /\ SliceCut /\ SavedCut

LEMMA FromOthersStep ==
  ASSUME TypeOK, FromOthers, [Next]_vars PROVE FromOthers'
<1>1. tsQueue \in Seq(Event)
  BY DEF TypeOK
<1>2. CASE tsQueue' = tsQueue
  BY <1>2 DEF FromOthers
<1>3. CASE MoveEvent
  <2>1. \A i \in 1 .. Len(Tail(tsQueue)) :
          Tail(tsQueue)[i] = tsQueue[i + 1] /\ i + 1 \in 1 .. Len(tsQueue)
    BY <1>1, <1>3 DEF MoveEvent
  <2> QED
    BY <1>3, <2>1 DEF MoveEvent, FromOthers
<1>4. ASSUME NEW t \in Threads, NEW c \in Delays, NEW type \in Types,
             ThreadsafePush(t, c, type)
      PROVE  FromOthers'
  <2> DEFINE e == [time |-> tsTime[t] + c, type |-> type, origin |-> "other",
                   stamp |-> g_globalTimer]
  <2>1. tsQueue' = Append(tsQueue, e) /\ e.origin = "other"
    BY <1>4 DEF ThreadsafePush
  <2> HIDE DEF e
  <2>2. \A i \in 1 .. Len(tsQueue') : tsQueue'[i] = e \/ (i \in 1 .. Len(tsQueue) /\ tsQueue'[i] = tsQueue[i])
    BY <1>1, <2>1
  <2> QED
    BY <2>1, <2>2 DEF FromOthers
<1>5. tsQueue' = tsQueue \/ MoveEvent
      \/ \E t \in Threads : \E c \in Delays, type \in Types : ThreadsafePush(t, c, type)
  BY DEF Next, vars, Boot, EnterCore, ShutdownBegin, ShutdownEnd, StartBlock, EndBlock,
         SingleStep, ScheduleEvent, RemoveEvent, CheckSoon, RemoveAllBegin, RemoveAllEnd,
         AdvanceBegin, AdvanceTimer, AdvanceEnd, Dispatch, Return, FifoBegin, FifoMoved,
         FifoEnd, Idle, ThreadsafeBegin, StateBegin, SaveState, LoadState
<1> QED
  BY <1>2, <1>3, <1>4, <1>5

LEMMA NotSaneStep ==
  ASSUME AdvanceOnEntry = TRUE, TypeOK, NotSane, [Next]_vars PROVE NotSane'
<1> USE DEF NotSane, Goto
<1>1. ASSUME NEW type \in Types, NEW c \in CpuDelays, ScheduleEvent(c, type) PROVE NotSane'
  BY <1>1 DEF ScheduleEvent, ForceExceptionCheck
<1>2. ASSUME NEW type \in Types, RemoveEvent(type) \/ RemoveAllEnd(type) PROVE NotSane'
  <2>1. caller \in MayCall
    BY DEF TypeOK
  <2>2. CASE RemoveEvent(type)
    BY <2>2 DEF RemoveEvent
  <2>3. CASE RemoveAllEnd(type)
    BY <2>1, <2>3 DEF RemoveAllEnd, MayCall
  <2> QED
    BY <1>2, <2>2, <2>3
<1>3. ASSUME NEW c \in Delays, CheckSoon(c) PROVE NotSane'
  BY <1>3 DEF CheckSoon, ForceExceptionCheck
<1>4. CASE RemoveAllBegin
  BY <1>4 DEF RemoveAllBegin, MayCall
<1>5. ASSUME NEW n \in Blocks, EndBlock(n) PROVE NotSane'
  BY <1>5 DEF EndBlock
<1>6. CASE Boot \/ EnterCore \/ ShutdownBegin \/ ShutdownEnd \/ StartBlock \/ SingleStep
  BY <1>6 DEF Boot, EnterCore, ShutdownBegin, ShutdownEnd, StartBlock, SingleStep
<1>7. CASE AdvanceBegin \/ AdvanceTimer \/ AdvanceEnd
  BY <1>7 DEF AdvanceBegin, AdvanceTimer, AdvanceEnd
<1>8. CASE Dispatch("advance", "advanceCallback") \/ Return("advanceCallback", "advance")
           \/ Dispatch("fifo", "fifoCallback") \/ Return("fifoCallback", "fifo")
  BY <1>8 DEF Dispatch, Return
<1>9. CASE FifoBegin \/ FifoMoved \/ FifoEnd \/ Idle
  BY <1>9 DEF FifoBegin, FifoMoved, FifoEnd, Idle
<1>10. ASSUME NEW t \in Threads,
              \/ ThreadsafeBegin(t)
              \/ \E c \in Delays, type \in Types : ThreadsafePush(t, c, type)
       PROVE  NotSane'
  <2>1. UNCHANGED <<at, caller, globalTimerIsSane>>
    BY <1>10 DEF ThreadsafeBegin, ThreadsafePush
  <2> QED
    BY <2>1
<1>11. CASE StateBegin \/ SaveState \/ LoadState
  BY <1>11 DEF StateBegin, SaveState, LoadState
<1>12. CASE MoveEvent \/ UNCHANGED vars
  BY <1>12 DEF MoveEvent, vars
<1> QED
  BY <1>1, <1>2, <1>3, <1>4, <1>5, <1>6, <1>7, <1>8, <1>9, <1>10, <1>11, <1>12 DEF Next

LEMMA Earlier ==
  ASSUME NEW s \in Seq(Event), NEW time \in Int, NEW earlier \in Int, earlier <= time,
         NoneBefore(s, time)
  PROVE  NoneBefore(s, earlier)
<1>1. \A i \in 1 .. Len(s) : s[i] \in Event
  OBVIOUS
<1>2. \A x \in Event : x.time \in Int
  BY DEF Event
<1> QED
  BY <1>1, <1>2 DEF NoneBefore

LEMMA ShorterSlice ==
  ASSUME NEW time \in Int, NEW slice \in Int, NEW shorter \in Int, shorter <= slice
  PROVE  time + shorter \in Int /\ time + shorter <= time + slice
OBVIOUS

LEMMA SliceCutStep ==
  ASSUME TypeOK, Sorted, DeadlineInv, [Next]_vars PROVE SliceCut'
<1> USE DEF Goto
<1>0. /\ g_globalTimer \in Int /\ g_slicelength \in Int /\ SliceEnds \in Int
      /\ first \in Seq(Event)
  BY DEF TypeOK, SliceEnds
<1>1. ASSUME NEW type \in Types, NEW c \in CpuDelays, ScheduleEvent(c, type) PROVE SliceCut'
  <2> DEFINE e == [time |-> GetTicks + c, type |-> type, origin |-> "cpu",
                   stamp |-> g_globalTimer]
  <2>1. e \in Event /\ c \in Int /\ e.time = GetTicks + c
    BY ScheduledEvent, DelayType
  <2>2. AddEventToQueue(e) /\ UNCHANGED at
    BY <1>1 DEF ScheduleEvent
  <2> HIDE DEF e
  <2>3. SUFFICES ASSUME ~globalTimerIsSane', at' # "advanceMove"
                 PROVE  NoneBefore(first', SliceEnds')
    BY DEF SliceCut
  <2>4. ForceExceptionCheck(c) /\ ~globalTimerIsSane /\ UNCHANGED g_globalTimer
    BY <1>1, <2>3 DEF ScheduleEvent, ForceExceptionCheck
  <2>5. /\ g_slicelength' \in Int /\ g_slicelength' <= g_slicelength
        /\ g_globalTimer + g_slicelength' <= e.time
    BY <2>1, <2>4, Forcing
  <2>6. SliceEnds' \in Int /\ SliceEnds' <= SliceEnds /\ SliceEnds' <= e.time
    <3>1. SliceEnds' = g_globalTimer + g_slicelength'
      BY <2>4 DEF SliceEnds
    <3> QED
      BY <3>1, <2>5, <1>0 DEF SliceEnds
  <2>7. NoneBefore(first, SliceEnds)
    BY <2>2, <2>3, <2>4 DEF DeadlineInv, SliceCut
  <2>8. NoneBefore(first, SliceEnds')
    BY <2>6, <2>7, <1>0, Earlier
  <2> QED
    BY <2>1, <2>2, <2>6, <2>8, Insertion
<1>2. ASSUME NEW type \in Types, RemoveEvent(type) PROVE SliceCut'
  BY <1>0, <1>2, Removal, TakingOut DEF RemoveEvent, DeadlineInv, SliceCut, SliceEnds
<1>3. ASSUME NEW type \in Types, RemoveAllEnd(type) PROVE SliceCut'
  BY <1>0, <1>3, Removal, TakingOut DEF RemoveAllEnd, DeadlineInv, SliceCut, SliceEnds
<1>4. ASSUME NEW c \in Delays, CheckSoon(c) PROVE SliceCut'
  <2>1. c \in Int
    BY ConstantsAssumption
  <2>2. g_slicelength' \in Int /\ g_slicelength' <= g_slicelength /\ UNCHANGED g_globalTimer
    BY <1>4, <2>1, Forcing DEF CheckSoon, ForceExceptionCheck
  <2>3. SliceEnds' \in Int /\ SliceEnds' <= SliceEnds
    <3>1. /\ g_globalTimer + g_slicelength' \in Int
          /\ g_globalTimer + g_slicelength' <= g_globalTimer + g_slicelength
      <4>1. g_slicelength \in Int /\ g_globalTimer \in Int
        BY DEF TypeOK
      <4>2. g_slicelength' \in Int /\ g_slicelength' <= g_slicelength
        BY <2>2
      <4> QED
        BY <4>1, <4>2, ShorterSlice
    <3>2. SliceEnds' = g_globalTimer + g_slicelength'
      BY <2>2 DEF SliceEnds
    <3> QED
      BY <3>1, <3>2 DEF SliceEnds
  <2>4. UNCHANGED <<first, at, globalTimerIsSane>>
    BY <1>4 DEF CheckSoon, ForceExceptionCheck
  <2> QED
    BY <1>0, <2>3, <2>4, Earlier DEF DeadlineInv, SliceCut
<1>5. CASE MoveEvent
  <2>1. Head(tsQueue) \in Event /\ Head(tsQueue).origin = "other"
    BY <1>5 DEF MoveEvent, TypeOK, DeadlineInv, FromOthers
  <2>2. AddEventToQueue(Head(tsQueue))
        /\ UNCHANGED <<at, globalTimerIsSane, g_globalTimer, g_slicelength>>
    BY <1>5 DEF MoveEvent
  <2> QED
    BY <1>0, <2>1, <2>2, Insertion DEF DeadlineInv, SliceCut, SliceEnds
<1>6. CASE AdvanceEnd
  <2>1. CASE first = <<>>
    BY <1>6, <2>1 DEF AdvanceEnd, SliceCut, NoneBefore
  <2>2. CASE first # <<>>
    <3>1. Head(first) \in Event
      BY <2>2, <1>0
    <3>2. \A x \in Event : x.time \in Int
      BY DEF Event
    <3>3. Head(first).time \in Int
      BY <3>1, <3>2
    <3>4. /\ g_slicelength' \in Int /\ UNCHANGED <<first, g_globalTimer>>
          /\ g_slicelength' <= Head(first).time - g_globalTimer
      BY <1>0, <1>6, <2>2, <3>3, ConstantsAssumption DEF AdvanceEnd
    <3>5. SliceEnds' \in Int /\ SliceEnds' <= Head(first).time
      BY <1>0, <3>3, <3>4 DEF SliceEnds
    <3>6. NoneBefore(first, Head(first).time)
      BY <1>0, <2>2, HeadIsFirst DEF Sorted, SortedList
    <3> QED
      BY <1>0, <3>3, <3>4, <3>5, <3>6, Earlier DEF SliceCut
  <2> QED
    BY <2>1, <2>2
<1>7. ASSUME NEW from \in {"advance", "fifo"}, NEW to, Dispatch(from, to) PROVE SliceCut'
  BY <1>0, <1>7, RemovalOfHead, TakingOut DEF Dispatch, DeadlineInv, SliceCut, SliceEnds
<1>8. CASE LoadState
  BY <1>8 DEF LoadState, DeadlineInv, SavedCut, SliceCut, SliceEnds
<1>9. CASE ShutdownEnd
  BY <1>9 DEF ShutdownEnd, SliceCut, NoneBefore
<1>10. CASE Boot \/ SingleStep \/ AdvanceBegin \/ AdvanceTimer
  BY <1>10 DEF Boot, SingleStep, AdvanceBegin, AdvanceTimer, SliceCut
<1>11. ASSUME UNCHANGED <<first, g_globalTimer, g_slicelength, globalTimerIsSane>>,
              at # "advanceMove"
       PROVE  SliceCut'
  BY <1>11 DEF DeadlineInv, SliceCut, SliceEnds
<1>12. ASSUME UNCHANGED <<first, g_globalTimer, g_slicelength, globalTimerIsSane, at>>
       PROVE  SliceCut'
  BY <1>12 DEF DeadlineInv, SliceCut, SliceEnds
<1>13. ASSUME NEW t \in Threads,
              \/ ThreadsafeBegin(t)
              \/ \E c \in Delays, type \in Types : ThreadsafePush(t, c, type)
       PROVE  SliceCut'
  BY <1>13, <1>12 DEF ThreadsafeBegin, ThreadsafePush
<1>14. ASSUME NEW n \in Blocks, EndBlock(n) PROVE SliceCut'
  BY <1>14, <1>11 DEF EndBlock
<1>15. CASE EnterCore \/ StartBlock \/ ShutdownBegin \/ RemoveAllBegin \/ FifoBegin \/ FifoMoved
            \/ FifoEnd \/ Idle \/ StateBegin \/ SaveState
            \/ Return("advanceCallback", "advance") \/ Return("fifoCallback", "fifo")
  BY <1>15, <1>11 DEF EnterCore, StartBlock, ShutdownBegin, RemoveAllBegin, FifoBegin, FifoMoved,
                      FifoEnd, Idle, StateBegin, SaveState, Return, MayCall
<1>16. CASE UNCHANGED vars
  BY <1>16, <1>12 DEF vars
<1> QED
  BY <1>1, <1>2, <1>3, <1>4, <1>5, <1>6, <1>7, <1>8, <1>9, <1>10, <1>13, <1>14, <1>15, <1>16
     DEF Next

LEMMA SavedCutStep ==
  ASSUME TypeOK, DeadlineInv, [Next]_vars PROVE SavedCut'
<1>1. CASE saved' = saved
  BY <1>1 DEF DeadlineInv, SavedCut
<1>2. CASE SaveState
  <2>1. at = "stateMove" /\ ~globalTimerIsSane
    BY <1>2 DEF SaveState, Goto, DeadlineInv, NotSane
  <2>2. NoneBefore(first, g_globalTimer + g_slicelength)
    BY <2>1 DEF DeadlineInv, SliceCut, SliceEnds
  <2> QED
    BY <1>2, <2>2 DEF SaveState, SavedCut
<1> QED
  BY <1>1, <1>2, SavedStep

\* On a core that calls Advance() before its first block (the x86 recompiler), no
\* event of the CPU thread is ever passed over by the slice that is running.
THEOREM NoDeadlineMissed ==
  ASSUME AdvanceOnEntry = TRUE
  PROVE  Spec => []DeadlineKept
<1>1. Init => TypeOK /\ Sorted /\ SavedSorted /\ DeadlineInv
  BY InitType DEF Init, Sorted, SavedSorted, DeadlineInv, FromOthers, NotSane, SliceCut,
                  SavedCut, NoneBefore
<1>2. TypeOK /\ [Next]_vars => TypeOK'
  BY TypeStep
<1>3. TypeOK /\ Sorted /\ SavedSorted /\ [Next]_vars => Sorted' /\ SavedSorted'
  BY SortedStep
<1>4. TypeOK /\ Sorted /\ DeadlineInv /\ [Next]_vars => DeadlineInv'
  BY FromOthersStep, NotSaneStep, SliceCutStep, SavedCutStep DEF DeadlineInv
<1>5. DeadlineInv => DeadlineKept
  BY DEF DeadlineInv, NotSane, SliceCut, SliceEnds, NoneBefore, DeadlineKept
<1> QED
  BY <1>1, <1>2, <1>3, <1>4, <1>5, PTL DEF Spec
-----------------------------------------------------------------------------
(* Cycles and downcount: what truncating does, for any factors.                *)

Positive == Nat \ {0}

LEMMA Division ==
  ASSUME NEW a \in Int, NEW n \in Positive
  PROVE  a \div n \in Int /\ n * (a \div n) <= a /\ a < n * (a \div n) + n
BY DEF Positive

LEMMA QuotientFromBelow ==
  ASSUME NEW a \in Int, NEW n \in Positive, NEW q \in Int, n * q <= a
  PROVE  q <= a \div n
<1> DEFINE p == a \div n
<1>1. p \in Int /\ a < n * p + n
  BY Division
<1> HIDE DEF p
<1>2. SUFFICES ASSUME p < q PROVE FALSE
  BY <1>1 DEF p
<1>3. n * (p + 1) <= n * q
  BY <1>1, <1>2 DEF Positive
<1>4. n * (p + 1) = n * p + n
  BY <1>1 DEF Positive
<1> QED
  BY <1>1, <1>3, <1>4 DEF Positive

LEMMA QuotientFromAbove ==
  ASSUME NEW a \in Int, NEW n \in Positive, NEW q \in Int, a <= n * q
  PROVE  a \div n <= q
<1> DEFINE p == a \div n
<1>1. p \in Int /\ n * p <= a
  BY Division
<1> HIDE DEF p
<1>2. SUFFICES ASSUME q < p PROVE FALSE
  BY <1>1 DEF p
<1>3. n * q < n * p
  BY <1>1, <1>2 DEF Positive
<1> QED
  BY <1>1, <1>3 DEF Positive

LEMMA TruncateOrder ==
  ASSUME NEW a \in Int, NEW b \in Int, a <= b, NEW n \in Positive
  PROVE  Truncate(a, n) <= Truncate(b, n)
<1>1. ASSUME NEW x \in Int, NEW y \in Int, x <= y PROVE x \div n <= y \div n
  <2>1. x \div n \in Int /\ n * (x \div n) <= x /\ n * (x \div n) \in Int
    BY Division DEF Positive
  <2>2. n * (x \div n) <= y
    BY <1>1, <2>1
  <2> QED
    BY <1>1, <2>1, <2>2, QuotientFromBelow
<1>2. ASSUME NEW x \in Int, 0 <= x PROVE x \div n \in Int /\ 0 <= x \div n
  BY <1>2, Division, QuotientFromBelow DEF Positive
<1>3. CASE 0 <= a
  BY <1>1, <1>3 DEF Truncate
<1>4. CASE b < 0
  BY <1>1, <1>4, Division DEF Truncate
<1>5. CASE a < 0 /\ 0 <= b
  BY <1>2, <1>5 DEF Truncate
<1> QED
  BY <1>3, <1>4, <1>5

LEMMA TruncateZero ==
  ASSUME NEW n \in Positive PROVE Truncate(0, n) = 0
BY Division DEF Truncate, Positive

\* Cycles turned into downcount and back are never more than there were.
LEMMA ThereAndBack ==
  ASSUME NEW c \in Int, 0 <= c, NEW n \in Positive, NEW d \in Positive
  PROVE  /\ 0 <= Truncate(c * n, d)
         /\ Truncate(Truncate(c * n, d) * d, n) <= c
<1> DEFINE q == (c * n) \div d
<1>1. c * n \in Int /\ 0 <= c * n
  BY DEF Positive
<1>2. q \in Int /\ d * q <= c * n
  BY <1>1, Division
<1>3. 0 <= q
  BY <1>1, QuotientFromBelow DEF Positive
<1>4. Truncate(c * n, d) = q
  BY <1>1 DEF Truncate
<1> HIDE DEF q
<1>5. q * d \in Int /\ 0 <= q * d /\ q * d <= n * c
  BY <1>2, <1>3 DEF Positive
<1>6. (q * d) \div n <= c
  BY <1>5, QuotientFromAbove
<1> QED
  BY <1>3, <1>4, <1>5, <1>6 DEF Truncate

\* The cycles that a downcount stands for under a factor.
CyclesOf(d, f) == Truncate(d * f.den, f.num)

LEMMA Conversions ==
  ASSUME NEW f \in Factors
  PROVE  /\ \A a \in Int : CyclesOf(a, f) \in Int
         /\ \A a, b \in Int : a <= b => CyclesOf(a, f) <= CyclesOf(b, f)
         /\ CyclesOf(0, f) = 0
         /\ \A c \in Int : 0 <= c => /\ CyclesToDowncount(c, f) \in Int
                                     /\ 0 <= CyclesToDowncount(c, f)
                                     /\ CyclesOf(CyclesToDowncount(c, f), f) <= c
<1>1. f.num \in Positive /\ f.den \in Positive
  BY ConstantsAssumption DEF Positive
<1>2. \A a \in Int : a * f.den \in Int /\ a * f.num \in Int
  BY <1>1 DEF Positive
<1>3. \A a \in Int : CyclesOf(a, f) \in Int /\ CyclesToDowncount(a, f) \in Int
  BY <1>1, <1>2, TruncateType DEF CyclesOf, CyclesToDowncount, Positive
<1>4. ASSUME NEW a \in Int, NEW b \in Int, a <= b PROVE CyclesOf(a, f) <= CyclesOf(b, f)
  <2>1. a * f.den <= b * f.den
    BY <1>1, <1>4 DEF Positive
  <2> QED
    BY <1>1, <1>2, <2>1, TruncateOrder DEF CyclesOf
<1>5. CyclesOf(0, f) = 0
  <2>1. 0 * f.den = 0
    BY <1>1 DEF Positive
  <2> QED
    BY <1>1, <2>1, TruncateZero DEF CyclesOf
<1>6. \A c \in Int : 0 <= c => /\ 0 <= CyclesToDowncount(c, f)
                               /\ CyclesOf(CyclesToDowncount(c, f), f) <= c
  BY <1>1, ThereAndBack DEF CyclesOf, CyclesToDowncount
<1> QED
  BY <1>3, <1>4, <1>5, <1>6

-----------------------------------------------------------------------------
(* The clock. *)

\* Inside a block of guest code, or in what it calls.
InBlock ==
  \/ at \in {"guest", "fifoMove", "fifo", "fifoCallback"}
  \/ at = "removeMove" /\ caller \in {"guest", "fifoCallback"}

InAdvance ==
  \/ at \in {"advance", "advanceCallback"}
  \/ at = "removeMove" /\ caller = "advanceCallback"

\* A callback has taken the video event, or the machine has none yet.
MayLackVideo ==
  \/ at \in {"off", "boot", "advanceCallback", "fifoCallback"}
  \/ at = "removeMove" /\ caller \in {"advanceCallback", "fifoCallback"}

HasVideo(s) == \E i \in 1 .. Len(s) : s[i].type = Video

\* No more cycles are left than the slice has.
Left == CyclesOf(downcount, s_lastOCFactor) <= g_slicelength

SavedClock == \A s \in saved : CyclesOf(s.downcount, s.factor) <= s.slice /\ HasVideo(s.first)

ClockInv ==
  /\ InAdvance => globalTimerIsSane
  /\ InBlock => 0 <= downcount
  /\ ~InAdvance => Left
  /\ ~MayLackVideo => HasVideo(first)
  /\ SavedClock

\* How the CPU thread gets in and out of a block and of Advance().
LEMMA PlaceStep ==
  ASSUME TypeOK, [Next]_vars
  PROVE  /\ InAdvance => InAdvance' \/ AdvanceEnd
         /\ InAdvance' => InAdvance \/ AdvanceTimer
         /\ InBlock' => InBlock \/ StartBlock \/ AdvanceEnd
<1> USE DEF InAdvance, InBlock, Goto
<1>0. caller \in MayCall
  BY DEF TypeOK
<1>1. ASSUME UNCHANGED <<at, caller>>
      PROVE  (InAdvance' <=> InAdvance) /\ (InBlock' <=> InBlock)
  BY <1>1
<1>2. ASSUME NEW type \in Types, NEW c \in CpuDelays, ScheduleEvent(c, type)
      PROVE  UNCHANGED <<at, caller>>
  BY <1>2 DEF ScheduleEvent
<1>3. ASSUME NEW type \in Types, RemoveEvent(type) PROVE UNCHANGED <<at, caller>>
  BY <1>3 DEF RemoveEvent
<1>4. ASSUME NEW type \in Types, RemoveAllEnd(type)
      PROVE  (InAdvance' => InAdvance) /\ (InAdvance => InAdvance') /\ (InBlock' => InBlock)
  BY <1>0, <1>4 DEF RemoveAllEnd, MayCall
<1>5. ASSUME NEW c \in Delays, CheckSoon(c) PROVE UNCHANGED <<at, caller>>
  BY <1>5 DEF CheckSoon
<1>6. CASE RemoveAllBegin
  BY <1>6 DEF RemoveAllBegin, MayCall
<1>7. ASSUME NEW n \in Blocks, EndBlock(n)
      PROVE  ~InAdvance /\ ~InAdvance' /\ ~InBlock'
  BY <1>7 DEF EndBlock
<1>8. CASE Boot \/ EnterCore \/ ShutdownBegin \/ ShutdownEnd \/ StartBlock \/ SingleStep
           \/ AdvanceBegin \/ AdvanceTimer
           \/ AdvanceEnd \/ StateBegin \/ SaveState \/ LoadState
  BY <1>8 DEF Boot, EnterCore, ShutdownBegin, ShutdownEnd, StartBlock, SingleStep,
              AdvanceBegin, AdvanceTimer, AdvanceEnd, StateBegin, SaveState, LoadState
<1>9. CASE Dispatch("advance", "advanceCallback") \/ Return("advanceCallback", "advance")
           \/ Dispatch("fifo", "fifoCallback") \/ Return("fifoCallback", "fifo")
  BY <1>9 DEF Dispatch, Return
<1>10. CASE FifoBegin \/ FifoMoved \/ FifoEnd \/ Idle
  BY <1>10 DEF FifoBegin, FifoMoved, FifoEnd, Idle
<1>11. ASSUME NEW t \in Threads,
              \/ ThreadsafeBegin(t)
              \/ \E c \in Delays, type \in Types : ThreadsafePush(t, c, type)
       PROVE  UNCHANGED <<at, caller>>
  BY <1>11 DEF ThreadsafeBegin, ThreadsafePush
<1>12. CASE MoveEvent \/ UNCHANGED vars
  BY <1>12, <1>1 DEF MoveEvent, vars
<1> QED
  BY <1>1, <1>2, <1>3, <1>4, <1>5, <1>6, <1>7, <1>8, <1>9, <1>10, <1>11, <1>12 DEF Next

\* What an operation of the guest may do to the slice.
LEMMA SliceStep ==
  ASSUME TypeOK, ClockInv, [Next]_vars
  PROVE  \/ UNCHANGED sliceVars
         \/ \E c \in Delays : ForceExceptionCheck(c) /\ UNCHANGED <<at, caller>>
         \/ \E n \in Blocks : EndBlock(n)
         \/ Idle \/ AdvanceTimer \/ AdvanceEnd \/ SingleStep \/ Boot \/ LoadState
<1>1. ASSUME NEW type \in Types, NEW c \in CpuDelays, ScheduleEvent(c, type)
      PROVE  UNCHANGED sliceVars \/ (c \in Delays /\ ForceExceptionCheck(c) /\ UNCHANGED <<at, caller>>)
  <2>1. CASE at = "advanceCallback"
    BY <1>1, <2>1 DEF ScheduleEvent, ClockInv, InAdvance
  <2>2. CASE at # "advanceCallback"
    <3>1. c \in Delays
      BY <2>2 DEF CpuDelays
    <3> QED
      BY <1>1, <3>1 DEF ScheduleEvent
  <2> QED
    BY <2>1, <2>2
<1>2. ASSUME NEW c \in Delays, CheckSoon(c)
      PROVE  ForceExceptionCheck(c) /\ UNCHANGED <<at, caller>>
  BY <1>2 DEF CheckSoon
<1>3. ASSUME NEW t \in Threads,
             \/ ThreadsafeBegin(t)
             \/ \E c \in Delays, type \in Types : ThreadsafePush(t, c, type)
      PROVE  UNCHANGED sliceVars
  BY <1>3 DEF ThreadsafeBegin, ThreadsafePush
<1>4. ASSUME NEW type \in Types, RemoveEvent(type) \/ RemoveAllEnd(type)
      PROVE  UNCHANGED sliceVars
  BY <1>4 DEF RemoveEvent, RemoveAllEnd
<1> QED
  BY <1>1, <1>2, <1>3, <1>4
     DEF Next, vars, EnterCore, ShutdownBegin, ShutdownEnd, StartBlock, RemoveAllBegin,
         MoveEvent, AdvanceBegin, Dispatch, Return, FifoBegin, FifoMoved, FifoEnd,
         StateBegin, SaveState

\* Cutting the slice does not move the clock back.
LEMMA Cutting ==
  ASSUME TypeOK, NEW c \in Delays, ForceExceptionCheck(c)
  PROVE  /\ g_slicelength - CyclesOf(downcount, s_lastOCFactor)
              <= g_slicelength' - CyclesOf(downcount', s_lastOCFactor')
         /\ 0 <= downcount => 0 <= downcount'
<1>1. c \in Int /\ 0 <= c /\ s_lastOCFactor \in Factors /\ downcount \in Int /\ g_slicelength \in Int
  BY ConstantsAssumption DEF TypeOK
<1>2. DowncountToCycles(downcount) = CyclesOf(downcount, s_lastOCFactor)
  BY DEF DowncountToCycles, CyclesOf
<1>3. /\ CyclesOf(downcount, s_lastOCFactor) \in Int
      /\ CyclesToDowncount(c, s_lastOCFactor) \in Int
      /\ 0 <= CyclesToDowncount(c, s_lastOCFactor)
      /\ CyclesOf(CyclesToDowncount(c, s_lastOCFactor), s_lastOCFactor) \in Int
      /\ CyclesOf(CyclesToDowncount(c, s_lastOCFactor), s_lastOCFactor) <= c
  BY <1>1, Conversions
<1>4. s_lastOCFactor' = s_lastOCFactor
  BY DEF ForceExceptionCheck
<1>5. CASE DowncountToCycles(downcount) > c
  BY <1>1, <1>2, <1>3, <1>4, <1>5 DEF ForceExceptionCheck
<1>6. CASE ~(DowncountToCycles(downcount) > c)
  BY <1>1, <1>3, <1>4, <1>6 DEF ForceExceptionCheck
<1> QED
  BY <1>5, <1>6

LEMMA ClockStep ==
  ASSUME TypeOK, ClockInv, [Next]_vars
  PROVE  /\ InBlock' => 0 <= downcount'
         /\ ~InAdvance' => Left'
         /\ at \notin {"off", "stateMove"} /\ ~SingleStep => GetTicks' >= GetTicks
         /\ g_globalTimer <= g_globalTimer' \/ Boot \/ LoadState
<1> DEFINE executed == g_slicelength - CyclesOf(downcount, s_lastOCFactor)
           Goal == /\ InBlock' => 0 <= downcount'
                   /\ ~InAdvance' => Left'
                   /\ at \notin {"off", "stateMove"} /\ ~SingleStep => GetTicks' >= GetTicks
                   /\ g_globalTimer <= g_globalTimer' \/ Boot \/ LoadState
<1>0. /\ s_lastOCFactor \in Factors /\ downcount \in Int /\ g_slicelength \in Int
      /\ g_globalTimer \in Int /\ globalTimerIsSane \in BOOLEAN
      /\ CyclesOf(downcount, s_lastOCFactor) \in Int /\ CyclesOf(0, s_lastOCFactor) = 0
      /\ caller \in MayCall
  BY Conversions DEF TypeOK
<1>1. /\ s_lastOCFactor' \in Factors /\ downcount' \in Int /\ g_slicelength' \in Int
      /\ g_globalTimer' \in Int /\ CyclesOf(downcount', s_lastOCFactor') \in Int
  <2>1. TypeOK'
    BY TypeStep
  <2> QED
    BY <2>1, Conversions DEF TypeOK
<1>2. /\ GetTicks = IF globalTimerIsSane THEN g_globalTimer ELSE g_globalTimer + executed
      /\ GetTicks' = IF globalTimerIsSane' THEN g_globalTimer'
                     ELSE g_globalTimer' + (g_slicelength' - CyclesOf(downcount', s_lastOCFactor'))
  BY <1>0, <1>1 DEF GetTicks, DowncountToCycles, CyclesOf
<1>3. Left <=> 0 <= executed
  BY <1>0 DEF Left
<1>4. Left' <=> 0 <= g_slicelength' - CyclesOf(downcount', s_lastOCFactor')
  BY <1>1 DEF Left
<1>5. ASSUME UNCHANGED <<g_globalTimer, globalTimerIsSane>>,
             executed <= g_slicelength' - CyclesOf(downcount', s_lastOCFactor'),
             ~InAdvance' => ~InAdvance,
             InBlock' => 0 <= downcount'
      PROVE  Goal
  BY <1>0, <1>1, <1>2, <1>3, <1>4, <1>5 DEF ClockInv
<1> HIDE DEF Goal
<1>6. ASSUME UNCHANGED sliceVars, ~AdvanceEnd PROVE Goal
  <2>1. StartBlock => 0 <= downcount
    BY <1>0 DEF StartBlock, BailAt
  <2> QED
    BY <1>0, <1>5, <1>6, <2>1, PlaceStep DEF ClockInv
<1>7. ASSUME NEW c \in Delays, ForceExceptionCheck(c), UNCHANGED <<at, caller>> PROVE Goal
  <2>1. (InAdvance' <=> InAdvance) /\ (InBlock' <=> InBlock)
    BY <1>7 DEF InAdvance, InBlock
  <2>2. UNCHANGED <<g_globalTimer, globalTimerIsSane>>
    BY <1>7 DEF ForceExceptionCheck
  <2> QED
    BY <1>5, <1>7, <2>1, <2>2, Cutting DEF ClockInv
<1>8. ASSUME NEW n \in Blocks, EndBlock(n) PROVE Goal
  <2>1. n \in Nat /\ downcount' = downcount - n /\ s_lastOCFactor' = s_lastOCFactor
    BY <1>8, ConstantsAssumption DEF EndBlock
  <2>2. CyclesOf(downcount', s_lastOCFactor') <= CyclesOf(downcount, s_lastOCFactor)
    BY <1>0, <2>1, Conversions
  <2>3. UNCHANGED <<g_globalTimer, globalTimerIsSane, g_slicelength>>
    BY <1>8 DEF EndBlock
  <2>4. ~InBlock' /\ ~InAdvance
    BY <1>8 DEF EndBlock, Goto, InBlock, InAdvance
  <2> QED
    BY <1>0, <1>1, <1>5, <2>2, <2>3, <2>4
<1>9. CASE Idle
  <2>1. downcount' = 0 /\ s_lastOCFactor' = s_lastOCFactor
        /\ UNCHANGED <<g_globalTimer, globalTimerIsSane, g_slicelength>>
    BY <1>9 DEF Idle
  <2>2. InBlock /\ ~InAdvance
    BY <1>9 DEF Idle, Goto, InBlock, InAdvance
  <2>3. CyclesOf(0, s_lastOCFactor) <= CyclesOf(downcount, s_lastOCFactor)
    BY <1>0, <2>2, Conversions DEF ClockInv
  <2>4. executed <= g_slicelength' - CyclesOf(downcount', s_lastOCFactor')
    BY <1>0, <2>1, <2>3
  <2> QED
    BY <1>5, <2>1, <2>2, <2>4 DEF Goal
<1>10. CASE AdvanceTimer
  <2>1. /\ at = "advanceMove" /\ at' = "advance" /\ globalTimerIsSane'
        /\ g_globalTimer' = g_globalTimer + executed
    BY <1>10 DEF AdvanceTimer, Goto, DowncountToCycles, CyclesOf
  <2>2. InAdvance' /\ ~InBlock' /\ ~InAdvance
    BY <2>1 DEF InAdvance, InBlock
  <2>3. executed \in Int /\ 0 <= executed
    BY <1>0, <1>3, <2>2 DEF ClockInv
  <2> HIDE DEF executed
  <2> QED
    BY <1>0, <1>2, <2>1, <2>2, <2>3 DEF Goal
<1>11. CASE AdvanceEnd
  <2>1. /\ at = "advance" /\ globalTimerIsSane /\ globalTimerIsSane' = FALSE
        /\ UNCHANGED <<g_globalTimer, s_lastOCFactor>>
        /\ downcount' = CyclesToDowncount(g_slicelength', s_lastOCFactor)
    BY <1>11 DEF AdvanceEnd, Goto, ClockInv, InAdvance
  <2>2. first # <<>> /\ Head(first) \in Event
    BY <2>1 DEF ClockInv, MayLackVideo, HasVideo, TypeOK
  <2>3. Head(first).time \in Int
    BY <2>2 DEF Event
  <2>4. 0 <= g_slicelength'
    BY <1>0, <1>11, <2>2, <2>3, ConstantsAssumption DEF AdvanceEnd, NothingDue
  <2>5. /\ 0 <= downcount'
        /\ CyclesOf(downcount', s_lastOCFactor') <= g_slicelength'
    BY <1>0, <1>1, <2>1, <2>4, Conversions
  <2> QED
    BY <1>0, <1>1, <1>2, <1>4, <2>1, <2>5 DEF Goal
<1>12. CASE SingleStep
  <2>1. /\ g_slicelength' = 1 /\ downcount' = 0 /\ at' = "advanceMove"
        /\ UNCHANGED <<g_globalTimer, globalTimerIsSane, s_lastOCFactor>>
    BY <1>12 DEF SingleStep
  <2>2. ~InBlock' /\ Left'
    BY <1>0, <2>1 DEF InBlock, Left
  <2> QED
    BY <1>0, <1>12, <2>1, <2>2 DEF Goal
<1>13. CASE Boot
  <2>1. at = "off" /\ at' = "boot" /\ g_slicelength' = MaxSlice
    BY <1>13 DEF Boot, Goto
  <2>2. downcount' = CyclesToDowncount(MaxSlice, s_lastOCFactor')
    BY <1>13 DEF Boot
  <2>3. MaxSlice \in Int /\ 0 <= MaxSlice
    BY ConstantsAssumption
  <2>4. CyclesOf(downcount', s_lastOCFactor') <= g_slicelength'
    BY <1>1, <2>1, <2>2, <2>3, Conversions
  <2> QED
    BY <1>13, <2>1, <2>4 DEF Goal, InBlock, Left
<1>14. CASE LoadState
  <2>1. at = "stateMove" /\ at' = "dispatcher"
    BY <1>14 DEF LoadState, Goto
  <2>2. Left'
    BY <1>14 DEF LoadState, ClockInv, SavedClock, Left
  <2> QED
    BY <1>14, <2>1, <2>2 DEF Goal, InBlock
<1> QED
  BY <1>6, <1>7, <1>8, <1>9, <1>10, <1>11, <1>12, <1>13, <1>14, SliceStep DEF Goal

\* The video event stays in the list as long as no callback has taken it.
LEMMA VideoAdded ==
  ASSUME TypeOK, NEW e \in Event, AddEventToQueue(e), HasVideo(first) PROVE HasVideo(first')
<1>1. first \in Seq(Event) /\ Len(first) \in Nat
  BY DEF TypeOK
<1>2. PICK k \in 0 .. Len(first) :
        first' = [i \in 1 .. Len(first) + 1 |->
                    IF i <= k THEN first[i] ELSE IF i = k + 1 THEN e ELSE first[i - 1]]
  BY DEF AddEventToQueue
<1>3. Len(first') = Len(first) + 1
  BY <1>1, <1>2, Insertion
<1>4. PICK i \in 1 .. Len(first) : first[i].type = Video
  BY DEF HasVideo
<1>5. CASE i <= k
  BY <1>1, <1>2, <1>3, <1>4, <1>5 DEF HasVideo
<1>6. CASE k < i
  <2>1. i + 1 \in 1 .. Len(first') /\ first'[i + 1] = first[i]
    BY <1>1, <1>2, <1>3, <1>6
  <2> QED
    BY <1>4, <2>1 DEF HasVideo
<1> QED
  BY <1>1, <1>5, <1>6

LEMMA VideoNotRemoved ==
  ASSUME TypeOK, NEW type \in Types \ {Video}, RemoveFromQueue(type), HasVideo(first)
  PROVE  HasVideo(first')
<1> DEFINE kept == {i \in 1 .. Len(first) : first[i].type # type}
<1>1. PICK n \in 0 .. Len(first) : \E place \in [1 .. n -> kept] :
        /\ \A i \in kept : \E j \in 1 .. n : place[j] = i
        /\ first' = [j \in 1 .. n |-> first[place[j]]]
  BY DEF RemoveFromQueue
<1>2. PICK place \in [1 .. n -> kept] :
        /\ \A i \in kept : \E j \in 1 .. n : place[j] = i
        /\ first' = [j \in 1 .. n |-> first[place[j]]]
  BY <1>1
<1>3. Len(first) \in Nat
  BY DEF TypeOK
<1>4. Len(first') = n
  BY <1>2, <1>3
<1>5. PICK i \in 1 .. Len(first) : first[i].type = Video
  BY DEF HasVideo
<1>6. PICK j \in 1 .. n : place[j] = i
  BY <1>2, <1>5
<1> QED
  BY <1>2, <1>4, <1>5, <1>6 DEF HasVideo

LEMMA VideoStep ==
  ASSUME TypeOK, ClockInv, [Next]_vars PROVE ~MayLackVideo' => HasVideo(first')
<1> USE DEF MayLackVideo, Goto
<1>0. caller \in MayCall /\ (~MayLackVideo => HasVideo(first)) /\ (Beating <=> HasVideo(first))
  BY DEF TypeOK, ClockInv, Beating, HasVideo
<1>1. ASSUME NEW type \in Types, NEW c \in CpuDelays, ScheduleEvent(c, type)
      PROVE  ~MayLackVideo' => HasVideo(first')
  <2> DEFINE e == [time |-> GetTicks + c, type |-> type, origin |-> "cpu",
                   stamp |-> g_globalTimer]
  <2>1. e \in Event
    BY ScheduledEvent
  <2>2. AddEventToQueue(e) /\ UNCHANGED <<at, caller>>
    BY <1>1 DEF ScheduleEvent
  <2> HIDE DEF e
  <2> QED
    BY <1>0, <2>1, <2>2, VideoAdded
<1>2. CASE MoveEvent
  <2>1. Head(tsQueue) \in Event
    BY <1>2 DEF MoveEvent, TypeOK
  <2> QED
    BY <1>0, <1>2, <2>1, VideoAdded DEF MoveEvent
<1>3. ASSUME NEW type \in Types \ {Video}, RemoveEvent(type) \/ RemoveAllEnd(type)
      PROVE  ~MayLackVideo' => HasVideo(first')
  BY <1>0, <1>3, VideoNotRemoved DEF RemoveEvent, RemoveAllEnd, MayCall
<1>4. CASE EnterCore \/ SingleStep \/ Return("advanceCallback", "advance")
           \/ Return("fifoCallback", "fifo")
  BY <1>0, <1>4 DEF EnterCore, SingleStep, Return
<1>5. CASE Boot \/ ShutdownEnd \/ Dispatch("advance", "advanceCallback")
           \/ Dispatch("fifo", "fifoCallback")
  BY <1>5 DEF Boot, ShutdownEnd, Dispatch
<1>6. CASE LoadState
  BY <1>6 DEF LoadState, ClockInv, SavedClock
<1>7. CASE ShutdownBegin \/ StartBlock \/ RemoveAllBegin \/ AdvanceBegin \/ AdvanceTimer
           \/ AdvanceEnd \/ FifoBegin \/ FifoMoved \/ FifoEnd \/ Idle \/ StateBegin \/ SaveState
  BY <1>0, <1>7 DEF ShutdownBegin, StartBlock, RemoveAllBegin, AdvanceBegin, AdvanceTimer,
     AdvanceEnd, FifoBegin, FifoMoved, FifoEnd, Idle, StateBegin, SaveState, MayCall
<1>8. ASSUME NEW n \in Blocks, EndBlock(n) PROVE ~MayLackVideo' => HasVideo(first')
  BY <1>0, <1>8 DEF EndBlock
<1>9. ASSUME NEW c \in Delays, CheckSoon(c) PROVE ~MayLackVideo' => HasVideo(first')
  BY <1>0, <1>9 DEF CheckSoon
<1>10. ASSUME NEW t \in Threads,
              \/ ThreadsafeBegin(t)
              \/ \E c \in Delays, type \in Types : ThreadsafePush(t, c, type)
       PROVE  ~MayLackVideo' => HasVideo(first')
  BY <1>0, <1>10 DEF ThreadsafeBegin, ThreadsafePush
<1>11. CASE UNCHANGED vars
  BY <1>0, <1>11 DEF vars
<1> QED
  BY <1>1, <1>2, <1>3, <1>4, <1>5, <1>6, <1>7, <1>8, <1>9, <1>10, <1>11 DEF Next

LEMMA ClockInvStep ==
  ASSUME TypeOK, ClockInv, [Next]_vars PROVE ClockInv'
<1>1. InAdvance' => globalTimerIsSane'
  <2>1. CASE AdvanceEnd
    BY <2>1 DEF AdvanceEnd, Goto, InAdvance
  <2>2. CASE AdvanceTimer \/ Boot
    BY <2>2 DEF AdvanceTimer, Boot
  <2>3. CASE ~AdvanceEnd /\ ~AdvanceTimer /\ ~Boot
    <3>1. globalTimerIsSane' = globalTimerIsSane
      BY <2>3, SliceStep DEF ForceExceptionCheck, EndBlock, Idle, SingleStep, LoadState
    <3> QED
      BY <2>3, <3>1, PlaceStep DEF ClockInv
  <2> QED
    BY <2>1, <2>2, <2>3
<1>2. SavedClock'
  <2>1. CASE saved' = saved
    BY <2>1 DEF ClockInv, SavedClock
  <2>2. CASE SaveState
    <3>1. at = "stateMove"
      BY <2>2 DEF SaveState, Goto
    <3>2. Left /\ HasVideo(first)
      BY <3>1 DEF ClockInv, InAdvance, MayLackVideo
    <3> QED
      BY <2>2, <3>2 DEF SaveState, SavedClock, Left
  <2> QED
    BY <2>1, <2>2, SavedStep
<1> QED
  BY <1>1, <1>2, ClockStep, VideoStep DEF ClockInv

LEMMA InitClock == Init => ClockInv
<1> SUFFICES ASSUME Init PROVE ClockInv
  OBVIOUS
<1>1. CyclesOf(0, s_lastOCFactor) = 0
  BY Conversions DEF Init
<1> QED
  BY <1>1 DEF Init, ClockInv, InAdvance, InBlock, MayLackVideo, Left, SavedClock

\* The guest's clock never runs backwards, for any factors that the user may switch between,
\* except by a loaded state, a new boot, or a step of the debugger (CoreTiming.cpp:96-110,
\* 419-452).
THEOREM ClockIsMonotonic == Spec => TimeNeverGoesBack
<1>1. Init => TypeOK /\ ClockInv
  BY InitType, InitClock
<1>2. TypeOK /\ ClockInv /\ [Next]_vars => TypeOK' /\ ClockInv'
  BY TypeStep, ClockInvStep
<1>3. TypeOK /\ ClockInv /\ [Next]_vars
        => [at \notin {"off", "stateMove"} /\ ~SingleStep => GetTicks' >= GetTicks]_vars
  <2> SUFFICES ASSUME TypeOK, ClockInv, [Next]_vars,
                      at \notin {"off", "stateMove"}, ~SingleStep
               PROVE  GetTicks' >= GetTicks
    OBVIOUS
  <2> QED
    BY ClockStep
<1> QED
  BY <1>1, <1>2, <1>3, PTL DEF Spec, TimeNeverGoesBack

-----------------------------------------------------------------------------
(* The order of events at the same time. *)

Ordered(s) ==
  \A i, j \in 1 .. Len(s) :
    (i < j /\ s[i].origin = s[j].origin /\ s[i].time = s[j].time) => s[i].stamp <= s[j].stamp

\* No event was scheduled later than this.
StampedBy(s, time) == \A i \in 1 .. Len(s) : s[i].stamp <= time

\* The events of other threads are queued in the order of their slices ...
QueueOrdered ==
  \A i, j \in 1 .. Len(tsQueue) : i < j => tsQueue[i].stamp <= tsQueue[j].stamp

\* ... and those already in the list come from no later slice than those still queued.
QueuedLater ==
  \A i \in 1 .. Len(first), j \in 1 .. Len(tsQueue) :
    first[i].origin = "other" => first[i].stamp <= tsQueue[j].stamp

\* A machine that is off keeps no event, so that the clock may start again.
OffIsEmpty ==
  at = "off" => first = <<>> /\ tsQueue = <<>> /\ \A t \in Threads : tsTime[t] = Outside

SavedOrdered == \A s \in saved : Ordered(s.first) /\ StampedBy(s.first, s.timer)

OrderInv ==
  /\ Ordered(first) /\ StampedBy(first, g_globalTimer)
  /\ QueueOrdered /\ StampedBy(tsQueue, g_globalTimer)
  /\ QueuedLater /\ OffIsEmpty /\ SavedOrdered

LEMMA Members ==
  ASSUME NEW s \in Seq(Event)
  PROVE  \A i \in 1 .. Len(s) : s[i] \in Event /\ s[i].time \in Int /\ s[i].stamp \in Int
<1>1. \A i \in 1 .. Len(s) : s[i] \in Event
  OBVIOUS
<1>2. \A x \in Event : x.time \in Int /\ x.stamp \in Int
  BY DEF Event
<1> QED
  BY <1>1, <1>2

LEMMA InsertedMembers ==
  ASSUME TypeOK, NEW e \in Event, AddEventToQueue(e)
  PROVE  \A j \in 1 .. Len(first') :
           first'[j] = e \/ \E i \in 1 .. Len(first) : first'[j] = first[i]
<1>1. PICK k \in 0 .. Len(first) :
         first' = [i \in 1 .. Len(first) + 1 |->
                     IF i <= k THEN first[i]
                     ELSE IF i = k + 1 THEN e
                     ELSE first[i - 1]]
  BY DEF AddEventToQueue
<1>2. Len(first) \in Nat /\ Len(first') = Len(first) + 1
  BY <1>1 DEF TypeOK
<1> SUFFICES ASSUME NEW j \in 1 .. Len(first')
             PROVE  first'[j] = e \/ \E i \in 1 .. Len(first) : first'[j] = first[i]
  OBVIOUS
<1>3. CASE j <= k
  BY <1>1, <1>2, <1>3
<1>4. CASE j = k + 1
  BY <1>1, <1>2, <1>4
<1>5. CASE j > k + 1
  <2>1. first'[j] = first[j - 1] /\ j - 1 \in 1 .. Len(first)
    BY <1>1, <1>2, <1>5
  <2> QED
    BY <2>1
<1> QED
  BY <1>2, <1>3, <1>4, <1>5

\* Insertion keeps the order if the new event is not from an earlier slice than the others
\* of its origin.
LEMMA OrderedInsertion ==
  ASSUME TypeOK, Sorted, Ordered(first), NEW e \in Event, AddEventToQueue(e),
         \A i \in 1 .. Len(first) : first[i].origin = e.origin => first[i].stamp <= e.stamp
  PROVE  Ordered(first')
<1>1. PICK k \in 0 .. Len(first) :
         /\ k < Len(first) => e.time < first[k + 1].time
         /\ first' = [i \in 1 .. Len(first) + 1 |->
                        IF i <= k THEN first[i]
                        ELSE IF i = k + 1 THEN e
                        ELSE first[i - 1]]
  BY DEF AddEventToQueue
<1>2. /\ first \in Seq(Event) /\ Len(first) \in Nat /\ e.time \in Int
      /\ \A i \in 1 .. Len(first) : first[i].time \in Int /\ first[i].stamp \in Int
  <2>1. first \in Seq(Event)
    BY DEF TypeOK
  <2>2. e.time \in Int
    BY DEF Event
  <2> QED
    BY <2>1, <2>2, Members
<1>3. Len(first') = Len(first) + 1
  BY <1>1, <1>2, Insertion
<1>4. \A j \in 1 .. Len(first') :
        \/ j <= k /\ j \in 1 .. Len(first) /\ first'[j] = first[j]
        \/ j = k + 1 /\ first'[j] = e
        \/ j > k + 1 /\ j - 1 \in 1 .. Len(first) /\ first'[j] = first[j - 1]
  BY <1>1, <1>2, <1>3
<1>5. \A m \in 1 .. Len(first) : k < m => e.time < first[m].time
  <2> SUFFICES ASSUME NEW m \in 1 .. Len(first), k < m PROVE e.time < first[m].time
    OBVIOUS
  <2>1. k + 1 \in 1 .. Len(first) /\ e.time < first[k + 1].time
    BY <1>1, <1>2
  <2>2. first[k + 1].time <= first[m].time
    BY <1>2, <2>1 DEF Sorted
  <2> QED
    BY <1>2, <2>1, <2>2
<1>6. ASSUME NEW i \in 1 .. Len(first'), NEW j \in 1 .. Len(first'), i < j,
             first'[i].origin = first'[j].origin, first'[i].time = first'[j].time
      PROVE  first'[i].stamp <= first'[j].stamp
  <2>1. CASE j <= k
    <3>1. i \in 1 .. Len(first) /\ first'[i] = first[i]
          /\ j \in 1 .. Len(first) /\ first'[j] = first[j]
      BY <1>2, <1>4, <1>6, <2>1
    <3> QED
      BY <1>6, <3>1 DEF Ordered
  <2>2. CASE j = k + 1
    <3>1. i \in 1 .. Len(first) /\ first'[i] = first[i] /\ first'[j] = e
      BY <1>2, <1>4, <1>6, <2>2
    <3> QED
      BY <1>6, <3>1
  <2>3. CASE j > k + 1
    <3>1. j - 1 \in 1 .. Len(first) /\ first'[j] = first[j - 1]
      BY <1>2, <1>4, <2>3
    <3>2. CASE i <= k
      <4>1. i \in 1 .. Len(first) /\ first'[i] = first[i] /\ i < j - 1
        BY <1>2, <1>4, <2>3, <3>2
      <4> QED
        BY <1>6, <3>1, <4>1 DEF Ordered
    <3>3. CASE i = k + 1
      <4>1. first'[i] = e
        BY <1>2, <1>4, <3>3
      <4>2. k < j - 1
        BY <1>2, <2>3
      <4>3. e.time < first[j - 1].time
        BY <1>5, <3>1, <4>2
      <4> QED
        BY <1>2, <1>6, <3>1, <4>1, <4>3
    <3>4. CASE i > k + 1
      <4>1. i - 1 \in 1 .. Len(first) /\ first'[i] = first[i - 1] /\ i - 1 < j - 1
        BY <1>2, <1>4, <1>6, <3>4
      <4> QED
        BY <1>6, <3>1, <4>1 DEF Ordered
    <3> QED
      BY <1>2, <3>2, <3>3, <3>4
  <2> QED
    BY <1>2, <2>1, <2>2, <2>3
<1> QED
  BY <1>6 DEF Ordered

LEMMA OrderedTakingOut ==
  ASSUME NEW s \in Seq(Event), NEW t \in Seq(Event), Sublist(s, t)
  PROVE  /\ Ordered(s) => Ordered(t)
         /\ \A j \in 1 .. Len(t) : \E i \in 1 .. Len(s) : t[j] = s[i]
<1>1. PICK place \in [1 .. Len(t) -> 1 .. Len(s)] :
        /\ \A i, j \in 1 .. Len(t) : i < j => place[i] < place[j]
        /\ \A i \in 1 .. Len(t) : t[i] = s[place[i]]
  BY DEF Sublist
<1>2. \A i \in 1 .. Len(t) : place[i] \in 1 .. Len(s)
  BY <1>1
<1> QED
  BY ZenonT(60), <1>1, <1>2 DEF Ordered

\* What a step may do to the queue of the other threads.
LEMMA QueueStep ==
  ASSUME TypeOK, [Next]_vars
  PROVE  \/ UNCHANGED tsQueue
         \/ MoveEvent
         \/ /\ UNCHANGED <<first, at, g_globalTimer, saved>>
            /\ \E t \in Threads : tsTime[t] # Outside
            /\ \E e \in Event : tsQueue' = Append(tsQueue, e) /\ e.stamp = g_globalTimer
<1>1. ASSUME NEW t \in Threads, NEW c \in Delays, NEW type \in Types \ {Video},
             ThreadsafePush(t, c, type)
      PROVE  /\ UNCHANGED <<first, at, g_globalTimer, saved>>
             /\ \E u \in Threads : tsTime[u] # Outside
             /\ \E e \in Event : tsQueue' = Append(tsQueue, e) /\ e.stamp = g_globalTimer
  <2> DEFINE e == [time |-> tsTime[t] + c, type |-> type, origin |-> "other",
                   stamp |-> g_globalTimer]
  <2>1. e \in Event
    <3>1. g_globalTimer \in Int /\ tsTime[t] \in Int /\ c \in Int
      BY ConstantsAssumption DEF TypeOK
    <3>2. tsTime[t] + c \in Int
      BY <3>1
    <3> QED
      BY <3>1, <3>2 DEF Event
  <2>2. tsQueue' = Append(tsQueue, e) /\ e.stamp = g_globalTimer
    BY <1>1 DEF ThreadsafePush
  <2> HIDE DEF e
  <2> QED
    BY <1>1, <2>1, <2>2 DEF ThreadsafePush
<1> QED
  BY <1>1 DEF Next, vars, Boot, EnterCore, ShutdownBegin, ShutdownEnd, StartBlock, EndBlock,
         SingleStep, ScheduleEvent, RemoveEvent, CheckSoon, RemoveAllBegin, RemoveAllEnd,
         AdvanceBegin, AdvanceTimer, AdvanceEnd, Dispatch, Return, FifoBegin, FifoMoved,
         FifoEnd, Idle, ThreadsafeBegin, StateBegin, SaveState, LoadState

LEMMA OffStep ==
  ASSUME TypeOK, OffIsEmpty, [Next]_vars PROVE OffIsEmpty'
<1> USE DEF Goto, OffIsEmpty
<1>1. CASE ShutdownEnd
  <2>1. \A t \in Threads : tsTime[t] = Outside
    BY <1>1, ConstantsAssumption DEF ShutdownEnd, TypeOK
  <2> QED
    BY <1>1, <2>1 DEF ShutdownEnd
<1>2. ASSUME NEW t \in Threads,
             \/ ThreadsafeBegin(t)
             \/ \E c \in Delays, type \in Types : ThreadsafePush(t, c, type)
      PROVE  OffIsEmpty'
  BY <1>2 DEF ThreadsafeBegin, ThreadsafePush
<1>3. CASE UNCHANGED vars
  BY <1>3 DEF vars
<1>4. ASSUME NEW type \in Types, RemoveAllEnd(type) PROVE OffIsEmpty'
  BY <1>4 DEF RemoveAllEnd, TypeOK, MayCall
<1>5. CASE RemoveAllBegin
  BY <1>5 DEF RemoveAllBegin
<1> QED
  BY <1>1, <1>2, <1>3, <1>4, <1>5
     DEF Next, Boot, EnterCore, ShutdownBegin, StartBlock, EndBlock, SingleStep,
         ScheduleEvent, RemoveEvent, CheckSoon, MoveEvent, AdvanceBegin, AdvanceTimer,
         AdvanceEnd, Dispatch, Return, FifoBegin, FifoMoved, FifoEnd, Idle, StateBegin,
         SaveState, LoadState, MayCall

LEMMA ListKept ==
  ASSUME TypeOK, [Next]_vars
  PROVE  \/ UNCHANGED first \/ MoveEvent \/ LoadState \/ first' = <<>>
         \/ \E type \in Types : \E c \in CpuDelays : ScheduleEvent(c, type)
         \/ first' \in Seq(Event) /\ Sublist(first, first')
<1>1. ASSUME NEW type \in Types, RemoveEvent(type) \/ RemoveAllEnd(type)
      PROVE  first' \in Seq(Event) /\ Sublist(first, first')
  BY <1>1, Removal DEF RemoveEvent, RemoveAllEnd
<1>2. ASSUME NEW from, NEW to, Dispatch(from, to)
      PROVE  first' \in Seq(Event) /\ Sublist(first, first')
  BY <1>2, RemovalOfHead DEF Dispatch, TypeOK
<1> QED
  BY <1>1, <1>2
     DEF Next, vars, Boot, EnterCore, ShutdownBegin, ShutdownEnd, StartBlock, EndBlock,
         SingleStep, CheckSoon, RemoveAllBegin, AdvanceBegin, AdvanceTimer, AdvanceEnd,
         Return, FifoBegin, FifoMoved, FifoEnd, Idle, ThreadsafeBegin, ThreadsafePush,
         StateBegin, SaveState

LEMMA ListOrderStep ==
  ASSUME TypeOK, ClockInv, Sorted, FromOthers, OrderInv, [Next]_vars
  PROVE  /\ Ordered(first') /\ StampedBy(first', g_globalTimer')
         /\ QueueOrdered' /\ StampedBy(tsQueue', g_globalTimer')
         /\ QueuedLater'
<1> DEFINE Goal == /\ Ordered(first') /\ StampedBy(first', g_globalTimer')
                   /\ QueueOrdered' /\ StampedBy(tsQueue', g_globalTimer')
                   /\ QueuedLater'
<1>0. /\ first \in Seq(Event) /\ tsQueue \in Seq(Event)
      /\ Len(first) \in Nat /\ Len(tsQueue) \in Nat /\ g_globalTimer \in Int
      /\ \A i \in 1 .. Len(first) : first[i].stamp \in Int
      /\ \A i \in 1 .. Len(tsQueue) : tsQueue[i].stamp \in Int
  BY Members DEF TypeOK
<1>1. g_globalTimer' \in Int
  BY TypeStep DEF TypeOK
<1>2. ASSUME UNCHANGED tsQueue, g_globalTimer <= g_globalTimer', Ordered(first'),
             \A j \in 1 .. Len(first') : \E i \in 1 .. Len(first) : first'[j] = first[i]
      PROVE  Goal
  <2>1. \A x \in Int : x <= g_globalTimer => x <= g_globalTimer'
    BY <1>0, <1>1, <1>2
  <2>2. StampedBy(first', g_globalTimer')
    BY <1>0, <1>2, <2>1 DEF OrderInv, StampedBy
  <2>3. StampedBy(tsQueue', g_globalTimer')
    BY <1>0, <1>2, <2>1 DEF OrderInv, StampedBy
  <2>4. QueueOrdered'
    BY <1>2 DEF OrderInv, QueueOrdered
  <2>5. QueuedLater'
    BY <1>2 DEF OrderInv, QueuedLater
  <2> QED
    BY <1>2, <2>2, <2>3, <2>4, <2>5
<1>3. ASSUME NEW type \in Types, NEW c \in CpuDelays, ScheduleEvent(c, type) PROVE Goal
  <2> DEFINE e == [time |-> GetTicks + c, type |-> type, origin |-> "cpu",
                   stamp |-> g_globalTimer]
  <2>1. e \in Event /\ e.origin = "cpu" /\ e.stamp = g_globalTimer
    BY ScheduledEvent
  <2>2. AddEventToQueue(e) /\ UNCHANGED <<tsQueue, g_globalTimer>>
    BY <1>3 DEF ScheduleEvent, ForceExceptionCheck
  <2> HIDE DEF e
  <2>3. \A i \in 1 .. Len(first) : first[i].stamp <= e.stamp
    BY <2>1 DEF OrderInv, StampedBy
  <2>4. /\ Ordered(first')
        /\ \A j \in 1 .. Len(first') :
             first'[j] = e \/ \E i \in 1 .. Len(first) : first'[j] = first[i]
    BY <2>1, <2>2, <2>3, OrderedInsertion, InsertedMembers DEF OrderInv
  <2>5. StampedBy(first', g_globalTimer')
    BY <1>0, <2>1, <2>2, <2>4 DEF OrderInv, StampedBy
  <2>6. QueuedLater'
    BY <2>1, <2>2, <2>4 DEF OrderInv, QueuedLater
  <2> QED
    BY <2>2, <2>4, <2>5, <2>6 DEF OrderInv, QueueOrdered
<1>4. CASE MoveEvent
  <2> DEFINE e == Head(tsQueue)
  <2>1. /\ e \in Event /\ e = tsQueue[1] /\ 1 \in 1 .. Len(tsQueue)
        /\ AddEventToQueue(e) /\ UNCHANGED g_globalTimer
        /\ tsQueue' = Tail(tsQueue)
    BY <1>0, <1>4 DEF MoveEvent
  <2>2. /\ Len(tsQueue') = Len(tsQueue) - 1
        /\ \A i \in 1 .. Len(tsQueue') : tsQueue'[i] = tsQueue[i + 1]
                                         /\ i + 1 \in 1 .. Len(tsQueue)
    BY <1>0, <2>1
  <2> HIDE DEF e
  <2>3. e.origin = "other" /\ e.stamp <= g_globalTimer
    BY <2>1 DEF FromOthers, OrderInv, StampedBy
  <2>4. \A i \in 1 .. Len(first) : first[i].origin = "other" => first[i].stamp <= e.stamp
    BY <2>1 DEF OrderInv, QueuedLater
  <2>5. /\ Ordered(first')
        /\ \A j \in 1 .. Len(first') :
             first'[j] = e \/ \E i \in 1 .. Len(first) : first'[j] = first[i]
    BY <2>1, <2>3, <2>4, OrderedInsertion, InsertedMembers DEF OrderInv
  <2>6. StampedBy(first', g_globalTimer') /\ StampedBy(tsQueue', g_globalTimer')
    BY <2>1, <2>2, <2>3, <2>5 DEF OrderInv, StampedBy
  <2>7. QueueOrdered'
    <3> SUFFICES ASSUME NEW i \in 1 .. Len(tsQueue'), NEW j \in 1 .. Len(tsQueue'), i < j
                 PROVE  tsQueue'[i].stamp <= tsQueue'[j].stamp
      BY DEF QueueOrdered
    <3>1. i + 1 \in 1 .. Len(tsQueue) /\ j + 1 \in 1 .. Len(tsQueue) /\ i + 1 < j + 1
      BY <1>0, <2>2
    <3> QED
      BY <2>2, <3>1 DEF OrderInv, QueueOrdered
  <2>8. \A j \in 1 .. Len(tsQueue') : e.stamp <= tsQueue'[j].stamp
    <3> SUFFICES ASSUME NEW j \in 1 .. Len(tsQueue') PROVE e.stamp <= tsQueue'[j].stamp
      OBVIOUS
    <3>1. tsQueue'[j] = tsQueue[j + 1] /\ j + 1 \in 1 .. Len(tsQueue) /\ 1 < j + 1
      BY <1>0, <2>2
    <3> QED
      BY <2>1, <3>1 DEF OrderInv, QueueOrdered
  <2>9. QueuedLater'
    BY ZenonT(60), <2>2, <2>5, <2>8 DEF OrderInv, QueuedLater
  <2> QED
    BY <2>5, <2>6, <2>7, <2>9
<1>5. ASSUME UNCHANGED <<first, g_globalTimer>>,
             NEW e \in Event, tsQueue' = Append(tsQueue, e), e.stamp = g_globalTimer
      PROVE  Goal
  <2>1. /\ Len(tsQueue') = Len(tsQueue) + 1
        /\ \A i \in 1 .. Len(tsQueue') :
             \/ i \in 1 .. Len(tsQueue) /\ tsQueue'[i] = tsQueue[i]
             \/ i = Len(tsQueue) + 1 /\ tsQueue'[i] = e
    BY <1>0, <1>5
  <2>2. StampedBy(tsQueue', g_globalTimer')
    BY <1>0, <1>5, <2>1 DEF OrderInv, StampedBy
  <2>3. QueueOrdered'
    <3> SUFFICES ASSUME NEW i \in 1 .. Len(tsQueue'), NEW j \in 1 .. Len(tsQueue'), i < j
                 PROVE  tsQueue'[i].stamp <= tsQueue'[j].stamp
      BY DEF QueueOrdered
    <3>1. i \in 1 .. Len(tsQueue) /\ tsQueue'[i] = tsQueue[i]
      BY <1>0, <2>1
    <3>2. CASE j \in 1 .. Len(tsQueue) /\ tsQueue'[j] = tsQueue[j]
      BY <3>1, <3>2 DEF OrderInv, QueueOrdered
    <3>3. CASE tsQueue'[j] = e
      BY <1>5, <3>1, <3>3 DEF OrderInv, StampedBy
    <3> QED
      BY <2>1, <3>2, <3>3
  <2>4. QueuedLater'
    BY <1>5, <2>1 DEF OrderInv, StampedBy, QueuedLater
  <2> QED
    BY <1>5, <2>2, <2>3, <2>4 DEF OrderInv
<1>6. CASE LoadState
  <2>1. PICK s \in saved : first' = s.first /\ g_globalTimer' = s.timer
    BY <1>6 DEF LoadState
  <2>2. tsQueue = <<>> /\ tsQueue' = <<>>
    BY <1>6 DEF LoadState
  <2> QED
    BY <2>1, <2>2 DEF OrderInv, SavedOrdered, StampedBy, QueueOrdered, QueuedLater
<1>7. CASE Boot
  <2>1. first = <<>> /\ tsQueue = <<>> /\ first' = <<>> /\ tsQueue' = <<>>
    BY <1>7 DEF Boot, Goto, OrderInv, OffIsEmpty
  <2> QED
    BY <2>1 DEF Ordered, StampedBy, QueueOrdered, QueuedLater
<1>8. ASSUME UNCHANGED tsQueue, g_globalTimer <= g_globalTimer',
             \/ UNCHANGED first \/ first' = <<>>
             \/ first' \in Seq(Event) /\ Sublist(first, first')
      PROVE  Goal
  <2>1. CASE UNCHANGED first
    BY <1>2, <1>8, <2>1 DEF OrderInv
  <2>2. CASE first' = <<>>
    BY <1>2, <1>8, <2>2 DEF Ordered
  <2>3. CASE first' \in Seq(Event) /\ Sublist(first, first')
    BY <1>0, <1>2, <1>8, <2>3, OrderedTakingOut DEF OrderInv
  <2> QED
    BY <1>8, <2>1, <2>2, <2>3
<1> HIDE DEF Goal
<1>9. Goal
  BY <1>3, <1>4, <1>5, <1>6, <1>7, <1>8, ListKept, QueueStep, ClockStep DEF Goal
<1> QED
  BY <1>9 DEF Goal

LEMMA OrderStep ==
  ASSUME TypeOK, ClockInv, Sorted, FromOthers, OrderInv, [Next]_vars
  PROVE  OrderInv'
<1>1. SavedOrdered'
  <2>1. CASE saved' = saved
    BY <2>1 DEF OrderInv, SavedOrdered
  <2>2. CASE SaveState
    BY <2>2 DEF SaveState, OrderInv, SavedOrdered
  <2> QED
    BY <2>1, <2>2, SavedStep
<1>2. OffIsEmpty'
  BY OffStep DEF OrderInv
<1> QED
  BY <1>1, <1>2, ListOrderStep DEF OrderInv

\* Events of one time and one origin run in the order of the slices in which they were
\* scheduled, for any slice length, factors, delays and number of threads, also after a state
\* is loaded and through MoveEvents() (AddEventToQueue, CoreTiming.cpp:297-314).
THEOREM SameTimeIsInOrder == Spec => []SameTimeInOrder
<1>1. Init => TypeOK /\ ClockInv
  BY InitType, InitClock
<1>2. Init => Sorted /\ SavedSorted /\ FromOthers /\ OrderInv
  BY DEF Init, Sorted, SavedSorted, FromOthers, OrderInv, Ordered, StampedBy, QueueOrdered,
         QueuedLater, OffIsEmpty, SavedOrdered
<1>3. TypeOK /\ ClockInv /\ [Next]_vars => TypeOK' /\ ClockInv'
  BY TypeStep, ClockInvStep
<1>4. TypeOK /\ Sorted /\ SavedSorted /\ FromOthers /\ [Next]_vars
        => Sorted' /\ SavedSorted' /\ FromOthers'
  BY SortedStep, FromOthersStep
<1>5. TypeOK /\ ClockInv /\ Sorted /\ FromOthers /\ OrderInv /\ [Next]_vars => OrderInv'
  BY OrderStep
<1>6. OrderInv => SameTimeInOrder
  BY DEF OrderInv, Ordered, SameTimeInOrder
<1> QED
  BY <1>1, <1>2, <1>3, <1>4, <1>5, <1>6, PTL DEF Spec

-----------------------------------------------------------------------------
(* How late an event may be, on a core that calls Advance() before its first block. *)

\* A block takes at most Overshoot cycles whatever the factor, at least one if any does, and
\* what the conversion of the first slice loses is no more than that.
LateBound ==
  /\ Overshoot \in Nat \ {0}
  /\ \A n \in Blocks, f \in Factors : CyclesOf(n, f) <= Overshoot
  /\ \A f \in Factors : MaxSlice - CyclesOf(CyclesToDowncount(MaxSlice, f), f) <= Overshoot

Executed == g_slicelength - CyclesOf(downcount, s_lastOCFactor)

\* In a slice that Advance() has handed out.
Running == at \notin {"off", "boot", "advanceMove"} /\ ~InAdvance

\* The slice ends before every event, except those that other threads queued during it.
Recent(s, time, slice) ==
  \A i \in 1 .. Len(s) :
    time + slice <= s[i].time \/ (s[i].origin = "other" /\ s[i].stamp = time)

SliceBounds(slice, d, f) ==
  0 <= slice /\ slice <= MaxSlice /\ 0 <= CyclesOf(d, f) + Overshoot

DueAfter(s, time) == \A i \in 1 .. Len(s) : time <= Due(s[i])

SavedRecent ==
  \A s \in saved : /\ SliceBounds(s.slice, s.downcount, s.factor)
                   /\ Recent(s.first, s.timer, s.slice)

\* AdvanceTimer() waits for an empty queue, so what is queued belongs to this slice.
QueuedNow == \A i \in 1 .. Len(tsQueue) : tsQueue[i].stamp = g_globalTimer

LateInv ==
  /\ QueuedNow
  /\ Running => /\ SliceBounds(g_slicelength, downcount, s_lastOCFactor)
                /\ Recent(first, g_globalTimer, g_slicelength)
  /\ at = "boot" => /\ globalTimerIsSane
                    /\ Executed <= Overshoot
                    /\ DueAfter(first, g_globalTimer)
  /\ at = "advanceMove" => /\ Executed <= MaxSlice + Overshoot
                           /\ DueAfter(first, g_globalTimer + Executed - Overshoot)
  /\ InAdvance => DueAfter(first, g_globalTimer - Overshoot)
  /\ SavedRecent

LEMMA DueIs ==
  ASSUME NEW e \in Event
  PROVE  /\ Due(e) \in Int /\ e.time \in Int /\ e.stamp \in Int /\ e.time <= Due(e)
         /\ e.origin = "cpu" => e.stamp <= Due(e)
         /\ e.origin = "other" => e.stamp + MaxSlice <= Due(e)
<1>1. e.time \in Int /\ e.stamp \in Int /\ e.origin \in {"cpu", "other"} /\ MaxSlice \in Int
  BY ConstantsAssumption DEF Event
<1>2. e.stamp + MaxSlice \in Int
  BY <1>1
<1> QED
  BY <1>1, <1>2 DEF Due, Later

LEMMA LateTypes ==
  ASSUME TypeOK, LateBound
  PROVE  /\ g_globalTimer \in Int /\ g_slicelength \in Int /\ downcount \in Int
         /\ s_lastOCFactor \in Factors /\ globalTimerIsSane \in BOOLEAN
         /\ CyclesOf(downcount, s_lastOCFactor) \in Int /\ Executed \in Int
         /\ Overshoot \in Int /\ 1 <= Overshoot /\ MaxSlice \in Int /\ 0 <= MaxSlice
         /\ first \in Seq(Event) /\ Len(first) \in Nat
         /\ \A i \in 1 .. Len(first) : first[i] \in Event
         /\ tsQueue \in Seq(Event) /\ Len(tsQueue) \in Nat
<1>1. /\ g_globalTimer \in Int /\ g_slicelength \in Int /\ downcount \in Int
      /\ s_lastOCFactor \in Factors /\ globalTimerIsSane \in BOOLEAN
      /\ first \in Seq(Event) /\ tsQueue \in Seq(Event)
  BY DEF TypeOK
<1>2. CyclesOf(downcount, s_lastOCFactor) \in Int
  BY <1>1, Conversions
<1>3. Executed \in Int
  BY <1>1, <1>2 DEF Executed
<1>4. Overshoot \in Int /\ 1 <= Overshoot /\ MaxSlice \in Int /\ 0 <= MaxSlice
  BY ConstantsAssumption DEF LateBound
<1> QED
  BY <1>1, <1>2, <1>3, <1>4

\* What a block may leave of the downcount.
LEMMA BlockIsBounded ==
  ASSUME LateBound, NEW n \in Blocks, NEW d \in Int, 0 <= d, NEW f \in Factors
  PROVE  0 <= CyclesOf(d - n, f) + Overshoot
<1>1. n \in Int /\ 0 <= n /\ Overshoot \in Int /\ f.num \in Positive /\ f.den \in Positive
  BY ConstantsAssumption DEF LateBound, Positive
<1>2. CyclesOf(-n, f) <= CyclesOf(d - n, f)
  BY <1>1, Conversions
<1>3. CyclesOf(-n, f) = -CyclesOf(n, f)
  <2>1. n * f.den \in Int /\ 0 <= n * f.den /\ (-n) * f.den = -(n * f.den)
    BY <1>1 DEF Positive
  <2>2. \A a \in Int : 0 <= a => Truncate(-a, f.num) = -Truncate(a, f.num)
    <3> SUFFICES ASSUME NEW a \in Int, 0 <= a
                 PROVE  Truncate(-a, f.num) = -Truncate(a, f.num)
      OBVIOUS
    <3>1. CASE a = 0
      BY <1>1, <3>1, TruncateZero
    <3>2. CASE a > 0
      BY <1>1, <3>2, Division DEF Truncate
    <3> QED
      BY <3>1, <3>2
  <2> QED
    BY <2>1, <2>2 DEF CyclesOf
<1>4. CyclesOf(n, f) <= Overshoot /\ CyclesOf(n, f) \in Int /\ CyclesOf(d - n, f) \in Int
  BY <1>1, Conversions DEF LateBound
<1> QED
  BY <1>1, <1>2, <1>3, <1>4

\* Cutting a slice leaves it within its bounds.
LEMMA CutIsBounded ==
  ASSUME TypeOK, LateBound, Left, NEW c \in Delays, ForceExceptionCheck(c),
         SliceBounds(g_slicelength, downcount, s_lastOCFactor)
  PROVE  /\ SliceBounds(g_slicelength', downcount', s_lastOCFactor')
         /\ g_slicelength' <= g_slicelength
<1>1. c \in Int /\ 0 <= c
  BY ConstantsAssumption
<1>2. DowncountToCycles(downcount) = CyclesOf(downcount, s_lastOCFactor)
  BY DEF DowncountToCycles, CyclesOf
<1>3. /\ CyclesToDowncount(c, s_lastOCFactor) \in Int
      /\ 0 <= CyclesToDowncount(c, s_lastOCFactor)
      /\ 0 <= CyclesOf(CyclesToDowncount(c, s_lastOCFactor), s_lastOCFactor)
      /\ CyclesOf(CyclesToDowncount(c, s_lastOCFactor), s_lastOCFactor) \in Int
  <2>1. s_lastOCFactor \in Factors
    BY LateTypes
  <2>2. CyclesToDowncount(c, s_lastOCFactor) \in Int /\ 0 <= CyclesToDowncount(c, s_lastOCFactor)
    BY <1>1, <2>1, Conversions
  <2>3. CyclesOf(0, s_lastOCFactor) = 0
    BY <2>1, Conversions
  <2> QED
    BY <2>1, <2>2, <2>3, Conversions
<1>4. s_lastOCFactor' = s_lastOCFactor
  BY DEF ForceExceptionCheck
<1>5. CASE CyclesOf(downcount, s_lastOCFactor) > c
  <2>1. /\ g_slicelength' = g_slicelength - (CyclesOf(downcount, s_lastOCFactor) - c)
        /\ downcount' = CyclesToDowncount(c, s_lastOCFactor)
    BY <1>2, <1>5 DEF ForceExceptionCheck
  <2> QED
    BY SMTT(30), <1>1, <1>3, <1>4, <1>5, <2>1, LateTypes DEF SliceBounds, Left
<1>6. CASE ~(CyclesOf(downcount, s_lastOCFactor) > c)
  <2>1. g_slicelength' = g_slicelength /\ downcount' = downcount
    BY <1>2, <1>6 DEF ForceExceptionCheck
  <2> QED
    BY <1>4, <2>1, LateTypes
<1> QED
  BY <1>5, <1>6

\* Where the CPU thread may come from.
LEMMA LatePlaces ==
  ASSUME TypeOK, [Next]_vars
  PROVE  /\ Running' => Running \/ AdvanceEnd \/ LoadState \/ (EnterCore /\ ~AdvanceOnEntry)
         /\ at' = "boot" => at = "boot" \/ Boot
         /\ at' = "advanceMove" => at = "advanceMove" \/ SingleStep \/ AdvanceBegin \/ EnterCore
<1> USE DEF InAdvance, Running, Goto
<1>0. caller \in MayCall
  BY DEF TypeOK
<1>1. ASSUME UNCHANGED <<at, caller>> PROVE Running' <=> Running
  BY <1>1
<1>2. ASSUME NEW type \in Types, NEW c \in CpuDelays, ScheduleEvent(c, type)
      PROVE  UNCHANGED <<at, caller>>
  BY <1>2 DEF ScheduleEvent
<1>3. ASSUME NEW type \in Types, RemoveEvent(type) PROVE UNCHANGED <<at, caller>>
  BY <1>3 DEF RemoveEvent
<1>4. ASSUME NEW type \in Types, RemoveAllEnd(type)
      PROVE  at = "removeMove" /\ (Running' => Running) /\ at' \in MayCall
  BY <1>0, <1>4 DEF RemoveAllEnd, MayCall
<1>5. ASSUME NEW c \in Delays, CheckSoon(c) PROVE UNCHANGED <<at, caller>>
  BY <1>5 DEF CheckSoon
<1>6. CASE RemoveAllBegin
  BY <1>6 DEF RemoveAllBegin, MayCall
<1>7. ASSUME NEW n \in Blocks, EndBlock(n) PROVE Running /\ at' = "dispatcher"
  BY <1>7 DEF EndBlock
<1>8. CASE Boot \/ EnterCore \/ ShutdownBegin \/ ShutdownEnd \/ StartBlock \/ SingleStep
           \/ AdvanceBegin \/ AdvanceTimer
           \/ AdvanceEnd \/ StateBegin \/ SaveState \/ LoadState
  BY <1>8 DEF Boot, EnterCore, ShutdownBegin, ShutdownEnd, StartBlock, SingleStep,
              AdvanceBegin, AdvanceTimer, AdvanceEnd, StateBegin, SaveState, LoadState
<1>9. CASE Dispatch("advance", "advanceCallback") \/ Return("advanceCallback", "advance")
           \/ Dispatch("fifo", "fifoCallback") \/ Return("fifoCallback", "fifo")
  BY <1>9 DEF Dispatch, Return
<1>10. CASE FifoBegin \/ FifoMoved \/ FifoEnd \/ Idle
  BY <1>10 DEF FifoBegin, FifoMoved, FifoEnd, Idle
<1>11. ASSUME NEW t \in Threads,
              \/ ThreadsafeBegin(t)
              \/ \E c \in Delays, type \in Types : ThreadsafePush(t, c, type)
       PROVE  UNCHANGED <<at, caller>>
  BY <1>11 DEF ThreadsafeBegin, ThreadsafePush
<1>12. CASE MoveEvent \/ UNCHANGED vars
  BY <1>12, <1>1 DEF MoveEvent, vars
<1> QED
  BY <1>1, <1>2, <1>3, <1>4, <1>5, <1>6, <1>7, <1>8, <1>9, <1>10, <1>11, <1>12
     DEF Next, MayCall

LEMMA EndsNoLater ==
  ASSUME NEW start \in Int, NEW length \in Int, NEW shorter \in Int, NEW end \in Int,
         shorter <= length, start + length <= end
  PROVE  start + shorter <= end
OBVIOUS

\* LateInv without what concerns the queue and the saved state.
LateNow ==
  /\ Running => /\ SliceBounds(g_slicelength, downcount, s_lastOCFactor)
                /\ Recent(first, g_globalTimer, g_slicelength)
  /\ at = "boot" => /\ globalTimerIsSane
                    /\ Executed <= Overshoot
                    /\ DueAfter(first, g_globalTimer)
  /\ at = "advanceMove" => /\ Executed <= MaxSlice + Overshoot
                           /\ DueAfter(first, g_globalTimer + Executed - Overshoot)
  /\ InAdvance => DueAfter(first, g_globalTimer - Overshoot)

\* The steps that add nothing to the list and keep, or shorten, the slice.
LEMMA LateKept ==
  ASSUME TypeOK, LateBound, LateInv, TypeOK',
         \A j \in 1 .. Len(first') : \E i \in 1 .. Len(first) : first'[j] = first[i],
         UNCHANGED g_globalTimer,
         Running' => /\ Running
                     /\ SliceBounds(g_slicelength', downcount', s_lastOCFactor')
                     /\ g_slicelength' <= g_slicelength,
         at' = "boot" => at = "boot" /\ UNCHANGED sliceVars,
         at' = "advanceMove" => at = "advanceMove" /\ UNCHANGED sliceVars,
         InAdvance' => InAdvance
  PROVE  LateNow'
<1>1. /\ g_globalTimer \in Int /\ g_slicelength \in Int /\ g_slicelength' \in Int
      /\ \A i \in 1 .. Len(first) : first[i].time \in Int
  BY Members DEF TypeOK
<1>2. ASSUME Running' PROVE Recent(first', g_globalTimer', g_slicelength')
  <2>1. Recent(first, g_globalTimer, g_slicelength)
    BY <1>2 DEF LateInv
  <2> SUFFICES ASSUME NEW j \in 1 .. Len(first')
               PROVE  \/ g_globalTimer' + g_slicelength' <= first'[j].time
                      \/ first'[j].origin = "other" /\ first'[j].stamp = g_globalTimer'
    BY DEF Recent
  <2>2. PICK i \in 1 .. Len(first) : first'[j] = first[i]
    OBVIOUS
  <2>3. g_slicelength' <= g_slicelength
    BY <1>2
  <2>4. \/ g_globalTimer + g_slicelength <= first[i].time
        \/ first[i].origin = "other" /\ first[i].stamp = g_globalTimer
    BY <2>1 DEF Recent
  <2>5. g_globalTimer + g_slicelength <= first[i].time
          => g_globalTimer + g_slicelength' <= first[i].time
    <3>1. first[i].time \in Int
      BY <1>1
    <3> QED
      BY <1>1, <2>3, <3>1, EndsNoLater
  <2> QED
    BY <2>2, <2>4, <2>5
<1>3. \A time : DueAfter(first, time) => DueAfter(first', time)
  BY DEF DueAfter
<1>4. UNCHANGED sliceVars => Executed' = Executed
  BY DEF Executed, CyclesOf
<1> QED
  BY <1>2, <1>3, <1>4 DEF LateInv, LateNow

LEMMA LateNowStep ==
  ASSUME AdvanceOnEntry = TRUE, LateBound, TypeOK, NotSane, ClockInv, Sorted, FromOthers,
         OffIsEmpty, LateInv, [Next]_vars
  PROVE  LateNow'
<1> USE DEF Goto
<1>0. TypeOK'
  BY TypeStep
<1>a. /\ g_globalTimer \in Int /\ g_slicelength \in Int /\ downcount \in Int
      /\ s_lastOCFactor \in Factors /\ globalTimerIsSane \in BOOLEAN
      /\ CyclesOf(downcount, s_lastOCFactor) \in Int /\ Executed \in Int
      /\ Overshoot \in Int /\ 1 <= Overshoot /\ MaxSlice \in Int /\ 0 <= MaxSlice
      /\ first \in Seq(Event) /\ Len(first) \in Nat
      /\ \A i \in 1 .. Len(first) : first[i] \in Event
      /\ tsQueue \in Seq(Event) /\ Len(tsQueue) \in Nat
  BY LateTypes
<1>b. \A i \in 1 .. Len(first) :
        /\ Due(first[i]) \in Int /\ first[i].time \in Int /\ first[i].stamp \in Int
        /\ first[i].time <= Due(first[i])
        /\ first[i].origin = "other" => first[i].stamp + MaxSlice <= Due(first[i])
  BY <1>a, DueIs
<1>c. \A j \in 1 .. Len(first) : \E i \in 1 .. Len(first) : first[j] = first[i]
  OBVIOUS
<1>d. CyclesOf(0, s_lastOCFactor) = 0
  BY <1>a, Conversions
\* While a slice runs, every event is due at its end or, queued during it, a slice later.
<1>e. Running => DueAfter(first, g_globalTimer + g_slicelength)
  <2> SUFFICES ASSUME Running, NEW i \in 1 .. Len(first)
               PROVE  g_globalTimer + g_slicelength <= Due(first[i])
    BY DEF DueAfter
  <2>1. /\ 0 <= g_slicelength /\ g_slicelength <= MaxSlice
        /\ \/ g_globalTimer + g_slicelength <= first[i].time
           \/ first[i].origin = "other" /\ first[i].stamp = g_globalTimer
    BY DEF LateInv, SliceBounds, Recent
  <2>2. CASE g_globalTimer + g_slicelength <= first[i].time
    BY <1>a, <1>b, <2>2
  <2>3. CASE first[i].origin = "other" /\ first[i].stamp = g_globalTimer
    BY <1>a, <1>b, <2>1, <2>3
  <2> QED
    BY <2>1, <2>2, <2>3
<1>f. ASSUME NEW s \in Seq(Event), NEW time \in Int, NEW earlier \in Int, earlier <= time,
             DueAfter(s, time)
      PROVE  DueAfter(s, earlier)
  <2>1. \A i \in 1 .. Len(s) : s[i] \in Event
    OBVIOUS
  <2>2. \A i \in 1 .. Len(s) : Due(s[i]) \in Int
    BY <2>1, DueIs
  <2> QED
    BY <1>f, <2>2 DEF DueAfter
<1>g. first' \in Seq(Event)
  BY <1>0 DEF TypeOK
<1>1. CASE EnterCore
  <2>1. /\ at = "boot" /\ at' = "advanceMove" /\ UNCHANGED <<first, sliceVars>>
        /\ Executed' = Executed
    BY <1>1 DEF EnterCore, Executed, CyclesOf
  <2>2. Executed <= Overshoot /\ DueAfter(first, g_globalTimer)
    BY <2>1 DEF LateInv
  <2>3. Executed <= MaxSlice + Overshoot /\ g_globalTimer + Executed - Overshoot \in Int
        /\ g_globalTimer + Executed - Overshoot <= g_globalTimer
    BY <1>a, <2>2
  <2>4. DueAfter(first, g_globalTimer + Executed - Overshoot)
    BY <1>a, <1>f, <2>2, <2>3
  <2> QED
    BY <2>1, <2>3, <2>4 DEF LateNow, Running, InAdvance
<1>2. CASE AdvanceBegin
  <2>1. /\ at = "dispatcher" /\ at' = "advanceMove" /\ UNCHANGED <<first, sliceVars>>
        /\ Executed' = Executed /\ Running
    BY <1>2 DEF AdvanceBegin, Executed, CyclesOf, Running, InAdvance
  <2>2. SliceBounds(g_slicelength, downcount, s_lastOCFactor)
    BY <2>1 DEF LateInv
  <2>3. /\ Executed <= MaxSlice + Overshoot
        /\ g_globalTimer + Executed - Overshoot \in Int
        /\ g_globalTimer + Executed - Overshoot <= g_globalTimer + g_slicelength
        /\ g_globalTimer + g_slicelength \in Int
    BY SMTT(30), <1>a, <2>2 DEF SliceBounds, Executed
  <2>4. DueAfter(first, g_globalTimer + Executed - Overshoot)
    BY <1>a, <1>e, <1>f, <2>1, <2>3
  <2> QED
    BY <2>1, <2>3, <2>4 DEF LateNow, Running, InAdvance
<1>3. CASE SingleStep
  <2>1. /\ at \in {"boot", "dispatcher"} /\ at' = "advanceMove"
        /\ UNCHANGED <<first, g_globalTimer, s_lastOCFactor>>
        /\ g_slicelength' = 1 /\ downcount' = 0
    BY <1>3 DEF SingleStep
  <2>2. Executed' = 1
    BY <1>d, <2>1 DEF Executed
  <2>3. DueAfter(first, g_globalTimer)
    <3>1. CASE at = "boot"
      BY <3>1 DEF LateInv
    <3>2. CASE at = "dispatcher"
      <4>1. Running
        BY <3>2 DEF Running, InAdvance
      <4>2. 0 <= g_slicelength
        BY <4>1 DEF LateInv, SliceBounds
      <4>3. g_globalTimer <= g_globalTimer + g_slicelength /\ g_globalTimer + g_slicelength \in Int
        BY <1>a, <4>2
      <4> QED
        BY <1>a, <1>e, <1>f, <4>1, <4>3
    <3> QED
      BY <2>1, <3>1, <3>2
  <2>4. g_globalTimer + 1 - Overshoot \in Int /\ g_globalTimer + 1 - Overshoot <= g_globalTimer
        /\ 1 <= MaxSlice + Overshoot
    BY <1>a
  <2>5. DueAfter(first, g_globalTimer + 1 - Overshoot)
    BY <1>a, <1>f, <2>3, <2>4
  <2> QED
    BY <2>1, <2>2, <2>4, <2>5 DEF LateNow, Running, InAdvance
<1>4. CASE AdvanceTimer
  <2>1. /\ at = "advanceMove" /\ at' = "advance" /\ UNCHANGED first
        /\ g_globalTimer' = g_globalTimer + Executed
    BY <1>4 DEF AdvanceTimer, Executed, DowncountToCycles, CyclesOf
  <2>2. DueAfter(first, g_globalTimer + Executed - Overshoot)
    BY <2>1 DEF LateInv
  <2>3. g_globalTimer' - Overshoot = g_globalTimer + Executed - Overshoot
    BY <1>a, <2>1
  <2>4. DueAfter(first', g_globalTimer' - Overshoot)
    BY <2>1, <2>2, <2>3
  <2> QED
    BY <2>1, <2>4 DEF LateNow, Running, InAdvance
<1>5. CASE AdvanceEnd
  <2>1. /\ at = "advance" /\ at' = "guest" /\ NothingDue
        /\ UNCHANGED <<first, g_globalTimer, s_lastOCFactor>>
        /\ downcount' = CyclesToDowncount(g_slicelength', s_lastOCFactor)
    BY <1>5 DEF AdvanceEnd
  <2>2. first # <<>> /\ Head(first) = first[1] /\ 1 \in 1 .. Len(first)
    BY <1>a, <2>1 DEF ClockInv, MayLackVideo, HasVideo, InAdvance
  <2>3. /\ g_slicelength' \in Int /\ 0 <= g_slicelength' /\ g_slicelength' <= MaxSlice
        /\ g_globalTimer + g_slicelength' <= first[1].time
    BY SMTT(30), <1>a, <1>b, <1>5, <2>1, <2>2 DEF AdvanceEnd, NothingDue
  <2>4. 0 <= CyclesOf(downcount', s_lastOCFactor) + Overshoot
    <3>1. downcount' \in Int /\ 0 <= downcount'
      BY <1>a, <2>1, <2>3, Conversions
    <3>2. CyclesOf(0, s_lastOCFactor) <= CyclesOf(downcount', s_lastOCFactor)
          /\ CyclesOf(downcount', s_lastOCFactor) \in Int
      BY <1>a, <3>1, Conversions
    <3> QED
      BY <1>a, <1>d, <3>2
  <2>5. Recent(first, g_globalTimer, g_slicelength')
    <3> SUFFICES ASSUME NEW i \in 1 .. Len(first)
                 PROVE  g_globalTimer + g_slicelength' <= first[i].time
      BY DEF Recent
    <3>1. first[1].time <= first[i].time
      BY <1>a, <1>b, <2>2 DEF Sorted
    <3> QED
      BY <1>a, <1>b, <2>2, <2>3, <3>1
  <2> QED
    BY <2>1, <2>3, <2>4, <2>5 DEF LateNow, SliceBounds, InAdvance
<1>6. CASE Boot
  <2>1. /\ at' = "boot" /\ globalTimerIsSane' /\ first' = <<>>
        /\ g_slicelength' = MaxSlice /\ s_lastOCFactor' \in Factors
        /\ downcount' = CyclesToDowncount(MaxSlice, s_lastOCFactor')
    BY <1>6 DEF Boot, OffIsEmpty
  <2>2. Executed' <= Overshoot
    BY <2>1 DEF LateBound, Executed
  <2> QED
    BY <2>1, <2>2 DEF LateNow, Running, InAdvance, DueAfter
<1>7. CASE LoadState
  BY <1>7 DEF LoadState, LateInv, SavedRecent, LateNow, InAdvance
<1>8. ASSUME NEW e \in Event, AddEventToQueue(e), UNCHANGED g_globalTimer,
             g_globalTimer <= Due(e)
      PROVE  \A time \in Int : time <= g_globalTimer /\ DueAfter(first, time)
                                  => DueAfter(first', time)
  <2>1. \A j \in 1 .. Len(first') :
          first'[j] = e \/ \E i \in 1 .. Len(first) : first'[j] = first[i]
    BY <1>8, InsertedMembers
  <2> SUFFICES ASSUME NEW time \in Int, time <= g_globalTimer, DueAfter(first, time),
                      NEW j \in 1 .. Len(first')
               PROVE  time <= Due(first'[j])
    BY DEF DueAfter
  <2>2. CASE first'[j] = e
    BY <1>8, <1>a, <2>2, DueIs
  <2>3. CASE \E i \in 1 .. Len(first) : first'[j] = first[i]
    BY <2>3 DEF DueAfter
  <2> QED
    BY <2>1, <2>2, <2>3
<1>9. ASSUME NEW type \in Types, NEW c \in CpuDelays, ScheduleEvent(c, type) PROVE LateNow'
  <2> DEFINE e == [time |-> GetTicks + c, type |-> type, origin |-> "cpu",
                   stamp |-> g_globalTimer]
  <2>1. /\ e \in Event /\ e.origin = "cpu" /\ e.stamp = g_globalTimer /\ e.time = GetTicks + c
    BY ScheduledEvent
  <2>2. AddEventToQueue(e) /\ UNCHANGED <<at, caller, g_globalTimer>>
        /\ at \in MayCall \cup {"boot"}
    BY <1>9 DEF ScheduleEvent, ForceExceptionCheck
  <2> HIDE DEF e
  <2>3. g_globalTimer <= Due(e)
    BY <2>1, DueIs
  <2>4. CASE at = "boot"
    <3>1. globalTimerIsSane /\ UNCHANGED sliceVars /\ Executed' = Executed
      BY <1>9, <2>4 DEF ScheduleEvent, LateInv, Executed, CyclesOf
    <3>2. DueAfter(first', g_globalTimer)
      BY <1>8, <1>a, <2>1, <2>2, <2>3, <2>4 DEF LateInv
    <3> QED
      BY <2>2, <2>4, <3>1, <3>2 DEF LateInv, LateNow, Running, InAdvance
  <2>5. CASE at = "advanceCallback"
    <3>1. g_globalTimer - Overshoot \in Int /\ g_globalTimer - Overshoot <= g_globalTimer
      BY <1>a
    <3>2. DueAfter(first', g_globalTimer - Overshoot)
      BY <1>8, <2>1, <2>2, <2>3, <2>5, <3>1 DEF LateInv, InAdvance
    <3> QED
      BY <2>2, <2>5, <3>2 DEF LateNow, Running, InAdvance
  <2>6. CASE at \in {"guest", "dispatcher", "fifoCallback"}
    <3>1. Running /\ ~InAdvance /\ Running' /\ ~InAdvance'
      BY <2>2, <2>6 DEF Running, InAdvance
    <3>2. /\ ~globalTimerIsSane /\ c \in Delays /\ c \in Int /\ Left
          /\ SliceBounds(g_slicelength, downcount, s_lastOCFactor)
      BY <2>6, <3>1, DelayType DEF NotSane, CpuDelays, ClockInv, LateInv
    <3>3. ForceExceptionCheck(c)
      BY <1>9, <3>2 DEF ScheduleEvent
    <3>4. /\ SliceBounds(g_slicelength', downcount', s_lastOCFactor')
          /\ g_slicelength' <= g_slicelength /\ g_slicelength' \in Int
          /\ g_globalTimer + g_slicelength' <= e.time
      BY <2>1, <3>2, <3>3, CutIsBounded, Forcing
    <3>5. Recent(first', g_globalTimer, g_slicelength')
      <4>1. \A j \in 1 .. Len(first') :
              first'[j] = e \/ \E i \in 1 .. Len(first) : first'[j] = first[i]
        BY <2>1, <2>2, InsertedMembers
      <4>2. \A i \in 1 .. Len(first) :
              \/ g_globalTimer + g_slicelength' <= first[i].time
              \/ first[i].origin = "other" /\ first[i].stamp = g_globalTimer
        <5> SUFFICES ASSUME NEW i \in 1 .. Len(first),
                            g_globalTimer + g_slicelength <= first[i].time
                     PROVE  g_globalTimer + g_slicelength' <= first[i].time
          BY <3>1 DEF LateInv, Recent
        <5> QED
          BY <1>a, <1>b, <3>4
      <4> QED
        BY <3>4, <4>1, <4>2 DEF Recent
    <3> QED
      BY <2>2, <2>6, <3>1, <3>4, <3>5 DEF LateNow
  <2> QED
    BY <2>2, <2>4, <2>5, <2>6 DEF MayCall
<1>10. CASE MoveEvent
  <2> DEFINE e == Head(tsQueue)
  <2>1. /\ e \in Event /\ e = tsQueue[1] /\ 1 \in 1 .. Len(tsQueue)
        /\ AddEventToQueue(e) /\ UNCHANGED <<sliceVars, at, caller>>
        /\ at \notin {"off", "boot"}
    BY <1>a, <1>10 DEF MoveEvent
  <2> HIDE DEF e
  <2>2. e.origin = "other" /\ e.stamp = g_globalTimer
    BY <2>1 DEF FromOthers, LateInv, QueuedNow
  <2>3. Due(e) \in Int /\ g_globalTimer + MaxSlice <= Due(e) /\ g_globalTimer <= Due(e)
    BY <1>a, <2>1, <2>2, DueIs
  <2>4. \A j \in 1 .. Len(first') :
          first'[j] = e \/ \E i \in 1 .. Len(first) : first'[j] = first[i]
    BY <2>1, InsertedMembers
  <2>5. CASE at = "advanceMove"
    <3>1. /\ Executed' = Executed /\ Executed <= MaxSlice + Overshoot
          /\ DueAfter(first, g_globalTimer + Executed - Overshoot)
      BY <2>1, <2>5 DEF LateInv, Executed, CyclesOf
    <3>2. g_globalTimer + Executed - Overshoot <= Due(e)
      BY <1>a, <2>3, <3>1
    <3>3. DueAfter(first', g_globalTimer + Executed - Overshoot)
      BY <2>4, <3>1, <3>2 DEF DueAfter
    <3> QED
      BY <2>1, <2>5, <3>1, <3>3 DEF LateNow, Running, InAdvance
  <2>6. CASE InAdvance
    <3>1. g_globalTimer - Overshoot \in Int /\ g_globalTimer - Overshoot <= g_globalTimer
      BY <1>a
    <3>2. DueAfter(first', g_globalTimer - Overshoot)
      BY <1>8, <2>1, <2>3, <2>6, <3>1 DEF LateInv
    <3> QED
      BY <2>1, <2>6, <3>2 DEF LateNow, Running, InAdvance
  <2>7. CASE Running
    <3>1. Recent(first', g_globalTimer, g_slicelength)
      BY <2>2, <2>4, <2>7 DEF LateInv, Recent
    <3> QED
      BY <2>1, <2>7, <3>1 DEF LateInv, LateNow, Running, InAdvance
  <2> QED
    BY <2>1, <2>5, <2>6, <2>7 DEF Running
<1>11. ASSUME \A j \in 1 .. Len(first') : \E i \in 1 .. Len(first) : first'[j] = first[i],
              UNCHANGED sliceVars, ~AdvanceEnd, ~LoadState, ~Boot, ~SingleStep, ~AdvanceBegin,
              ~EnterCore, ~AdvanceTimer
       PROVE  LateNow'
  <2>1. Running' => Running /\ SliceBounds(g_slicelength', downcount', s_lastOCFactor')
    BY <1>11, LatePlaces DEF LateInv
  <2>2. g_slicelength' <= g_slicelength
    BY <1>a, <1>11
  <2> QED
    BY <1>0, <1>11, <2>1, <2>2, LateKept, LatePlaces, PlaceStep
<1>12. ASSUME NEW n \in Blocks, EndBlock(n) PROVE LateNow'
  <2>1. /\ at = "guest" /\ at' = "dispatcher" /\ downcount' = downcount - n
        /\ UNCHANGED <<first, g_globalTimer, g_slicelength, s_lastOCFactor>>
    BY <1>12 DEF EndBlock
  <2>2. Running /\ ~InAdvance' /\ InBlock
    BY <2>1 DEF Running, InAdvance, InBlock
  <2>3. 0 <= CyclesOf(downcount - n, s_lastOCFactor) + Overshoot
    BY <1>a, <2>2, BlockIsBounded DEF ClockInv
  <2> QED
    BY <2>1, <2>2, <2>3 DEF LateInv, LateNow, SliceBounds
<1>13. CASE Idle
  <2>1. /\ at \in {"guest", "fifo"} /\ at' = "guest" /\ downcount' = 0
        /\ UNCHANGED <<first, g_globalTimer, g_slicelength, s_lastOCFactor>>
    BY <1>13 DEF Idle
  <2>2. Running /\ ~InAdvance'
    BY <2>1 DEF Running, InAdvance
  <2>3. 0 <= CyclesOf(0, s_lastOCFactor) + Overshoot
    BY <1>a, <1>d
  <2> QED
    BY <2>1, <2>2, <2>3 DEF LateInv, LateNow, SliceBounds
<1>14. ASSUME NEW c \in Delays, CheckSoon(c) PROVE LateNow'
  <2>1. ForceExceptionCheck(c) /\ UNCHANGED <<at, caller, first, g_globalTimer>> /\ at \in MayCall
    BY <1>14 DEF CheckSoon, ForceExceptionCheck
  <2>2. (Running' <=> Running) /\ (InAdvance' <=> InAdvance) /\ at' \notin {"boot", "advanceMove"}
    BY <2>1 DEF Running, InAdvance, MayCall
  <2>3. Running => /\ SliceBounds(g_slicelength', downcount', s_lastOCFactor')
                   /\ g_slicelength' <= g_slicelength
    BY <2>1, CutIsBounded DEF LateInv, ClockInv, Running
  <2> QED
    BY <1>0, <1>c, <2>1, <2>2, <2>3, LateKept
<1>15. \/ \E type \in Types : \E c \in CpuDelays : ScheduleEvent(c, type)
       \/ MoveEvent \/ LoadState \/ Boot
       \/ \A j \in 1 .. Len(first') : \E i \in 1 .. Len(first) : first'[j] = first[i]
  <2>1. CASE first' = <<>>
    BY <2>1
  <2>2. CASE first' \in Seq(Event) /\ Sublist(first, first')
    BY <1>a, <2>2, OrderedTakingOut
  <2> QED
    BY <1>c, <2>1, <2>2, ListKept
<1>16. \/ UNCHANGED sliceVars
       \/ \E c \in Delays : CheckSoon(c)
       \/ \E type \in Types : \E c \in CpuDelays : ScheduleEvent(c, type)
       \/ \E n \in Blocks : EndBlock(n)
       \/ Idle \/ AdvanceTimer \/ AdvanceEnd \/ SingleStep \/ Boot \/ LoadState
  BY DEF Next, vars, EnterCore, ShutdownBegin, ShutdownEnd, StartBlock, RemoveAllBegin,
         RemoveEvent, RemoveAllEnd, MoveEvent, AdvanceBegin, Dispatch, Return, FifoBegin,
         FifoMoved, FifoEnd, StateBegin, SaveState, ThreadsafeBegin, ThreadsafePush
<1> QED
  BY <1>1, <1>2, <1>3, <1>4, <1>5, <1>6, <1>7, <1>9, <1>10, <1>11, <1>12, <1>13, <1>14,
     <1>15, <1>16

LEMMA LateStep ==
  ASSUME AdvanceOnEntry = TRUE, LateBound, TypeOK, NotSane, ClockInv, Sorted, FromOthers,
         OffIsEmpty, LateInv, [Next]_vars
  PROVE  LateInv'
<1>0. g_globalTimer \in Int /\ tsQueue \in Seq(Event) /\ Len(tsQueue) \in Nat
  BY DEF TypeOK
<1>1. QueuedNow'
  <2>1. CASE MoveEvent
    <3>1. \A i \in 1 .. Len(tsQueue') : tsQueue'[i] = tsQueue[i + 1] /\ i + 1 \in 1 .. Len(tsQueue)
      BY <1>0, <2>1 DEF MoveEvent
    <3> QED
      BY <2>1, <3>1 DEF MoveEvent, LateInv, QueuedNow
  <2>2. ASSUME UNCHANGED g_globalTimer,
               NEW e \in Event, tsQueue' = Append(tsQueue, e), e.stamp = g_globalTimer
        PROVE  QueuedNow'
    <3>1. \A i \in 1 .. Len(tsQueue') :
            tsQueue'[i] = e \/ (i \in 1 .. Len(tsQueue) /\ tsQueue'[i] = tsQueue[i])
      BY <1>0, <2>2
    <3> QED
      BY <2>2, <3>1 DEF LateInv, QueuedNow
  <2>3. CASE UNCHANGED tsQueue
    <3>1. UNCHANGED g_globalTimer \/ tsQueue = <<>>
      BY SliceStep DEF ForceExceptionCheck, EndBlock, Idle, AdvanceTimer, AdvanceEnd,
                       SingleStep, Boot, LoadState, OffIsEmpty, Goto
    <3> QED
      BY <2>3, <3>1 DEF LateInv, QueuedNow
  <2> QED
    BY <2>1, <2>2, <2>3, QueueStep
<1>2. SavedRecent'
  <2>1. CASE saved' = saved
    BY <2>1 DEF LateInv, SavedRecent
  <2>2. CASE SaveState
    <3>1. Running
      BY <2>2 DEF SaveState, Goto, Running, InAdvance
    <3> QED
      BY <2>2, <3>1 DEF SaveState, LateInv, SavedRecent
  <2> QED
    BY <2>1, <2>2, SavedStep
<1> QED
  BY <1>1, <1>2, LateNowStep DEF LateInv, LateNow

LEMMA LateMeansOnTime ==
  ASSUME LateBound, TypeOK, ClockInv, FromOthers, OffIsEmpty, LateInv
  PROVE  NoEventOverdue
<1>1. /\ g_globalTimer \in Int /\ g_slicelength \in Int /\ downcount \in Int
      /\ s_lastOCFactor \in Factors /\ globalTimerIsSane \in BOOLEAN
      /\ CyclesOf(downcount, s_lastOCFactor) \in Int /\ Executed \in Int
      /\ Overshoot \in Int /\ 1 <= Overshoot /\ MaxSlice \in Int /\ 0 <= MaxSlice
      /\ first \in Seq(Event) /\ tsQueue \in Seq(Event)
  BY LateTypes
<1>2. /\ \A i \in 1 .. Len(first) :
           /\ Due(first[i]) \in Int /\ first[i].time \in Int /\ first[i].stamp \in Int
           /\ first[i].time <= Due(first[i])
           /\ first[i].origin = "other" => first[i].stamp + MaxSlice <= Due(first[i])
      /\ \A i \in 1 .. Len(tsQueue) :
           Due(tsQueue[i]) \in Int /\ g_globalTimer + MaxSlice <= Due(tsQueue[i])
  <2>1. \A i \in 1 .. Len(tsQueue) : tsQueue[i] \in Event /\ tsQueue[i].origin = "other"
                                     /\ tsQueue[i].stamp = g_globalTimer
    BY <1>1 DEF FromOthers, LateInv, QueuedNow
  <2>2. \A i \in 1 .. Len(first) : first[i] \in Event
    BY <1>1
  <2> QED
    BY <2>1, <2>2, DueIs
<1>3. GetTicks = IF globalTimerIsSane THEN g_globalTimer ELSE g_globalTimer + Executed
  BY <1>1 DEF GetTicks, DowncountToCycles, CyclesOf, Executed
<1>4. CASE at = "off"
  BY <1>4 DEF OffIsEmpty, NoEventOverdue
<1>5. ASSUME \A i \in 1 .. Len(first) : GetTicks <= Due(first[i]) + Overshoot,
             \A i \in 1 .. Len(tsQueue) : GetTicks <= Due(tsQueue[i]) + Overshoot
      PROVE  NoEventOverdue
  <2>1. DOMAIN first = 1 .. Len(first) /\ DOMAIN tsQueue = 1 .. Len(tsQueue)
    BY <1>1
  <2> QED
    BY <1>5, <2>1 DEF NoEventOverdue
\* Whichever time the list is due after, the clock is at most Overshoot past it.
<1>6. ASSUME NEW time \in Int, DueAfter(first, time), GetTicks <= time + Overshoot,
             GetTicks <= g_globalTimer + MaxSlice + Overshoot, GetTicks \in Int
      PROVE  NoEventOverdue
  <2>1. ASSUME NEW i \in 1 .. Len(first) PROVE GetTicks <= Due(first[i]) + Overshoot
    <3>1. Due(first[i]) \in Int
      BY <1>2
    <3>2. time <= Due(first[i])
      BY <1>6 DEF DueAfter
    <3> QED
      BY <1>1, <1>6, <3>1, <3>2
  <2>2. ASSUME NEW i \in 1 .. Len(tsQueue) PROVE GetTicks <= Due(tsQueue[i]) + Overshoot
    <3>1. Due(tsQueue[i]) \in Int /\ g_globalTimer + MaxSlice <= Due(tsQueue[i])
      BY <1>2
    <3> QED
      BY <1>1, <1>6, <3>1
  <2> QED
    BY <1>5, <2>1, <2>2
<1>7. CASE at = "boot"
  <2>1. GetTicks = g_globalTimer /\ DueAfter(first, g_globalTimer)
    BY <1>3, <1>7 DEF LateInv
  <2>2. /\ g_globalTimer <= g_globalTimer + Overshoot
        /\ g_globalTimer <= g_globalTimer + MaxSlice + Overshoot
    BY <1>1
  <2> QED
    BY <1>1, <1>6, <2>1, <2>2
<1>8. CASE InAdvance
  <2>1. GetTicks = g_globalTimer /\ DueAfter(first, g_globalTimer - Overshoot)
    BY <1>3, <1>8 DEF ClockInv, LateInv
  <2>2. /\ g_globalTimer - Overshoot \in Int
        /\ g_globalTimer <= (g_globalTimer - Overshoot) + Overshoot
        /\ g_globalTimer <= g_globalTimer + MaxSlice + Overshoot
    BY <1>1
  <2> QED
    BY <1>1, <1>6, <2>1, <2>2
<1>9. CASE at = "advanceMove"
  <2>1. /\ Executed <= MaxSlice + Overshoot /\ 0 <= Executed
        /\ DueAfter(first, g_globalTimer + Executed - Overshoot)
    BY <1>1, <1>9 DEF LateInv, ClockInv, InAdvance, Left, Executed
  <2>2. /\ g_globalTimer + Executed - Overshoot \in Int /\ GetTicks \in Int
        /\ GetTicks <= (g_globalTimer + Executed - Overshoot) + Overshoot
        /\ GetTicks <= g_globalTimer + MaxSlice + Overshoot
    BY <1>1, <1>3, <2>1
  <2> QED
    BY <1>6, <2>1, <2>2
<1>10. CASE Running
  <2>1. /\ 0 <= g_slicelength /\ g_slicelength <= MaxSlice
        /\ Executed <= g_slicelength + Overshoot
    BY <1>1, <1>10 DEF LateInv, SliceBounds, Executed
  <2>2. DueAfter(first, g_globalTimer + g_slicelength)
    <3> SUFFICES ASSUME NEW i \in 1 .. Len(first)
                 PROVE  g_globalTimer + g_slicelength <= Due(first[i])
      BY DEF DueAfter
    <3>1. /\ Due(first[i]) \in Int /\ first[i].time \in Int /\ first[i].stamp \in Int
          /\ first[i].time <= Due(first[i])
          /\ first[i].origin = "other" => first[i].stamp + MaxSlice <= Due(first[i])
      BY <1>2
    <3>2. \/ g_globalTimer + g_slicelength <= first[i].time
          \/ first[i].origin = "other" /\ first[i].stamp = g_globalTimer
      BY <1>10 DEF LateInv, Recent
    <3> QED
      BY SMTT(30), <1>1, <2>1, <3>1, <3>2
  <2>3. /\ g_globalTimer + g_slicelength \in Int /\ GetTicks \in Int
        /\ GetTicks <= (g_globalTimer + g_slicelength) + Overshoot
        /\ GetTicks <= g_globalTimer + MaxSlice + Overshoot
    BY <1>1, <1>3, <2>1
  <2> QED
    BY <1>6, <2>2, <2>3
<1> QED
  BY <1>4, <1>7, <1>8, <1>9, <1>10 DEF Running

\* No event is later than the block during which it fell due or, if another thread queued it,
\* that and the slice it came into, for any slice length, factors, delays and threads, through
\* changes of the factor, loaded states and single steps (CoreTiming.cpp:419-452), on a core
\* that calls Advance() before its first block.
THEOREM EventsAreOnTime ==
  ASSUME AdvanceOnEntry = TRUE, LateBound
  PROVE  Spec => []NoEventOverdue
<1>1. Init => TypeOK /\ ClockInv
  BY InitType, InitClock
<1>2. Init => Sorted /\ SavedSorted /\ FromOthers /\ NotSane /\ OffIsEmpty /\ LateInv
  BY DEF Init, Sorted, SavedSorted, FromOthers, NotSane, OffIsEmpty, LateInv, QueuedNow,
         Running, InAdvance, SavedRecent
<1>3. TypeOK /\ ClockInv /\ [Next]_vars => TypeOK' /\ ClockInv'
  BY TypeStep, ClockInvStep
<1>4. TypeOK /\ Sorted /\ SavedSorted /\ FromOthers /\ NotSane /\ OffIsEmpty /\ [Next]_vars
        => Sorted' /\ SavedSorted' /\ FromOthers' /\ NotSane' /\ OffIsEmpty'
  BY SortedStep, FromOthersStep, NotSaneStep, OffStep
<1>5. TypeOK /\ ClockInv /\ Sorted /\ FromOthers /\ NotSane /\ OffIsEmpty /\ LateInv /\ [Next]_vars
        => LateInv'
  BY LateStep
<1>6. TypeOK /\ ClockInv /\ FromOthers /\ OffIsEmpty /\ LateInv => NoEventOverdue
  BY LateMeansOnTime
<1> QED
  BY <1>1, <1>2, <1>3, <1>4, <1>5, <1>6, PTL DEF Spec

=============================================================================
