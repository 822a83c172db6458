------------------------------- MODULE WiiIpc -------------------------------
(***************************************************************************)
(* How a guest asks the emulated IOS for something (Core/HW/WII_IPC.cpp,   *)
(* Core/IPC_HLE/WII_IPC_HLE.cpp, WII_IPC_HLE_Device_DI.cpp), with the disc *)
(* drive behind it (Core/HW/DVDInterface.cpp and DVDThread).               *)
(*                                                                         *)
(* The guest writes the address of a command and rings; the IOS puts an    *)
(* acknowledgement, and later a reply, into a mailbox that holds one       *)
(* address at a time.  Nobody polls: Update() moves the queues only when   *)
(* something arrives or the guest has written to a register.               *)
(*                                                                         *)
(* All this happens on the CPU thread, so that a handler is one step: a    *)
(* function from the state of the IOS to the next.  `ios' is that state;   *)
(* the times in it count from now.  The reads happen on the DVD thread.    *)
(*                                                                         *)
(* Left out: savestates, the registers of the drive that GameCube games    *)
(* use, opening and closing of devices, and what a command says.           *)
(***************************************************************************)
EXTENDS Integers, Sequences, FiniteSets

CONSTANTS
  Files,        \* commands to a device that answers after a delay
  Discs,        \* commands to /dev/di that read the disc
  Launches,     \* ES_LAUNCH, which restarts the IOS
  Missing,      \* ES_LAUNCH of a title that the NAND does not have
  Delays,       \* how long a device may take
  DriveTime,    \* how long the drive takes
  Latency,      \* of a request, and of the interrupt of an acknowledgement (1000 cycles)
  SwapTime,     \* between the ejection of a disc and the insertion of the next
  MaxSends, MaxSwaps, MaxBoots,
  MaxAsked,     \* sends and swaps together
  Nothing

Titles == Launches \cup Missing
Commands == Files \cup Discs \cup Titles

ASSUME WiiIpcAssumption ==
  /\ Delays \subseteq Nat /\ DriveTime \in Nat \ {0} /\ Latency \in Nat \ {0} /\ SwapTime \in Nat
  /\ MaxSends \in Nat /\ MaxSwaps \in Nat /\ MaxBoots \in Nat /\ MaxAsked \in Nat
  /\ Nothing \notin Commands
  /\ Files \cap Discs = {} /\ Titles \cap (Files \cup Discs) = {} /\ Launches \cap Missing = {}

VARIABLES
  ios,
  status,      \* what the guest knows of a command: "free", "sent", "acked"
  unanswered,  \* auxiliary: the Files that were sent and not answered, in order
  result,      \* of a command to the drive: "none", "data", "wrong", "error"
  power,       \* "off", "boot" (in SetVolumeName()), "on", or where DVDThread::Stop() is
  sends, swaps, boots,
  thread, start_working, done_working, exiting, request, s_dvd_buffer, leftover

drive == INSTANCE DVDThread WITH Reads <- Discs

dvd == <<thread, start_working, done_working, exiting, request, s_dvd_buffer, leftover>>
guest == <<status, unanswered>>
counts == <<sends, swaps, boots>>
vars == <<ios, guest, result, power, counts, dvd>>

Enqueued == {"request", "reply", "ack"}    \* the three uses of event_enqueue
Kinds == Enqueued \cup {"irq", "FinishRead", "FinishCommand", "eject", "insert"}
Events == [due : Nat, what : Kinds, cmd : Commands \cup {Nothing}]

Ios == [Y1 : BOOLEAN, Y2 : BOOLEAN, ppc_irq_flags : BOOLEAN, arm_msg : Commands \cup {Nothing},
        request_queue : Seq(Commands), reply_queue : Seq(Commands), ack_queue : Seq(Commands),
        last_reply : Nat, events : Seq(Events), m_commands_to_execute : Seq(Discs),
        volume : 0 .. 2]    \* the open disc: 0 for none, else 1 and 2 in turn

Fresh == [Y1 |-> FALSE, Y2 |-> FALSE, ppc_irq_flags |-> FALSE, arm_msg |-> Nothing,
          request_queue |-> <<>>, reply_queue |-> <<>>, ack_queue |-> <<>>, last_reply |-> 0,
          events |-> <<>>, m_commands_to_execute |-> <<>>, volume |-> 0]

TypeOK ==
  /\ ios \in Ios
  /\ \A i, j \in DOMAIN ios.events : i < j => ios.events[i].due <= ios.events[j].due
  /\ status \in [Commands -> {"free", "sent", "acked"}]
  /\ unanswered \in Seq(Files)
  /\ result \in [Discs -> {"none", "data", "wrong", "error"}]
  /\ power \in {"off", "boot", "on", "flag", "join"}
  /\ sends \in 0 .. MaxSends /\ swaps \in 0 .. MaxSwaps /\ boots \in 0 .. MaxBoots
  /\ drive!DVDTypeOK

NoCommand == [c \in Commands |-> "free"]
NoResult == [c \in Discs |-> "none"]

Init ==
  /\ ios = Fresh /\ power = "off" /\ sends = 0 /\ swaps = 0 /\ boots = 0
  /\ status = NoCommand /\ unanswered = <<>> /\ result = NoResult
  /\ drive!DVDInit

-----------------------------------------------------------------------------
(* CoreTiming *)

Event(due, what, c) == [due |-> due, what |-> what, cmd |-> c]

\* How many events come before one that is scheduled now.
Earlier(s, due) == Len(s.events) - Cardinality({i \in DOMAIN s.events : s.events[i].due > due})

Schedule(due, what, c) ==
  [s \in Ios |->
     [s EXCEPT !.events = SubSeq(@, 1, Earlier(s, due)) \o <<Event(due, what, c)>>
                          \o SubSeq(@, Earlier(s, due) + 1, Len(@))]]

\* The events without those that enqueue.
RemoveAllEvents(events) ==
  LET kept[n \in 0 .. Len(events)] ==
        IF n = 0 THEN <<>>
        ELSE IF events[n].what \in Enqueued THEN kept[n - 1]
        ELSE Append(kept[n - 1], events[n])
  IN  kept[Len(events)]

\* Of two calls of UpdateInterrupts() in a row the second does nothing, and is left out.
ScheduleUpdate(due) ==
  [s \in Ios |->
     IF Earlier(s, due) > 0 /\ s.events[Earlier(s, due)] = Event(due, "irq", Nothing)
     THEN s ELSE Schedule(due, "irq", Nothing)[s]]

-----------------------------------------------------------------------------
(* The mailbox.  The guest lets both kinds of message interrupt it. *)

UpdateInterrupts == [s \in Ios |-> [s EXCEPT !.ppc_irq_flags = @ \/ s.Y1 \/ s.Y2]]

GenerateAck(s, c) == ScheduleUpdate(Latency)[[s EXCEPT !.arm_msg = c, !.Y2 = TRUE]]

GenerateReply(s, c) == UpdateInterrupts[[s EXCEPT !.arm_msg = c, !.Y1 = TRUE]]

IsReady(s) == ~s.Y1 /\ ~s.Y2 /\ ~s.ppc_irq_flags

-----------------------------------------------------------------------------
(* The devices; d is the time that a device takes *)

\* CWII_IPC_HLE_Device_di::StartIOCtl() with DVDInterface::ExecuteCommand() for a read.
StartIOCtl ==
  [s \in Ios |->
     Schedule(DriveTime, IF s.volume # 0 THEN "FinishRead" ELSE "FinishCommand", Nothing)[s]]

IOCtl(s, c) ==
  LET queued == [s EXCEPT !.m_commands_to_execute = Append(@, c)] IN
  IF s.m_commands_to_execute = <<>> THEN StartIOCtl[queued] ELSE queued

\* WII_IPC_HLE_Interface::Reset() without the devices, some of which are made anew after it.
ResetQueues(s) ==
  [s EXCEPT !.events = RemoveAllEvents(@),
            !.request_queue = <<>>, !.reply_queue = <<>>, !.last_reply = 0]

Reply_AtOnce(s, c, d) ==
  Schedule(d, "reply", c)[[s EXCEPT !.last_reply = @ + d]]

\* A reply comes d after the last one, and never before it.
Reply(s, c, d) ==
  Schedule(s.last_reply + d, "reply", c)[[s EXCEPT !.last_reply = @ + d]]

\* ES_LAUNCH makes the devices anew unless it fails, and is answered by a second
\* acknowledgement in either case.
Launch(s, c) ==
  Schedule(0, "ack", c)[IF c \in Missing THEN s
                        ELSE [ResetQueues(s) EXCEPT !.m_commands_to_execute = <<>>]]

ExecuteCommand(c, d) ==
  [s \in Ios |-> CASE c \in Files -> Reply(s, c, d)
                   [] c \in Discs -> IOCtl(s, c)
                   [] c \in Titles -> Launch(s, c)]

Update(d) ==
  [s \in Ios |->
     CASE ~IsReady(s) -> s
       [] IsReady(s) /\ s.request_queue # <<>> ->
            LET c == Head(s.request_queue) IN
            ExecuteCommand(c, d)[GenerateAck([s EXCEPT !.request_queue = Tail(@)], c)]
       [] IsReady(s) /\ s.request_queue = <<>> /\ s.reply_queue # <<>> ->
            GenerateReply([s EXCEPT !.reply_queue = Tail(@)], Head(s.reply_queue))
       [] IsReady(s) /\ s.request_queue = <<>> /\ s.reply_queue = <<>> /\ s.ack_queue # <<>> ->
            GenerateAck([s EXCEPT !.ack_queue = Tail(@)], Head(s.ack_queue))
       [] OTHER -> s]

EnqueueEvent(what, c, d) ==
  [s \in Ios |->
     Update(d)[CASE what = "request" -> [s EXCEPT !.request_queue = Append(@, c)]
                 [] what = "reply" -> [s EXCEPT !.reply_queue = Append(@, c)]
                 [] what = "ack" -> [s EXCEPT !.ack_queue = Append(@, c)]]]

FinishIOCtl_NoNext(s, d) ==
  LET rest == [s EXCEPT !.m_commands_to_execute = Tail(@)] IN
  EnqueueEvent("reply", Head(s.m_commands_to_execute), d)[rest]

\* With EnqueueReply_Immediate(), and the next command if there is one.
FinishIOCtl(s, d) ==
  LET rest == [s EXCEPT !.m_commands_to_execute = Tail(@)]
      answered == EnqueueEvent("reply", Head(s.m_commands_to_execute), d)[rest] IN
  IF answered.m_commands_to_execute # <<>> THEN StartIOCtl[answered] ELSE answered

-----------------------------------------------------------------------------
(* Steps of the CPU thread *)

Reading(s) == \E i \in DOMAIN s.events : s.events[i].what = "FinishRead"

\* The handler turns s into t; if it began a read, the DVD thread is told.
Becomes(s, t) ==
  /\ ios' = t
  /\ IF Reading(t) /\ ~Reading(s)
     THEN drive!StartRead(Head(t.m_commands_to_execute))
     ELSE UNCHANGED dvd

\* Each write to a register ends in the same way.
Write(s) ==
  \E d \in Delays : Becomes(ios, ScheduleUpdate(0)[Update(d)[s]])

\* Of commands that differ in nothing but their address it does not matter which is sent.
FirstFree(S) ==
  LET free == {c \in S : status[c] = "free"} IN
  IF free = {} THEN Nothing ELSE CHOOSE c \in free : TRUE

\* The guest does not send a command again before it has been answered; it launches a title
\* when it has no more use for the disc, and then waits.
Send(c) ==
  /\ power = "on"
  /\ c \in {FirstFree(Files), FirstFree(Discs), FirstFree(Launches), FirstFree(Missing)}
  /\ sends < MaxSends /\ sends + swaps < MaxAsked /\ sends' = sends + 1
  /\ \A l \in Titles : status[l] = "free"
  /\ c \in Titles => \A r \in Discs : status[r] = "free"
  /\ Write(Schedule(Latency, "request", c)[ios])
  /\ status' = [status EXCEPT ![c] = "sent"]
  /\ unanswered' = IF c \in Files THEN Append(unanswered, c) ELSE unanswered
  /\ result' = IF c \in Discs THEN [result EXCEPT ![c] = "none"] ELSE result
  /\ UNCHANGED <<power, swaps, boots>>

\* InOrder says which of the Files this answers.
TakeReply ==
  /\ power = "on" /\ ios.Y1
  /\ Write([ios EXCEPT !.Y1 = FALSE])
  /\ status' = [status EXCEPT ![ios.arm_msg] = "free"]
  /\ unanswered' = IF ios.arm_msg \in Files THEN Tail(unanswered) ELSE unanswered
  /\ UNCHANGED <<result, power, counts>>

\* The second acknowledgement of a launch is its answer: the new title knows of nothing else,
\* and a launch that failed leaves the old one with what it has sent.
TakeAck ==
  /\ power = "on" /\ ios.Y2
  /\ Write([ios EXCEPT !.Y2 = FALSE])
  /\ \/ /\ status[ios.arm_msg] = "sent"
        /\ status' = [status EXCEPT ![ios.arm_msg] = "acked"] /\ UNCHANGED unanswered
     \/ /\ status[ios.arm_msg] # "sent" /\ ios.arm_msg \in Missing
        /\ status' = [status EXCEPT ![ios.arm_msg] = "free"] /\ UNCHANGED unanswered
     \/ /\ status[ios.arm_msg] # "sent" /\ ios.arm_msg \notin Missing
        /\ status' = NoCommand /\ unanswered' = <<>>
  /\ UNCHANGED <<result, power, counts>>

ClearFlag_NoUpdate ==
  /\ power = "on" /\ ios.ppc_irq_flags
  /\ Becomes(ios, ScheduleUpdate(0)[[ios EXCEPT !.ppc_irq_flags = FALSE]])
  /\ UNCHANGED <<guest, result, power, counts>>

\* The write to PPC_IRQFLAG that ends the guest's handling of an interrupt.
ClearFlag ==
  /\ power = "on" /\ ios.ppc_irq_flags
  /\ Write([ios EXCEPT !.ppc_irq_flags = FALSE])
  /\ UNCHANGED <<guest, result, power, counts>>

\* A write to PPC_IRQMASK: a booting guest starts over.
Reset ==
  /\ power = "on" /\ ios.m_commands_to_execute = <<>> /\ ios.ack_queue = <<>>
  /\ Write([ResetQueues(ios) EXCEPT !.Y1 = FALSE, !.Y2 = FALSE, !.ppc_irq_flags = FALSE,
                                    !.arm_msg = Nothing])
  /\ status' = NoCommand /\ unanswered' = <<>>
  /\ UNCHANGED <<result, power, counts>>

\* The next event, when its time has come.
Due == power = "on" /\ ios.events # <<>> /\ Head(ios.events).due = 0
Rest == [ios EXCEPT !.events = Tail(@)]

DispatchIpc ==
  /\ Due
  /\ LET e == Head(ios.events) IN
     \/ /\ e.what \in Enqueued
        /\ \E d \in Delays : Becomes(Rest, EnqueueEvent(e.what, e.cmd, d)[Rest])
     \/ /\ e.what = "irq" /\ Becomes(Rest, UpdateInterrupts[Rest])
  /\ UNCHANGED <<guest, result, power, counts>>

FinishRead_NoWait ==
  /\ Due /\ Head(ios.events).what = "FinishRead"
  /\ result' = [result EXCEPT ![request] = IF s_dvd_buffer = request THEN "data" ELSE "wrong"]
  /\ \E d \in Delays : Becomes(Rest, FinishIOCtl(Rest, d))
  /\ UNCHANGED <<guest, power, counts>>

FinishRead ==
  /\ Due /\ Head(ios.events).what = "FinishRead" /\ drive!WaitUntilIdle
  /\ result' = [result EXCEPT ![request] = IF s_dvd_buffer = request THEN "data" ELSE "wrong"]
  /\ \E d \in Delays : Becomes(Rest, FinishIOCtl(Rest, d))
  /\ UNCHANGED <<guest, power, counts>>

FinishCommand ==
  /\ Due /\ Head(ios.events).what = "FinishCommand"
  /\ result' = [result EXCEPT ![Head(ios.m_commands_to_execute)] = "error"]
  /\ \E d \in Delays : Becomes(Rest, FinishIOCtl(Rest, d))
  /\ UNCHANGED <<guest, power, counts>>

\* The host has the CPU thread paused while it schedules both; nothing keeps it from asking for
\* another disc before the last has been inserted.
ChangeDisc ==
  /\ power = "on" /\ swaps < MaxSwaps /\ sends + swaps < MaxAsked
  /\ ios' = Schedule(SwapTime, "insert", Nothing)[Schedule(0, "eject", Nothing)[ios]]
  /\ swaps' = swaps + 1
  /\ UNCHANGED <<guest, result, power, sends, boots, dvd>>

EjectDisc ==
  /\ Due /\ Head(ios.events).what = "eject" /\ drive!WaitUntilIdle
  /\ ios' = [Rest EXCEPT !.volume = 0]
  /\ UNCHANGED <<guest, result, power, counts, dvd>>

\* What SetVolumeName() opens is not what was open before: the new disc, the old one if the new
\* is not valid, or, if that is gone too, none.
Opened == {0, IF ios.volume = 1 THEN 2 ELSE 1}

InsertDisc_NoWait ==
  /\ Due /\ Head(ios.events).what = "insert"
  /\ \E v \in Opened : ios' = [Rest EXCEPT !.volume = v]
  /\ UNCHANGED <<guest, result, power, counts, dvd>>

InsertDisc ==
  /\ Due /\ Head(ios.events).what = "insert" /\ drive!WaitUntilIdle
  /\ \E v \in Opened : ios' = [Rest EXCEPT !.volume = v]
  /\ UNCHANGED <<guest, result, power, counts, dvd>>

Elapse_Overdue ==
  /\ power = "on" /\ (ios.events # <<>> \/ ios.last_reply > 0)
  /\ ios' = [ios EXCEPT !.events = [i \in DOMAIN ios.events |->
                                      [ios.events[i] EXCEPT !.due = ios.events[i].due - 1]],
                        !.last_reply = IF @ > 0 THEN @ - 1 ELSE 0]
  /\ UNCHANGED <<guest, result, power, counts, dvd>>

Elapse ==
  /\ power = "on" /\ ~Due /\ (ios.events # <<>> \/ ios.last_reply > 0)
  /\ ios' = [ios EXCEPT !.events = [i \in DOMAIN ios.events |->
                                      [ios.events[i] EXCEPT !.due = ios.events[i].due - 1]],
                        !.last_reply = IF @ > 0 THEN @ - 1 ELSE 0]
  /\ UNCHANGED <<guest, result, power, counts, dvd>>

-----------------------------------------------------------------------------
(* The machine is switched on and off *)

Boot ==
  /\ power = "off" /\ boots < MaxBoots
  /\ ios' = Fresh /\ status' = NoCommand /\ unanswered' = <<>> /\ result' = NoResult
  /\ power' = "boot" /\ boots' = boots + 1
  /\ drive!Start
  /\ UNCHANGED <<sends, swaps>>

\* CBoot::BootUp() opens the disc of the game, and the guest starts.
BootDisc ==
  /\ power = "boot" /\ drive!WaitUntilIdle
  /\ ios' = [ios EXCEPT !.volume = 1] /\ power' = "on"
  /\ UNCHANGED <<guest, result, counts, dvd>>

Shutdown_SignalFirst ==
  \/ /\ power = "on" /\ power' = "flag" /\ drive!StopSignal
     /\ UNCHANGED <<ios, guest, result, counts>>
  \/ /\ power = "flag" /\ power' = "join" /\ drive!StopFlag
     /\ UNCHANGED <<ios, guest, result, counts>>
  \/ /\ power = "join" /\ power' = "off" /\ drive!StopJoin
     /\ ios' = [ios EXCEPT !.volume = 0] /\ UNCHANGED <<guest, result, counts>>

Shutdown ==
  \/ /\ power = "on" /\ power' = "flag" /\ drive!StopFlag
     /\ UNCHANGED <<ios, guest, result, counts>>
  \/ /\ power = "flag" /\ power' = "join" /\ drive!StopSignal
     /\ UNCHANGED <<ios, guest, result, counts>>
  \/ /\ power = "join" /\ power' = "off" /\ drive!StopJoin
     /\ ios' = [ios EXCEPT !.volume = 0] /\ UNCHANGED <<guest, result, counts>>

DVDThread == drive!DVDStep /\ UNCHANGED <<ios, guest, result, power, counts>>

\* The handler of an interrupt takes the messages before it clears the flag.
Guest == TakeReply \/ TakeAck \/ (ClearFlag /\ ~ios.Y1 /\ ~ios.Y2)
Dispatch == DispatchIpc \/ FinishRead \/ FinishCommand \/ EjectDisc \/ InsertDisc

Next ==
  \/ \E c \in Commands : Send(c)
  \/ TakeReply \/ TakeAck \/ ClearFlag \/ Reset \/ Dispatch \/ ChangeDisc \/ Elapse
  \/ Boot \/ BootDisc \/ Shutdown \/ DVDThread

Spec == Init /\ [][Next]_vars

\* Time passes, the DVD thread and the thread that shuts down run, and the guest handles
\* its interrupts.
FairSpec ==
  /\ Spec
  /\ WF_vars(Dispatch \/ Elapse) /\ WF_vars(Guest)
  /\ WF_vars(DVDThread) /\ WF_vars(power # "on" /\ Shutdown)

-----------------------------------------------------------------------------
(* Properties *)

\* WII_IPC_HLE.cpp:569: nobody polls the queues, so that whenever the mailbox is free there
\* is nothing left to put into it: whatever frees the mailbox has to call Update().
NoStall ==
  power = "on" /\ IsReady(ios) =>
    ios.request_queue = <<>> /\ ios.reply_queue = <<>> /\ ios.ack_queue = <<>>

\* WII_IPC_HLE.cpp:519 ("Ensure replies happen in order"), WII_IPC.cpp:238: a reply is shown
\* to a guest that has taken the acknowledgement of its command from the one mailbox before,
\* and of the commands whose devices answer after a delay, whatever the delays, it is that of
\* the command that was sent first.
InOrder ==
  power = "on" /\ ios.Y1 =>
    /\ status[ios.arm_msg] = "acked"
    /\ ios.arm_msg \in Files => unanswered # <<>> /\ Head(unanswered) = ios.arm_msg

\* DVDThread.cpp:132: what the guest is given when a read completes is what that read read,
\* however long the host took over it, in every session in which no signal of the session before
\* is met (:72, :105: Stop() leaves start_working or done_working set).
RightData ==
  power = "on" /\ ~leftover /\ ios.Y1 /\ ios.arm_msg \in Discs =>
    result[ios.arm_msg] \in {"data", "error"}

\* DVDInterface.cpp:411, 421, 457: the disc is not closed or exchanged while the DVD thread
\* reads it, neither by an ejection, nor by an insertion (several may be pending), nor by a
\* shutdown; in the sessions of RightData.
DiscStaysForRead ==
  [][~leftover /\ thread = "read" => ios'.volume = ios.volume]_vars

\* Everything that was sent is answered once the guest sends no more, as long as the machine
\* is on and the guest handles its interrupts: no reply is lost between devices, queues,
\* mailbox and the DVD thread.
Served == status # NoCommand ~> status = NoCommand \/ power # "on"

\* DVDThread.cpp:65: Stop() joins the thread, wherever a read that the guest did not wait for
\* has left it: the flag has to be seen by whoever takes the signal.
StopReturns == power \in {"flag", "join"} ~> power = "off"
=============================================================================
