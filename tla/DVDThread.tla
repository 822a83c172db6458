----------------------------- MODULE DVDThread -----------------------------
(***************************************************************************)
(* The thread that reads the disc (Core/HW/DVDThread.cpp), and what the    *)
(* CPU thread does with it.  A pair of Common::Events hands the parameters *)
(* and the buffer to and fro; each has one waiter, so that a wait takes    *)
(* the signal as TriggerReleasesOneWait of CommonProof says.               *)
(*                                                                         *)
(* A read is named by the command it is for; `Nothing' stands for what is  *)
(* in the parameters and in the buffer before the first.                   *)
(***************************************************************************)
CONSTANT Reads, Nothing

VARIABLES
  thread,          \* "off", or its place in the loop: "ready", "wait", "woken", "read"
  start_working, done_working, exiting,
  request,         \* s_dvd_offset, s_length, s_output_address
  s_dvd_buffer,    \* the read whose data it holds
  leftover         \* history: a signal of the session before was left in start_working, or
                   \* taken from done_working by a read

DVDTypeOK ==
  /\ thread \in {"off", "ready", "wait", "woken", "read"}
  /\ {start_working, done_working, exiting, leftover} \subseteq BOOLEAN
  /\ {request, s_dvd_buffer} \subseteq Reads \cup {Nothing}

DVDInit ==
  /\ thread = "off" /\ leftover = FALSE
  /\ start_working = FALSE /\ done_working = FALSE /\ exiting = FALSE
  /\ request = Nothing /\ s_dvd_buffer = Nothing

-----------------------------------------------------------------------------
(* The CPU thread, and the thread that starts and stops the machine *)

Start ==
  /\ thread = "off" /\ thread' = "ready"
  /\ UNCHANGED <<start_working, done_working, exiting, request, s_dvd_buffer, leftover>>

\* The caller waits for done_working, and takes it.  A thread that has not been to its loop
\* has not set it: then it is that of the session before.
StartRead(r) ==
  /\ done_working /\ done_working' = FALSE
  /\ request' = r /\ start_working' = TRUE
  /\ leftover' = (leftover \/ thread = "ready")
  /\ UNCHANGED <<thread, exiting, s_dvd_buffer>>

\* The event is taken and set again.
WaitUntilIdle == done_working

StopFlag ==
  /\ thread # "off" /\ ~exiting /\ exiting' = TRUE
  /\ UNCHANGED <<thread, start_working, done_working, request, s_dvd_buffer, leftover>>

StopSignal ==
  /\ start_working' = TRUE
  /\ UNCHANGED <<thread, done_working, exiting, request, s_dvd_buffer, leftover>>

StopJoin ==
  /\ thread = "off" /\ exiting' = FALSE /\ leftover' = start_working
  /\ UNCHANGED <<thread, start_working, done_working, request, s_dvd_buffer>>

-----------------------------------------------------------------------------
(* The DVD thread *)

Ready ==
  /\ thread = "ready" /\ thread' = "wait" /\ done_working' = TRUE
  /\ UNCHANGED <<start_working, exiting, request, s_dvd_buffer, leftover>>

Wake ==
  /\ thread = "wait" /\ start_working
  /\ thread' = "woken" /\ start_working' = FALSE
  /\ UNCHANGED <<done_working, exiting, request, s_dvd_buffer, leftover>>

Look ==
  /\ thread = "woken" /\ thread' = IF exiting THEN "off" ELSE "read"
  /\ UNCHANGED <<start_working, done_working, exiting, request, s_dvd_buffer, leftover>>

\* After a leftover signal a StartRead() may change the parameters, and an insertion the disc,
\* under this step: what the buffer then holds is anything, and nothing is claimed of it.
Read ==
  /\ thread = "read" /\ thread' = "ready" /\ s_dvd_buffer' = request
  /\ UNCHANGED <<start_working, done_working, exiting, request, leftover>>

DVDStep == Ready \/ Wake \/ Look \/ Read
=============================================================================
