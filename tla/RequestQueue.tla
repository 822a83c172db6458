---------------------------- MODULE RequestQueue ----------------------------
(***************************************************************************)
(* What AsyncRequests (VideoCommon/AsyncRequests.h) promises to the CPU    *)
(* thread: requests to the renderer are carried out in the order in which  *)
(* they were made, and one that the thread waits for has been carried out, *)
(* and all before it, when the thread goes on.  Requests are only ever     *)
(* dropped by switching the queue off, all at once.                        *)
(*                                                                         *)
(* Locks, flags, the condition variable and the GPU thread are left out.   *)
(***************************************************************************)
EXTENDS Integers, Sequences

CONSTANTS
  Requests,  \* what may be asked of the renderer
  Blocking,  \* those that the CPU thread waits for
  Mergeable  \* the sequences of them that one call of the renderer may carry out

VARIABLES
  pending,   \* requests made and not yet carried out, oldest first
  enabled,
  waiting,   \* the CPU thread waits for the last of them
  rendered   \* the request that was carried out last, in a sequence, or none

vars == <<pending, enabled, waiting, rendered>>

Init == pending = <<>> /\ enabled = FALSE /\ waiting = FALSE /\ rendered = <<>>

Push(r) ==
  /\ enabled /\ ~waiting
  /\ pending' = Append(pending, r)
  /\ waiting' = (r \in Blocking)
  /\ UNCHANGED <<enabled, rendered>>

\* Before the GPU thread takes over, and after it has ended, the caller does it himself.
PassThrough(r) ==
  /\ ~waiting /\ pending = <<>>
  /\ rendered' = <<r>>
  /\ UNCHANGED <<pending, enabled, waiting>>

Handle(n) ==
  /\ n \in 1 .. Len(pending)
  /\ SubSeq(pending, 1, n) \in Mergeable
  /\ rendered' = <<pending[n]>>
  /\ pending' = SubSeq(pending, n + 1, Len(pending))
  /\ UNCHANGED <<enabled, waiting>>

Return ==
  /\ waiting /\ pending = <<>>
  /\ waiting' = FALSE
  /\ UNCHANGED <<pending, enabled, rendered>>

Enable == ~enabled /\ enabled' = TRUE /\ UNCHANGED <<pending, waiting, rendered>>

Disable == enabled' = FALSE /\ pending' = <<>> /\ UNCHANGED <<waiting, rendered>>

Next ==
  \/ \E r \in Requests : Push(r) \/ PassThrough(r)
  \/ \E n \in 1 .. Len(pending) : Handle(n)
  \/ Return \/ Enable \/ Disable

Spec == Init /\ [][Next]_vars
=============================================================================
