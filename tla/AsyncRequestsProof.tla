------------------------- MODULE AsyncRequestsProof -------------------------
(***************************************************************************)
(* Proofs about AsyncRequests, for queues of any length.  The queue does   *)
(* what RequestQueue says because the request that the CPU thread waits    *)
(* for is the last one and never merged with those before it: the queue    *)
(* cannot be empty while pokes are in the GPU thread's hand.               *)
(***************************************************************************)
EXTENDS AsyncRequests, SequenceTheorems, TLAPS

\* PushEvent() holds the mutex while it wakes the GPU loop.
Held == m_mutex <=> cpu = "runGpu"

\* What the GPU thread has in hand without the mutex, and that nobody takes it away.
InHand ==
  /\ gpu = "poke" => e # <<>> /\ SameType(e, Len(e))
  /\ gpu = "handle" => m_queue # <<>> /\ e = <<m_queue[1]>>
  /\ gpu = "pop" => m_queue # <<>>

\* The flags say where the GPU thread is; while requests are not queued, none is.
Switched ==
  /\ m_enable <=> gpu \notin {"off", "enable", "passthroughOn", "join"}
  /\ m_passthrough <=> gpu \in {"off", "enable", "passthrough", "join"}
  /\ ~m_enable \/ m_passthrough => m_queue = <<>>

\* The request that the CPU thread waits for is the last, and no poke is in hand without it.
LastBlocks ==
  /\ cpu \in {"parked", "woken"} => request \in Blocking
  /\ Waiting /\ m_queue # <<>> => m_queue[Len(m_queue)] \in Blocking
  /\ Waiting /\ gpu = "poke" => m_queue # <<>>

IInv == Held /\ InHand /\ Switched /\ LastBlocks

-----------------------------------------------------------------------------
LEMMA Splitting ==
  ASSUME NEW S, NEW q \in Seq(S), NEW n \in 1 .. Len(q)
  PROVE  /\ q # <<>>
         /\ SubSeq(q, 1, n) \in Seq(S) /\ Len(SubSeq(q, 1, n)) = n
         /\ \A i \in 1 .. n : SubSeq(q, 1, n)[i] = q[i]
         /\ SubSeq(q, n + 1, Len(q)) \in Seq(S)
         /\ Len(SubSeq(q, n + 1, Len(q))) = Len(q) - n
         /\ \A i \in 1 .. Len(q) - n : SubSeq(q, n + 1, Len(q))[i] = q[n + i]
         /\ SubSeq(q, 1, n) \o SubSeq(q, n + 1, Len(q)) = q
<1>1. Len(q) \in Nat /\ n \in Int /\ n \in 0 .. Len(q) /\ \A i \in 1 .. Len(q) : q[i] \in S
  BY ElementOfSeq, LenProperties
<1>2. q # <<>>
  BY <1>1, EmptySeq
<1>3. /\ SubSeq(q, 1, n) \in Seq(S) /\ Len(SubSeq(q, 1, n)) = n
      /\ \A i \in 1 .. n : SubSeq(q, 1, n)[i] = q[i]
  <2>1. \A i \in 1 .. n : q[i] \in S
    BY <1>1
  <2>2. /\ SubSeq(q, 1, n) \in Seq(S)
        /\ Len(SubSeq(q, 1, n)) = IF 1 <= n THEN n - 1 + 1 ELSE 0
        /\ \A i \in 1 .. n - 1 + 1 : SubSeq(q, 1, n)[i] = q[1 + i - 1]
    BY <1>1, <2>1, SubSeqProperties
  <2>3. QED
    BY <1>1, <2>2
<1>4. /\ SubSeq(q, n + 1, Len(q)) \in Seq(S)
      /\ Len(SubSeq(q, n + 1, Len(q))) = Len(q) - n
      /\ \A i \in 1 .. Len(q) - n : SubSeq(q, n + 1, Len(q))[i] = q[n + i]
  <2>1. \A i \in n + 1 .. Len(q) : q[i] \in S
    BY <1>1
  <2>2. /\ SubSeq(q, n + 1, Len(q)) \in Seq(S)
        /\ Len(SubSeq(q, n + 1, Len(q)))
             = IF n + 1 <= Len(q) THEN Len(q) - (n + 1) + 1 ELSE 0
        /\ \A i \in 1 .. Len(q) - (n + 1) + 1 :
             SubSeq(q, n + 1, Len(q))[i] = q[(n + 1) + i - 1]
    BY <1>1, <2>1, n + 1 \in Int, Len(q) \in Int, SubSeqProperties
  <2>3. QED
    BY <1>1, <2>2
<1>5. SubSeq(q, 1, n) \o SubSeq(q, n + 1, Len(q)) = q
  <2>1. SubSeq(q, 1, n) \o SubSeq(q, n + 1, Len(q)) = SubSeq(q, 1, Len(q))
    BY <1>1, 1 \in 1 .. Len(q) + 1, n \in 1 - 1 .. Len(q), Len(q) \in n .. Len(q),
       ConcatAdjacentSubSeq
  <2>2. QED
    BY <2>1, SubSeqFull
<1>6. QED
  BY <1>2, <1>3, <1>4, <1>5

LEMMA Joining ==
  ASSUME NEW S, NEW s \in Seq(S), s # <<>>, NEW q \in Seq(S)
  PROVE  /\ s \o q \in Seq(S) /\ Len(s \o q) \in Nat
         /\ Len(s) \in 1 .. Len(s \o q)
         /\ SubSeq(s \o q, 1, Len(s)) = s
         /\ (s \o q)[Len(s)] = s[Len(s)]
         /\ SubSeq(s \o q, Len(s) + 1, Len(s \o q)) = q
<1> DEFINE p == s \o q
<1>1. /\ Len(s) \in Nat \ {0} /\ Len(q) \in Nat
      /\ p \in Seq(S) /\ Len(p) = Len(s) + Len(q)
      /\ \A i \in 1 .. Len(p) : p[i] = IF i <= Len(s) THEN s[i] ELSE q[i - Len(s)]
  <2>1. Len(s) \in Nat \ {0} /\ Len(q) \in Nat
    BY EmptySeq, LenProperties
  <2>2. QED
    BY <2>1, ConcatProperties
<1>2. Len(s) \in 1 .. Len(p) /\ p[Len(s)] = s[Len(s)]
  BY <1>1
<1> HIDE DEF p
<1>3. /\ SubSeq(p, 1, Len(s)) \in Seq(S) /\ Len(SubSeq(p, 1, Len(s))) = Len(s)
      /\ \A i \in 1 .. Len(s) : SubSeq(p, 1, Len(s))[i] = p[i]
      /\ SubSeq(p, Len(s) + 1, Len(p)) \in Seq(S)
      /\ Len(SubSeq(p, Len(s) + 1, Len(p))) = Len(p) - Len(s)
      /\ \A i \in 1 .. Len(p) - Len(s) : SubSeq(p, Len(s) + 1, Len(p))[i] = p[Len(s) + i]
  BY <1>1, <1>2, Splitting
<1>4. SubSeq(p, 1, Len(s)) = s
  <2>1. \A i \in 1 .. Len(s) : SubSeq(p, 1, Len(s))[i] = s[i]
    BY <1>1, <1>3
  <2>2. QED
    BY <2>1, <1>3, SeqEqual
<1>5. SubSeq(p, Len(s) + 1, Len(p)) = q
  <2>1. Len(SubSeq(p, Len(s) + 1, Len(p))) = Len(q)
    BY <1>1, <1>3
  <2>2. ASSUME NEW i \in 1 .. Len(q) PROVE SubSeq(p, Len(s) + 1, Len(p))[i] = q[i]
    <3>1. i \in 1 .. Len(p) - Len(s) /\ Len(s) + i \in 1 .. Len(p)
          /\ ~(Len(s) + i <= Len(s)) /\ (Len(s) + i) - Len(s) = i
      BY <1>1
    <3>2. p[Len(s) + i] = q[(Len(s) + i) - Len(s)]
      BY <1>1, <3>1
    <3>3. QED
      BY <1>3, <3>1, <3>2
  <2>3. QED
    BY <2>1, <2>2, <1>3, SeqEqual
<1>6. QED
  BY <1>1, <1>2, <1>4, <1>5 DEF p

LEMMA Appending ==
  ASSUME NEW S, NEW s \in Seq(S), NEW q \in Seq(S), NEW r \in S
  PROVE  /\ Append(q, r) \in Seq(S) /\ Append(q, r) # <<>>
         /\ Append(q, r)[Len(Append(q, r))] = r
         /\ s \o Append(q, r) = Append(s \o q, r)
         /\ q # <<>> => Append(q, r)[1] = q[1] /\ Tail(Append(q, r)) = Append(Tail(q), r)
<1>1. /\ Append(q, r) \in Seq(S) /\ Append(q, r) # <<>>
      /\ Len(Append(q, r)) = Len(q) + 1 /\ Append(q, r)[Len(q) + 1] = r
      /\ \A i \in 1 .. Len(q) : Append(q, r)[i] = q[i]
  BY AppendProperties
<1>2. s \o Append(q, r) = Append(s \o q, r)
  <2>1. <<r>> \in Seq(S) /\ s \o q \in Seq(S)
    BY ConcatProperties
  <2>2. Append(q, r) = q \o <<r>> /\ Append(s \o q, r) = (s \o q) \o <<r>>
    BY <2>1, AppendIsConcat
  <2>3. QED
    BY <2>1, <2>2, ConcatAssociative
<1>3. q # <<>> => Append(q, r)[1] = q[1] /\ Tail(Append(q, r)) = Append(Tail(q), r)
  BY <1>1, EmptySeq, HeadTailAppend
<1>4. QED
  BY <1>1, <1>2, <1>3

LEMMA Removing ==
  ASSUME NEW S, NEW q \in Seq(S), q # <<>>
  PROVE  /\ Len(q) \in Nat \ {0} /\ q[1] \in S
         /\ Tail(q) \in Seq(S) /\ Tail(q) = SubSeq(q, 2, Len(q))
         /\ SubSeq(q, 1, 1) = <<q[1]>>
         /\ Tail(q) # <<>> => Tail(q)[Len(Tail(q))] = q[Len(q)]
<1>1. Len(q) \in Nat \ {0}
  BY EmptySeq
<1>2. /\ Tail(q) \in Seq(S) /\ Len(Tail(q)) = Len(q) - 1
      /\ \A i \in 1 .. Len(Tail(q)) : Tail(q)[i] = q[i + 1]
  BY HeadTailProperties
<1>3. Tail(q) = SubSeq(q, 2, Len(q))
  BY TailIsSubSeq
<1>4. q[1] \in S
  BY <1>1, ElementOfSeq
<1>5. SubSeq(q, 1, 1) = <<q[1]>>
  <2>1. 1 \in 1 .. Len(q)
    BY <1>1
  <2>2. /\ SubSeq(q, 1, 1) \in Seq(S) /\ Len(SubSeq(q, 1, 1)) = 1
        /\ \A i \in 1 .. 1 : SubSeq(q, 1, 1)[i] = q[i]
    BY <2>1, Splitting
  <2>3. <<q[1]>> \in Seq(S) /\ Len(<<q[1]>>) = 1 /\ <<q[1]>>[1] = q[1]
    BY <1>4
  <2>4. \A i \in 1 .. Len(SubSeq(q, 1, 1)) : SubSeq(q, 1, 1)[i] = <<q[1]>>[i]
    BY <2>2, <2>3
  <2>5. QED
    BY <2>2, <2>3, <2>4, SeqEqual
<1>6. Tail(q) # <<>> => Tail(q)[Len(Tail(q))] = q[Len(q)]
  <2>1. SUFFICES ASSUME Tail(q) # <<>> PROVE Tail(q)[Len(Tail(q))] = q[Len(q)]
    OBVIOUS
  <2>2. Len(Tail(q)) \in Nat \ {0}
    BY <1>2, <2>1, EmptySeq
  <2>3. QED
    BY <1>1, <1>2, <2>2
<1>7. QED
  BY <1>1, <1>2, <1>3, <1>4, <1>5, <1>6

\* What the loop of PullEventsInternal() does with the queue it finds.
LEMMA Pulled ==
  ASSUME TypeOK, NEW q \in Seq(Requests), Pull(q)
  PROVE  /\ m_queue' \in Seq(Requests) /\ e' \in Seq(Requests)
         /\ m_wake_me_up_again' \in BOOLEAN /\ gpu' \in {"work", "poke", "handle"}
         /\ cpu' = cpu \/ (cpu = "parked" /\ cpu' = "woken")
         /\ gpu' = "work" => q = <<>> /\ m_queue' = <<>>
         /\ gpu' = "handle" => q # <<>> /\ m_queue' = q /\ e' = <<q[1]>>
         /\ gpu' = "poke" => /\ e' # <<>> /\ SameType(e', Len(e')) /\ e' \o m_queue' = q
                             /\ q # <<>> /\ (q[Len(q)] \in Blocking => m_queue' # <<>>)
         /\ m_queue' # <<>> => q # <<>> /\ m_queue'[Len(m_queue')] = q[Len(q)]
<1>1. CASE q = <<>> /\ m_queue' = q /\ e' = <<>> /\ gpu' = "work"
           /\ (IF m_wake_me_up_again THEN NotifyAll ELSE UNCHANGED cpu)
           /\ m_wake_me_up_again' = FALSE
  BY <1>1 DEF NotifyAll, TypeOK
<1>2. ASSUME NEW n \in 1 .. Len(q), SameType(q, n), n < Len(q) => ~SameType(q, n + 1),
             e' = SubSeq(q, 1, n), m_queue' = SubSeq(q, n + 1, Len(q)), gpu' = "poke",
             UNCHANGED <<m_wake_me_up_again, cpu>>
      PROVE  /\ m_queue' \in Seq(Requests) /\ e' \in Seq(Requests)
             /\ m_wake_me_up_again' \in BOOLEAN
             /\ q # <<>> /\ e' # <<>> /\ SameType(e', Len(e')) /\ e' \o m_queue' = q
             /\ q[Len(q)] \in Blocking => m_queue' # <<>>
             /\ m_queue' # <<>> => m_queue'[Len(m_queue')] = q[Len(q)]
  <2>1. /\ q # <<>>
        /\ e' \in Seq(Requests) /\ Len(e') = n /\ \A i \in 1 .. n : e'[i] = q[i]
        /\ m_queue' \in Seq(Requests) /\ Len(m_queue') = Len(q) - n
        /\ \A i \in 1 .. Len(q) - n : m_queue'[i] = q[n + i]
        /\ e' \o m_queue' = q
    BY <1>2, Splitting
  <2>2. Len(q) \in Nat /\ n \in Nat \ {0}
    BY LenProperties
  <2>3. e' # <<>> /\ SameType(e', Len(e'))
    <3>1. e' # <<>>
      BY <2>1, <2>2, EmptySeq
    <3>2. \A i \in 1 .. n : e'[i].type = e'[1].type
      BY <2>1, <2>2, <1>2 DEF SameType
    <3>3. e'[1].type \in Pokes
      BY <2>1, <2>2, <1>2 DEF SameType
    <3>4. QED
      BY <3>1, <3>2, <3>3, <2>1 DEF SameType
  <2>4. q[Len(q)] \in Blocking => m_queue' # <<>>
    <3>1. SUFFICES ASSUME m_queue' = <<>> PROVE q[Len(q)] \notin Blocking
      OBVIOUS
    <3>2. n = Len(q)
      BY <3>1, <2>1, <2>2, EmptySeq
    <3>3. q[Len(q)].type \in Pokes
      BY <3>2, <2>2, <1>2 DEF SameType
    <3>4. QED
      BY <3>3 DEF Blocking, Pokes
  <2>5. m_queue' # <<>> => m_queue'[Len(m_queue')] = q[Len(q)]
    <3>1. SUFFICES ASSUME m_queue' # <<>> PROVE m_queue'[Len(m_queue')] = q[Len(q)]
      OBVIOUS
    <3>2. Len(q) - n \in 1 .. Len(q) - n
      BY <3>1, <2>1, <2>2, EmptySeq
    <3>3. \A i \in 1 .. Len(q) - n : i = Len(q) - n => m_queue'[i] = q[Len(q)]
      BY <2>1, <2>2
    <3>4. QED
      BY <3>2, <3>3, <2>1
  <2>6. QED
    BY <2>1, <2>3, <2>4, <2>5, <1>2 DEF TypeOK
<1>3. CASE q # <<>> /\ q[1].type \notin Pokes /\ e' = <<q[1]>> /\ m_queue' = q
           /\ gpu' = "handle" /\ UNCHANGED <<m_wake_me_up_again, cpu>>
  <2>1. <<q[1]>> \in Seq(Requests)
    BY <1>3, Removing
  <2>2. QED
    BY <1>3, <2>1 DEF TypeOK
<1>4. QED
  BY <1>1, <1>2, <1>3 DEF Pull

-----------------------------------------------------------------------------
LEMMA EitherIsBoolean == ASSUME NEW A, NEW B PROVE (A \/ B) \in BOOLEAN
  OBVIOUS

LEMMA TypeStep == TypeOK /\ IInv /\ [Next]_vars => TypeOK'
<1> SUFFICES ASSUME TypeOK, IInv, [Next]_vars PROVE TypeOK'
  OBVIOUS
<1> USE DEF TypeOK, CpuPCs, GpuPCs, HostPCs, queueVars, loop, cpuVars, hostVars,
            CpuGoto, GpuGoto, HostGoto, s_gpu_mainloop!TypeOK, s_gpu_mainloop!States,
            s_gpu_mainloop!Phases
<1>1. ASSUME NEW r \in Requests, Call(r) PROVE TypeOK'
  BY <1>1 DEF Call
<1>2. CASE PassThrough
  BY <1>2 DEF PassThrough
<1>3. CASE Refuse
  <2>1. m_wake_me_up_again' \in BOOLEAN
    BY <1>3, EitherIsBoolean, Zenon DEF Refuse
  <2>2. /\ UNCHANGED <<m_queue, m_enable, m_passthrough, m_mutex, e, rendered, request, gpu,
                       loop, hostVars>>
        /\ m_empty' = FALSE /\ cpu' = "guest"
    BY <1>3 DEF Refuse
  <2>3. {m_empty', m_enable', m_passthrough', m_wake_me_up_again', m_mutex'} \subseteq BOOLEAN
    BY <2>1, <2>2
  <2>4. s_gpu_mainloop!TypeOK' /\ s_emu_running_state' \in BOOLEAN /\ host' \in HostPCs
    BY <2>2
  <2>5. QED
    BY <2>2, <2>3, <2>4
<1>4. CASE Enqueue
  <2>1. m_queue' \in Seq(Requests)
    BY <1>4, AppendProperties DEF Enqueue
  <2>2. m_wake_me_up_again' \in BOOLEAN
    BY <1>4, EitherIsBoolean, Zenon DEF Enqueue
  <2>3. /\ UNCHANGED <<m_enable, m_passthrough, e, rendered, request, gpu, loop, hostVars>>
        /\ m_empty' = FALSE /\ m_mutex' = TRUE /\ cpu' = "runGpu"
    BY <1>4 DEF Enqueue
  <2>4. {m_empty', m_enable', m_passthrough', m_wake_me_up_again', m_mutex'} \subseteq BOOLEAN
    BY <2>2, <2>3
  <2>5. s_gpu_mainloop!TypeOK' /\ s_emu_running_state' \in BOOLEAN /\ host' \in HostPCs
    BY <2>3
  <2>6. QED
    BY <2>1, <2>3, <2>4, <2>5
<1>5. CASE RunGpu
  <2>1. cpu' \in CpuPCs /\ m_running_state' = "need"
    BY <1>5 DEF RunGpu, s_gpu_mainloop!Wakeup
  <2>2. {m_empty', m_enable', m_passthrough', m_wake_me_up_again', m_mutex'} \subseteq BOOLEAN
    BY <1>5 DEF RunGpu
  <2>3. s_gpu_mainloop!TypeOK'
    BY <1>5 DEF RunGpu, s_gpu_mainloop!Wakeup
  <2>4. /\ m_queue' \in Seq(Requests) /\ e' \in Seq(Requests) /\ rendered' \in Seq(Requests)
        /\ request' \in Requests /\ gpu' \in GpuPCs
        /\ s_emu_running_state' \in BOOLEAN /\ host' \in HostPCs
    BY <1>5 DEF RunGpu
  <2>5. QED
    BY <2>1, <2>2, <2>3, <2>4
<1>6. CASE SpuriousWakeup \/ TestEmpty \/ LeaveGuest
  BY <1>6 DEF SpuriousWakeup, TestEmpty, LeaveGuest
<1>7. CASE Gpu
  <2> USE DEF gpuShared, NotifyAll
  <2>1. CASE SetEnable
    BY <2>1 DEF SetEnable
  <2>2. ASSUME NEW from \in GpuPCs, NEW to \in GpuPCs, NEW enable \in BOOLEAN,
               SetPassthrough(from, to, enable)
        PROVE  TypeOK'
    BY <2>2 DEF SetPassthrough
  <2>3. CASE SetDisable
    <3>1. cpu' \in CpuPCs
      BY <2>3 DEF SetDisable
    <3>2. m_queue' = <<>> /\ m_queue' \in Seq(Requests)
      BY <2>3, EmptySeq DEF SetDisable
    <3>3. QED
      BY <2>3, <3>1, <3>2 DEF SetDisable
  <2>4. CASE Enter
    BY <2>4 DEF Enter, s_gpu_mainloop!Enter
  <2>5. CASE TestRunning \/ PullEvents
    BY <2>5 DEF TestRunning, PullEvents
  <2>6. CASE PullEventsInternal
    BY <2>6, Pulled DEF PullEventsInternal
  <2>7. CASE PokeEFB
    <3>1. e # <<>> /\ e[Len(e)] \in Requests
      <4>1. e # <<>>
        BY <2>7 DEF PokeEFB, IInv, InHand
      <4>2. Len(e) \in 1 .. Len(e)
        BY <4>1, EmptySeq
      <4>3. QED
        BY <4>1, <4>2, ElementOfSeq
    <3>2. QED
      BY <2>7, <3>1 DEF PokeEFB
  <2>8. CASE HandleEvent
    BY <2>8 DEF HandleEvent
  <2>9. CASE PullMore
    <3>1. CASE gpu = "again" /\ Pull(m_queue)
      BY <2>9, <3>1, Pulled DEF PullMore
    <3>2. CASE gpu = "pop" /\ Pull(Tail(m_queue))
      <4>1. Tail(m_queue) \in Seq(Requests)
        BY <3>2, Removing DEF IInv, InHand
      <4>2. /\ m_queue' \in Seq(Requests) /\ e' \in Seq(Requests)
            /\ m_wake_me_up_again' \in BOOLEAN /\ gpu' \in {"work", "poke", "handle"}
            /\ cpu' = cpu \/ (cpu = "parked" /\ cpu' = "woken")
        BY <3>2, <4>1, Pulled
      <4>3. QED
        BY <2>9, <4>2 DEF PullMore
    <3>3. QED
      BY <2>9, <3>1, <3>2 DEF PullMore
  <2>10. ASSUME NEW to \in GpuPCs, Work(to) PROVE TypeOK'
    BY <2>10 DEF Work
  <2>11. CASE Finish
    BY <2>11 DEF Finish, s_gpu_mainloop!Finish, s_gpu_mainloop!Lower
  <2>12. CASE BetweenPayloads
    BY <2>12 DEF BetweenPayloads, s_gpu_mainloop!Doze, s_gpu_mainloop!Leave,
                 s_gpu_mainloop!Close
  <2>13. CASE Join
    BY <2>13 DEF Join
  <2>14. QED
    BY <1>7, <2>1, <2>2, <2>3, <2>4, <2>5, <2>6, <2>7, <2>8, <2>9, <2>10, <2>11, <2>12,
       <2>13 DEF Gpu
<1>8. CASE User
  BY <1>8 DEF User, HostCall, Resume, Boot, hostShared
<1>9. CASE HostContinues
  <2> USE DEF hostShared
  <2>1. ASSUME NEW from \in HostPCs, NEW to \in HostPCs, NEW running \in BOOLEAN,
               StoreRunning(from, to, running)
        PROVE  TypeOK'
    BY <2>1 DEF StoreRunning
  <2>2. ASSUME NEW from \in HostPCs, NEW to \in HostPCs,
               HostWakeup(from, to) \/ HostCall(from, to)
        PROVE  TypeOK'
    BY <2>2 DEF HostWakeup, HostCall, s_gpu_mainloop!Wakeup
  <2>3. CASE FlushGpu \/ ExitShutdown
    BY <2>3 DEF FlushGpu, ExitShutdown, s_gpu_mainloop!Stop
  <2>4. QED
    BY <1>9, <2>1, <2>2, <2>3 DEF HostContinues
<1>10. CASE UNCHANGED vars
  BY <1>10 DEF vars
<1>11. QED
  BY <1>1, <1>2, <1>3, <1>4, <1>5, <1>6, <1>7, <1>8, <1>9, <1>10
     DEF Next, CpuContinues

\* Steps of the host, and of the GPU thread between two requests, leave the queue alone.
Quiet ==
  /\ UNCHANGED <<m_queue, m_enable, m_passthrough, m_mutex, e, rendered, request>>
  /\ \/ UNCHANGED cpu
     \/ {cpu, cpu'} \subseteq {"off", "guest", "paused", "push"}
     \/ cpu = "parked" /\ cpu' = "woken"
     \/ cpu = "woken" /\ cpu' = "parked"
  /\ \/ UNCHANGED gpu
     \/ {gpu, gpu'} \subseteq {"loop", "test", "pull", "lock", "work", "end", "disable"}
     \/ {gpu, gpu'} \subseteq {"off", "enable", "join"}

LEMMA QuietStep == IInv /\ Quiet => IInv' /\ UNCHANGED Queue!vars
<1> SUFFICES ASSUME IInv, Quiet PROVE IInv' /\ UNCHANGED Queue!vars
  OBVIOUS
<1>1. Waiting' = Waiting /\ Unhandled' = Unhandled
  BY DEF Quiet, Waiting, Unhandled
<1>2. Held' /\ InHand'
  BY DEF IInv, Quiet, Held, InHand
<1>3. Switched'
  BY DEF IInv, Quiet, Switched
<1>4. LastBlocks'
  BY <1>1 DEF IInv, Quiet, LastBlocks, Waiting
<1>5. QED
  BY <1>1, <1>2, <1>3, <1>4 DEF IInv, Quiet, Queue!vars

LEMMA CallerStep ==
  ASSUME TypeOK, IInv, CpuContinues \/ \E r \in Requests : Call(r)
  PROVE  IInv' /\ [Queue!Next]_(Queue!vars)
<1> USE DEF CpuGoto, queueVars, loop, cpuVars, hostVars
<1>0. Held /\ InHand /\ Switched /\ LastBlocks /\ m_queue \in Seq(Requests)
      /\ e \in Seq(Requests) /\ request \in Requests
  BY DEF IInv, TypeOK
<1>1. ASSUME NEW r \in Requests, Call(r) PROVE IInv' /\ UNCHANGED Queue!vars
  <2>1. ~Waiting /\ ~Waiting' /\ Waiting' = Waiting /\ Unhandled' = Unhandled
    BY <1>1 DEF Call, Waiting, Unhandled
  <2>2. Held' /\ InHand' /\ Switched'
    BY <1>0, <1>1 DEF Call, Held, InHand, Switched
  <2>3. LastBlocks'
    BY <2>1, <1>1 DEF Call, LastBlocks
  <2>4. QED
    BY <2>1, <2>2, <2>3, <1>1 DEF Call, IInv, Queue!vars
<1>2. CASE PassThrough
  <2>1. ~Waiting /\ ~Waiting' /\ Waiting' = Waiting /\ Unhandled' = Unhandled
    BY <1>2 DEF PassThrough, Waiting, Unhandled
  <2>2. Held' /\ InHand' /\ Switched'
    BY <1>0, <1>2 DEF PassThrough, Held, InHand, Switched
  <2>3. LastBlocks'
    BY <2>1, <1>2 DEF PassThrough, LastBlocks
  <2>4. Unhandled = <<>>
    BY <1>0, <1>2 DEF PassThrough, Switched, Unhandled
  <2>5. Queue!PassThrough(request)
    BY <2>1, <2>4, <1>2 DEF PassThrough, Queue!PassThrough
  <2>6. QED
    BY <2>2, <2>3, <2>5, <1>0 DEF IInv, Queue!Next
<1>3. CASE Refuse
  BY <1>3, QuietStep DEF Refuse, Quiet
<1>4. CASE Enqueue
  <2>1. /\ m_queue' = Append(m_queue, request) /\ m_queue' # <<>>
        /\ m_queue'[Len(m_queue')] = request
        /\ e \o m_queue' = Append(e \o m_queue, request)
        /\ m_queue # <<>> => /\ m_queue'[1] = m_queue[1]
                             /\ Tail(m_queue') = Append(Tail(m_queue), request)
    BY SMTT(30), <1>0, <1>4, Appending DEF Enqueue
  <2>2. UNCHANGED <<e, gpu, request, m_enable, m_passthrough, rendered>>
        /\ cpu = "push" /\ cpu' = "runGpu" /\ ~m_passthrough /\ m_enable /\ m_mutex'
    BY <1>4 DEF Enqueue
  <2>3. Unhandled' = Append(Unhandled, request)
    BY <2>1, <2>2, <1>0 DEF Unhandled, InHand
  <2>4. ~Waiting /\ Waiting' = (request \in Blocking)
    BY <2>2 DEF Waiting
  <2>5. Queue!Push(request)
    BY <2>2, <2>3, <2>4 DEF Queue!Push
  <2>6. Held' /\ InHand' /\ Switched'
    BY <2>1, <2>2, <1>0 DEF Held, InHand, Switched
  <2>7. LastBlocks'
    BY <2>1, <2>2, <2>4 DEF LastBlocks
  <2>8. QED
    BY <2>5, <2>6, <2>7, <1>0 DEF IInv, Queue!Next
<1>5. CASE RunGpu
  <2>1. UNCHANGED <<m_queue, e, gpu, request, m_enable, m_passthrough, rendered>>
        /\ cpu = "runGpu" /\ ~m_mutex'
        /\ cpu' = IF request \in Blocking THEN "parked" ELSE "guest"
    BY <1>5 DEF RunGpu
  <2>2. Waiting' = Waiting /\ Unhandled' = Unhandled
    BY <2>1 DEF Waiting, Unhandled
  <2>3. Held' /\ InHand' /\ Switched'
    BY <2>1, <1>0 DEF Held, InHand, Switched
  <2>4. LastBlocks'
    BY <2>1, <2>2, <1>0 DEF LastBlocks
  <2>5. QED
    BY <2>1, <2>2, <2>3, <2>4 DEF IInv, Queue!vars
<1>6. CASE TestEmpty
  <2>1. CASE m_queue # <<>>
    BY <1>6, <2>1, QuietStep DEF TestEmpty, Quiet
  <2>2. CASE m_queue = <<>>
    <3>1. UNCHANGED <<m_queue, e, gpu, request, m_enable, m_passthrough, rendered, m_mutex>>
          /\ cpu = "woken" /\ cpu' = "guest"
      BY <1>6, <2>2 DEF TestEmpty
    <3>2. Waiting /\ ~Waiting'
      BY <3>1, <1>0 DEF Waiting, LastBlocks
    <3>3. Unhandled = <<>> /\ Unhandled' = <<>>
      BY <3>1, <3>2, <2>2, <1>0 DEF Unhandled, LastBlocks, InHand
    <3>4. Queue!Return
      BY <3>1, <3>2, <3>3 DEF Queue!Return
    <3>5. Held' /\ InHand' /\ Switched'
      BY <3>1, <1>0 DEF Held, InHand, Switched
    <3>6. LastBlocks'
      BY <3>1, <3>2 DEF LastBlocks
    <3>7. QED
      BY <3>4, <3>5, <3>6 DEF IInv, Queue!Next
  <2>3. QED
    BY <2>1, <2>2
<1>7. QED
  BY <1>1, <1>2, <1>3, <1>4, <1>5, <1>6 DEF CpuContinues

\* The loop of PullEventsInternal() takes requests in hand; nothing is visible from outside.
LEMMA PullStep ==
  ASSUME TypeOK, IInv, NEW q \in Seq(Requests), Pull(q), Unhandled = q, ~m_mutex,
         gpu \in {"lock", "again", "pop"},
         q # <<>> => m_queue # <<>> /\ q[Len(q)] = m_queue[Len(m_queue)],
         UNCHANGED <<m_enable, m_passthrough, m_mutex, rendered, request>>
  PROVE  IInv' /\ UNCHANGED Queue!vars
<1>1. Held /\ InHand /\ Switched /\ LastBlocks
  BY DEF IInv
<1>2. /\ m_queue' \in Seq(Requests) /\ e' \in Seq(Requests)
      /\ gpu' \in {"work", "poke", "handle"}
      /\ cpu' = cpu \/ (cpu = "parked" /\ cpu' = "woken")
      /\ gpu' = "work" => q = <<>> /\ m_queue' = <<>>
      /\ gpu' = "handle" => q # <<>> /\ m_queue' = q /\ e' = <<q[1]>>
      /\ gpu' = "poke" => /\ e' # <<>> /\ SameType(e', Len(e')) /\ e' \o m_queue' = q
                          /\ q # <<>> /\ (q[Len(q)] \in Blocking => m_queue' # <<>>)
      /\ m_queue' # <<>> => q # <<>> /\ m_queue'[Len(m_queue')] = q[Len(q)]
  BY Pulled
<1>3. Waiting' = Waiting
  BY <1>2 DEF Waiting
<1>4. Unhandled' = Unhandled
  BY <1>2 DEF Unhandled
<1>5. Held'
  BY <1>1, <1>2 DEF Held
<1>6. InHand'
  BY <1>2 DEF InHand
<1>7. Switched'
  BY <1>1, <1>2 DEF Switched
<1>8. LastBlocks'
  BY <1>1, <1>2, <1>3 DEF LastBlocks
<1>9. QED
  BY <1>3, <1>4, <1>5, <1>6, <1>7, <1>8 DEF IInv, Queue!vars

LEMMA GpuStep ==
  ASSUME TypeOK, IInv, Gpu
  PROVE  IInv' /\ [Queue!Next]_(Queue!vars)
<1> USE DEF GpuGoto, gpuShared, queueVars, loop, hostVars
<1>0. Held /\ InHand /\ Switched /\ LastBlocks /\ m_queue \in Seq(Requests)
      /\ e \in Seq(Requests)
  BY DEF IInv, TypeOK
<1>1. CASE SetEnable
  <2>1. UNCHANGED <<m_queue, m_passthrough, m_mutex, e, rendered, cpu, request>>
        /\ m_enable' /\ gpu = "enable" /\ gpu' = "passthrough" /\ m_enable' = TRUE
    BY <1>1 DEF SetEnable
  <2>2. Waiting' = Waiting /\ Unhandled' = Unhandled
    BY <2>1 DEF Waiting, Unhandled
  <2>3. Queue!Enable
    BY <2>1, <2>2, <1>0 DEF Queue!Enable, Switched
  <2>4. Held' /\ InHand' /\ Switched'
    BY <2>1, <1>0 DEF Held, InHand, Switched
  <2>5. LastBlocks'
    BY <2>1, <2>2, <1>0 DEF LastBlocks
  <2>6. QED
    BY <2>3, <2>4, <2>5 DEF IInv, Queue!Next
<1>2. CASE SetPassthrough("passthrough", "loop", FALSE)
           \/ SetPassthrough("passthroughOn", "join", TRUE)
  <2>1. UNCHANGED <<m_queue, m_enable, m_mutex, e, rendered, cpu, request>>
        /\ \/ gpu = "passthrough" /\ gpu' = "loop" /\ ~m_passthrough'
           \/ gpu = "passthroughOn" /\ gpu' = "join" /\ m_passthrough'
    BY <1>2 DEF SetPassthrough
  <2>2. Waiting' = Waiting /\ Unhandled' = Unhandled
    BY <2>1 DEF Waiting, Unhandled
  <2>3. Held' /\ InHand' /\ Switched'
    BY <2>1, <1>0 DEF Held, InHand, Switched
  <2>4. LastBlocks'
    BY <2>1, <2>2, <1>0 DEF LastBlocks
  <2>5. QED
    BY <2>1, <2>2, <2>3, <2>4 DEF IInv, Queue!vars
<1>3. CASE SetDisable
  <2>1. UNCHANGED <<m_passthrough, m_mutex, e, rendered, request>>
        /\ ~m_enable' /\ m_enable' = FALSE /\ m_queue' = <<>>
        /\ gpu = "disable" /\ gpu' = "passthroughOn"
        /\ (cpu' = cpu \/ (cpu = "parked" /\ cpu' = "woken"))
    BY <1>3 DEF SetDisable, NotifyAll
  <2>2. Waiting' = Waiting /\ Unhandled' = <<>>
    BY <2>1 DEF Waiting, Unhandled
  <2>3. Queue!Disable
    BY <2>1, <2>2 DEF Queue!Disable
  <2>4. Held' /\ InHand' /\ Switched'
    BY <2>1, <1>0 DEF Held, InHand, Switched
  <2>5. LastBlocks'
    BY <2>1, <1>0 DEF LastBlocks
  <2>6. QED
    BY <2>3, <2>4, <2>5 DEF IInv, Queue!Next
<1>4. CASE Enter \/ TestRunning \/ PullEvents \/ Work("pull") \/ Work("end") \/ Finish
           \/ BetweenPayloads \/ Join
  <2>1. Quiet
    BY <1>4 DEF Enter, TestRunning, PullEvents, Work, Finish, BetweenPayloads, Join, Quiet
  <2>2. QED
    BY <2>1, QuietStep
<1>5. CASE PullEventsInternal
  BY <1>5, <1>0, PullStep DEF PullEventsInternal, Unhandled
<1>6. CASE PullMore
  <2>1. UNCHANGED <<m_enable, m_passthrough, m_mutex, rendered, request>> /\ ~m_mutex
    BY <1>6 DEF PullMore
  <2>2. CASE gpu = "again" /\ Pull(m_queue)
    BY <2>1, <2>2, <1>0, PullStep DEF Unhandled
  <2>3. CASE gpu = "pop" /\ Pull(Tail(m_queue))
    <3>1. m_queue # <<>> /\ Unhandled = Tail(m_queue)
      BY <2>3, <1>0 DEF InHand, Unhandled
    <3>2. /\ Tail(m_queue) \in Seq(Requests)
          /\ Tail(m_queue) # <<>>
               => Tail(m_queue)[Len(Tail(m_queue))] = m_queue[Len(m_queue)]
      BY <3>1, <1>0, Removing
    <3>3. QED
      BY <2>1, <2>3, <3>1, <3>2, PullStep
  <2>4. QED
    BY <1>6, <2>2, <2>3 DEF PullMore
<1>7. CASE PokeEFB
  <2>1. UNCHANGED <<m_queue, m_enable, m_passthrough, m_mutex, cpu, request>>
        /\ gpu = "poke" /\ gpu' = "again" /\ rendered' = <<e[Len(e)]>>
    BY <1>7 DEF PokeEFB
  <2>2. e # <<>> /\ SameType(e, Len(e))
    BY <2>1, <1>0 DEF InHand
  <2>3. Unhandled = e \o m_queue /\ Unhandled' = m_queue /\ Waiting' = Waiting
    BY <2>1 DEF Unhandled, Waiting
  <2>4. /\ Len(e) \in 1 .. Len(Unhandled)
        /\ SubSeq(Unhandled, 1, Len(e)) = e
        /\ Unhandled[Len(e)] = e[Len(e)]
        /\ SubSeq(Unhandled, Len(e) + 1, Len(Unhandled)) = m_queue
    BY <2>2, <2>3, <1>0, Joining
  <2>5. Queue!Handle(Len(e))
    BY <2>1, <2>2, <2>3, <2>4, <1>0 DEF Queue!Handle
  <2>6. Held' /\ InHand' /\ Switched'
    BY <2>1, <1>0 DEF Held, InHand, Switched
  <2>7. LastBlocks'
    BY <2>1, <2>3, <1>0 DEF LastBlocks
  <2>8. QED
    BY <2>4, <2>5, <2>6, <2>7 DEF IInv, Queue!Next
<1>8. CASE HandleEvent
  <2>1. UNCHANGED <<m_queue, m_enable, m_passthrough, m_mutex, cpu, request>>
        /\ gpu = "handle" /\ gpu' = "pop" /\ rendered' = e
    BY <1>8 DEF HandleEvent
  <2>2. m_queue # <<>> /\ e = <<m_queue[1]>>
    BY <2>1, <1>0 DEF InHand
  <2>3. Unhandled = m_queue /\ Unhandled' = Tail(m_queue) /\ Waiting' = Waiting
    BY <2>1 DEF Unhandled, Waiting
  <2>4. /\ Len(m_queue) \in Nat \ {0} /\ Tail(m_queue) = SubSeq(m_queue, 2, Len(m_queue))
        /\ SubSeq(m_queue, 1, 1) = <<m_queue[1]>> /\ 1 \in 1 .. Len(m_queue)
        /\ <<m_queue[1]>> \in Seq(Requests) /\ Len(<<m_queue[1]>>) = 1
    BY <2>2, <1>0, Removing
  <2>5. Queue!Handle(1)
    BY <2>1, <2>2, <2>3, <2>4 DEF Queue!Handle
  <2>6. Held' /\ InHand' /\ Switched'
    BY <2>1, <2>2, <1>0 DEF Held, InHand, Switched
  <2>7. LastBlocks'
    BY <2>1, <2>3, <1>0 DEF LastBlocks
  <2>8. QED
    BY <2>3, <2>4, <2>5, <2>6, <2>7 DEF IInv, Queue!Next
<1>9. QED
  BY <1>1, <1>2, <1>3, <1>4, <1>5, <1>6, <1>7, <1>8 DEF Gpu

LEMMA Step ==
  ASSUME TypeOK, IInv, [Next]_vars
  PROVE  IInv' /\ [Queue!Next]_(Queue!vars)
<1>1. CASE CpuContinues \/ \E r \in Requests : Call(r)
  BY <1>1, CallerStep
<1>2. CASE Gpu
  BY <1>2, GpuStep
<1>3. CASE SpuriousWakeup \/ LeaveGuest \/ User \/ HostContinues \/ UNCHANGED vars
  <2> USE DEF CpuGoto, GpuGoto, HostGoto, queueVars, cpuVars, hostShared, Quiet
  <2>1. CASE SpuriousWakeup \/ LeaveGuest
    BY <2>1, QuietStep DEF SpuriousWakeup, LeaveGuest
  <2>2. CASE User
    BY <2>2, QuietStep DEF User, HostCall, Resume, Boot
  <2>3. CASE HostContinues
    <3>1. Quiet
      BY <2>3 DEF HostContinues, StoreRunning, HostWakeup, HostCall, FlushGpu, ExitShutdown
    <3>2. QED
      BY <3>1, QuietStep
  <2>4. CASE UNCHANGED vars
    BY <2>4, QuietStep DEF vars
  <2>5. QED
    BY <1>3, <2>1, <2>2, <2>3, <2>4
<1>4. QED
  BY <1>1, <1>2, <1>3 DEF Next

LEMMA Start == Init => TypeOK /\ IInv /\ Queue!Init
<1> SUFFICES ASSUME Init PROVE TypeOK /\ IInv /\ Queue!Init
  OBVIOUS
<1>1. <<>> \in Seq(Requests)
  BY EmptySeq
<1>2. TypeOK
  BY <1>1 DEF Init, TypeOK, CpuPCs, GpuPCs, HostPCs, s_gpu_mainloop!TypeOK,
              s_gpu_mainloop!States, s_gpu_mainloop!Phases
<1>3. IInv
  BY DEF Init, IInv, Held, InHand, Switched, LastBlocks, Waiting
<1>4. Unhandled = <<>> /\ Waiting = FALSE
  BY DEF Init, Unhandled, Waiting
<1>5. Queue!Init
  BY <1>4 DEF Init, Queue!Init
<1>6. QED
  BY <1>2, <1>3, <1>5

-----------------------------------------------------------------------------
\* Every reachable state is well typed, and the invariant of the argument holds: among other
\* things the front of the queue stays what the GPU thread handles while it has released the
\* mutex, so that line 60 pops the request that line 57 handled (AsyncRequests.cpp:20-93).
THEOREM TypeAndInvariant == Spec => [](TypeOK /\ IInv)
<1>1. TypeOK /\ IInv /\ [Next]_vars => TypeOK' /\ IInv'
  BY TypeStep, Step
<1>2. QED
  BY <1>1, Start, PTL DEF Spec

\* However long the queue, requests are carried out in order and once, and one that the CPU
\* thread waits for before it goes on (AsyncRequests.cpp:50-60, 91).
THEOREM Refinement == Spec => ImplementsQueue
<1>1. TypeOK /\ IInv /\ [Next]_vars => [Queue!Next]_(Queue!vars)
  BY Step
<1>2. QED
  BY <1>1, Start, TypeAndInvariant, PTL DEF Spec, ImplementsQueue, Queue!Spec
=============================================================================
