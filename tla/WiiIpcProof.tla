---------------------------- MODULE WiiIpcProof ----------------------------
(***************************************************************************)
(* Proofs about the Wii's IPC and the disc drive, for any commands, delays *)
(* and latencies and any number of discs and sessions.                     *)
(*                                                                         *)
(* The argument: a command that was sent is in one place, an event that    *)
(* enqueues it, a queue, the drive or the mailbox.  A function h from      *)
(* commands to places says where, and the lists of ios hold exactly what   *)
(* h says (Holds), what the guest knows of a command limits where it may   *)
(* be (Life), and of two Files in different places the one that is nearer  *)
(* to the guest was sent before (InLine).  h is not a variable: for every  *)
(* step there is an h after it if there was one before.                    *)
(*                                                                         *)
(* The drive has one completion scheduled exactly when it has a command    *)
(* (DriveOk); the DVD thread is somewhere on its way with that command's   *)
(* read (Attends), but for a session that meets a signal of the last.      *)
(* Update() leaves nothing in a queue when the mailbox is free (Idle).     *)
(*                                                                         *)
(* In order: the lists of events; the queues; the drive; the state as a    *)
(* whole; the helpers of the model, one lemma each; the actions; results.  *)
(***************************************************************************)
EXTENDS WiiIpc, FiniteSetTheorems, SequenceTheorems, WellFoundedInduction, TLAPS

-----------------------------------------------------------------------------
(* Lists of events: what is put in, taken out and left.                        *)

Sorted(e) == \A i, j \in 1 .. Len(e) : i < j => e[i].due <= e[j].due

\* f is e with x put in after the first k.
Inserted(e, x, k, f) ==
  /\ k \in 0 .. Len(e) /\ f \in Seq(Events) /\ Len(f) = Len(e) + 1
  /\ \A i \in 1 .. k : f[i] = e[i]
  /\ f[k + 1] = x
  /\ \A i \in k + 1 .. Len(e) : f[i + 1] = e[i]
  /\ \A i \in 1 .. k : e[i].due <= x.due
  /\ \A i \in k + 1 .. Len(e) : x.due < e[i].due

\* A set of numbers that is not empty has a least.
LEMMA Smallest ==
  ASSUME NEW T, T \subseteq Nat, T # {}
  PROVE  \E m \in T : \A n \in T : m <= n
<1>1. PICK m \in T : \A n \in T : ~(<<n, m>> \in OpToRel(<, Nat))
  BY NatLessThanWellFounded, WFMin
<1>2. \A n \in T : ~(n < m)
  BY <1>1 DEF OpToRel
<1> QED
  BY <1>2

LEMMA EventTypes ==
  ASSUME NEW e \in Seq(Events)
  PROVE  /\ Len(e) \in Nat /\ DOMAIN e = 1 .. Len(e)
         /\ \A i \in 1 .. Len(e) : /\ e[i] \in Events /\ e[i].due \in Nat /\ e[i].what \in Kinds
                                  /\ e[i].cmd \in Commands \cup {Nothing}
<1>1. \A i \in 1 .. Len(e) : e[i] \in Events
  OBVIOUS
<1>2. \A x \in Events : x.due \in Nat /\ x.what \in Kinds /\ x.cmd \in Commands \cup {Nothing}
  BY DEF Events
<1> QED
  BY <1>1, <1>2

\* The place that Earlier() computes: those before it are due, those after it are not.
LEMMA EarlierIs ==
  ASSUME NEW s, s.events \in Seq(Events), Sorted(s.events), NEW due \in Nat
  PROVE  /\ Earlier(s, due) \in 0 .. Len(s.events)
         /\ \A i \in 1 .. Earlier(s, due) : s.events[i].due <= due
         /\ \A i \in Earlier(s, due) + 1 .. Len(s.events) : due < s.events[i].due
<1> DEFINE e == s.events
           later == {i \in 1 .. Len(e) : e[i].due > due}
<1>1. /\ Len(e) \in Nat /\ DOMAIN e = 1 .. Len(e)
      /\ \A i \in 1 .. Len(e) : e[i].due \in Nat
  BY EventTypes
<1>2. Earlier(s, due) = Len(e) - Cardinality(later)
  BY <1>1 DEF Earlier
<1>0. /\ later \subseteq 1 .. Len(e) /\ later \subseteq Nat
      /\ \A i \in 1 .. Len(e) : i \in later <=> due < e[i].due
  BY <1>1
<1> HIDE DEF later
<1>3. CASE later = {}
  <2>1. Cardinality(later) = 0
    BY <1>3, FS_EmptySet
  <2> QED
    BY <1>0, <1>1, <1>2, <1>3, <2>1
<1>4. CASE later # {}
  <2>1. PICK m \in later : \A n \in later : m <= n
    BY <1>0, <1>4, Smallest
  <2>2. later = m .. Len(e)
    <3>1. ASSUME NEW i \in m .. Len(e) PROVE i \in later
      <4>1. i \in 1 .. Len(e) /\ m \in 1 .. Len(e) /\ m <= i
        BY <1>0, <1>1, <2>1
      <4>2. e[m].due <= e[i].due
        BY <1>1, <4>1 DEF Sorted
      <4> QED
        BY <1>0, <1>1, <2>1, <4>1, <4>2
    <3>2. ASSUME NEW i \in later PROVE i \in m .. Len(e)
      BY <1>0, <1>1, <2>1
    <3> QED
      BY <3>1, <3>2
  <2>3. m \in 1 .. Len(e) /\ Cardinality(later) = Len(e) - m + 1
    <3>1. m \in 1 .. Len(e) /\ m \in Int /\ Len(e) \in Int /\ ~(m > Len(e))
      BY <1>0, <1>1, <2>1
    <3> QED
      BY <2>2, <3>1, FS_Interval
  <2>4. Earlier(s, due) = m - 1
    BY <1>1, <1>2, <2>3
  <2>5. ASSUME NEW i \in 1 .. m - 1 PROVE e[i].due <= due
    <3>1. i \in 1 .. Len(e) /\ i \notin m .. Len(e)
      BY <1>1, <2>3
    <3> QED
      BY <1>0, <1>1, <2>2, <3>1
  <2>6. ASSUME NEW i \in m .. Len(e) PROVE due < e[i].due
    BY <1>0, <1>1, <2>2, <2>3
  <2> QED
    BY <1>1, <2>3, <2>4, <2>5, <2>6
<1> QED
  BY <1>3, <1>4

\* The types of the fields of the state.
LEMMA Fields ==
  ASSUME NEW s \in Ios
  PROVE  /\ s.Y1 \in BOOLEAN /\ s.Y2 \in BOOLEAN /\ s.ppc_irq_flags \in BOOLEAN
         /\ s.arm_msg \in Commands \cup {Nothing} /\ s.last_reply \in Nat
         /\ s.request_queue \in Seq(Commands) /\ s.reply_queue \in Seq(Commands)
         /\ s.ack_queue \in Seq(Commands) /\ s.m_commands_to_execute \in Seq(Discs)
         /\ s.events \in Seq(Events) /\ s.volume \in 0 .. 2
BY DEF Ios

\* The IOS but for its events.
SameQueues(s, t) ==
  /\ t.request_queue = s.request_queue /\ t.reply_queue = s.reply_queue
  /\ t.ack_queue = s.ack_queue /\ t.m_commands_to_execute = s.m_commands_to_execute
SameMailbox(s, t) ==
  /\ t.Y1 = s.Y1 /\ t.Y2 = s.Y2 /\ t.ppc_irq_flags = s.ppc_irq_flags /\ t.arm_msg = s.arm_msg
SameBut(s, t) ==
  SameQueues(s, t) /\ SameMailbox(s, t) /\ t.volume = s.volume /\ t.last_reply = s.last_reply

\* Nothing but the events changes when the events are replaced.
LEMMA OtherEvents ==
  ASSUME NEW s \in Ios, NEW f \in Seq(Events)
  PROVE  /\ [s EXCEPT !.events = f] \in Ios
         /\ [s EXCEPT !.events = f].events = f
         /\ SameBut(s, [s EXCEPT !.events = f])
BY DEF Ios, SameBut, SameQueues, SameMailbox

\* Schedule() puts the event behind those that are due no later.
LEMMA Scheduling ==
  ASSUME NEW s \in Ios, Sorted(s.events), NEW due \in Nat, NEW what \in Kinds,
         NEW c \in Commands \cup {Nothing}
  PROVE  /\ Schedule(due, what, c)[s] \in Ios
         /\ SameBut(s, Schedule(due, what, c)[s])
         /\ Inserted(s.events, Event(due, what, c), Earlier(s, due), Schedule(due, what, c)[s].events)
         /\ Sorted(Schedule(due, what, c)[s].events)
<1> DEFINE e == s.events
           k == Earlier(s, due)
           x == Event(due, what, c)
           f == SubSeq(e, 1, k) \o <<x>> \o SubSeq(e, k + 1, Len(e))
<1>1. /\ e \in Seq(Events) /\ Len(e) \in Nat
      /\ \A i \in 1 .. Len(e) : e[i] \in Events /\ e[i].due \in Nat
  BY Fields, EventTypes
<1>2. /\ k \in 0 .. Len(e)
      /\ \A i \in 1 .. k : e[i].due <= due
      /\ \A i \in k + 1 .. Len(e) : due < e[i].due
  BY <1>1, EarlierIs
<1>3. x \in Events /\ x.due = due
  BY DEF Event, Events
<1> HIDE DEF k, x
<1>4. Schedule(due, what, c)[s] = [s EXCEPT !.events = f]
  BY DEF Schedule, k, x
<1>5. /\ SubSeq(e, 1, k) \in Seq(Events) /\ Len(SubSeq(e, 1, k)) = k
      /\ \A i \in 1 .. k : SubSeq(e, 1, k)[i] = e[i]
  <2>1. 1 \in Int /\ k \in Int /\ \A i \in 1 .. k : e[i] \in Events
    BY <1>1, <1>2
  <2> HIDE DEF e
  <2> QED
    BY <1>2, <2>1, SubSeqProperties
<1>6. /\ SubSeq(e, k + 1, Len(e)) \in Seq(Events) /\ Len(SubSeq(e, k + 1, Len(e))) = Len(e) - k
      /\ \A i \in 1 .. Len(e) - k : SubSeq(e, k + 1, Len(e))[i] = e[k + i]
  <2>1. k + 1 \in Int /\ Len(e) \in Int /\ \A i \in k + 1 .. Len(e) : e[i] \in Events
    BY <1>1, <1>2
  <2> HIDE DEF e
  <2> QED
    BY <1>1, <1>2, <2>1, SubSeqProperties
<1> DEFINE front == SubSeq(e, 1, k)
           back == SubSeq(e, k + 1, Len(e))
           g == front \o <<x>>
<1>7. <<x>> \in Seq(Events) /\ Len(<<x>>) = 1 /\ <<x>>[1] = x
  BY <1>3
<1>8. /\ g \in Seq(Events) /\ Len(g) = k + 1
      /\ \A i \in 1 .. k : g[i] = e[i]
      /\ g[k + 1] = x
  <2> HIDE DEF e, front
  <2>1. /\ g \in Seq(Events) /\ Len(g) = Len(front) + Len(<<x>>)
        /\ \A i \in 1 .. Len(front) + Len(<<x>>) :
             g[i] = IF i <= Len(front) THEN front[i] ELSE <<x>>[i - Len(front)]
    BY <1>5, <1>7, ConcatProperties DEF front
  <2> QED
    BY <1>2, <1>5, <1>7, <2>1 DEF front
<1>9. /\ f \in Seq(Events) /\ Len(f) = Len(e) + 1
      /\ \A i \in 1 .. k + 1 : f[i] = g[i]
      /\ \A i \in k + 1 .. Len(e) : f[i + 1] = e[i]
  <2> HIDE DEF e, g, back
  <2>0. f = g \o back /\ Len(e) \in Nat
    BY <1>1 DEF g, front, back
  <2>1. /\ g \o back \in Seq(Events) /\ Len(g \o back) = Len(g) + Len(back)
        /\ \A i \in 1 .. Len(g) + Len(back) :
             (g \o back)[i] = IF i <= Len(g) THEN g[i] ELSE back[i - Len(g)]
    BY <1>6, <1>8, ConcatProperties DEF back
  <2>2. \A i \in 1 .. Len(e) - k : back[i] = e[k + i]
    BY <1>6 DEF back
  <2>3. Len(back) = Len(e) - k
    BY <1>6 DEF back
  <2> HIDE DEF f
  <2>4. /\ f \in Seq(Events) /\ Len(f) = Len(e) + 1
        /\ \A i \in 1 .. k + 1 : f[i] = g[i]
    BY <1>2, <1>8, <2>0, <2>1, <2>3
  <2>5. ASSUME NEW i \in k + 1 .. Len(e) PROVE f[i + 1] = e[i]
    <3>1. i + 1 \in 1 .. Len(g) + Len(back) /\ ~(i + 1 <= Len(g)) /\ (i + 1) - Len(g) = i - k
          /\ i - k \in 1 .. Len(e) - k /\ k + (i - k) = i
      BY <1>2, <1>8, <2>0, <2>3
    <3> QED
      BY <2>0, <2>1, <2>2, <3>1
  <2> QED
    BY <2>4, <2>5
<1> HIDE DEF f, g, e
<1>10. Inserted(e, x, k, f)
  BY <1>2, <1>3, <1>8, <1>9 DEF Inserted
<1>0. /\ \A i \in 1 .. k : f[i] = e[i] /\ i \in 1 .. Len(e)
      /\ \A i, j \in 1 .. Len(e) : i < j => e[i].due <= e[j].due
  <2>1. \A i \in 1 .. k : i \in 1 .. k + 1 /\ i \in 1 .. Len(e)
    BY <1>1, <1>2
  <2> QED
    BY <1>8, <1>9, <2>1 DEF Sorted, e
<1>11. ASSUME NEW i \in 1 .. Len(f), NEW j \in 1 .. Len(f), i < j PROVE f[i].due <= f[j].due
  <2>1. CASE j <= k
    <3>1. i \in 1 .. k /\ j \in 1 .. k
      BY <1>2, <1>11, <2>1
    <3> QED
      BY <1>0, <1>11, <3>1
  <2>2. CASE j = k + 1
    BY <1>2, <1>3, <1>8, <1>9, <1>11, <2>2
  <2>3. CASE j > k + 1
    <3>1. j - 1 \in k + 1 .. Len(e) /\ f[j] = e[j - 1] /\ j - 1 \in 1 .. Len(e)
      BY <1>1, <1>2, <1>9, <2>3
    <3>2. CASE i <= k
      <4>1. i \in 1 .. k /\ i < j - 1
        BY <1>2, <2>3, <3>2
      <4> QED
        BY <1>0, <3>1, <4>1
    <3>3. CASE i = k + 1
      <4>1. f[i].due = due /\ due < e[j - 1].due
        BY <1>2, <1>3, <1>8, <1>9, <3>1, <3>3
      <4> QED
        BY <1>1, <3>1, <4>1
    <3>4. CASE i > k + 1
      <4>1. i - 1 \in k + 1 .. Len(e) /\ f[i] = e[i - 1] /\ i - 1 \in 1 .. Len(e) /\ i - 1 < j - 1
        BY SMTT(40), <1>1, <1>2, <1>9, <1>11, <3>4
      <4> QED
        BY <3>1, <4>1 DEF Sorted, e
    <3> QED
      BY <1>2, <3>2, <3>3, <3>4
  <2> QED
    BY <1>2, <2>1, <2>2, <2>3
<1>12. f \in Seq(Events)
  BY <1>9
<1> QED
  BY <1>4, <1>10, <1>11, <1>12, OtherEvents DEF Sorted, e, k, x

\* f is what is left of the first m events of e when those that enqueue are taken out.
Remains(e, m, f) ==
  /\ f \in Seq(Events)
  /\ \E place \in [1 .. Len(f) -> 1 .. m] :
       /\ \A i, j \in 1 .. Len(f) : i < j => place[i] < place[j]
       /\ \A i \in 1 .. Len(f) : f[i] = e[place[i]] /\ f[i].what \notin Enqueued
       /\ \A n \in 1 .. m : e[n].what \notin Enqueued => \E i \in 1 .. Len(f) : place[i] = n

\* One more event is looked at, and kept or not.
LEMMA RemainsOneMore ==
  ASSUME NEW e \in Seq(Events), NEW m \in 0 .. Len(e) - 1, NEW f, Remains(e, m, f)
  PROVE  Remains(e, m + 1, IF e[m + 1].what \in Enqueued THEN f ELSE Append(f, e[m + 1]))
<1>1. /\ Len(e) \in Nat /\ m \in Nat /\ m + 1 \in 1 .. Len(e) /\ e[m + 1] \in Events
      /\ f \in Seq(Events) /\ Len(f) \in Nat
  BY EventTypes DEF Remains
<1>2. PICK place \in [1 .. Len(f) -> 1 .. m] :
        /\ \A i, j \in 1 .. Len(f) : i < j => place[i] < place[j]
        /\ \A i \in 1 .. Len(f) : f[i] = e[place[i]] /\ f[i].what \notin Enqueued
        /\ \A n \in 1 .. m : e[n].what \notin Enqueued => \E i \in 1 .. Len(f) : place[i] = n
  BY DEF Remains
<1>3. CASE e[m + 1].what \in Enqueued
  <2>1. place \in [1 .. Len(f) -> 1 .. m + 1]
    BY <1>1, <1>2
  <2>2. \A n \in 1 .. m + 1 : e[n].what \notin Enqueued => \E i \in 1 .. Len(f) : place[i] = n
    <3> SUFFICES ASSUME NEW n \in 1 .. m + 1, e[n].what \notin Enqueued
                 PROVE  \E i \in 1 .. Len(f) : place[i] = n
      OBVIOUS
    <3>1. n \in 1 .. m
      BY <1>1, <1>3
    <3> QED
      BY <1>2, <3>1
  <2>3. Remains(e, m + 1, f)
    <3> SUFFICES \E to \in [1 .. Len(f) -> 1 .. m + 1] :
                   /\ \A i, j \in 1 .. Len(f) : i < j => to[i] < to[j]
                   /\ \A i \in 1 .. Len(f) : f[i] = e[to[i]] /\ f[i].what \notin Enqueued
                   /\ \A n \in 1 .. m + 1 : e[n].what \notin Enqueued => \E i \in 1 .. Len(f) : to[i] = n
      BY <1>1 DEF Remains
    <3> WITNESS place \in [1 .. Len(f) -> 1 .. m + 1]
    <3> QED
      BY <1>2, <2>2
  <2> QED
    BY <1>3, <2>3
<1>4. CASE e[m + 1].what \notin Enqueued
  <2> DEFINE g == Append(f, e[m + 1])
             last == Len(f) + 1
             to == [i \in 1 .. last |-> IF i = last THEN m + 1 ELSE place[i]]
  <2>1. /\ g \in Seq(Events) /\ Len(g) = last /\ g[last] = e[m + 1]
        /\ \A i \in 1 .. Len(f) : g[i] = f[i]
    BY <1>1
  <2>2. to \in [1 .. last -> 1 .. m + 1]
    BY <1>1, <1>2
  <2>3. /\ to[last] = m + 1
        /\ \A i \in 1 .. last : i # last => to[i] = place[i] /\ i \in 1 .. Len(f) /\ to[i] \in 1 .. m
    BY <1>1, <1>2
  <2> HIDE DEF g, to
  <2>4. \A i, j \in 1 .. last : i < j => to[i] < to[j]
    <3> SUFFICES ASSUME NEW i \in 1 .. last, NEW j \in 1 .. last, i < j PROVE to[i] < to[j]
      OBVIOUS
    <3>1. i # last /\ i \in 1 .. Len(f)
      BY <1>1
    <3>2. CASE j = last
      BY <1>1, <2>3, <3>1, <3>2
    <3>3. CASE j # last
      <4>1. to[i] = place[i] /\ to[j] = place[j] /\ j \in 1 .. Len(f)
        BY <2>3, <3>1, <3>3
      <4> QED
        BY <1>2, <3>1, <4>1
    <3> QED
      BY <3>2, <3>3
  <2>5. \A i \in 1 .. last : g[i] = e[to[i]] /\ g[i].what \notin Enqueued
    <3> SUFFICES ASSUME NEW i \in 1 .. last PROVE g[i] = e[to[i]] /\ g[i].what \notin Enqueued
      OBVIOUS
    <3>1. CASE i = last
      BY <1>4, <2>1, <2>3, <3>1
    <3>2. CASE i # last
      BY <1>2, <2>1, <2>3, <3>2
    <3> QED
      BY <3>1, <3>2
  <2>6. \A n \in 1 .. m + 1 : e[n].what \notin Enqueued => \E i \in 1 .. last : to[i] = n
    <3> SUFFICES ASSUME NEW n \in 1 .. m + 1, e[n].what \notin Enqueued
                 PROVE  \E i \in 1 .. last : to[i] = n
      OBVIOUS
    <3>1. CASE n = m + 1
      <4>1. last \in 1 .. last
        BY <1>1
      <4> QED
        BY <2>3, <3>1, <4>1
    <3>2. CASE n # m + 1
      <4>1. n \in 1 .. m
        BY <1>1, <3>2
      <4>2. PICK i \in 1 .. Len(f) : place[i] = n
        BY <1>2, <4>1
      <4>3. i \in 1 .. last /\ i # last
        BY <1>1
      <4> QED
        BY <2>3, <4>2, <4>3
    <3> QED
      BY <3>1, <3>2
  <2> HIDE DEF last
  <2>7. Remains(e, m + 1, g)
    <3>1. to \in [1 .. Len(g) -> 1 .. m + 1]
      BY <2>1, <2>2
    <3> SUFFICES \E to2 \in [1 .. Len(g) -> 1 .. m + 1] :
                   /\ \A i, j \in 1 .. Len(g) : i < j => to2[i] < to2[j]
                   /\ \A i \in 1 .. Len(g) : g[i] = e[to2[i]] /\ g[i].what \notin Enqueued
                   /\ \A n \in 1 .. m + 1 : e[n].what \notin Enqueued => \E i \in 1 .. Len(g) : to2[i] = n
      BY <2>1 DEF Remains
    <3> WITNESS to \in [1 .. Len(g) -> 1 .. m + 1]
    <3> QED
      BY <2>1, <2>4, <2>5, <2>6
  <2> QED
    BY <1>4, <2>7 DEF g
<1> QED
  BY <1>3, <1>4

\* RemoveAllEvents() is defined by recursion: the function exists, as there is no first place
\* at which it does not, and does what it should, as there is none at which it does not.
LEMMA Removing ==
  ASSUME NEW e \in Seq(Events)
  PROVE  Remains(e, Len(e), RemoveAllEvents(e))
<1> DEFINE next(f, n) == IF e[n].what \in Enqueued THEN f ELSE Append(f, e[n])
           Rec(g, m) == /\ g \in [0 .. m -> Seq(Events)] /\ g[0] = <<>>
                        /\ \A n \in 1 .. m : g[n] = next(g[n - 1], n)
           body(g) == [n \in 0 .. Len(e) |->
                         IF n = 0 THEN <<>>
                         ELSE IF e[n].what \in Enqueued THEN g[n - 1]
                         ELSE Append(g[n - 1], e[n])]
           kept == CHOOSE g : g = body(g)
<1>1. /\ Len(e) \in Nat
      /\ \A n \in 1 .. Len(e) : e[n] \in Events
  BY EventTypes
<1>2. \A n \in 1 .. Len(e) : \A f \in Seq(Events) : next(f, n) \in Seq(Events)
  BY <1>1
<1> HIDE DEF next
<1>3. \A m \in 0 .. Len(e) : \E g : Rec(g, m)
  <2> DEFINE Bad == {m \in 0 .. Len(e) : ~ \E g : Rec(g, m)}
  <2> SUFFICES ASSUME Bad # {} PROVE FALSE
    OBVIOUS
  <2>1. Bad \subseteq Nat
    BY <1>1
  <2>2. PICK m \in Bad : \A n \in Bad : m <= n
    <3> HIDE DEF Bad
    <3> QED
      BY <2>1, Smallest
  <2>3. m \in 0 .. Len(e) /\ ~ \E g : Rec(g, m)
    OBVIOUS
  <2>4. CASE m = 0
    <3>1. [n \in 0 .. 0 |-> <<>>] \in [0 .. 0 -> Seq(Events)]
      OBVIOUS
    <3>2. Rec([n \in 0 .. 0 |-> <<>>], 0)
      BY <3>1
    <3> QED
      BY <2>3, <2>4, <3>2
  <2>5. CASE m # 0
    <3>1. m - 1 \in 0 .. Len(e) /\ m \in 1 .. Len(e)
      BY <1>1, <2>3, <2>5
    <3>2. m - 1 \notin Bad
      <4> HIDE DEF Bad
      <4> QED
        BY <1>1, <2>2, <3>1
    <3>3. PICK g : Rec(g, m - 1)
      BY <3>1, <3>2
    <3> DEFINE h == [n \in 0 .. m |-> IF n = m THEN next(g[m - 1], m) ELSE g[n]]
    <3>4. m - 1 \in 0 .. m - 1 /\ g[m - 1] \in Seq(Events)
      BY <1>1, <3>1, <3>3
    <3>5. h \in [0 .. m -> Seq(Events)]
      BY <1>1, <1>2, <3>1, <3>3, <3>4
    <3>6. h[0] = <<>>
      BY <3>1, <3>3
    <3>7. ASSUME NEW n \in 1 .. m PROVE h[n] = next(h[n - 1], n)
      <4>1. CASE n = m
        <5>1. h[n] = next(g[m - 1], m) /\ h[n - 1] = g[m - 1]
          BY <3>1, <4>1
        <5> QED
          BY <4>1, <5>1
      <4>2. CASE n # m
        <5>1. n \in 1 .. m - 1 /\ n - 1 \in 0 .. m /\ n - 1 # m /\ n \in 0 .. m
          BY <3>1, <4>2
        <5>2. h[n] = g[n] /\ h[n - 1] = g[n - 1]
          BY <4>2, <5>1
        <5> QED
          BY <3>3, <5>1, <5>2
      <4> QED
        BY <4>1, <4>2
    <3> HIDE DEF h
    <3>8. Rec(h, m)
      BY <3>5, <3>6, <3>7
    <3> QED
      BY <2>3, <3>8
  <2> QED
    BY <2>4, <2>5
<1>4. PICK g : Rec(g, Len(e))
  <2>1. Len(e) \in 0 .. Len(e)
    BY <1>1
  <2> HIDE DEF Rec
  <2> QED
    BY <1>3, <2>1
<1>5. g = body(g)
  <2>1. \A n \in 0 .. Len(e) : g[n] = body(g)[n]
    <3> SUFFICES ASSUME NEW n \in 0 .. Len(e) PROVE g[n] = body(g)[n]
      OBVIOUS
    <3>1. CASE n = 0
      BY <1>4, <3>1
    <3>2. CASE n # 0
      <4>1. n \in 1 .. Len(e)
        BY <1>1, <3>2
      <4>2. g[n] = next(g[n - 1], n)
        BY <1>4, <4>1
      <4> QED
        BY <3>2, <4>2 DEF next
    <3> QED
      BY <3>1, <3>2
  <2>2. g \in [0 .. Len(e) -> Seq(Events)]
    BY <1>4
  <2>3. g = [n \in 0 .. Len(e) |-> g[n]]
    BY <2>2
  <2> QED
    BY <2>1, <2>3
<1>6. kept = body(kept)
  <2> HIDE DEF body
  <2> QED
    BY <1>5
<1> HIDE DEF kept
<1>7. kept[0] = <<>> /\ \A n \in 1 .. Len(e) : kept[n] = next(kept[n - 1], n)
  <2>1. \A n \in 0 .. Len(e) : kept[n] = body(kept)[n]
    BY <1>6
  <2>2. 0 \in 0 .. Len(e) /\ \A n \in 1 .. Len(e) : n \in 0 .. Len(e) /\ n # 0
    BY <1>1
  <2> QED
    BY <2>1, <2>2 DEF next
<1>8. \A m \in 0 .. Len(e) : Remains(e, m, kept[m])
  <2> DEFINE Bad == {m \in 0 .. Len(e) : ~ Remains(e, m, kept[m])}
  <2> SUFFICES ASSUME Bad # {} PROVE FALSE
    OBVIOUS
  <2>1. Bad \subseteq Nat
    BY <1>1
  <2>2. PICK m \in Bad : \A n \in Bad : m <= n
    <3> HIDE DEF Bad
    <3> QED
      BY <2>1, Smallest
  <2>3. m \in 0 .. Len(e) /\ ~ Remains(e, m, kept[m])
    OBVIOUS
  <2>4. CASE m = 0
    <3> DEFINE none == [i \in 1 .. 0 |-> 0]
    <3>1. none \in [1 .. Len(<<>>) -> 1 .. 0]
      OBVIOUS
    <3>2. Remains(e, 0, <<>>)
      <4>1. Len(<<>>) = 0 /\ <<>> \in Seq(Events)
        OBVIOUS
      <4>2. /\ \A i, j \in 1 .. Len(<<>>) : FALSE
            /\ \A n \in 1 .. 0 : FALSE
        BY <4>1
      <4> SUFFICES \E place \in [1 .. Len(<<>>) -> 1 .. 0] :
                     /\ \A i, j \in 1 .. Len(<<>>) : i < j => place[i] < place[j]
                     /\ \A i \in 1 .. Len(<<>>) :
                          <<>>[i] = e[place[i]] /\ <<>>[i].what \notin Enqueued
                     /\ \A n \in 1 .. 0 :
                          e[n].what \notin Enqueued => \E i \in 1 .. Len(<<>>) : place[i] = n
        BY <4>1 DEF Remains
      <4> WITNESS none \in [1 .. Len(<<>>) -> 1 .. 0]
      <4> QED
        BY <4>2
    <3> QED
      BY <1>7, <2>3, <2>4, <3>2
  <2>5. CASE m # 0
    <3>1. /\ m - 1 \in 0 .. Len(e) /\ m \in 1 .. Len(e) /\ m - 1 \in 0 .. Len(e) - 1
          /\ (m - 1) + 1 = m
      BY <1>1, <2>3, <2>5
    <3>2. m - 1 \notin Bad
      <4> HIDE DEF Bad
      <4> QED
        BY <1>1, <2>2, <3>1
    <3>3. Remains(e, m - 1, kept[m - 1])
      BY <3>1, <3>2
    <3>4. Remains(e, m, IF e[m].what \in Enqueued THEN kept[m - 1] ELSE Append(kept[m - 1], e[m]))
      BY <3>1, <3>3, RemainsOneMore
    <3>5. kept[m] = next(kept[m - 1], m)
      BY <1>7, <3>1
    <3> QED
      BY <2>3, <3>4, <3>5 DEF next
  <2> QED
    BY <2>4, <2>5
<1>9. RemoveAllEvents(e) = kept[Len(e)]
  BY DEF RemoveAllEvents, kept, body
<1> QED
  BY <1>1, <1>8, <1>9

-----------------------------------------------------------------------------
(* Where a command is.  h gives every command the one place that holds it:  *)
(* the kind of the event it is on its way with, a queue, the mailbox, or    *)
(* nowhere.                                                                 *)

Queues == {"request_queue", "reply_queue", "ack_queue", "m_commands_to_execute"}
Places == Enqueued \cup Queues \cup {"mailbox", "nowhere"}

\* c is before d in u.
Precedes(u, c, d) == \E i, j \in 1 .. Len(u) : i < j /\ u[i] = c /\ u[j] = d

\* The events hold exactly the commands that h says, each once; requests and replies of Files
\* are in the order u, which later ones will not break, as all requests have one latency and
\* no reply is due after the last one.
EventsHold(e, h, u, last) ==
  /\ e \in Seq(Events) /\ Sorted(e)
  /\ \A i \in 1 .. Len(e) : e[i].what \in Enqueued => e[i].cmd \in Commands
  /\ \A i, j \in 1 .. Len(e) :
       i # j /\ e[i].what \in Enqueued /\ e[j].what \in Enqueued => e[i].cmd # e[j].cmd
  /\ \A c \in Commands, w \in Enqueued :
       h[c] = w <=> \E i \in 1 .. Len(e) : e[i].what = w /\ e[i].cmd = c
  /\ \A i, j \in 1 .. Len(e) :
       i < j /\ e[i].what = e[j].what /\ e[i].what # "ack" /\ e[i].what \in Enqueued
         /\ e[i].cmd \in Files /\ e[j].cmd \in Files => Precedes(u, e[i].cmd, e[j].cmd)
  /\ \A i \in 1 .. Len(e) : /\ e[i].what = "request" => e[i].due <= Latency
                            /\ e[i].what = "reply" => e[i].due <= last

\* The events of f but x are those of e.
Grown(e, x, k, f) ==
  /\ Len(e) \in Nat /\ k \in 0 .. Len(e) /\ k + 1 \in 1 .. Len(f) /\ f[k + 1] = x
  /\ Len(f) = Len(e) + 1
  /\ \A j \in 1 .. Len(f) :
       \/ j <= k /\ j \in 1 .. Len(e) /\ f[j] = e[j]
       \/ j = k + 1 /\ f[j] = x
       \/ j > k + 1 /\ j - 1 \in 1 .. Len(e) /\ f[j] = e[j - 1]
  /\ \A i \in 1 .. Len(e) :
       \/ i <= k /\ i \in 1 .. Len(f) /\ f[i] = e[i]
       \/ i > k /\ i + 1 \in 1 .. Len(f) /\ f[i + 1] = e[i]

\* Each event of the longer list is an old one or the new one, and no old one is missing.
LEMMA OldAndNew ==
  ASSUME NEW e \in Seq(Events), NEW x, NEW k, NEW f, Inserted(e, x, k, f)
  PROVE  Grown(e, x, k, f)
<1>1. /\ Len(e) \in Nat /\ k \in 0 .. Len(e) /\ Len(f) = Len(e) + 1
      /\ f[k + 1] = x /\ k + 1 \in 1 .. Len(f)
  BY EventTypes DEF Inserted
<1>2. ASSUME NEW j \in 1 .. Len(f)
      PROVE  \/ j <= k /\ j \in 1 .. Len(e) /\ f[j] = e[j]
             \/ j = k + 1 /\ f[j] = x
             \/ j > k + 1 /\ j - 1 \in 1 .. Len(e) /\ f[j] = e[j - 1]
  <2>1. CASE j <= k
    <3>1. j \in 1 .. k /\ j \in 1 .. Len(e)
      BY <1>1, <2>1
    <3> QED
      BY <2>1, <3>1 DEF Inserted
  <2>2. CASE j = k + 1
    BY <1>1, <2>2
  <2>3. CASE j > k + 1
    <3>1. j - 1 \in k + 1 .. Len(e) /\ (j - 1) + 1 = j /\ j - 1 \in 1 .. Len(e)
      BY <1>1, <2>3
    <3> QED
      BY <2>3, <3>1 DEF Inserted
  <2> QED
    BY <1>1, <2>1, <2>2, <2>3
<1>3. ASSUME NEW i \in 1 .. Len(e)
      PROVE  \/ i <= k /\ i \in 1 .. Len(f) /\ f[i] = e[i]
             \/ i > k /\ i + 1 \in 1 .. Len(f) /\ f[i + 1] = e[i]
  <2>1. CASE i <= k
    BY <1>1, <2>1 DEF Inserted
  <2>2. CASE i > k
    <3>1. i \in k + 1 .. Len(e) /\ i + 1 \in 1 .. Len(f)
      BY <1>1, <2>2
    <3> QED
      BY <2>2, <3>1 DEF Inserted
  <2> QED
    BY <1>1, <2>1, <2>2
<1> QED
  BY <1>1, <1>2, <1>3 DEF Grown

\* Two old events keep their order.
LEMMA TwoOld ==
  ASSUME NEW e \in Seq(Events), NEW x, NEW k, NEW f, Inserted(e, x, k, f),
         NEW i \in 1 .. Len(f), NEW j \in 1 .. Len(f), i < j, i # k + 1, j # k + 1
  PROVE  \E a, b \in 1 .. Len(e) : f[i] = e[a] /\ f[j] = e[b] /\ a < b
<1> DEFINE old(n) == IF n <= k THEN n ELSE n - 1
<1>1. /\ Len(e) \in Nat /\ k \in 0 .. Len(e) /\ Len(f) = Len(e) + 1
      /\ \A n \in 1 .. Len(f) : n # k + 1 => old(n) \in 1 .. Len(e) /\ f[n] = e[old(n)]
  BY OldAndNew DEF Grown
<1>2. old(i) < old(j)
  BY <1>1
<1> HIDE DEF old
<1> QED
  BY <1>1, <1>2

\* A command is put on its way.
LEMMA HoldInserted ==
  ASSUME NEW e, NEW h \in [Commands -> Places], NEW u, NEW last \in Nat, EventsHold(e, h, u, last),
         NEW x \in Events, x.what \in Enqueued, x.cmd \in Commands, h[x.cmd] \notin Enqueued,
         NEW k, NEW f, Inserted(e, x, k, f), Sorted(f), NEW newlast \in Nat, last <= newlast,
         x.what = "request" => x.due = Latency,
         x.what = "reply" => last <= x.due /\ x.due <= newlast,
         \A d \in Files : x.cmd \in Files /\ h[d] = x.what => Precedes(u, d, x.cmd),
         Latency \in Nat
  PROVE  EventsHold(f, [h EXCEPT ![x.cmd] = x.what], u, newlast)
<1> DEFINE g == [h EXCEPT ![x.cmd] = x.what]
<1>1. e \in Seq(Events) /\ f \in Seq(Events)
  BY DEF EventsHold, Inserted
<1>2. /\ Len(e) \in Nat /\ k \in 0 .. Len(e) /\ k + 1 \in 1 .. Len(f) /\ f[k + 1] = x
      /\ Len(f) = Len(e) + 1
      /\ \A j \in 1 .. Len(f) :
           \/ j <= k /\ j \in 1 .. Len(e) /\ f[j] = e[j]
           \/ j = k + 1 /\ f[j] = x
           \/ j > k + 1 /\ j - 1 \in 1 .. Len(e) /\ f[j] = e[j - 1]
      /\ \A i \in 1 .. Len(e) :
           \/ i <= k /\ i \in 1 .. Len(f) /\ f[i] = e[i]
           \/ i > k /\ i + 1 \in 1 .. Len(f) /\ f[i + 1] = e[i]
  <2>1. Grown(e, x, k, f)
    BY <1>1, OldAndNew
  <2> QED
    BY <2>1 DEF Grown
<1>3. \A i \in 1 .. Len(e) : e[i].what \in Enqueued => e[i].cmd # x.cmd
  BY DEF EventsHold
<1>4. /\ g \in [Commands -> Places] /\ g[x.cmd] = x.what
      /\ \A c \in Commands : c # x.cmd => g[c] = h[c]
  BY DEF Places
<1> HIDE DEF g
<1>5. \A i \in 1 .. Len(f) : f[i].what \in Enqueued => f[i].cmd \in Commands
  BY SMTT(40), <1>2 DEF EventsHold
<1>6. ASSUME NEW i \in 1 .. Len(f), NEW j \in 1 .. Len(f), i < j,
             f[i].what \in Enqueued, f[j].what \in Enqueued
      PROVE  f[i].cmd # f[j].cmd
  <2>1. CASE i = k + 1
    BY <1>2, <1>3, <1>6, <2>1
  <2>2. CASE j = k + 1
    BY <1>2, <1>3, <1>6, <2>2
  <2>3. CASE i # k + 1 /\ j # k + 1
    <3>1. PICK a \in 1 .. Len(e), b \in 1 .. Len(e) : f[i] = e[a] /\ f[j] = e[b] /\ a < b
      BY <1>1, <1>6, <2>3, TwoOld
    <3>2. a # b
      BY <1>2, <3>1
    <3> QED
      BY <1>6, <3>1, <3>2 DEF EventsHold
  <2> QED
    BY <2>1, <2>2, <2>3
<1>7. ASSUME NEW c \in Commands, NEW w \in Enqueued
      PROVE  g[c] = w <=> \E i \in 1 .. Len(f) : f[i].what = w /\ f[i].cmd = c
  <2>1. ASSUME NEW i \in 1 .. Len(f), f[i].what = w, f[i].cmd = c PROVE g[c] = w
    <3>1. CASE i = k + 1
      BY <1>2, <1>4, <2>1, <3>1
    <3>2. CASE i # k + 1
      <4>1. PICK a \in 1 .. Len(e) : f[i] = e[a]
        BY <1>2, <3>2
      <4>2. h[c] = w /\ c # x.cmd
        BY <1>3, <2>1, <4>1 DEF EventsHold
      <4> QED
        BY <1>4, <4>2
    <3> QED
      BY <3>1, <3>2
  <2>2. ASSUME g[c] = w PROVE \E i \in 1 .. Len(f) : f[i].what = w /\ f[i].cmd = c
    <3>1. CASE c = x.cmd
      BY <1>2, <1>4, <2>2, <3>1
    <3>2. CASE c # x.cmd
      <4>1. PICK a \in 1 .. Len(e) : e[a].what = w /\ e[a].cmd = c
        BY <1>4, <2>2, <3>2 DEF EventsHold
      <4> QED
        BY <1>2, <4>1
    <3> QED
      BY <3>1, <3>2
  <2> QED
    BY <2>1, <2>2
<1>8. ASSUME NEW i \in 1 .. Len(f), NEW j \in 1 .. Len(f), i < j, f[i].what = f[j].what,
             f[i].what # "ack", f[i].what \in Enqueued, f[i].cmd \in Files, f[j].cmd \in Files
      PROVE  Precedes(u, f[i].cmd, f[j].cmd)
  <2>1. CASE i = k + 1
    <3>1. j > k + 1 /\ j - 1 \in k + 1 .. Len(e) /\ f[j] = e[j - 1] /\ j - 1 \in 1 .. Len(e)
      BY <1>2, <1>8, <2>1
    <3>2. x.due < e[j - 1].due
      BY <3>1 DEF Inserted
    <3>3. e[j - 1].what = x.what /\ x.what \in {"request", "reply"}
      BY <1>2, <1>8, <2>1, <3>1 DEF Enqueued
    <3>4. e[j - 1].due \in Nat /\ x.due \in Nat
      BY <1>1, <3>1, EventTypes DEF Events
    <3>5. e[j - 1].due <= x.due
      BY SMTT(40), <3>1, <3>3, <3>4 DEF EventsHold
    <3> QED
      BY <3>2, <3>4, <3>5
  <2>2. CASE j = k + 1
    <3>1. i \in 1 .. Len(e) /\ f[i] = e[i]
      BY <1>2, <1>8, <2>2
    <3>2. h[f[i].cmd] = x.what
      BY <1>2, <1>5, <1>8, <2>2, <3>1 DEF EventsHold
    <3> QED
      BY <1>2, <1>8, <2>2, <3>2
  <2>3. CASE i # k + 1 /\ j # k + 1
    <3>1. PICK a \in 1 .. Len(e), b \in 1 .. Len(e) : f[i] = e[a] /\ f[j] = e[b] /\ a < b
      BY <1>1, <1>8, <2>3, TwoOld
    <3> QED
      BY <1>8, <3>1 DEF EventsHold
  <2> QED
    BY <2>1, <2>2, <2>3
<1>9. ASSUME NEW i \in 1 .. Len(f)
      PROVE  /\ f[i].what = "request" => f[i].due <= Latency
             /\ f[i].what = "reply" => f[i].due <= newlast
  <2>1. CASE i = k + 1
    BY <1>2, <2>1 DEF Events
  <2>2. CASE i # k + 1
    <3>1. PICK a \in 1 .. Len(e) : f[i] = e[a] /\ e[a].due \in Nat
      BY <1>1, <1>2, <2>2, EventTypes
    <3> QED
      BY <3>1 DEF EventsHold
  <2> QED
    BY <2>1, <2>2
<1>10. \A i, j \in 1 .. Len(f) :
         i # j /\ f[i].what \in Enqueued /\ f[j].what \in Enqueued => f[i].cmd # f[j].cmd
  <2> SUFFICES ASSUME NEW i \in 1 .. Len(f), NEW j \in 1 .. Len(f), i # j,
                      f[i].what \in Enqueued, f[j].what \in Enqueued
               PROVE  f[i].cmd # f[j].cmd
    OBVIOUS
  <2>1. i < j \/ j < i
    BY <1>2
  <2> QED
    BY <1>6, <2>1
<1> QED
  BY <1>1, <1>5, <1>7, <1>8, <1>9, <1>10 DEF EventsHold, g

\* An event that is for no command is scheduled.
LEMMA HoldOther ==
  ASSUME NEW e, NEW h, NEW u, NEW last \in Nat, EventsHold(e, h, u, last),
         NEW x \in Events, x.what \notin Enqueued, NEW k, NEW f, Inserted(e, x, k, f), Sorted(f)
  PROVE  EventsHold(f, h, u, last)
<1>1. e \in Seq(Events) /\ f \in Seq(Events)
  BY DEF EventsHold, Inserted
<1>2. /\ Len(e) \in Nat /\ k \in 0 .. Len(e) /\ Len(f) = Len(e) + 1
      /\ \A j \in 1 .. Len(f) :
           \/ j <= k /\ j \in 1 .. Len(e) /\ f[j] = e[j]
           \/ j = k + 1 /\ f[j] = x
           \/ j > k + 1 /\ j - 1 \in 1 .. Len(e) /\ f[j] = e[j - 1]
      /\ \A i \in 1 .. Len(e) :
           \/ i <= k /\ i \in 1 .. Len(f) /\ f[i] = e[i]
           \/ i > k /\ i + 1 \in 1 .. Len(f) /\ f[i + 1] = e[i]
  <2>1. Grown(e, x, k, f)
    BY <1>1, OldAndNew
  <2> QED
    BY <2>1 DEF Grown
<1>3. \A i \in 1 .. Len(f) : f[i].what \in Enqueued => f[i].cmd \in Commands
  BY <1>2 DEF EventsHold
<1>4. ASSUME NEW i \in 1 .. Len(f), NEW j \in 1 .. Len(f), i < j,
             f[i].what \in Enqueued, f[j].what \in Enqueued
      PROVE  \E a, b \in 1 .. Len(e) : f[i] = e[a] /\ f[j] = e[b] /\ a < b
  <2>1. i # k + 1 /\ j # k + 1
    BY <1>4 DEF Inserted
  <2> QED
    BY SMTT(40), <1>1, <1>4, <2>1, TwoOld
<1>5. \A i, j \in 1 .. Len(f) :
        i # j /\ f[i].what \in Enqueued /\ f[j].what \in Enqueued => f[i].cmd # f[j].cmd
  <2>1. ASSUME NEW i \in 1 .. Len(f), NEW j \in 1 .. Len(f), i < j,
               f[i].what \in Enqueued, f[j].what \in Enqueued
        PROVE  f[i].cmd # f[j].cmd
    <3>1. PICK a \in 1 .. Len(e), b \in 1 .. Len(e) : f[i] = e[a] /\ f[j] = e[b] /\ a < b
      BY <1>4, <2>1
    <3>2. a # b
      BY <1>2, <3>1
    <3> QED
      BY <2>1, <3>1, <3>2 DEF EventsHold
  <2> SUFFICES ASSUME NEW i \in 1 .. Len(f), NEW j \in 1 .. Len(f), i # j,
                      f[i].what \in Enqueued, f[j].what \in Enqueued
               PROVE  f[i].cmd # f[j].cmd
    OBVIOUS
  <2>2. i < j \/ j < i
    BY <1>2
  <2> QED
    BY <2>1, <2>2
<1>6. \A c \in Commands, w \in Enqueued :
        h[c] = w <=> \E i \in 1 .. Len(f) : f[i].what = w /\ f[i].cmd = c
  <2> SUFFICES ASSUME NEW c \in Commands, NEW w \in Enqueued
               PROVE  (\E i \in 1 .. Len(e) : e[i].what = w /\ e[i].cmd = c)
                        <=> \E i \in 1 .. Len(f) : f[i].what = w /\ f[i].cmd = c
    BY DEF EventsHold
  <2> QED
    BY <1>2
<1>7. \A i, j \in 1 .. Len(f) :
        i < j /\ f[i].what = f[j].what /\ f[i].what # "ack" /\ f[i].what \in Enqueued
          /\ f[i].cmd \in Files /\ f[j].cmd \in Files => Precedes(u, f[i].cmd, f[j].cmd)
  <2> SUFFICES ASSUME NEW i \in 1 .. Len(f), NEW j \in 1 .. Len(f), i < j, f[i].what = f[j].what,
                      f[i].what # "ack", f[i].what \in Enqueued,
                      f[i].cmd \in Files, f[j].cmd \in Files
               PROVE  Precedes(u, f[i].cmd, f[j].cmd)
    OBVIOUS
  <2>1. PICK a \in 1 .. Len(e), b \in 1 .. Len(e) : f[i] = e[a] /\ f[j] = e[b] /\ a < b
    BY <1>4
  <2> QED
    BY <2>1 DEF EventsHold
<1>8. \A i \in 1 .. Len(f) : /\ f[i].what = "request" => f[i].due <= Latency
                             /\ f[i].what = "reply" => f[i].due <= last
  <2> SUFFICES ASSUME NEW i \in 1 .. Len(f), f[i].what \in {"request", "reply"}
               PROVE  \E a \in 1 .. Len(e) : f[i] = e[a]
    BY DEF EventsHold
  <2>1. f[i].what \in Enqueued
    BY DEF Enqueued
  <2> QED
    BY <1>2, <2>1
<1> QED
  BY <1>1, <1>3, <1>5, <1>6, <1>7, <1>8 DEF EventsHold

\* The first event is taken, and the command it is for, if there is one, is in no event then.
LEMMA HoldTail ==
  ASSUME NEW e, NEW h \in [Commands -> Places], NEW u, NEW last \in Nat, EventsHold(e, h, u, last),
         e # <<>>, NEW g \in [Commands -> Places],
         IF Head(e).what \in Enqueued THEN g = [h EXCEPT ![Head(e).cmd] = "nowhere"] ELSE g = h
  PROVE  EventsHold(Tail(e), g, u, last)
<1> DEFINE f == Tail(e)
<1>1. /\ e \in Seq(Events) /\ f \in Seq(Events) /\ Head(e) = e[1] /\ Len(e) \in Nat
      /\ Len(f) = Len(e) - 1 /\ Len(e) > 0
      /\ \A i \in 1 .. Len(f) : f[i] = e[i + 1] /\ i + 1 \in 2 .. Len(e) /\ i + 1 \in 1 .. Len(e)
  <2>1. e \in Seq(Events)
    BY DEF EventsHold
  <2> QED
    BY <2>1
<1> HIDE DEF f
<1>2. Sorted(f)
  BY <1>1 DEF EventsHold, Sorted
<1>3. \A i \in 1 .. Len(f) : f[i].what \in Enqueued => f[i].cmd \in Commands
  BY <1>1 DEF EventsHold
<1>4. \A i, j \in 1 .. Len(f) :
        i # j /\ f[i].what \in Enqueued /\ f[j].what \in Enqueued => f[i].cmd # f[j].cmd
  BY SMTT(40), <1>1 DEF EventsHold
<1>5. ASSUME NEW c \in Commands, NEW w \in Enqueued
      PROVE  g[c] = w <=> \E i \in 1 .. Len(f) : f[i].what = w /\ f[i].cmd = c
  <2>1. ASSUME NEW i \in 1 .. Len(f), f[i].what = w, f[i].cmd = c PROVE g[c] = w
    <3>1. h[c] = w
      <4>1. i + 1 \in 1 .. Len(e) /\ e[i + 1].what = w /\ e[i + 1].cmd = c
        BY <1>1, <2>1
      <4> QED
        BY <4>1 DEF EventsHold
    <3>2. e[1].what \in Enqueued => e[1].cmd # c
      <4>1. 1 \in 1 .. Len(e) /\ i + 1 \in 1 .. Len(e) /\ 1 # i + 1
        BY <1>1
      <4> QED
        BY <1>1, <2>1, <4>1 DEF EventsHold
    <3> QED
      BY <1>1, <3>1, <3>2
  <2>2. ASSUME g[c] = w PROVE \E i \in 1 .. Len(f) : f[i].what = w /\ f[i].cmd = c
    <3>1. h[c] = w /\ ~(e[1].what \in Enqueued /\ e[1].cmd = c)
      BY <1>1, <2>2 DEF Enqueued
    <3>2. PICK a \in 1 .. Len(e) : e[a].what = w /\ e[a].cmd = c
      BY <3>1 DEF EventsHold
    <3>3. a # 1
      BY <3>1, <3>2
    <3>4. a - 1 \in 1 .. Len(f) /\ f[a - 1] = e[a]
      BY <1>1, <3>3
    <3> QED
      BY <3>2, <3>4
  <2> QED
    BY <2>1, <2>2
<1>6. \A i, j \in 1 .. Len(f) :
        i < j /\ f[i].what = f[j].what /\ f[i].what # "ack" /\ f[i].what \in Enqueued
          /\ f[i].cmd \in Files /\ f[j].cmd \in Files => Precedes(u, f[i].cmd, f[j].cmd)
  <2> SUFFICES ASSUME NEW i \in 1 .. Len(f), NEW j \in 1 .. Len(f), i < j, f[i].what = f[j].what,
                      f[i].what # "ack", f[i].what \in Enqueued,
                      f[i].cmd \in Files, f[j].cmd \in Files
               PROVE  Precedes(u, f[i].cmd, f[j].cmd)
    OBVIOUS
  <2>1. i + 1 \in 1 .. Len(e) /\ j + 1 \in 1 .. Len(e) /\ i + 1 < j + 1 /\ f[i] = e[i + 1] /\ f[j] = e[j + 1]
    BY <1>1
  <2> QED
    BY <2>1 DEF EventsHold
<1>7. \A i \in 1 .. Len(f) : /\ f[i].what = "request" => f[i].due <= Latency
                             /\ f[i].what = "reply" => f[i].due <= last
  BY <1>1 DEF EventsHold
<1> QED
  BY <1>1, <1>2, <1>3, <1>4, <1>5, <1>6, <1>7 DEF EventsHold, f

\* No command is in an event any more.
LEMMA HoldRemoved ==
  ASSUME NEW e, NEW h \in [Commands -> Places], NEW u, NEW last, EventsHold(e, h, u, last),
         NEW g, \A c \in Commands : g[c] \notin Enqueued
  PROVE  EventsHold(RemoveAllEvents(e), g, u, 0)
<1> DEFINE f == RemoveAllEvents(e)
<1>1. e \in Seq(Events) /\ Sorted(e)
  BY DEF EventsHold
<1>2. Remains(e, Len(e), f)
  BY <1>1, Removing
<1> HIDE DEF f
<1>3. PICK place \in [1 .. Len(f) -> 1 .. Len(e)] :
        /\ \A i, j \in 1 .. Len(f) : i < j => place[i] < place[j]
        /\ \A i \in 1 .. Len(f) : f[i] = e[place[i]] /\ f[i].what \notin Enqueued
  BY <1>2 DEF Remains
<1>4. Sorted(f)
  BY <1>1, <1>3 DEF Sorted
<1>5. f \in Seq(Events)
  BY <1>2 DEF Remains
<1>6. "request" \in Enqueued /\ "reply" \in Enqueued
  BY DEF Enqueued
<1>7. \A i \in 1 .. Len(f) : f[i].what \notin Enqueued
  BY <1>3
<1> QED
  BY <1>4, <1>5, <1>6, <1>7 DEF EventsHold, f

\* A unit of time passes.
LEMMA HoldElapsed ==
  ASSUME NEW e, NEW h, NEW u, NEW last \in Nat, EventsHold(e, h, u, last),
         \A i \in 1 .. Len(e) : e[i].due > 0, Latency \in Nat,
         NEW f, f = [i \in DOMAIN e |-> [e[i] EXCEPT !.due = e[i].due - 1]]
  PROVE  /\ EventsHold(f, h, u, IF last > 0 THEN last - 1 ELSE 0)
         /\ Len(f) = Len(e)
         /\ \A i \in 1 .. Len(e) : f[i].what = e[i].what /\ f[i].cmd = e[i].cmd
<1>1. /\ e \in Seq(Events) /\ Len(e) \in Nat /\ DOMAIN e = 1 .. Len(e)
      /\ \A i \in 1 .. Len(e) : e[i] \in Events /\ e[i].due \in Nat
  BY EventTypes DEF EventsHold
<1>2. ASSUME NEW i \in 1 .. Len(e)
      PROVE  /\ f[i] \in Events /\ f[i].what = e[i].what /\ f[i].cmd = e[i].cmd
             /\ f[i].due = e[i].due - 1
  <2>1. e[i] \in Events /\ e[i].due - 1 \in Nat /\ f[i] = [e[i] EXCEPT !.due = e[i].due - 1]
    BY <1>1
  <2> QED
    BY <2>1 DEF Events
<1>3. f \in Seq(Events) /\ Len(f) = Len(e)
  <2>1. f \in [1 .. Len(e) -> Events]
    BY <1>1, <1>2
  <2>2. f \in Seq(Events)
    BY <1>1, <2>1
  <2> QED
    BY <1>1, <2>1, <2>2
<1>4. Sorted(f)
  <2> SUFFICES ASSUME NEW i \in 1 .. Len(f), NEW j \in 1 .. Len(f), i < j
               PROVE  f[i].due <= f[j].due
    BY DEF Sorted
  <2>1. i \in 1 .. Len(e) /\ j \in 1 .. Len(e) /\ e[i].due <= e[j].due
    BY <1>3 DEF EventsHold, Sorted
  <2>2. f[i].due = e[i].due - 1 /\ f[j].due = e[j].due - 1 /\ e[i].due \in Nat /\ e[j].due \in Nat
    BY <1>1, <1>2, <2>1
  <2> QED
    BY <2>1, <2>2
<1>5. \A i \in 1 .. Len(f) : f[i].what \in Enqueued => f[i].cmd \in Commands
  BY <1>2, <1>3 DEF EventsHold
<1>6. \A i, j \in 1 .. Len(f) :
        i # j /\ f[i].what \in Enqueued /\ f[j].what \in Enqueued => f[i].cmd # f[j].cmd
  BY <1>2, <1>3 DEF EventsHold
<1>7. \A c \in Commands, w \in Enqueued :
        h[c] = w <=> \E i \in 1 .. Len(f) : f[i].what = w /\ f[i].cmd = c
  BY <1>2, <1>3 DEF EventsHold
<1>8. \A i, j \in 1 .. Len(f) :
        i < j /\ f[i].what = f[j].what /\ f[i].what # "ack" /\ f[i].what \in Enqueued
          /\ f[i].cmd \in Files /\ f[j].cmd \in Files => Precedes(u, f[i].cmd, f[j].cmd)
  BY <1>2, <1>3 DEF EventsHold
<1>9. \A i \in 1 .. Len(f) : /\ f[i].what = "request" => f[i].due <= Latency
                             /\ f[i].what = "reply" => f[i].due <= IF last > 0 THEN last - 1 ELSE 0
  <2> SUFFICES ASSUME NEW i \in 1 .. Len(f)
               PROVE  /\ f[i].what = "request" => f[i].due <= Latency
                      /\ f[i].what = "reply" => f[i].due <= IF last > 0 THEN last - 1 ELSE 0
    OBVIOUS
  <2>1. i \in 1 .. Len(e) /\ f[i].what = e[i].what /\ f[i].due = e[i].due - 1 /\ e[i].due > 0 /\ e[i].due \in Nat
    BY <1>1, <1>2, <1>3
  <2>2. /\ e[i].what = "request" => e[i].due <= Latency
        /\ e[i].what = "reply" => e[i].due <= last
    BY <2>1 DEF EventsHold
  <2> QED
    BY <2>1, <2>2
<1> QED
  BY <1>2, <1>3, <1>4, <1>5, <1>6, <1>7, <1>8, <1>9 DEF EventsHold

\* What happens to commands that are in no event.
LEMMA HoldElsewhere ==
  ASSUME NEW e, NEW h, NEW u, NEW last, EventsHold(e, h, u, last),
         NEW g, \A c \in Commands : g[c] = h[c] \/ (g[c] \notin Enqueued /\ h[c] \notin Enqueued)
  PROVE  EventsHold(e, g, u, last)
<1>1. \A c \in Commands, w \in Enqueued : g[c] = w <=> h[c] = w
  OBVIOUS
<1> QED
  BY <1>1 DEF EventsHold

\* Another order does, if it keeps what the events are ordered by.
LEMMA HoldOrder ==
  ASSUME NEW e, NEW h, NEW u, NEW last, EventsHold(e, h, u, last), NEW v,
         \A c, d \in Files : h[c] \in Enqueued /\ h[d] \in Enqueued /\ Precedes(u, c, d)
                               => Precedes(v, c, d)
  PROVE  EventsHold(e, h, v, last)
<1>1. ASSUME NEW i \in 1 .. Len(e), NEW j \in 1 .. Len(e), i < j, e[i].what = e[j].what,
             e[i].what # "ack", e[i].what \in Enqueued, e[i].cmd \in Files, e[j].cmd \in Files
      PROVE  Precedes(v, e[i].cmd, e[j].cmd)
  <2>1. Precedes(u, e[i].cmd, e[j].cmd)
    BY <1>1 DEF EventsHold
  <2>2. e[i].cmd \in Commands /\ e[j].cmd \in Commands
    BY <1>1 DEF Commands
  <2>3. h[e[i].cmd] = e[i].what /\ h[e[j].cmd] = e[j].what
    BY <1>1, <2>2 DEF EventsHold
  <2> QED
    BY <1>1, <2>1, <2>3
<1> QED
  BY <1>1 DEF EventsHold

\* The first event, if it enqueues, does so for the first in line of its kind.
LEMMA HoldHead ==
  ASSUME NEW e, NEW h, NEW u, NEW last, EventsHold(e, h, u, last), e # <<>>,
         Head(e).what \in Enqueued
  PROVE  /\ Head(e) \in Events /\ Head(e).cmd \in Commands /\ h[Head(e).cmd] = Head(e).what
         /\ \A d \in Files :
              Head(e).what # "ack" /\ Head(e).cmd \in Files /\ h[d] = Head(e).what /\ d # Head(e).cmd
                => Precedes(u, Head(e).cmd, d)
<1>1. e \in Seq(Events) /\ Head(e) = e[1] /\ Len(e) \in Nat /\ 1 \in 1 .. Len(e) /\ e[1] \in Events
  <2>1. e \in Seq(Events)
    BY DEF EventsHold
  <2> QED
    BY <2>1, EventTypes
<1>2. e[1].cmd \in Commands /\ h[e[1].cmd] = e[1].what
  BY <1>1 DEF EventsHold
<1>3. ASSUME NEW d \in Files, e[1].what # "ack", e[1].cmd \in Files, h[d] = e[1].what, d # e[1].cmd
      PROVE  Precedes(u, e[1].cmd, d)
  <2>1. d \in Commands
    BY DEF Commands
  <2>2. PICK i \in 1 .. Len(e) : e[i].what = e[1].what /\ e[i].cmd = d
    BY <1>1, <1>3, <2>1 DEF EventsHold
  <2>3. 1 < i
    BY <1>3, <2>2
  <2> QED
    BY <1>1, <1>3, <2>2, <2>3 DEF EventsHold
<1> QED
  BY <1>1, <1>2, <1>3

\* A queue holds exactly the commands that h says, each once, and Files in the order u.
QueueHolds(q, h, u, p) ==
  /\ q \in Seq(Commands)
  /\ \A i, j \in 1 .. Len(q) : i # j => q[i] # q[j]
  /\ \A c \in Commands : h[c] = p <=> \E i \in 1 .. Len(q) : q[i] = c
  /\ \A i, j \in 1 .. Len(q) :
       i < j /\ q[i] \in Files /\ q[j] \in Files => Precedes(u, q[i], q[j])

\* A command that comes after those of a queue can be put at its end.
LEMMA QueueAppend ==
  ASSUME NEW q, NEW h \in [Commands -> Places], NEW u, NEW p \in Places, QueueHolds(q, h, u, p),
         NEW c \in Commands, h[c] # p,
         \A d \in Files : c \in Files /\ h[d] = p => Precedes(u, d, c)
  PROVE  QueueHolds(Append(q, c), [h EXCEPT ![c] = p], u, p)
<1> DEFINE f == Append(q, c)
           g == [h EXCEPT ![c] = p]
<1>1. q \in Seq(Commands)
  BY DEF QueueHolds
<1>2. /\ Len(q) \in Nat /\ f \in Seq(Commands) /\ Len(f) = Len(q) + 1 /\ f[Len(q) + 1] = c
      /\ \A i \in 1 .. Len(q) : f[i] = q[i] /\ i \in 1 .. Len(f) /\ q[i] \in Commands
      /\ \A i \in 1 .. Len(f) : i \in 1 .. Len(q) \/ i = Len(q) + 1
  BY <1>1
<1>3. g[c] = p /\ \A d \in Commands : d # c => g[d] = h[d]
  OBVIOUS
<1> HIDE DEF f, g
<1>4. \A i \in 1 .. Len(q) : q[i] # c /\ h[q[i]] = p
  BY <1>2 DEF QueueHolds
<1>5. \A i, j \in 1 .. Len(f) : i # j => f[i] # f[j]
  BY <1>2, <1>4 DEF QueueHolds
<1>6. \A d \in Commands : g[d] = p <=> \E i \in 1 .. Len(f) : f[i] = d
  <2> SUFFICES ASSUME NEW d \in Commands PROVE g[d] = p <=> \E i \in 1 .. Len(f) : f[i] = d
    OBVIOUS
  <2>1. CASE d = c
    <3>1. Len(q) + 1 \in 1 .. Len(f)
      BY <1>2
    <3> QED
      BY <1>2, <1>3, <2>1, <3>1
  <2>2. CASE d # c
    <3>1. g[d] = h[d] /\ (h[d] = p <=> \E i \in 1 .. Len(q) : q[i] = d)
      BY <1>3, <2>2 DEF QueueHolds
    <3> QED
      BY <1>2, <2>2, <3>1
  <2> QED
    BY <2>1, <2>2
<1>7. \A i, j \in 1 .. Len(f) :
        i < j /\ f[i] \in Files /\ f[j] \in Files => Precedes(u, f[i], f[j])
  <2> SUFFICES ASSUME NEW i \in 1 .. Len(f), NEW j \in 1 .. Len(f), i < j, f[i] \in Files, f[j] \in Files
               PROVE  Precedes(u, f[i], f[j])
    OBVIOUS
  <2>1. i \in 1 .. Len(q)
    BY <1>2
  <2>2. CASE j = Len(q) + 1
    BY <1>2, <1>4, <2>1, <2>2
  <2>3. CASE j \in 1 .. Len(q)
    BY <1>2, <2>1, <2>3 DEF QueueHolds
  <2> QED
    BY <1>2, <2>2, <2>3
<1> QED
  BY <1>2, <1>5, <1>6, <1>7 DEF QueueHolds, f, g

\* The first of a queue comes before the others.
LEMMA QueueHead ==
  ASSUME NEW q, NEW h, NEW u, NEW p, QueueHolds(q, h, u, p), q # <<>>
  PROVE  /\ Head(q) \in Commands /\ h[Head(q)] = p
         /\ \A d \in Files : Head(q) \in Files /\ h[d] = p /\ d # Head(q) => Precedes(u, Head(q), d)
<1>1. q \in Seq(Commands)
  BY DEF QueueHolds
<1>2. Head(q) = q[1] /\ Len(q) \in Nat /\ 1 \in 1 .. Len(q) /\ q[1] \in Commands
  BY <1>1
<1>3. h[q[1]] = p
  BY <1>2 DEF QueueHolds
<1>4. ASSUME NEW d \in Files, q[1] \in Files, h[d] = p, d # q[1] PROVE Precedes(u, q[1], d)
  <2>1. d \in Commands
    BY DEF Commands
  <2>2. PICK i \in 1 .. Len(q) : q[i] = d
    BY <1>4, <2>1 DEF QueueHolds
  <2>3. 1 < i
    BY <1>4, <2>2
  <2> QED
    BY <1>2, <1>4, <2>2, <2>3 DEF QueueHolds
<1> QED
  BY <1>2, <1>3, <1>4

\* The others stay when the first is taken.
LEMMA QueueTail ==
  ASSUME NEW q, NEW h \in [Commands -> Places], NEW u, NEW p \in Queues, QueueHolds(q, h, u, p),
         q # <<>>
  PROVE  QueueHolds(Tail(q), [h EXCEPT ![Head(q)] = "nowhere"], u, p)
<1> DEFINE f == Tail(q)
           g == [h EXCEPT ![Head(q)] = "nowhere"]
<1>1. q \in Seq(Commands)
  BY DEF QueueHolds
<1>2. /\ Head(q) = q[1] /\ Len(q) \in Nat /\ 1 \in 1 .. Len(q) /\ q[1] \in Commands
      /\ f \in Seq(Commands) /\ Len(f) = Len(q) - 1
      /\ \A i \in 1 .. Len(f) : f[i] = q[i + 1] /\ i + 1 \in 1 .. Len(q) /\ i + 1 # 1
  BY <1>1
<1>3. g[q[1]] = "nowhere" /\ \A d \in Commands : d # q[1] => g[d] = h[d]
  BY <1>2 DEF Places
<1> HIDE DEF f, g
<1>4. p # "nowhere"
  BY DEF Queues
<1>5. \A i, j \in 1 .. Len(f) : i # j => f[i] # f[j]
  BY <1>2 DEF QueueHolds
<1>6. ASSUME NEW d \in Commands PROVE g[d] = p <=> \E i \in 1 .. Len(f) : f[i] = d
  <2>1. ASSUME NEW i \in 1 .. Len(f), f[i] = d PROVE g[d] = p
    <3>1. q[i + 1] = d /\ i + 1 \in 1 .. Len(q) /\ i + 1 # 1
      BY <1>2, <2>1
    <3>2. h[d] = p /\ d # q[1]
      BY <1>2, <3>1 DEF QueueHolds
    <3> QED
      BY <1>3, <3>2
  <2>2. ASSUME g[d] = p PROVE \E i \in 1 .. Len(f) : f[i] = d
    <3>1. d # q[1] /\ h[d] = p
      BY <1>3, <1>4, <2>2
    <3>2. PICK i \in 1 .. Len(q) : q[i] = d
      BY <3>1 DEF QueueHolds
    <3>3. i - 1 \in 1 .. Len(f) /\ f[i - 1] = d
      BY <1>2, <3>1, <3>2
    <3> QED
      BY <3>3
  <2> QED
    BY <2>1, <2>2
<1>7. \A i, j \in 1 .. Len(f) :
        i < j /\ f[i] \in Files /\ f[j] \in Files => Precedes(u, f[i], f[j])
  <2> SUFFICES ASSUME NEW i \in 1 .. Len(f), NEW j \in 1 .. Len(f), i < j, f[i] \in Files, f[j] \in Files
               PROVE  Precedes(u, f[i], f[j])
    OBVIOUS
  <2>1. i + 1 \in 1 .. Len(q) /\ j + 1 \in 1 .. Len(q) /\ i + 1 < j + 1 /\ f[i] = q[i + 1] /\ f[j] = q[j + 1]
    BY <1>2
  <2> QED
    BY <2>1 DEF QueueHolds
<1> QED
  BY <1>2, <1>5, <1>6, <1>7 DEF QueueHolds, f, g

\* A queue does not care for a command that moves between other places.
LEMMA QueueElsewhere ==
  ASSUME NEW q, NEW h, NEW u, NEW p, QueueHolds(q, h, u, p),
         NEW g, \A c \in Commands : g[c] = h[c] \/ (g[c] # p /\ h[c] # p)
  PROVE  QueueHolds(q, g, u, p)
BY DEF QueueHolds

\* An empty queue holds what is nowhere in it.
LEMMA QueueEmpty ==
  ASSUME NEW g, NEW u, NEW p, \A c \in Commands : g[c] # p
  PROVE  QueueHolds(<<>>, g, u, p)
BY DEF QueueHolds

\* Another order does, if it keeps what the queue is ordered by.
LEMMA QueueOrder ==
  ASSUME NEW q, NEW h, NEW u, NEW p, QueueHolds(q, h, u, p), NEW v,
         \A c, d \in Files : h[c] = p /\ h[d] = p /\ Precedes(u, c, d) => Precedes(v, c, d)
  PROVE  QueueHolds(q, h, v, p)
<1>1. ASSUME NEW i \in 1 .. Len(q), NEW j \in 1 .. Len(q), i < j, q[i] \in Files, q[j] \in Files
      PROVE  Precedes(v, q[i], q[j])
  <2>1. q[i] \in Commands /\ q[j] \in Commands
    BY <1>1 DEF Commands
  <2>2. h[q[i]] = p /\ h[q[j]] = p /\ Precedes(u, q[i], q[j])
    BY <1>1, <2>1 DEF QueueHolds
  <2> QED
    BY <1>1, <2>2
<1> QED
  BY <1>1 DEF QueueHolds

-----------------------------------------------------------------------------
(* What the events say of the drive                                         *)

Finishing == {"FinishRead", "FinishCommand"}
Finishes(e) == \E i \in 1 .. Len(e) : e[i].what \in Finishing
Reads(e) == \E i \in 1 .. Len(e) : e[i].what = "FinishRead"
OneFinish(e) == \A i, j \in 1 .. Len(e) : e[i].what \in Finishing /\ e[j].what \in Finishing => i = j

\* The lists differ in nothing that matters to the drive.
DriveSame(e, f) ==
  /\ Finishes(f) <=> Finishes(e)
  /\ Reads(f) <=> Reads(e)
  /\ OneFinish(e) => OneFinish(f)

LEMMA DriveTrans ==
  ASSUME NEW e, NEW f, NEW g, DriveSame(e, f), DriveSame(f, g)
  PROVE  DriveSame(e, g)
BY DEF DriveSame

\* When the kinds of the events stay, and when an event is put in.
LEMMA DriveKinds ==
  ASSUME NEW e, NEW f, Len(f) = Len(e), \A i \in 1 .. Len(e) : f[i].what = e[i].what
  PROVE  DriveSame(e, f)
BY DEF DriveSame, Finishes, Reads, OneFinish

\* What an event that is put in means to the drive.
LEMMA DriveInserted ==
  ASSUME NEW e \in Seq(Events), NEW x, NEW k, NEW f, Inserted(e, x, k, f)
  PROVE  /\ x.what \notin Finishing => DriveSame(e, f)
         /\ x.what \in Finishing /\ ~Finishes(e) =>
              Finishes(f) /\ OneFinish(f) /\ (Reads(f) <=> x.what = "FinishRead")
<1>1. /\ Len(e) \in Nat /\ k \in 0 .. Len(e) /\ k + 1 \in 1 .. Len(f) /\ f[k + 1] = x
      /\ Len(f) = Len(e) + 1
      /\ \A j \in 1 .. Len(f) :
           \/ j <= k /\ j \in 1 .. Len(e) /\ f[j] = e[j]
           \/ j = k + 1 /\ f[j] = x
           \/ j > k + 1 /\ j - 1 \in 1 .. Len(e) /\ f[j] = e[j - 1]
      /\ \A i \in 1 .. Len(e) :
           \/ i <= k /\ i \in 1 .. Len(f) /\ f[i] = e[i]
           \/ i > k /\ i + 1 \in 1 .. Len(f) /\ f[i + 1] = e[i]
  <2>1. Grown(e, x, k, f)
    BY OldAndNew
  <2> QED
    BY <2>1 DEF Grown
<1>2. ASSUME NEW w, x.what # w
      PROVE  (\E i \in 1 .. Len(f) : f[i].what = w) <=> \E i \in 1 .. Len(e) : e[i].what = w
  <2>1. ASSUME NEW i \in 1 .. Len(f), f[i].what = w
        PROVE  \E j \in 1 .. Len(e) : e[j].what = w
    <3>1. \/ i \in 1 .. Len(e) /\ f[i] = e[i]
          \/ f[i] = x
          \/ i - 1 \in 1 .. Len(e) /\ f[i] = e[i - 1]
      BY <1>1
    <3> QED
      BY <1>2, <2>1, <3>1
  <2>2. ASSUME NEW i \in 1 .. Len(e), e[i].what = w
        PROVE  \E j \in 1 .. Len(f) : f[j].what = w
    <3>1. \/ i \in 1 .. Len(f) /\ f[i] = e[i]
          \/ i + 1 \in 1 .. Len(f) /\ f[i + 1] = e[i]
      BY <1>1
    <3> QED
      BY <2>2, <3>1
  <2> QED
    BY <2>1, <2>2
<1>3. ASSUME NEW i \in 1 .. Len(f), NEW j \in 1 .. Len(f), i < j, i # k + 1, j # k + 1
      PROVE  \E a, b \in 1 .. Len(e) : f[i] = e[a] /\ f[j] = e[b] /\ a < b
  BY <1>3, TwoOld
<1>4. x.what \notin Finishing => (Finishes(f) <=> Finishes(e))
  BY <1>1 DEF Finishes
<1>5. x.what # "FinishRead" => (Reads(f) <=> Reads(e))
  BY <1>2 DEF Reads
<1>6. ASSUME x.what \notin Finishing, OneFinish(e) PROVE OneFinish(f)
  <2> SUFFICES ASSUME NEW i \in 1 .. Len(f), NEW j \in 1 .. Len(f), i < j,
                      f[i].what \in Finishing, f[j].what \in Finishing
               PROVE  FALSE
    BY <1>1 DEF OneFinish
  <2>1. PICK a \in 1 .. Len(e), b \in 1 .. Len(e) : f[i] = e[a] /\ f[j] = e[b] /\ a < b
    BY <1>1, <1>3, <1>6
  <2> QED
    BY <1>6, <2>1 DEF OneFinish
<1>8. ASSUME x.what \in Finishing, ~Finishes(e)
      PROVE  Finishes(f) /\ OneFinish(f) /\ (Reads(f) <=> x.what = "FinishRead")
  <2>1. \A i \in 1 .. Len(f) : f[i].what \in Finishing <=> i = k + 1
    BY <1>1, <1>8 DEF Finishes
  <2>2. "FinishRead" \in Finishing
    BY DEF Finishing
  <2> QED
    BY <1>1, <2>1, <2>2 DEF Finishes, OneFinish, Reads
<1>9. x.what \notin Finishing => DriveSame(e, f)
  <2> SUFFICES ASSUME x.what \notin Finishing PROVE DriveSame(e, f)
    OBVIOUS
  <2>1. x.what # "FinishRead"
    BY DEF Finishing
  <2> QED
    BY <1>4, <1>5, <1>6, <2>1 DEF DriveSame
<1> QED
  BY <1>8, <1>9

\* RemoveAllEvents() takes none of the events of the drive.
LEMMA DriveRemoved ==
  ASSUME NEW e \in Seq(Events)
  PROVE  DriveSame(e, RemoveAllEvents(e))
<1> DEFINE f == RemoveAllEvents(e)
<1>1. f \in Seq(Events) /\ Len(f) \in Nat /\ Len(e) \in Nat
  BY Removing DEF Remains
<1>2. PICK place \in [1 .. Len(f) -> 1 .. Len(e)] :
        /\ \A i, j \in 1 .. Len(f) : i < j => place[i] < place[j]
        /\ \A i \in 1 .. Len(f) : f[i] = e[place[i]] /\ f[i].what \notin Enqueued
        /\ \A n \in 1 .. Len(e) : e[n].what \notin Enqueued => \E i \in 1 .. Len(f) : place[i] = n
  BY Removing DEF Remains
<1> HIDE DEF f
<1>3. \A w \in Kinds \ Enqueued :
        (\E i \in 1 .. Len(f) : f[i].what = w) <=> \E i \in 1 .. Len(e) : e[i].what = w
  <2> SUFFICES ASSUME NEW w \in Kinds \ Enqueued
               PROVE  (\E i \in 1 .. Len(f) : f[i].what = w) <=> \E i \in 1 .. Len(e) : e[i].what = w
    OBVIOUS
  <2>1. ASSUME NEW i \in 1 .. Len(f), f[i].what = w PROVE \E n \in 1 .. Len(e) : e[n].what = w
    BY <1>2, <2>1
  <2>2. ASSUME NEW n \in 1 .. Len(e), e[n].what = w PROVE \E i \in 1 .. Len(f) : f[i].what = w
    <3>1. PICK i \in 1 .. Len(f) : place[i] = n
      BY <1>2, <2>2
    <3> QED
      BY <1>2, <2>2, <3>1
  <2> QED
    BY <2>1, <2>2
<1>4. {"FinishRead", "FinishCommand"} \subseteq Kinds \ Enqueued
  BY DEF Kinds, Enqueued
<1>5. (Finishes(f) <=> Finishes(e)) /\ (Reads(f) <=> Reads(e))
  BY <1>3, <1>4 DEF Finishes, Reads, Finishing
<1>6. ASSUME OneFinish(e) PROVE OneFinish(f)
  <2> SUFFICES ASSUME NEW i \in 1 .. Len(f), NEW j \in 1 .. Len(f), i < j,
                      f[i].what \in Finishing, f[j].what \in Finishing
               PROVE  FALSE
    BY <1>1 DEF OneFinish
  <2>1. /\ place[i] \in 1 .. Len(e) /\ place[j] \in 1 .. Len(e) /\ place[i] < place[j]
        /\ e[place[i]].what \in Finishing /\ e[place[j]].what \in Finishing
    BY <1>2
  <2> QED
    BY <1>6, <2>1 DEF OneFinish
<1> QED
  BY <1>5, <1>6 DEF DriveSame, f

\* What the first event meant to the drive, and the others mean.
LEMMA DriveTail ==
  ASSUME NEW e \in Seq(Events), e # <<>>
  PROVE  /\ Head(e).what \notin Finishing =>
              /\ Finishes(Tail(e)) <=> Finishes(e)
              /\ Reads(Tail(e)) <=> Reads(e)
         /\ OneFinish(e) => OneFinish(Tail(e))
         /\ Head(e).what \in Finishing /\ OneFinish(e) => ~Finishes(Tail(e)) /\ ~Reads(Tail(e))
<1> DEFINE f == Tail(e)
<1>1. /\ Head(e) = e[1] /\ Len(e) \in Nat /\ Len(f) = Len(e) - 1 /\ 1 \in 1 .. Len(e)
      /\ \A i \in 1 .. Len(f) : f[i] = e[i + 1] /\ i + 1 \in 1 .. Len(e) /\ i + 1 # 1
      /\ \A i \in 1 .. Len(e) : i # 1 => i - 1 \in 1 .. Len(f) /\ f[i - 1] = e[i]
  OBVIOUS
<1> HIDE DEF f
<1>2. \A w : e[1].what # w =>
        ((\E i \in 1 .. Len(f) : f[i].what = w) <=> \E i \in 1 .. Len(e) : e[i].what = w)
  BY <1>1
<1>3. e[1].what \notin Finishing => (Finishes(f) <=> Finishes(e)) /\ (Reads(f) <=> Reads(e))
  <2> SUFFICES ASSUME e[1].what \notin Finishing
               PROVE  (Finishes(f) <=> Finishes(e)) /\ (Reads(f) <=> Reads(e))
    OBVIOUS
  <2>1. e[1].what # "FinishRead" /\ e[1].what # "FinishCommand"
    BY DEF Finishing
  <2> QED
    BY <1>2, <2>1 DEF Finishes, Reads, Finishing
<1>4. OneFinish(e) => OneFinish(f)
  BY <1>1 DEF OneFinish
<1>5. e[1].what \in Finishing /\ OneFinish(e) => ~Finishes(f) /\ ~Reads(f)
  BY <1>1 DEF OneFinish, Finishes, Reads, Finishing
<1> QED
  BY <1>1, <1>3, <1>4, <1>5 DEF f

-----------------------------------------------------------------------------
(* The IOS between two of its steps *)

Holds(s, h, u) ==
  /\ s \in Ios /\ h \in [Commands -> Places]
  /\ EventsHold(s.events, h, u, s.last_reply)
  /\ QueueHolds(s.request_queue, h, u, "request_queue")
  /\ QueueHolds(s.reply_queue, h, u, "reply_queue")
  /\ QueueHolds(s.ack_queue, h, u, "ack_queue")
  /\ QueueHolds(s.m_commands_to_execute, h, u, "m_commands_to_execute")
  /\ \A c \in Commands : h[c] = "mailbox" <=> s.Y1 /\ s.arm_msg = c
  /\ ~(s.Y1 /\ s.Y2) /\ (s.Y1 \/ s.Y2 => s.arm_msg \in Commands)

LEMMA HoldsTypes ==
  ASSUME NEW s, NEW h, NEW u, Holds(s, h, u)
  PROVE  /\ s \in Ios /\ h \in [Commands -> Places] /\ Sorted(s.events)
         /\ s.Y1 \in BOOLEAN /\ s.Y2 \in BOOLEAN /\ s.ppc_irq_flags \in BOOLEAN
         /\ s.arm_msg \in Commands \cup {Nothing} /\ s.last_reply \in Nat
         /\ s.request_queue \in Seq(Commands) /\ s.reply_queue \in Seq(Commands)
         /\ s.ack_queue \in Seq(Commands) /\ s.m_commands_to_execute \in Seq(Discs)
         /\ s.events \in Seq(Events) /\ s.volume \in 0 .. 2
BY Fields DEF Holds, EventsHold

LEMMA HoldsParts ==
  ASSUME NEW s, NEW h, NEW u, Holds(s, h, u)
  PROVE  /\ EventsHold(s.events, h, u, s.last_reply)
         /\ QueueHolds(s.request_queue, h, u, "request_queue")
         /\ QueueHolds(s.reply_queue, h, u, "reply_queue")
         /\ QueueHolds(s.ack_queue, h, u, "ack_queue")
         /\ QueueHolds(s.m_commands_to_execute, h, u, "m_commands_to_execute")
BY DEF Holds

LEMMA Ends ==
  ASSUME NEW S, NEW q \in Seq(S), q # <<>>
  PROVE  Head(q) \in S /\ Tail(q) \in Seq(S)
OBVIOUS

\* A command c goes to p; whatever holds neither place is as it was.
LEMMA HoldsChange ==
  ASSUME NEW s, NEW h, NEW u, Holds(s, h, u), NEW t \in Ios,
         NEW c \in Commands, NEW p \in Places, NEW g, g = [h EXCEPT ![c] = p],
         \/ EventsHold(t.events, g, u, t.last_reply)
         \/ t.events = s.events /\ t.last_reply = s.last_reply /\ h[c] \notin Enqueued /\ p \notin Enqueued,
         \/ QueueHolds(t.request_queue, g, u, "request_queue")
         \/ t.request_queue = s.request_queue /\ h[c] # "request_queue" /\ p # "request_queue",
         \/ QueueHolds(t.reply_queue, g, u, "reply_queue")
         \/ t.reply_queue = s.reply_queue /\ h[c] # "reply_queue" /\ p # "reply_queue",
         \/ QueueHolds(t.ack_queue, g, u, "ack_queue")
         \/ t.ack_queue = s.ack_queue /\ h[c] # "ack_queue" /\ p # "ack_queue",
         \/ QueueHolds(t.m_commands_to_execute, g, u, "m_commands_to_execute")
         \/ /\ t.m_commands_to_execute = s.m_commands_to_execute
            /\ h[c] # "m_commands_to_execute" /\ p # "m_commands_to_execute",
         \/ \A d \in Commands : g[d] = "mailbox" <=> t.Y1 /\ t.arm_msg = d
         \/ t.Y1 = s.Y1 /\ t.arm_msg = s.arm_msg /\ h[c] # "mailbox" /\ p # "mailbox",
         ~(t.Y1 /\ t.Y2), t.Y1 \/ t.Y2 => t.arm_msg \in Commands
  PROVE  Holds(t, g, u)
<1>1. /\ h \in [Commands -> Places] /\ g \in [Commands -> Places] /\ g[c] = p
      /\ \A d \in Commands : d # c => g[d] = h[d]
  BY DEF Holds
<1>2. EventsHold(t.events, g, u, t.last_reply)
  <2> SUFFICES ASSUME t.events = s.events, t.last_reply = s.last_reply,
                      h[c] \notin Enqueued, p \notin Enqueued
               PROVE  EventsHold(t.events, g, u, t.last_reply)
    OBVIOUS
  <2>1. \A d \in Commands : g[d] = h[d] \/ (g[d] \notin Enqueued /\ h[d] \notin Enqueued)
    BY <1>1
  <2> QED
    BY <2>1, HoldElsewhere DEF Holds
<1>3. \A q \in Queues : h[c] # q /\ p # q => \A d \in Commands : g[d] = h[d] \/ (g[d] # q /\ h[d] # q)
  BY <1>1
<1>4. QueueHolds(t.request_queue, g, u, "request_queue")
  BY <1>3, QueueElsewhere DEF Holds, Queues
<1>5. QueueHolds(t.reply_queue, g, u, "reply_queue")
  BY <1>3, QueueElsewhere DEF Holds, Queues
<1>6. QueueHolds(t.ack_queue, g, u, "ack_queue")
  BY <1>3, QueueElsewhere DEF Holds, Queues
<1>7. QueueHolds(t.m_commands_to_execute, g, u, "m_commands_to_execute")
  BY <1>3, QueueElsewhere DEF Holds, Queues
<1>8. \A d \in Commands : g[d] = "mailbox" <=> t.Y1 /\ t.arm_msg = d
  BY <1>1 DEF Holds
<1> QED
  BY <1>1, <1>2, <1>4, <1>5, <1>6, <1>7, <1>8 DEF Holds

\* A change of what holds no command.
LEMMA HoldsSame ==
  ASSUME NEW s, NEW h, NEW u, Holds(s, h, u), NEW t \in Ios, SameQueues(s, t),
         EventsHold(t.events, h, u, t.last_reply),
         t.Y1 = s.Y1, t.Y1 => t.arm_msg = s.arm_msg,
         ~(t.Y1 /\ t.Y2), t.Y1 \/ t.Y2 => t.arm_msg \in Commands
  PROVE  Holds(t, h, u)
BY DEF Holds, SameQueues

LEMMA PlaceNames ==
  /\ Enqueued \subseteq Places /\ Queues \subseteq Places /\ Enqueued \subseteq Kinds
  /\ {"mailbox", "nowhere"} \subseteq Places
  /\ Enqueued = {"request", "reply", "ack"}
  /\ \A p \in {"mailbox", "nowhere"} \cup Queues : p \notin Enqueued
BY DEF Places, Queues, Enqueued, Kinds

\* A command is taken from a queue.
LEMMA TakeRequest ==
  ASSUME NEW s, NEW h, NEW u, Holds(s, h, u), s.request_queue # <<>>
  PROVE  Holds([s EXCEPT !.request_queue = Tail(@)], [h EXCEPT ![Head(s.request_queue)] = "nowhere"], u)
<1> DEFINE q == s.request_queue
           t == [s EXCEPT !.request_queue = Tail(@)]
           g == [h EXCEPT ![Head(q)] = "nowhere"]
<1>1. q \in Seq(Commands) /\ Tail(q) \in Seq(Commands) /\ h \in [Commands -> Places]
      /\ s \in Ios /\ QueueHolds(q, h, u, "request_queue")
  BY HoldsTypes, HoldsParts, Ends
<1>2. t \in Ios /\ t.request_queue = Tail(q) /\ t = [s EXCEPT !.request_queue = Tail(q)]
  BY <1>1 DEF Ios
<1>3. /\ t.events = s.events /\ t.last_reply = s.last_reply /\ t.reply_queue = s.reply_queue
      /\ t.ack_queue = s.ack_queue /\ t.m_commands_to_execute = s.m_commands_to_execute
      /\ t.Y1 = s.Y1 /\ t.Y2 = s.Y2 /\ t.arm_msg = s.arm_msg
  BY <1>1 DEF Ios
<1>4. Head(q) \in Commands /\ h[Head(q)] = "request_queue"
  BY <1>1, QueueHead
<1>5. QueueHolds(Tail(q), g, u, "request_queue")
  BY <1>1, QueueTail DEF Queues
<1> HIDE DEF t, g
<1>6. ~(t.Y1 /\ t.Y2) /\ (t.Y1 \/ t.Y2 => t.arm_msg \in Commands)
  BY <1>3 DEF Holds
<1> QED
  BY <1>2, <1>3, <1>4, <1>5, <1>6, HoldsChange, PlaceNames DEF Queues, g, t

\* The first of the queue of acknowledgements is taken out of it.
LEMMA TakeAcknowledgement ==
  ASSUME NEW s, NEW h, NEW u, Holds(s, h, u), s.ack_queue # <<>>
  PROVE  Holds([s EXCEPT !.ack_queue = Tail(@)], [h EXCEPT ![Head(s.ack_queue)] = "nowhere"], u)
<1> DEFINE q == s.ack_queue
           t == [s EXCEPT !.ack_queue = Tail(@)]
           g == [h EXCEPT ![Head(q)] = "nowhere"]
<1>1. q \in Seq(Commands) /\ Tail(q) \in Seq(Commands) /\ h \in [Commands -> Places]
      /\ s \in Ios /\ QueueHolds(q, h, u, "ack_queue")
  BY HoldsTypes, HoldsParts, Ends
<1>2. t \in Ios /\ t.ack_queue = Tail(q) /\ t = [s EXCEPT !.ack_queue = Tail(q)]
  BY <1>1 DEF Ios
<1>3. /\ t.events = s.events /\ t.last_reply = s.last_reply /\ t.reply_queue = s.reply_queue
      /\ t.request_queue = s.request_queue /\ t.m_commands_to_execute = s.m_commands_to_execute
      /\ t.Y1 = s.Y1 /\ t.Y2 = s.Y2 /\ t.arm_msg = s.arm_msg
  BY <1>1 DEF Ios
<1>4. Head(q) \in Commands /\ h[Head(q)] = "ack_queue"
  BY <1>1, QueueHead
<1>5. QueueHolds(Tail(q), g, u, "ack_queue")
  BY <1>1, QueueTail DEF Queues
<1> HIDE DEF t, g
<1>6. ~(t.Y1 /\ t.Y2) /\ (t.Y1 \/ t.Y2 => t.arm_msg \in Commands)
  BY <1>3 DEF Holds
<1> QED
  BY <1>2, <1>3, <1>4, <1>5, <1>6, HoldsChange, PlaceNames DEF Queues, g, t

\* The first command of the drive is taken from it.
LEMMA TakeDrive ==
  ASSUME NEW s, NEW h, NEW u, Holds(s, h, u), s.m_commands_to_execute # <<>>
  PROVE  Holds([s EXCEPT !.m_commands_to_execute = Tail(@)],
               [h EXCEPT ![Head(s.m_commands_to_execute)] = "nowhere"], u)
<1> DEFINE q == s.m_commands_to_execute
           t == [s EXCEPT !.m_commands_to_execute = Tail(@)]
           g == [h EXCEPT ![Head(q)] = "nowhere"]
<1>1. q \in Seq(Discs) /\ Tail(q) \in Seq(Discs) /\ h \in [Commands -> Places]
      /\ s \in Ios /\ QueueHolds(q, h, u, "m_commands_to_execute")
  BY HoldsTypes, HoldsParts, Ends
<1>2. t \in Ios /\ t.m_commands_to_execute = Tail(q) /\ t = [s EXCEPT !.m_commands_to_execute = Tail(q)]
  BY <1>1 DEF Ios
<1>3. /\ t.events = s.events /\ t.last_reply = s.last_reply /\ t.reply_queue = s.reply_queue
      /\ t.request_queue = s.request_queue /\ t.ack_queue = s.ack_queue
      /\ t.Y1 = s.Y1 /\ t.Y2 = s.Y2 /\ t.arm_msg = s.arm_msg
  BY <1>1 DEF Ios
<1>4. Head(q) \in Commands /\ h[Head(q)] = "m_commands_to_execute"
  BY <1>1, QueueHead
<1>5. QueueHolds(Tail(q), g, u, "m_commands_to_execute")
  BY <1>1, QueueTail DEF Queues
<1> HIDE DEF t, g
<1>6. ~(t.Y1 /\ t.Y2) /\ (t.Y1 \/ t.Y2 => t.arm_msg \in Commands)
  BY <1>3 DEF Holds
<1> QED
  BY <1>2, <1>3, <1>4, <1>5, <1>6, HoldsChange, PlaceNames DEF Queues, g, t

\* A reply is taken from its queue and shown to the guest.
LEMMA ShowReply ==
  ASSUME NEW s, NEW h, NEW u, Holds(s, h, u), s.reply_queue # <<>>, ~s.Y1, ~s.Y2
  PROVE  Holds(GenerateReply([s EXCEPT !.reply_queue = Tail(@)], Head(s.reply_queue)),
               [h EXCEPT ![Head(s.reply_queue)] = "mailbox"], u)
<1> DEFINE q == s.reply_queue
           r == [[s EXCEPT !.reply_queue = Tail(@)] EXCEPT !.arm_msg = Head(q), !.Y1 = TRUE]
           t == UpdateInterrupts[r]
           g == [h EXCEPT ![Head(q)] = "mailbox"]
<1>1. q \in Seq(Commands) /\ Tail(q) \in Seq(Commands) /\ h \in [Commands -> Places]
      /\ s \in Ios /\ QueueHolds(q, h, u, "reply_queue")
  BY HoldsTypes, HoldsParts, Ends
<1>4. Head(q) \in Commands /\ h[Head(q)] = "reply_queue"
  BY <1>1, QueueHead
<1>2. r \in Ios
  BY <1>1, <1>4 DEF Ios
<1>3. /\ t \in Ios /\ t.reply_queue = Tail(q)
      /\ t.events = s.events /\ t.last_reply = s.last_reply /\ t.ack_queue = s.ack_queue
      /\ t.request_queue = s.request_queue /\ t.m_commands_to_execute = s.m_commands_to_execute
      /\ t.Y1 = TRUE /\ t.Y2 = s.Y2 /\ t.arm_msg = Head(q)
  BY <1>1, <1>2, <1>4 DEF Ios, UpdateInterrupts
<1>5. QueueHolds(Tail(q), g, u, "reply_queue")
  <2>1. QueueHolds(Tail(q), [h EXCEPT ![Head(q)] = "nowhere"], u, "reply_queue")
    BY <1>1, QueueTail DEF Queues
  <2>2. \A c \in Commands : \/ g[c] = [h EXCEPT ![Head(q)] = "nowhere"][c]
                            \/ /\ g[c] # "reply_queue"
                               /\ [h EXCEPT ![Head(q)] = "nowhere"][c] # "reply_queue"
    BY <1>1, <1>4
  <2> QED
    BY <2>1, <2>2, QueueElsewhere
<1>6. \A c \in Commands : g[c] = "mailbox" <=> t.Y1 /\ t.arm_msg = c
  BY <1>1, <1>3, <1>4 DEF Holds
<1>7. t = GenerateReply([s EXCEPT !.reply_queue = Tail(@)], Head(s.reply_queue))
  BY DEF GenerateReply
<1> HIDE DEF t, g
<1>8. ~(t.Y1 /\ t.Y2) /\ (t.Y1 \/ t.Y2 => t.arm_msg \in Commands)
  BY <1>3, <1>4
<1>9. Holds(t, g, u)
  BY ZenonT(60), <1>3, <1>4, <1>5, <1>6, <1>8, HoldsChange, PlaceNames DEF Queues, g
<1> QED
  BY <1>7, <1>9 DEF g

\* A command that was nowhere is put into a queue.
LEMMA PutRequest ==
  ASSUME NEW s, NEW h, NEW u, Holds(s, h, u), NEW c \in Commands, h[c] = "nowhere",
         \A d \in Files : c \in Files /\ h[d] = "request_queue" => Precedes(u, d, c)
  PROVE  Holds([s EXCEPT !.request_queue = Append(@, c)], [h EXCEPT ![c] = "request_queue"], u)
<1> DEFINE q == s.request_queue
           t == [s EXCEPT !.request_queue = Append(@, c)]
           g == [h EXCEPT ![c] = "request_queue"]
<1>1. q \in Seq(Commands) /\ Append(q, c) \in Seq(Commands) /\ h \in [Commands -> Places]
      /\ s \in Ios /\ QueueHolds(q, h, u, "request_queue")
  BY HoldsTypes, HoldsParts
<1>2. t \in Ios /\ t.request_queue = Append(q, c)
  BY <1>1 DEF Ios
<1>3. /\ t.events = s.events /\ t.last_reply = s.last_reply /\ t.reply_queue = s.reply_queue
      /\ t.ack_queue = s.ack_queue /\ t.m_commands_to_execute = s.m_commands_to_execute
      /\ t.Y1 = s.Y1 /\ t.Y2 = s.Y2 /\ t.arm_msg = s.arm_msg
  BY <1>1 DEF Ios
<1>4. QueueHolds(Append(q, c), g, u, "request_queue")
  BY <1>1, QueueAppend, PlaceNames DEF Queues
<1> HIDE DEF t, g
<1>5. ~(t.Y1 /\ t.Y2) /\ (t.Y1 \/ t.Y2 => t.arm_msg \in Commands)
  BY <1>3 DEF Holds
<1> QED
  BY <1>2, <1>3, <1>4, <1>5, HoldsChange, PlaceNames DEF Queues, g, t

\* A command is put into the queue of replies.
LEMMA PutReply ==
  ASSUME NEW s, NEW h, NEW u, Holds(s, h, u), NEW c \in Commands, h[c] = "nowhere",
         \A d \in Files : c \in Files /\ h[d] = "reply_queue" => Precedes(u, d, c)
  PROVE  Holds([s EXCEPT !.reply_queue = Append(@, c)], [h EXCEPT ![c] = "reply_queue"], u)
<1> DEFINE q == s.reply_queue
           t == [s EXCEPT !.reply_queue = Append(@, c)]
           g == [h EXCEPT ![c] = "reply_queue"]
<1>1. q \in Seq(Commands) /\ Append(q, c) \in Seq(Commands) /\ h \in [Commands -> Places]
      /\ s \in Ios /\ QueueHolds(q, h, u, "reply_queue")
  BY HoldsTypes, HoldsParts
<1>2. t \in Ios /\ t.reply_queue = Append(q, c)
  BY <1>1 DEF Ios
<1>3. /\ t.events = s.events /\ t.last_reply = s.last_reply /\ t.request_queue = s.request_queue
      /\ t.ack_queue = s.ack_queue /\ t.m_commands_to_execute = s.m_commands_to_execute
      /\ t.Y1 = s.Y1 /\ t.Y2 = s.Y2 /\ t.arm_msg = s.arm_msg
  BY <1>1 DEF Ios
<1>4. QueueHolds(Append(q, c), g, u, "reply_queue")
  BY <1>1, QueueAppend, PlaceNames DEF Queues
<1> HIDE DEF t, g
<1>5. ~(t.Y1 /\ t.Y2) /\ (t.Y1 \/ t.Y2 => t.arm_msg \in Commands)
  BY <1>3 DEF Holds
<1> QED
  BY <1>2, <1>3, <1>4, <1>5, HoldsChange, PlaceNames DEF Queues, g, t

\* A command is put into the queue of acknowledgements.
LEMMA PutAcknowledgement ==
  ASSUME NEW s, NEW h, NEW u, Holds(s, h, u), NEW c \in Titles, h[c] = "nowhere"
  PROVE  Holds([s EXCEPT !.ack_queue = Append(@, c)], [h EXCEPT ![c] = "ack_queue"], u)
<1> DEFINE q == s.ack_queue
           t == [s EXCEPT !.ack_queue = Append(@, c)]
           g == [h EXCEPT ![c] = "ack_queue"]
<1>0. c \in Commands /\ c \notin Files
  BY WiiIpcAssumption DEF Commands
<1>1. q \in Seq(Commands) /\ Append(q, c) \in Seq(Commands) /\ h \in [Commands -> Places]
      /\ s \in Ios /\ QueueHolds(q, h, u, "ack_queue")
  BY <1>0, HoldsTypes, HoldsParts
<1>2. t \in Ios /\ t.ack_queue = Append(q, c)
  BY <1>1 DEF Ios
<1>3. /\ t.events = s.events /\ t.last_reply = s.last_reply /\ t.request_queue = s.request_queue
      /\ t.reply_queue = s.reply_queue /\ t.m_commands_to_execute = s.m_commands_to_execute
      /\ t.Y1 = s.Y1 /\ t.Y2 = s.Y2 /\ t.arm_msg = s.arm_msg
  BY <1>1 DEF Ios
<1>4. QueueHolds(Append(q, c), g, u, "ack_queue")
  BY <1>0, <1>1, QueueAppend, PlaceNames DEF Queues
<1> HIDE DEF t, g
<1>5. ~(t.Y1 /\ t.Y2) /\ (t.Y1 \/ t.Y2 => t.arm_msg \in Commands)
  BY <1>3 DEF Holds
<1> QED
  BY <1>0, <1>2, <1>3, <1>4, <1>5, HoldsChange, PlaceNames DEF Queues, g, t

\* A command is put into the queue of the drive.
LEMMA PutDrive ==
  ASSUME NEW s, NEW h, NEW u, Holds(s, h, u), NEW c \in Discs, h[c] = "nowhere"
  PROVE  Holds([s EXCEPT !.m_commands_to_execute = Append(@, c)],
               [h EXCEPT ![c] = "m_commands_to_execute"], u)
<1> DEFINE q == s.m_commands_to_execute
           t == [s EXCEPT !.m_commands_to_execute = Append(@, c)]
           g == [h EXCEPT ![c] = "m_commands_to_execute"]
<1>0. c \in Commands /\ c \notin Files
  BY WiiIpcAssumption DEF Commands
<1>1. q \in Seq(Discs) /\ Append(q, c) \in Seq(Discs) /\ h \in [Commands -> Places]
      /\ s \in Ios /\ QueueHolds(q, h, u, "m_commands_to_execute")
  BY HoldsTypes, HoldsParts
<1>2. t \in Ios /\ t.m_commands_to_execute = Append(q, c)
  BY <1>1 DEF Ios
<1>3. /\ t.events = s.events /\ t.last_reply = s.last_reply /\ t.request_queue = s.request_queue
      /\ t.reply_queue = s.reply_queue /\ t.ack_queue = s.ack_queue
      /\ t.Y1 = s.Y1 /\ t.Y2 = s.Y2 /\ t.arm_msg = s.arm_msg
  BY <1>1 DEF Ios
<1>4. QueueHolds(Append(q, c), g, u, "m_commands_to_execute")
  BY <1>0, <1>1, QueueAppend, PlaceNames DEF Queues
<1> HIDE DEF t, g
<1>5. ~(t.Y1 /\ t.Y2) /\ (t.Y1 \/ t.Y2 => t.arm_msg \in Commands)
  BY <1>3 DEF Holds
<1> QED
  BY <1>0, <1>2, <1>3, <1>4, <1>5, HoldsChange, PlaceNames DEF Queues, g, t

\* An event for no command is scheduled.
LEMMA PutOther ==
  ASSUME NEW s, NEW h, NEW u, Holds(s, h, u), NEW due \in Nat, NEW what \in Kinds \ Enqueued
  PROVE  /\ Holds(Schedule(due, what, Nothing)[s], h, u)
         /\ SameBut(s, Schedule(due, what, Nothing)[s])
         /\ Inserted(s.events, Event(due, what, Nothing), Earlier(s, due),
                     Schedule(due, what, Nothing)[s].events)
<1> DEFINE t == Schedule(due, what, Nothing)[s]
           x == Event(due, what, Nothing)
<1>1. s \in Ios /\ Sorted(s.events) /\ s.last_reply \in Nat /\ EventsHold(s.events, h, u, s.last_reply)
  BY HoldsTypes, HoldsParts
<1>2. /\ t \in Ios /\ SameBut(s, t) /\ Sorted(t.events)
      /\ Inserted(s.events, x, Earlier(s, due), t.events)
  BY <1>1, Scheduling
<1>3. x \in Events /\ x.what \notin Enqueued
  BY DEF Event, Events
<1> HIDE DEF t, x
<1>4. EventsHold(t.events, h, u, s.last_reply)
  BY <1>1, <1>2, <1>3, HoldOther
<1>5. /\ SameQueues(s, t) /\ t.last_reply = s.last_reply
      /\ t.Y1 = s.Y1 /\ t.Y2 = s.Y2 /\ t.arm_msg = s.arm_msg
  BY <1>2 DEF SameBut, SameMailbox
<1>6. ~(t.Y1 /\ t.Y2) /\ (t.Y1 \/ t.Y2 => t.arm_msg \in Commands)
  BY <1>5 DEF Holds
<1>7. Holds(t, h, u)
  BY <1>2, <1>4, <1>5, <1>6, HoldsSame
<1> QED
  BY <1>2, <1>7 DEF t, x

\* ScheduleUpdate() changes nothing but the events, and no place.
LEMMA PutUpdate ==
  ASSUME NEW s, NEW h, NEW u, Holds(s, h, u), NEW due \in Nat
  PROVE  /\ Holds(ScheduleUpdate(due)[s], h, u) /\ SameBut(s, ScheduleUpdate(due)[s])
         /\ DriveSame(s.events, ScheduleUpdate(due)[s].events)
<1>1. s \in Ios /\ s.events \in Seq(Events)
  BY HoldsTypes
<1>2. "irq" \in Kinds \ Enqueued /\ "irq" \notin Finishing
  BY DEF Kinds, Enqueued, Finishing
<1>3. ScheduleUpdate(due)[s] = s \/ ScheduleUpdate(due)[s] = Schedule(due, "irq", Nothing)[s]
  BY <1>1 DEF ScheduleUpdate
<1>4. CASE ScheduleUpdate(due)[s] = s
  <2>1. DriveSame(s.events, s.events)
    BY DEF DriveSame
  <2> QED
    BY <1>4, <2>1 DEF SameBut, SameQueues, SameMailbox
<1>5. CASE ScheduleUpdate(due)[s] = Schedule(due, "irq", Nothing)[s]
  <2>1. Event(due, "irq", Nothing).what = "irq"
    BY DEF Event
  <2> QED
    BY <1>1, <1>2, <1>5, <2>1, PutOther, DriveInserted
<1> QED
  BY <1>3, <1>4, <1>5

\* A command that was nowhere is put on its way.  s2 is s, but for its last_reply.
LEMMA PutEvent ==
  ASSUME NEW s, NEW h, NEW u, Holds(s, h, u), NEW c \in Commands, h[c] = "nowhere",
         NEW what \in Enqueued, NEW due \in Nat,
         NEW s2 \in Ios, s2.events = s.events, SameQueues(s, s2), SameMailbox(s, s2),
         s.last_reply <= s2.last_reply,
         what = "request" => due = Latency,
         what = "reply" => s.last_reply <= due /\ due <= s2.last_reply,
         \A d \in Files : c \in Files /\ h[d] = what => Precedes(u, d, c)
  PROVE  /\ Holds(Schedule(due, what, c)[s2], [h EXCEPT ![c] = what], u)
         /\ SameBut(s2, Schedule(due, what, c)[s2])
         /\ DriveSame(s.events, Schedule(due, what, c)[s2].events)
<1> DEFINE t == Schedule(due, what, c)[s2]
           x == Event(due, what, c)
           g == [h EXCEPT ![c] = what]
           k == Earlier(s2, due)
<1>1. /\ s \in Ios /\ h \in [Commands -> Places] /\ Sorted(s.events) /\ s.last_reply \in Nat
      /\ s2.last_reply \in Nat /\ s.events \in Seq(Events)
      /\ EventsHold(s.events, h, u, s.last_reply) /\ Latency \in Nat /\ what \in Kinds /\ what \in Places
  BY HoldsTypes, HoldsParts, Fields, WiiIpcAssumption, PlaceNames
<1>2. /\ t \in Ios /\ SameBut(s2, t) /\ Sorted(t.events)
      /\ Inserted(s.events, x, k, t.events)
  BY <1>1, Scheduling
<1>3. x \in Events /\ x.what = what /\ x.cmd = c /\ x.due = due
  BY <1>1 DEF Event, Events
<1> HIDE DEF t, x, k, g
<1>4. EventsHold(t.events, g, u, s2.last_reply)
  <2>1. x.what \in Enqueued /\ x.cmd \in Commands /\ h[x.cmd] \notin Enqueued
    BY <1>3, PlaceNames
  <2>2. x.what = "request" => x.due = Latency
    BY <1>3
  <2>3. x.what = "reply" => s.last_reply <= x.due /\ x.due <= s2.last_reply
    BY <1>3
  <2>4. \A d \in Files : x.cmd \in Files /\ h[d] = x.what => Precedes(u, d, x.cmd)
    BY <1>3
  <2>5. EventsHold(t.events, [h EXCEPT ![x.cmd] = x.what], u, s2.last_reply)
    BY <1>1, <1>2, <1>3, <2>1, <2>2, <2>3, <2>4, HoldInserted
  <2> QED
    BY <1>3, <2>5 DEF g
<1>5. SameQueues(s, t) /\ t.last_reply = s2.last_reply
      /\ t.Y1 = s.Y1 /\ t.Y2 = s.Y2 /\ t.arm_msg = s.arm_msg
  BY <1>2 DEF SameBut, SameMailbox, SameQueues
<1>6. ~(t.Y1 /\ t.Y2) /\ (t.Y1 \/ t.Y2 => t.arm_msg \in Commands)
  BY <1>5 DEF Holds
<1>7. Holds(t, g, u)
  BY <1>1, <1>2, <1>4, <1>5, <1>6, HoldsChange, PlaceNames DEF g, SameQueues, Queues
<1>8. DriveSame(s.events, t.events)
  <2>1. x.what \notin Finishing
    BY <1>3 DEF Enqueued, Finishing
  <2> QED
    BY <1>1, <1>2, <2>1, DriveInserted
<1> QED
  BY <1>2, <1>7, <1>8 DEF t, g

\* Every command is forgotten.
Forgotten == [c \in Commands |-> "nowhere"]

\* After a reset with an idle drive there is nothing anywhere.
LEMMA HoldsNothing ==
  ASSUME NEW s, NEW h, NEW u, Holds(s, h, u), NEW t \in Ios, NEW v,
         t.events = RemoveAllEvents(s.events), t.last_reply = 0,
         t.request_queue = <<>>, t.reply_queue = <<>>, t.ack_queue = <<>>,
         t.m_commands_to_execute = <<>>, ~t.Y1, t.Y2 => t.arm_msg \in Commands
  PROVE  Holds(t, Forgotten, v)
<1>1. \A c \in Commands : Forgotten[c] = "nowhere"
  BY DEF Forgotten
<1>2. Forgotten \in [Commands -> Places]
  BY PlaceNames DEF Forgotten
<1>3. \A c \in Commands : Forgotten[c] \notin Enqueued \cup Queues \cup {"mailbox"}
  BY <1>1 DEF Enqueued, Queues
<1> HIDE DEF Forgotten
<1>4. EventsHold(t.events, Forgotten, u, t.last_reply)
  BY SMTT(90), <1>3, HoldsTypes, HoldsParts, HoldRemoved
<1>5. EventsHold(t.events, Forgotten, v, t.last_reply)
  BY <1>3, <1>4, HoldOrder DEF Commands
<1>6. \A q \in Queues : QueueHolds(<<>>, Forgotten, v, q)
  BY <1>3, QueueEmpty
<1> QED
  BY <1>2, <1>3, <1>5, <1>6 DEF Holds, Queues

-----------------------------------------------------------------------------
(* What a command is waiting for *)

Statuses == [Commands -> {"free", "sent", "acked"}]

\* A launch that has been executed, and did not fail, is all there is.
Executed(l, h, st) ==
  l \notin Missing /\ st[l] # "free" /\ h[l] \notin {"request", "request_queue"}

\* Where a command may be, given what the guest knows of it and whether the mailbox holds its
\* acknowledgement.
Life(h, st, Y2, arm) ==
  /\ \A c \in Commands :
       /\ h[c] = "reply" => c \in Files
       /\ h[c] \in {"reply_queue", "mailbox"} => c \notin Titles
       /\ h[c] = "m_commands_to_execute" => c \in Discs
       /\ h[c] \in {"ack", "ack_queue"} => c \in Titles
       /\ h[c] \in {"request", "request_queue"} => st[c] = "sent" /\ ~(Y2 /\ arm = c)
       /\ h[c] \in {"reply", "reply_queue", "m_commands_to_execute", "ack", "ack_queue"} =>
            st[c] = "acked" \/ (st[c] = "sent" /\ Y2 /\ arm = c)
       /\ h[c] = "mailbox" => st[c] = "acked"
  /\ Y2 => /\ arm \in Commands
           /\ \/ st[arm] = "sent"
              \/ arm \in Titles /\ st[arm] = "acked" /\ h[arm] = "nowhere"
  /\ \A l \in Titles : st[l] # "free" =>
       /\ \A c \in Discs : st[c] = "free"
       /\ \A m \in Titles : st[m] # "free" => m = l
       /\ Executed(l, h, st) => \A c \in Commands : h[c] \in {"nowhere", "ack", "ack_queue"}
  /\ \A c \in Files :
       st[c] # "free" => h[c] # "nowhere" \/ \E l \in Titles : Executed(l, h, st)

\* u lists the Files that have been sent and not answered.
Listed(u, st) ==
  /\ u \in Seq(Files)
  /\ \A i, j \in 1 .. Len(u) : i # j => u[i] # u[j]
  /\ \A c \in Files : st[c] # "free" <=> \E i \in 1 .. Len(u) : u[i] = c

\* How far a command is from the guest.
Rank(p) == CASE p = "mailbox" -> 1 [] p = "reply_queue" -> 2 [] p = "reply" -> 3
             [] p = "request_queue" -> 4 [] p = "request" -> 5 [] OTHER -> 6

\* Of the Files those that are nearer were sent before.
InLine(h, u) ==
  \A c, d \in Files : Rank(h[c]) < Rank(h[d]) /\ Rank(h[d]) < 6 => Precedes(u, c, d)

Sound(s, h, st, u) ==
  /\ Holds(s, h, u) /\ st \in Statuses /\ Life(h, st, s.Y2, s.arm_msg)
  /\ InLine(h, u) /\ Listed(u, st)

\* The ranks of the places.
LEMMA Ranks ==
  /\ \A p \in Places : Rank(p) \in 1 .. 6
  /\ Rank("mailbox") = 1 /\ Rank("reply_queue") = 2 /\ Rank("reply") = 3
  /\ Rank("request_queue") = 4 /\ Rank("request") = 5 /\ Rank("nowhere") = 6
  /\ Rank("m_commands_to_execute") = 6 /\ Rank("ack") = 6 /\ Rank("ack_queue") = 6
BY DEF Rank, Places, Enqueued, Queues

\* The next command in line goes one step nearer.
LEMMA LineMoves ==
  ASSUME NEW h \in [Commands -> Places], NEW u, InLine(h, u), NEW c \in Commands, NEW p \in Places,
         c \in Files => /\ Rank(h[c]) = Rank(p) + 1 /\ Rank(h[c]) < 6
                        /\ \A d \in Files : h[d] = h[c] /\ d # c => Precedes(u, c, d)
  PROVE  InLine([h EXCEPT ![c] = p], u)
<1> DEFINE g == [h EXCEPT ![c] = p]
<1>1. g[c] = p /\ \A d \in Commands : d # c => g[d] = h[d]
  OBVIOUS
<1>2. \A d \in Files : d \in Commands
  BY DEF Commands
<1>3. \A p1, p2 \in Places : Rank(p1) = Rank(p2) /\ Rank(p1) < 6 => p1 = p2
  BY DEF Rank, Places, Enqueued, Queues
<1>4. \A d \in Commands : Rank(h[d]) \in 1 .. 6
  BY Ranks
<1>5. Rank(p) \in 1 .. 6
  BY Ranks
<1> HIDE DEF g
<1> SUFFICES ASSUME NEW a \in Files, NEW b \in Files, Rank(g[a]) < Rank(g[b]), Rank(g[b]) < 6
             PROVE  Precedes(u, a, b)
  BY DEF InLine, g
<1>6. CASE a = c
  <2>1. b # c /\ g[b] = h[b]
    BY <1>1, <1>2, <1>4, <1>5, <1>6
  <2>2. CASE h[b] = h[c]
    BY <1>6, <2>1, <2>2
  <2>3. CASE h[b] # h[c]
    <3>1. Rank(h[c]) # Rank(h[b])
      BY <1>2, <1>3, <1>6, <2>1, <2>3
    <3>2. Rank(h[c]) < Rank(h[b])
      BY <1>1, <1>2, <1>4, <1>5, <1>6, <2>1, <3>1
    <3> QED
      BY <1>6, <2>1, <3>2 DEF InLine
  <2> QED
    BY <2>2, <2>3
<1>7. CASE b = c
  <2>1. a # c /\ g[a] = h[a] /\ Rank(h[a]) < Rank(h[c])
    BY <1>1, <1>2, <1>4, <1>5, <1>7
  <2> QED
    BY <1>7, <2>1 DEF InLine
<1>8. CASE a # c /\ b # c
  BY <1>1, <1>2, <1>8 DEF InLine
<1> QED
  BY <1>6, <1>7, <1>8

\* A command leaves the line.
LEMMA LineDrops ==
  ASSUME NEW h, NEW u, InLine(h, u), NEW g, NEW v,
         \A d \in Files : g[d] = h[d] \/ g[d] = "nowhere",
         \A c, d \in Files : g[c] # "nowhere" /\ g[d] # "nowhere" /\ Precedes(u, c, d) => Precedes(v, c, d)
  PROVE  InLine(g, v)
<1> SUFFICES ASSUME NEW a \in Files, NEW b \in Files, Rank(g[a]) < Rank(g[b]), Rank(g[b]) < 6
             PROVE  Precedes(v, a, b)
  BY DEF InLine
<1>1. g[b] # "nowhere"
  BY Ranks
<1>2. g[a] # "nowhere"
  <2>1. Rank(g[a]) # 6
    <3>1. Rank(g[b]) \in 1 .. 6
      BY DEF Rank
    <3> QED
      BY <3>1
  <2> QED
    BY <2>1, Ranks
<1>3. Precedes(u, a, b)
  BY <1>1, <1>2 DEF InLine
<1> QED
  BY <1>1, <1>2, <1>3

\* An event delivers its command to the queue of its name.
QueueOf(what) == CASE what = "request" -> "request_queue" [] what = "reply" -> "reply_queue"
                   [] what = "ack" -> "ack_queue"

\* A command goes from an event to its queue.
LEMMA LifeDelivered ==
  ASSUME NEW h \in [Commands -> Places], NEW st \in Statuses, NEW Y2 \in BOOLEAN, NEW arm,
         Life(h, st, Y2, arm), NEW c \in Commands, h[c] \in Enqueued
  PROVE  Life([h EXCEPT ![c] = QueueOf(h[c])], st, Y2, arm)
<1> DEFINE g == [h EXCEPT ![c] = QueueOf(h[c])]
<1>1. /\ h[c] = "request" => g[c] = "request_queue"
      /\ h[c] = "reply" => g[c] = "reply_queue"
      /\ h[c] = "ack" => g[c] = "ack_queue"
      /\ h[c] \in {"request", "reply", "ack"}
      /\ \A d \in Commands : d # c => g[d] = h[d]
  BY DEF QueueOf, Enqueued
<1>2. \A l \in Titles : l \in Commands /\ l \notin Files /\ l \notin Discs
  BY WiiIpcAssumption DEF Commands
<1>3. \A l \in Files : l \in Commands
  BY DEF Commands
<1> HIDE DEF g
<1>4. \A l \in Titles : Executed(l, g, st) <=> Executed(l, h, st)
  BY <1>1, <1>2 DEF Executed
<1>5. \A d \in Commands :
       /\ g[d] = "reply" => d \in Files
       /\ g[d] \in {"reply_queue", "mailbox"} => d \notin Titles
       /\ g[d] = "m_commands_to_execute" => d \in Discs
       /\ g[d] \in {"ack", "ack_queue"} => d \in Titles
       /\ g[d] \in {"request", "request_queue"} => st[d] = "sent" /\ ~(Y2 /\ arm = d)
       /\ g[d] \in {"reply", "reply_queue", "m_commands_to_execute", "ack", "ack_queue"} =>
            st[d] = "acked" \/ (st[d] = "sent" /\ Y2 /\ arm = d)
       /\ g[d] = "mailbox" => st[d] = "acked"
  BY <1>1, <1>2 DEF Life
<1>6. \A d \in Commands : g[d] = "nowhere" <=> h[d] = "nowhere"
  BY <1>1
<1>7. \A l \in Titles : st[l] # "free" =>
       /\ \A d \in Discs : st[d] = "free"
       /\ \A m \in Titles : st[m] # "free" => m = l
       /\ Executed(l, g, st) => \A d \in Commands : g[d] \in {"nowhere", "ack", "ack_queue"}
  BY <1>1, <1>4 DEF Life
<1>8. Y2 => /\ arm \in Commands
            /\ \/ st[arm] = "sent"
               \/ arm \in Titles /\ st[arm] = "acked" /\ g[arm] = "nowhere"
  BY <1>6 DEF Life
<1>9. \A d \in Files :
       st[d] # "free" => g[d] # "nowhere" \/ \E l \in Titles : Executed(l, g, st)
  BY <1>3, <1>4, <1>6 DEF Life
<1> QED
  BY <1>5, <1>7, <1>8, <1>9 DEF Life, g

\* A request for a file or for the drive is acknowledged and executed.
LEMMA LifeExecuted ==
  ASSUME NEW h \in [Commands -> Places], NEW st \in Statuses, NEW arm,
         Life(h, st, FALSE, arm), NEW c \in Files \cup Discs, h[c] = "request_queue",
         NEW p, \/ c \in Files /\ p = "reply"
                \/ c \in Discs /\ p = "m_commands_to_execute"
  PROVE  Life([h EXCEPT ![c] = p], st, TRUE, c)
<1> DEFINE g == [h EXCEPT ![c] = p]
<1>1. /\ c \in Commands /\ c \notin Titles /\ g[c] = p /\ p \in {"reply", "m_commands_to_execute"}
      /\ \A d \in Commands : d # c => g[d] = h[d]
      /\ p = "reply" => c \in Files
      /\ p = "m_commands_to_execute" => c \in Discs
  BY WiiIpcAssumption DEF Commands
<1>2. \A l \in Titles : l \in Commands /\ l # c
  BY <1>1 DEF Commands
<1>3. \A l \in Files : l \in Commands
  BY DEF Commands
<1> HIDE DEF g
<1>0. st[c] = "sent"
  BY <1>1 DEF Life
<1>4. \A l \in Titles : Executed(l, g, st) <=> Executed(l, h, st)
  BY <1>1, <1>2 DEF Executed
<1>5. \A d \in Commands :
       /\ g[d] = "reply" => d \in Files
       /\ g[d] \in {"reply_queue", "mailbox"} => d \notin Titles
       /\ g[d] = "m_commands_to_execute" => d \in Discs
       /\ g[d] \in {"ack", "ack_queue"} => d \in Titles
       /\ g[d] \in {"request", "request_queue"} => st[d] = "sent" /\ ~(TRUE /\ c = d)
       /\ g[d] \in {"reply", "reply_queue", "m_commands_to_execute", "ack", "ack_queue"} =>
            st[d] = "acked" \/ (st[d] = "sent" /\ TRUE /\ c = d)
       /\ g[d] = "mailbox" => st[d] = "acked"
  BY <1>0, <1>1 DEF Life
<1>6. \A d \in Commands : g[d] = "nowhere" <=> h[d] = "nowhere"
  BY <1>1
<1>7. \A l \in Titles : st[l] # "free" =>
       /\ \A d \in Discs : st[d] = "free"
       /\ \A m \in Titles : st[m] # "free" => m = l
       /\ Executed(l, g, st) => \A d \in Commands : g[d] \in {"nowhere", "ack", "ack_queue"}
  <2> SUFFICES ASSUME NEW l \in Titles, st[l] # "free"
               PROVE  /\ \A d \in Discs : st[d] = "free"
                      /\ \A m \in Titles : st[m] # "free" => m = l
                      /\ ~Executed(l, g, st)
    OBVIOUS
  <2>1. ~Executed(l, h, st)
    BY <1>1 DEF Life
  <2> QED
    BY <1>4, <2>1 DEF Life
<1>9. \A d \in Files :
       st[d] # "free" => g[d] # "nowhere" \/ \E l \in Titles : Executed(l, g, st)
  BY <1>3, <1>4, <1>6 DEF Life
<1> QED
  BY <1>0, <1>1, <1>5, <1>7, <1>9 DEF Life, g

\* A launch that fails is acknowledged and executed.
LEMMA LifeMissing ==
  ASSUME NEW h \in [Commands -> Places], NEW st \in Statuses, NEW arm,
         Life(h, st, FALSE, arm), NEW c \in Missing, h[c] = "request_queue"
  PROVE  Life([h EXCEPT ![c] = "ack"], st, TRUE, c)
<1> DEFINE g == [h EXCEPT ![c] = "ack"]
<1>1. /\ c \in Commands /\ c \in Titles /\ c \notin Files /\ c \notin Discs /\ g[c] = "ack"
      /\ \A d \in Commands : d # c => g[d] = h[d]
  BY WiiIpcAssumption DEF Commands, Titles
<1>2. (\A l \in Files : l \in Commands) /\ (\A l \in Titles : l \in Commands)
  BY DEF Commands
<1> HIDE DEF g
<1>3. st[c] = "sent"
  BY <1>1 DEF Life
<1>4. \A l \in Titles : Executed(l, g, st) <=> Executed(l, h, st)
  BY <1>1, <1>2 DEF Executed
<1>5. \A d \in Commands :
       /\ g[d] = "reply" => d \in Files
       /\ g[d] \in {"reply_queue", "mailbox"} => d \notin Titles
       /\ g[d] = "m_commands_to_execute" => d \in Discs
       /\ g[d] \in {"ack", "ack_queue"} => d \in Titles
       /\ g[d] \in {"request", "request_queue"} => st[d] = "sent" /\ ~(TRUE /\ c = d)
       /\ g[d] \in {"reply", "reply_queue", "m_commands_to_execute", "ack", "ack_queue"} =>
            st[d] = "acked" \/ (st[d] = "sent" /\ TRUE /\ c = d)
       /\ g[d] = "mailbox" => st[d] = "acked"
  <2> SUFFICES ASSUME NEW d \in Commands
               PROVE  /\ g[d] = "reply" => d \in Files
                      /\ g[d] \in {"reply_queue", "mailbox"} => d \notin Titles
                      /\ g[d] = "m_commands_to_execute" => d \in Discs
                      /\ g[d] \in {"ack", "ack_queue"} => d \in Titles
                      /\ g[d] \in {"request", "request_queue"} => st[d] = "sent" /\ c # d
                      /\ g[d] \in {"reply", "reply_queue", "m_commands_to_execute", "ack", "ack_queue"} =>
                           st[d] = "acked" \/ (st[d] = "sent" /\ c = d)
                      /\ g[d] = "mailbox" => st[d] = "acked"
    OBVIOUS
  <2>1. CASE d = c
    BY <1>1, <1>3, <2>1
  <2>2. CASE d # c
    BY <1>1, <2>2 DEF Life
  <2> QED
    BY <2>1, <2>2
<1>7. \A l \in Titles : st[l] # "free" =>
       /\ \A d \in Discs : st[d] = "free"
       /\ \A m \in Titles : st[m] # "free" => m = l
       /\ Executed(l, g, st) => \A d \in Commands : g[d] \in {"nowhere", "ack", "ack_queue"}
  BY <1>1, <1>4 DEF Life
<1>9. \A d \in Files :
       st[d] # "free" => g[d] # "nowhere" \/ \E l \in Titles : Executed(l, g, st)
  BY <1>1, <1>2, <1>4 DEF Life
<1> QED
  BY <1>1, <1>3, <1>5, <1>7, <1>9 DEF Life, g

\* A launch is acknowledged and executed: all other commands are forgotten.
LEMMA LifeLaunched ==
  ASSUME NEW h \in [Commands -> Places], NEW st \in Statuses, NEW arm,
         Life(h, st, FALSE, arm), NEW c \in Titles, c \notin Missing, h[c] = "request_queue"
  PROVE  Life([Forgotten EXCEPT ![c] = "ack"], st, TRUE, c)
<1> DEFINE g == [Forgotten EXCEPT ![c] = "ack"]
<1>1. /\ c \in Commands /\ c \notin Files /\ c \notin Discs /\ g[c] = "ack"
      /\ \A d \in Commands : d # c => g[d] = "nowhere"
  BY WiiIpcAssumption DEF Commands, Forgotten
<1> HIDE DEF g
<1>2. st[c] = "sent"
  BY <1>1 DEF Life
<1>3. Executed(c, g, st)
  BY <1>1, <1>2 DEF Executed
<1> QED
  BY <1>1, <1>2, <1>3 DEF Life, g

\* A reply is shown.
LEMMA LifeShown ==
  ASSUME NEW h \in [Commands -> Places], NEW st \in Statuses, NEW arm, NEW arm2,
         Life(h, st, FALSE, arm), NEW c \in Commands, h[c] = "reply_queue"
  PROVE  Life([h EXCEPT ![c] = "mailbox"], st, FALSE, arm2)
<1> DEFINE g == [h EXCEPT ![c] = "mailbox"]
<1>1. g[c] = "mailbox" /\ \A d \in Commands : d # c => g[d] = h[d]
  OBVIOUS
<1>2. \A l \in Titles : l \in Commands /\ l # c
  BY DEF Commands, Life
<1>3. \A l \in Files : l \in Commands
  BY DEF Commands
<1>0. st[c] = "acked" /\ c \notin Titles
  BY DEF Life
<1> HIDE DEF g
<1>4. \A l \in Titles : Executed(l, g, st) <=> Executed(l, h, st)
  BY <1>1, <1>2 DEF Executed
<1>5. \A d \in Commands :
       /\ g[d] = "reply" => d \in Files
       /\ g[d] \in {"reply_queue", "mailbox"} => d \notin Titles
       /\ g[d] = "m_commands_to_execute" => d \in Discs
       /\ g[d] \in {"ack", "ack_queue"} => d \in Titles
       /\ g[d] \in {"request", "request_queue"} => st[d] = "sent" /\ ~(FALSE /\ arm2 = d)
       /\ g[d] \in {"reply", "reply_queue", "m_commands_to_execute", "ack", "ack_queue"} =>
            st[d] = "acked" \/ (st[d] = "sent" /\ FALSE /\ arm2 = d)
       /\ g[d] = "mailbox" => st[d] = "acked"
  BY <1>0, <1>1 DEF Life
<1>6. \A d \in Commands : g[d] = "nowhere" <=> h[d] = "nowhere"
  BY <1>1
<1>7. \A l \in Titles : st[l] # "free" =>
       /\ \A d \in Discs : st[d] = "free"
       /\ \A m \in Titles : st[m] # "free" => m = l
       /\ Executed(l, g, st) => \A d \in Commands : g[d] \in {"nowhere", "ack", "ack_queue"}
  <2> SUFFICES ASSUME NEW l \in Titles, st[l] # "free"
               PROVE  /\ \A d \in Discs : st[d] = "free"
                      /\ \A m \in Titles : st[m] # "free" => m = l
                      /\ ~Executed(l, g, st)
    OBVIOUS
  <2>1. ~Executed(l, h, st)
    BY <1>1 DEF Life
  <2> QED
    BY <1>4, <2>1 DEF Life
<1>9. \A d \in Files :
       st[d] # "free" => g[d] # "nowhere" \/ \E l \in Titles : Executed(l, g, st)
  BY <1>3, <1>4, <1>6 DEF Life
<1> QED
  BY <1>5, <1>7, <1>9 DEF Life, g

\* The second acknowledgement of a launch is shown.
LEMMA LifeAnswered ==
  ASSUME NEW h \in [Commands -> Places], NEW st \in Statuses, NEW arm,
         Life(h, st, FALSE, arm), NEW c \in Commands, h[c] = "ack_queue"
  PROVE  Life([h EXCEPT ![c] = "nowhere"], st, TRUE, c)
<1> DEFINE g == [h EXCEPT ![c] = "nowhere"]
<1>1. g[c] = "nowhere" /\ \A d \in Commands : d # c => g[d] = h[d]
  OBVIOUS
<1>0. st[c] = "acked" /\ c \in Titles
  BY DEF Life
<1>2. /\ \A l \in Titles : l \in Commands /\ l \notin Discs /\ l \notin Files
      /\ \A l \in Files : l \in Commands
  BY WiiIpcAssumption DEF Commands
<1> HIDE DEF g
<1>3. \A l \in Titles : Executed(l, g, st) <=> Executed(l, h, st)
  BY <1>1, <1>2 DEF Executed
<1>4. \A d \in Commands : g[d] = "nowhere" \/ g[d] = h[d]
  BY <1>1
<1>5. \A d \in Commands :
       /\ g[d] = "reply" => d \in Files
       /\ g[d] \in {"reply_queue", "mailbox"} => d \notin Titles
       /\ g[d] = "m_commands_to_execute" => d \in Discs
       /\ g[d] \in {"ack", "ack_queue"} => d \in Titles
       /\ g[d] \in {"request", "request_queue"} => st[d] = "sent" /\ ~(TRUE /\ c = d)
       /\ g[d] \in {"reply", "reply_queue", "m_commands_to_execute", "ack", "ack_queue"} =>
            st[d] = "acked" \/ (st[d] = "sent" /\ TRUE /\ c = d)
       /\ g[d] = "mailbox" => st[d] = "acked"
  BY <1>0, <1>4 DEF Life
<1>6. \A l \in Titles : st[l] # "free" =>
       /\ \A d \in Discs : st[d] = "free"
       /\ \A m \in Titles : st[m] # "free" => m = l
       /\ Executed(l, g, st) => \A d \in Commands : g[d] \in {"nowhere", "ack", "ack_queue"}
  <2>1. ASSUME NEW l \in Titles, Executed(l, g, st), st[l] # "free"
        PROVE  \A d \in Commands : g[d] \in {"nowhere", "ack", "ack_queue"}
    <3>1. \A d \in Commands : h[d] \in {"nowhere", "ack", "ack_queue"}
      BY <1>3, <2>1 DEF Life
    <3> QED
      BY <1>4, <3>1
  <2> QED
    BY <2>1 DEF Life
<1>7. \A d \in Files :
       st[d] # "free" => g[d] # "nowhere" \/ \E l \in Titles : Executed(l, g, st)
  BY <1>0, <1>1, <1>2, <1>3 DEF Life
<1> QED
  BY <1>0, <1>1, <1>5, <1>6, <1>7 DEF Life, g

\* A read is over.
LEMMA LifeRead ==
  ASSUME NEW h \in [Commands -> Places], NEW st \in Statuses, NEW Y2 \in BOOLEAN, NEW arm,
         Life(h, st, Y2, arm), NEW c \in Commands, h[c] = "m_commands_to_execute"
  PROVE  Life([h EXCEPT ![c] = "reply_queue"], st, Y2, arm)
<1> DEFINE g == [h EXCEPT ![c] = "reply_queue"]
<1>1. g[c] = "reply_queue" /\ \A d \in Commands : d # c => g[d] = h[d]
  OBVIOUS
<1>2. c \in Discs /\ \A l \in Titles : l \in Commands /\ l # c
  BY WiiIpcAssumption DEF Commands, Life
<1>3. \A l \in Files : l \in Commands
  BY DEF Commands
<1> HIDE DEF g
<1>4. \A l \in Titles : Executed(l, g, st) <=> Executed(l, h, st)
  BY <1>1, <1>2 DEF Executed
<1>5. \A d \in Commands :
       /\ g[d] = "reply" => d \in Files
       /\ g[d] \in {"reply_queue", "mailbox"} => d \notin Titles
       /\ g[d] = "m_commands_to_execute" => d \in Discs
       /\ g[d] \in {"ack", "ack_queue"} => d \in Titles
       /\ g[d] \in {"request", "request_queue"} => st[d] = "sent" /\ ~(Y2 /\ arm = d)
       /\ g[d] \in {"reply", "reply_queue", "m_commands_to_execute", "ack", "ack_queue"} =>
            st[d] = "acked" \/ (st[d] = "sent" /\ Y2 /\ arm = d)
       /\ g[d] = "mailbox" => st[d] = "acked"
  BY <1>1, <1>2 DEF Life
<1>6. \A d \in Commands : g[d] = "nowhere" <=> h[d] = "nowhere"
  BY <1>1
<1>7. \A l \in Titles : st[l] # "free" =>
       /\ \A d \in Discs : st[d] = "free"
       /\ \A m \in Titles : st[m] # "free" => m = l
       /\ Executed(l, g, st) => \A d \in Commands : g[d] \in {"nowhere", "ack", "ack_queue"}
  <2> SUFFICES ASSUME NEW l \in Titles, st[l] # "free"
               PROVE  /\ \A d \in Discs : st[d] = "free"
                      /\ \A m \in Titles : st[m] # "free" => m = l
                      /\ ~Executed(l, g, st)
    OBVIOUS
  <2>1. ~Executed(l, h, st)
    BY <1>1 DEF Life
  <2> QED
    BY <1>4, <2>1 DEF Life
<1>8. Y2 => /\ arm \in Commands
            /\ \/ st[arm] = "sent"
               \/ arm \in Titles /\ st[arm] = "acked" /\ g[arm] = "nowhere"
  BY <1>6 DEF Life
<1>9. \A d \in Files :
       st[d] # "free" => g[d] # "nowhere" \/ \E l \in Titles : Executed(l, g, st)
  BY <1>3, <1>4, <1>6 DEF Life
<1> QED
  BY <1>5, <1>7, <1>8, <1>9 DEF Life, g

-----------------------------------------------------------------------------
(* Update() *)

\* What the drive does is what its queue says.
DriveOk(s) ==
  /\ s.m_commands_to_execute # <<>> <=> Finishes(s.events)
  /\ OneFinish(s.events)

\* The drive goes on with its read, or begins one of a disc that it holds.
Continues(s, t) ==
  /\ t.volume = s.volume
  /\ Reads(s.events) =>
       Reads(t.events) /\ Head(t.m_commands_to_execute) = Head(s.m_commands_to_execute)
  /\ Reads(t.events) /\ ~Reads(s.events) => t.volume # 0

Idle(s) == IsReady(s) => s.request_queue = <<>> /\ s.reply_queue = <<>> /\ s.ack_queue = <<>>

\* What an acknowledgement in the mailbox leaves alone.
Shows(s, c, t) ==
  /\ SameQueues(s, t) /\ t.volume = s.volume /\ t.last_reply = s.last_reply
  /\ ~t.Y1 /\ t.Y2 /\ t.arm_msg = c
  /\ DriveSame(s.events, t.events)

\* GenerateAck() puts an acknowledgement into the mailbox and moves no command.
LEMMA Generating ==
  ASSUME NEW s, NEW h, NEW u, Holds(s, h, u), ~s.Y1, NEW c \in Commands
  PROVE  Holds(GenerateAck(s, c), h, u) /\ Shows(s, c, GenerateAck(s, c))
<1> DEFINE r == [s EXCEPT !.arm_msg = c, !.Y2 = TRUE]
           t == GenerateAck(s, c)
<1>1. s \in Ios /\ EventsHold(s.events, h, u, s.last_reply) /\ Latency \in Nat
  BY HoldsTypes, HoldsParts, WiiIpcAssumption
<1>2. /\ r \in Ios /\ r.events = s.events /\ SameQueues(s, r) /\ r.volume = s.volume
      /\ r.last_reply = s.last_reply /\ r.Y1 = s.Y1 /\ r.Y2 = TRUE /\ r.arm_msg = c
      /\ s.Y1 = FALSE
  BY <1>1 DEF Ios, SameQueues
<1>3. t = ScheduleUpdate(Latency)[r]
  BY DEF GenerateAck
<1> HIDE DEF r, t
<1>4. Holds(r, h, u)
  BY <1>1, <1>2, HoldsSame
<1>5. Holds(t, h, u) /\ SameBut(r, t) /\ DriveSame(r.events, t.events)
  BY <1>1, <1>3, <1>4, PutUpdate
<1>6. Shows(s, c, t)
  BY <1>2, <1>5 DEF SameBut, SameQueues, SameMailbox, Shows
<1> QED
  BY <1>5, <1>6 DEF t

\* A request is taken from its queue, and acknowledged.
LEMMA Acknowledging ==
  ASSUME NEW s, NEW h, NEW u, Holds(s, h, u), s.request_queue # <<>>, ~s.Y1,
         NEW c, c = Head(s.request_queue),
         NEW r, r = [s EXCEPT !.request_queue = Tail(@)]
  PROVE  /\ Holds(GenerateAck(r, c), [h EXCEPT ![c] = "nowhere"], u)
         /\ Shows(r, c, GenerateAck(r, c))
         /\ r.events = s.events /\ r.m_commands_to_execute = s.m_commands_to_execute
         /\ r.ack_queue = s.ack_queue /\ r.volume = s.volume
         /\ c \in Commands /\ h[c] = "request_queue"
         /\ \A d \in Files : c \in Files /\ h[d] = "request_queue" /\ d # c => Precedes(u, c, d)
<1> DEFINE g == [h EXCEPT ![c] = "nowhere"]
<1>1. /\ s \in Ios /\ s.request_queue \in Seq(Commands)
      /\ QueueHolds(s.request_queue, h, u, "request_queue")
  BY HoldsTypes, HoldsParts
<1>2. /\ r.events = s.events /\ r.m_commands_to_execute = s.m_commands_to_execute
      /\ r.ack_queue = s.ack_queue /\ r.volume = s.volume /\ r.Y1 = s.Y1
  BY <1>1 DEF Ios
<1>3. /\ c \in Commands /\ h[c] = "request_queue"
      /\ \A d \in Files : c \in Files /\ h[d] = "request_queue" /\ d # c => Precedes(u, c, d)
  BY <1>1, QueueHead
<1>4. Holds(r, g, u)
  BY TakeRequest
<1> HIDE DEF g
<1>5. ~r.Y1
  BY <1>2
<1>6. Holds(GenerateAck(r, c), g, u) /\ Shows(r, c, GenerateAck(r, c))
  BY <1>3, <1>4, <1>5, Generating
<1> QED
  BY <1>2, <1>3, <1>6 DEF g

\* The drive starts with the next of its commands.
LEMMA Starting ==
  ASSUME NEW s, NEW h, NEW u, Holds(s, h, u),
         NEW t, t = StartIOCtl[s]
  PROVE  /\ Holds(t, h, u) /\ SameBut(s, t)
         /\ ~Finishes(s.events) =>
              Finishes(t.events) /\ OneFinish(t.events) /\ (Reads(t.events) => t.volume # 0)
<1> DEFINE what == IF s.volume # 0 THEN "FinishRead" ELSE "FinishCommand"
<1>1. s \in Ios /\ s.events \in Seq(Events) /\ DriveTime \in Nat /\ s.volume \in 0 .. 2
  BY HoldsTypes, WiiIpcAssumption
<1>2. what \in Kinds \ Enqueued /\ what \in Finishing /\ (what = "FinishRead" <=> s.volume # 0)
  BY DEF Kinds, Enqueued, Finishing
<1>3. t = Schedule(DriveTime, what, Nothing)[s]
  BY <1>1 DEF StartIOCtl
<1>4. Event(DriveTime, what, Nothing).what = what
  BY DEF Event
<1> HIDE DEF what
<1>5. /\ Holds(t, h, u) /\ SameBut(s, t)
      /\ Inserted(s.events, Event(DriveTime, what, Nothing), Earlier(s, DriveTime), t.events)
  BY <1>1, <1>2, <1>3, PutOther
<1>6. t.volume = s.volume
  BY <1>5 DEF SameBut
<1> QED
  BY <1>1, <1>2, <1>4, <1>5, <1>6, DriveInserted

\* A step that does not concern the drive, and one that may begin a read.
DriveStays(s, t) ==
  /\ t.m_commands_to_execute = s.m_commands_to_execute /\ t.volume = s.volume
  /\ DriveSame(s.events, t.events)
DriveGoesOn(s, t) == DriveOk(s) => DriveOk(t) /\ Continues(s, t)

\* To leave the drive alone is to let it go on.
LEMMA Staying ==
  ASSUME NEW s, s.volume \in 0 .. 2, NEW t, DriveStays(s, t)
  PROVE  DriveGoesOn(s, t)
BY DEF DriveStays, DriveGoesOn, DriveOk, Continues, DriveSame

LEMMA GoingOn ==
  ASSUME NEW s, NEW t, NEW v, DriveGoesOn(s, t), DriveGoesOn(t, v)
  PROVE  DriveGoesOn(s, v)
BY DEF DriveGoesOn, Continues

LEMMA StayingOn ==
  ASSUME NEW s, NEW t, NEW v, DriveStays(s, t), DriveStays(t, v)
  PROVE  DriveStays(s, v)
BY DriveTrans DEF DriveStays

\* The request c has been taken from its queue and acknowledged, and is yet to be executed.
Taken(s, h, st, u, c) ==
  /\ h \in [Commands -> Places] /\ st \in Statuses /\ c \in Commands /\ h[c] = "request_queue"
  /\ Holds(s, [h EXCEPT ![c] = "nowhere"], u) /\ ~s.Y1 /\ s.Y2 /\ s.arm_msg = c
  /\ InLine(h, u) /\ Listed(u, st)
  /\ \E arm : Life(h, st, FALSE, arm)
  /\ \A d \in Files : c \in Files /\ h[d] = "request_queue" /\ d # c => Precedes(u, c, d)

\* A device that answers after a delay: its reply comes after those that were promised.
LEMMA ExecutingFile ==
  ASSUME NEW s, NEW h, NEW st, NEW u, NEW c \in Files, Taken(s, h, st, u, c), NEW d \in Nat
  PROVE  /\ Sound(Reply(s, c, d), [h EXCEPT ![c] = "reply"], st, u)
         /\ DriveStays(s, Reply(s, c, d)) /\ ~IsReady(Reply(s, c, d))
<1> DEFINE r == [s EXCEPT !.last_reply = @ + d]
           t == Reply(s, c, d)
           h1 == [h EXCEPT ![c] = "nowhere"]
           g == [h EXCEPT ![c] = "reply"]
           due == s.last_reply + d
<1>1. /\ h \in [Commands -> Places] /\ st \in Statuses /\ c \in Commands /\ h[c] = "request_queue"
      /\ Holds(s, h1, u) /\ ~s.Y1 /\ s.Y2 /\ s.arm_msg = c /\ InLine(h, u) /\ Listed(u, st)
  BY DEF Taken
<1>2. s \in Ios /\ s.last_reply \in Nat
  BY <1>1, HoldsTypes
<1>3. r \in Ios /\ r.events = s.events /\ SameQueues(s, r) /\ SameMailbox(s, r)
      /\ r.volume = s.volume /\ r.last_reply = s.last_reply + d
  <2>1. s.last_reply + d \in Nat
    BY <1>2
  <2> QED
    BY <1>2, <2>1 DEF Ios, SameQueues, SameMailbox
<1>4. /\ due \in Nat /\ s.last_reply <= due /\ due <= r.last_reply /\ s.last_reply <= r.last_reply
  BY <1>2, <1>3
<1>5. t = Schedule(due, "reply", c)[r]
  BY DEF Reply
<1>6. h1[c] = "nowhere" /\ g = [h1 EXCEPT ![c] = "reply"] /\ \A b \in Commands : b # c => h1[b] = h[b]
  BY <1>1
<1>7. ASSUME NEW b \in Files, h1[b] = "reply" PROVE Precedes(u, b, c)
  <2>1. b \in Commands /\ b # c
    BY <1>6, <1>7 DEF Commands
  <2>2. h[b] = "reply"
    BY <1>6, <1>7, <2>1
  <2>3. Rank(h[b]) < Rank(h[c]) /\ Rank(h[c]) < 6
    BY <1>1, <2>2, Ranks
  <2> QED
    BY <1>1, <2>3 DEF InLine
<1> HIDE DEF r, t, h1, due
<1>8. "reply" \in Enqueued /\ "reply" \in Places
  BY PlaceNames
<1>9. /\ Holds(t, [h1 EXCEPT ![c] = "reply"], u) /\ SameBut(r, t) /\ DriveSame(s.events, t.events)
  BY <1>1, <1>3, <1>4, <1>5, <1>6, <1>7, <1>8, PutEvent
<1>10. t.Y1 = s.Y1 /\ t.Y2 = s.Y2 /\ t.arm_msg = c
  BY <1>1, <1>3, <1>9 DEF SameBut, SameMailbox
<1>11. Life(g, st, TRUE, c)
  <2>1. PICK arm : Life(h, st, FALSE, arm)
    BY DEF Taken
  <2> QED
    BY <1>1, <2>1, LifeExecuted
<1>12. InLine(g, u)
  <2>1. Rank(h[c]) = Rank("reply") + 1 /\ Rank(h[c]) < 6
    BY <1>1, Ranks
  <2>2. \A b \in Files : h[b] = h[c] /\ b # c => Precedes(u, c, b)
    BY <1>1 DEF Taken
  <2> QED
    BY <1>1, <1>8, <2>1, <2>2, LineMoves
<1>13. Life(g, st, t.Y2, t.arm_msg)
  <2>1. t.Y2 = TRUE
    BY <1>1, <1>2, <1>10 DEF Ios
  <2> QED
    BY <1>10, <1>11, <2>1
<1>14. Sound(t, g, st, u)
  BY <1>1, <1>6, <1>9, <1>12, <1>13 DEF Sound
<1>15. DriveStays(s, t)
  BY <1>3, <1>9 DEF DriveStays, SameBut, SameQueues
<1> QED
  BY <1>1, <1>10, <1>14, <1>15 DEF IsReady, t

LEMMA Longer ==
  ASSUME NEW S, NEW q \in Seq(S), NEW c \in S
  PROVE  Append(q, c) # <<>> /\ (q # <<>> => Head(Append(q, c)) = Head(q))
BY SMTT(40)

\* A read is queued, and begins if it is the only one.
LEMMA ExecutingDisc ==
  ASSUME NEW s, NEW h, NEW st, NEW u, NEW c \in Discs, Taken(s, h, st, u, c)
  PROVE  /\ Sound(IOCtl(s, c), [h EXCEPT ![c] = "m_commands_to_execute"], st, u)
         /\ DriveGoesOn(s, IOCtl(s, c)) /\ ~IsReady(IOCtl(s, c))
<1> DEFINE r == [s EXCEPT !.m_commands_to_execute = Append(@, c)]
           t == IOCtl(s, c)
           h1 == [h EXCEPT ![c] = "nowhere"]
           g == [h EXCEPT ![c] = "m_commands_to_execute"]
<1>1. /\ h \in [Commands -> Places] /\ st \in Statuses /\ c \in Commands /\ h[c] = "request_queue"
      /\ Holds(s, h1, u) /\ ~s.Y1 /\ s.Y2 /\ s.arm_msg = c /\ InLine(h, u) /\ Listed(u, st)
      /\ c \notin Files
  BY WiiIpcAssumption DEF Taken
<1>2. s \in Ios /\ s.m_commands_to_execute \in Seq(Discs) /\ s.volume \in 0 .. 2
  BY <1>1, HoldsTypes
<1>3. /\ r.events = s.events /\ r.volume = s.volume /\ SameMailbox(s, r)
      /\ r.m_commands_to_execute = Append(s.m_commands_to_execute, c)
  BY <1>2 DEF Ios, SameMailbox
<1>4. t = IF s.m_commands_to_execute = <<>> THEN StartIOCtl[r] ELSE r
  BY DEF IOCtl
<1>5. h1[c] = "nowhere" /\ g = [h1 EXCEPT ![c] = "m_commands_to_execute"]
  BY <1>1
<1>6. /\ r.m_commands_to_execute # <<>>
      /\ s.m_commands_to_execute # <<>> =>
           Head(r.m_commands_to_execute) = Head(s.m_commands_to_execute)
  BY <1>2, <1>3, Longer
<1>7. Holds(r, [h1 EXCEPT ![c] = "m_commands_to_execute"], u)
  <2> HIDE DEF h1
  <2> QED
    BY <1>1, <1>5, PutDrive
<1>8. Holds(r, g, u)
  BY <1>5, <1>7
<1> HIDE DEF r, t, h1, g
<1>9. Holds(t, g, u) /\ SameMailbox(r, t) /\ DriveGoesOn(s, t)
  <2>1. CASE s.m_commands_to_execute = <<>>
    <3>1. /\ Holds(t, g, u) /\ SameBut(r, t)
          /\ ~Finishes(r.events) =>
               Finishes(t.events) /\ OneFinish(t.events) /\ (Reads(t.events) => t.volume # 0)
      BY <1>4, <1>8, <2>1, Starting
    <3>2. Reads(s.events) => Finishes(s.events)
      BY DEF Reads, Finishes, Finishing
    <3>3. DriveGoesOn(s, t)
      BY <1>3, <1>6, <2>1, <3>1, <3>2
      DEF DriveGoesOn, DriveOk, Continues, SameBut, SameQueues
    <3> QED
      BY <3>1, <3>3 DEF SameBut
  <2>2. CASE s.m_commands_to_execute # <<>>
    <3>1. t = r
      BY <1>4, <2>2
    <3>2. DriveGoesOn(s, t)
      BY <1>3, <1>6, <2>2, <3>1 DEF DriveGoesOn, DriveOk, Continues
    <3> QED
      BY <1>8, <3>1, <3>2 DEF SameMailbox
  <2> QED
    BY <2>1, <2>2
<1>10. t.Y1 = s.Y1 /\ t.Y2 = s.Y2 /\ t.arm_msg = c
  BY <1>1, <1>3, <1>9 DEF SameMailbox
<1>11. Life(g, st, TRUE, c)
  <2>1. PICK arm : Life(h, st, FALSE, arm)
    BY DEF Taken
  <2> QED
    BY <1>1, <2>1, LifeExecuted DEF g
<1>12. InLine(g, u)
  BY <1>1, PlaceNames, LineMoves DEF g, Queues
<1>13. Life(g, st, t.Y2, t.arm_msg)
  <2>1. t.Y2 = TRUE
    BY <1>1, <1>2, <1>10 DEF Ios
  <2> QED
    BY <1>10, <1>11, <2>1
<1>14. Sound(t, g, st, u)
  BY <1>1, <1>9, <1>12, <1>13 DEF Sound
<1> QED
  BY <1>1, <1>9, <1>10, <1>14 DEF IsReady, t, g

\* A queue that no command is in is empty.
LEMMA NobodyThere ==
  ASSUME NEW q, NEW h, NEW u, NEW p, QueueHolds(q, h, u, p), \A c \in Commands : h[c] # p
  PROVE  q = <<>>
<1>1. q \in Seq(Commands)
  BY DEF QueueHolds
<1>2. q # <<>> => q[1] \in Commands /\ 1 \in 1 .. Len(q)
  BY <1>1
<1> QED
  BY <1>1, <1>2 DEF QueueHolds

\* What ResetQueues() does to each field.
LEMMA ResetIs ==
  ASSUME NEW s \in Ios, NEW t, t = ResetQueues(s)
  PROVE  /\ t \in Ios /\ t.events = RemoveAllEvents(s.events) /\ t.last_reply = 0
         /\ t.request_queue = <<>> /\ t.reply_queue = <<>>
         /\ t.ack_queue = s.ack_queue /\ t.m_commands_to_execute = s.m_commands_to_execute
         /\ t.volume = s.volume /\ SameMailbox(s, t)
<1>1. RemoveAllEvents(s.events) \in Seq(Events)
  BY Fields, Removing DEF Remains
<1>2. 0 \in Nat /\ <<>> \in Seq(Commands)
  OBVIOUS
<1> QED
  BY <1>1, <1>2 DEF ResetQueues, Ios, SameMailbox

\* ES_LAUNCH of a title that is not there.
LEMMA ExecutingMissing ==
  ASSUME NEW s, NEW h, NEW st, NEW u, NEW c \in Missing, Taken(s, h, st, u, c)
  PROVE  /\ Sound(Launch(s, c), [h EXCEPT ![c] = "ack"], st, u)
         /\ DriveGoesOn(s, Launch(s, c)) /\ ~IsReady(Launch(s, c))
<1> DEFINE t == Launch(s, c)
           h1 == [h EXCEPT ![c] = "nowhere"]
           g == [h EXCEPT ![c] = "ack"]
<1>1. /\ h \in [Commands -> Places] /\ st \in Statuses /\ c \in Commands /\ h[c] = "request_queue"
      /\ Holds(s, h1, u) /\ ~s.Y1 /\ s.Y2 /\ s.arm_msg = c /\ InLine(h, u) /\ Listed(u, st)
      /\ c \notin Files /\ c \notin Discs
  BY WiiIpcAssumption DEF Taken, Titles
<1>2. s \in Ios /\ s.events \in Seq(Events) /\ s.last_reply \in Nat
  BY <1>1, HoldsTypes
<1>3. PICK arm : Life(h, st, FALSE, arm)
  BY DEF Taken
<1>4. h1[c] = "nowhere" /\ [h1 EXCEPT ![c] = "ack"] = g
  BY <1>1
<1>5. t = Schedule(0, "ack", c)[s]
  BY DEF Launch
<1> HIDE DEF t, h1, g
<1>6. /\ Holds(t, g, u) /\ SameBut(s, t) /\ DriveSame(s.events, t.events)
  <2>1. "ack" \in Enqueued /\ 0 \in Nat
    BY PlaceNames
  <2>2. s.last_reply <= s.last_reply /\ SameQueues(s, s) /\ SameMailbox(s, s)
    BY <1>2 DEF SameQueues, SameMailbox
  <2>3. "ack" # "request" /\ "ack" # "reply"
    OBVIOUS
  <2>4. \A b \in Files : c \in Files /\ h1[b] = "ack" => Precedes(u, b, c)
    BY <1>1
  <2> QED
    BY <1>1, <1>2, <1>4, <1>5, <2>1, <2>2, <2>3, <2>4, PutEvent
<1>7. t.Y1 = s.Y1 /\ t.Y2 = s.Y2 /\ t.arm_msg = c
  BY <1>1, <1>6 DEF SameBut, SameMailbox
<1>8. Life(g, st, t.Y2, t.arm_msg)
  <2>1. t.Y2 = TRUE
    BY <1>1, <1>2, <1>7 DEF Ios
  <2>2. Life(g, st, TRUE, c)
    BY <1>1, <1>3, LifeMissing DEF g
  <2> QED
    BY <1>7, <2>1, <2>2
<1>9. InLine(g, u)
  <2>1. \A b \in Files : g[b] = h[b]
    BY <1>1 DEF g, Commands
  <2> QED
    BY <1>1, <2>1 DEF InLine
<1>10. Sound(t, g, st, u)
  BY <1>1, <1>6, <1>8, <1>9 DEF Sound
<1>11. DriveGoesOn(s, t)
  <2>1. s.volume \in 0 .. 2
    BY <1>1, HoldsTypes
  <2> QED
    BY <1>6, <2>1, Staying DEF DriveStays, SameBut, SameQueues
<1> QED
  BY <1>1, <1>7, <1>10, <1>11 DEF IsReady, t, g

\* ES_LAUNCH forgets all commands but itself.
LEMMA ExecutingLaunch ==
  ASSUME NEW s, NEW h, NEW st, NEW u, NEW c \in Titles, c \notin Missing, Taken(s, h, st, u, c)
  PROVE  /\ Sound(Launch(s, c), [Forgotten EXCEPT ![c] = "ack"], st, u)
         /\ DriveGoesOn(s, Launch(s, c)) /\ ~IsReady(Launch(s, c))
<1> DEFINE reset == ResetQueues(s)
           w == [reset EXCEPT !.m_commands_to_execute = <<>>]
           t == Launch(s, c)
           h1 == [h EXCEPT ![c] = "nowhere"]
           g == [Forgotten EXCEPT ![c] = "ack"]
<1>1. /\ h \in [Commands -> Places] /\ st \in Statuses /\ c \in Commands /\ h[c] = "request_queue"
      /\ Holds(s, h1, u) /\ ~s.Y1 /\ s.Y2 /\ s.arm_msg = c /\ InLine(h, u) /\ Listed(u, st)
      /\ c \notin Files /\ c \notin Discs
  BY WiiIpcAssumption DEF Taken
<1>2. s \in Ios /\ s.events \in Seq(Events) /\ s.volume \in 0 .. 2
  BY <1>1, HoldsTypes
<1>3. PICK arm : Life(h, st, FALSE, arm)
  BY DEF Taken
<1>4. h1[c] = "nowhere" /\ \A b \in Commands : b # c => h1[b] = h[b]
  BY <1>1
<1>5. /\ reset \in Ios /\ reset.events = RemoveAllEvents(s.events) /\ reset.last_reply = 0
      /\ reset.request_queue = <<>> /\ reset.reply_queue = <<>> /\ reset.ack_queue = s.ack_queue
      /\ reset.volume = s.volume /\ SameMailbox(s, reset)
  BY <1>2, ResetIs
<1>6. t = Schedule(0, "ack", c)[w]
  BY DEF Launch
<1> HIDE DEF reset, t, h1
<1>7. \A b \in Commands : h1[b] # "m_commands_to_execute" /\ h1[b] # "ack_queue"
  <2>1. st[c] = "sent"
    BY <1>1, <1>3 DEF Life
  <2>2. ASSUME NEW b \in Commands, h1[b] \in {"m_commands_to_execute", "ack_queue"} PROVE FALSE
    <3>1. h[b] = h1[b] /\ b # c
      BY <1>4, <2>2
    <3>2. st[b] = "acked" /\ (h[b] = "m_commands_to_execute" => b \in Discs)
          /\ (h[b] = "ack_queue" => b \in Titles)
      BY <1>3, <2>2, <3>1 DEF Life
    <3> QED
      BY <1>3, <2>1, <2>2, <3>1, <3>2 DEF Life
  <2> QED
    BY <2>2
<1>8. s.m_commands_to_execute = <<>> /\ s.ack_queue = <<>>
  BY <1>1, <1>7, HoldsParts, NobodyThere
<1>9. /\ w \in Ios /\ w.events = RemoveAllEvents(s.events) /\ w.last_reply = 0
      /\ w.request_queue = <<>> /\ w.reply_queue = <<>> /\ w.ack_queue = <<>>
      /\ w.m_commands_to_execute = <<>> /\ w.volume = s.volume /\ SameMailbox(s, w)
  <2>1. <<>> \in Seq(Discs)
    OBVIOUS
  <2> QED
    BY <1>5, <1>8, <2>1 DEF Ios, SameMailbox
<1> HIDE DEF w
<1>10. Holds(w, Forgotten, u)
  <2>1. ~w.Y1 /\ w.arm_msg \in Commands
    BY <1>1, <1>9 DEF SameMailbox
  <2> QED
    BY <1>1, <1>9, <2>1, HoldsNothing
<1>11. /\ Holds(t, g, u) /\ SameBut(w, t) /\ DriveSame(w.events, t.events)
  <2>1. "ack" \in Enqueued /\ Forgotten[c] = "nowhere" /\ 0 \in Nat
    BY <1>1, PlaceNames DEF Forgotten
  <2>2. w.last_reply <= w.last_reply /\ SameQueues(w, w) /\ SameMailbox(w, w)
    BY <1>9 DEF SameQueues, SameMailbox
  <2>3. "ack" # "request" /\ "ack" # "reply"
    OBVIOUS
  <2>4. \A b \in Files : c \in Files /\ Forgotten[b] = "ack" => Precedes(u, b, c)
    BY <1>1
  <2> HIDE DEF Forgotten
  <2> QED
    BY <1>1, <1>6, <1>9, <1>10, <2>1, <2>2, <2>3, <2>4, PutEvent
<1>12. t.Y1 = s.Y1 /\ t.Y2 = s.Y2 /\ t.arm_msg = c
  BY <1>1, <1>9, <1>11 DEF SameBut, SameMailbox
<1>13. Life(g, st, t.Y2, t.arm_msg)
  <2>1. t.Y2 = TRUE
    BY <1>1, <1>2, <1>12 DEF Ios
  <2>2. Life(g, st, TRUE, c)
    BY <1>1, <1>3, LifeLaunched
  <2> QED
    BY <1>12, <2>1, <2>2
<1>14. InLine(g, u)
  <2>1. \A b \in Files : g[b] = "nowhere"
    BY <1>1 DEF Forgotten, Commands
  <2> HIDE DEF g
  <2> QED
    BY <2>1, Ranks DEF InLine
<1>15. Sound(t, g, st, u)
  BY <1>1, <1>11, <1>13, <1>14 DEF Sound
<1>16. DriveGoesOn(s, t)
  <2> SUFFICES ASSUME DriveOk(s) PROVE DriveOk(t) /\ Continues(s, t)
    BY DEF DriveGoesOn
  <2>1. ~Finishes(s.events) /\ OneFinish(s.events)
    BY <1>8 DEF DriveOk
  <2>2. DriveSame(s.events, t.events)
    BY <1>2, <1>9, <1>11, DriveRemoved, DriveTrans
  <2>3. t.m_commands_to_execute = <<>> /\ t.volume = s.volume
    BY <1>9, <1>11 DEF SameBut, SameQueues
  <2>4. Reads(s.events) => Finishes(s.events)
    BY DEF Reads, Finishes, Finishing
  <2> QED
    BY <1>2, <2>1, <2>2, <2>3, <2>4 DEF DriveOk, Continues, DriveSame
<1> QED
  BY <1>1, <1>12, <1>15, <1>16 DEF IsReady, t

\* What the mailbox holds for the guest, and what has been answered but for that.
Answered == {"reply_queue", "mailbox"}

\* Update() brings no command of the drive nearer to its answer than a queue for the mailbox.
Updated(s, h, st, u, t) ==
  /\ \E g : Sound(t, g, st, u) /\ \A c \in Discs : g[c] \in Answered => h[c] \in Answered
  /\ DriveGoesOn(s, t)
  /\ ~IsReady(s) \/ s.request_queue = <<>> => DriveStays(s, t)

\* Update() with a request: it is acknowledged and executed.
LEMMA UpdatingRequest ==
  ASSUME NEW s, NEW h, NEW st, NEW u, Sound(s, h, st, u), IsReady(s), s.request_queue # <<>>,
         NEW d \in Nat, NEW c, c = Head(s.request_queue),
         NEW r, r = [s EXCEPT !.request_queue = Tail(@)]
  PROVE  LET t == ExecuteCommand(c, d)[GenerateAck(r, c)]
         IN  Updated(s, h, st, u, t) /\ ~IsReady(t)
<1> DEFINE a == GenerateAck(r, c)
           t == ExecuteCommand(c, d)[a]
<1>1. /\ Holds(s, h, u) /\ st \in Statuses /\ Life(h, st, s.Y2, s.arm_msg)
      /\ InLine(h, u) /\ Listed(u, st) /\ ~s.Y1 /\ ~s.Y2
  BY DEF Sound, IsReady
<1>2. s \in Ios /\ h \in [Commands -> Places] /\ s.Y2 = FALSE /\ s.volume \in 0 .. 2
  BY <1>1, HoldsTypes
<1>3. /\ Holds(a, [h EXCEPT ![c] = "nowhere"], u) /\ Shows(r, c, a)
      /\ r.events = s.events /\ r.m_commands_to_execute = s.m_commands_to_execute
      /\ r.volume = s.volume
      /\ c \in Commands /\ h[c] = "request_queue"
      /\ \A b \in Files : c \in Files /\ h[b] = "request_queue" /\ b # c => Precedes(u, c, b)
  <2> HIDE DEF a
  <2> QED
    BY <1>1, Acknowledging DEF a
<1> HIDE DEF a
<1>4. Taken(a, h, st, u, c)
  BY <1>1, <1>2, <1>3 DEF Taken, Shows
<1>5. DriveStays(s, a)
  BY <1>3 DEF Shows, SameQueues, DriveStays
<1>6. DriveGoesOn(s, a)
  BY <1>2, <1>5, Staying
<1>7. t = CASE c \in Files -> Reply(a, c, d)
            [] c \in Discs -> IOCtl(a, c)
            [] c \in Titles -> Launch(a, c)
  <2>1. a \in Ios
    BY <1>3, HoldsTypes
  <2> QED
    BY <2>1 DEF ExecuteCommand
<1>8. \E g : Sound(t, g, st, u) /\ DriveGoesOn(a, t) /\ ~IsReady(t)
              /\ \A b \in Discs : g[b] \in Answered => h[b] \in Answered
  <2>1. CASE c \in Files
    <3> DEFINE g == [h EXCEPT ![c] = "reply"]
    <3>1. t = Reply(a, c, d)
      BY <1>7, <2>1, WiiIpcAssumption
    <3>2. Sound(t, g, st, u) /\ DriveStays(a, t) /\ ~IsReady(t)
      BY <1>4, <2>1, <3>1, ExecutingFile
    <3>3. DriveGoesOn(a, t)
      BY <1>2, <1>5, <3>2, Staying DEF DriveStays
    <3>4. \A b \in Discs : g[b] \in Answered => h[b] \in Answered
      BY <1>2 DEF Answered, Commands
    <3> HIDE DEF g, t
    <3> QED
      BY <3>2, <3>3, <3>4
  <2>2. CASE c \in Discs
    <3> DEFINE g == [h EXCEPT ![c] = "m_commands_to_execute"]
    <3>1. t = IOCtl(a, c)
      BY <1>7, <2>2, WiiIpcAssumption
    <3>2. Sound(t, g, st, u) /\ DriveGoesOn(a, t) /\ ~IsReady(t)
      BY <1>4, <2>2, <3>1, ExecutingDisc
    <3>4. \A b \in Discs : g[b] \in Answered => h[b] \in Answered
      BY <1>2 DEF Answered, Commands
    <3> HIDE DEF g, t
    <3> QED
      BY <3>2, <3>4
  <2>3. CASE c \in Missing
    <3> DEFINE g == [h EXCEPT ![c] = "ack"]
    <3>1. t = Launch(a, c)
      BY <1>7, <2>3, WiiIpcAssumption DEF Titles
    <3>2. Sound(t, g, st, u) /\ DriveGoesOn(a, t) /\ ~IsReady(t)
      BY <1>4, <2>3, <3>1, ExecutingMissing
    <3>4. \A b \in Discs : g[b] \in Answered => h[b] \in Answered
      BY <1>2 DEF Answered, Commands
    <3> HIDE DEF g, t
    <3> QED
      BY <3>2, <3>4
  <2>4. CASE c \in Titles /\ c \notin Missing
    <3> DEFINE g == [Forgotten EXCEPT ![c] = "ack"]
    <3>1. t = Launch(a, c)
      BY <1>7, <2>4, WiiIpcAssumption
    <3>2. Sound(t, g, st, u) /\ DriveGoesOn(a, t) /\ ~IsReady(t)
      BY <1>4, <2>4, <3>1, ExecutingLaunch
    <3>4. \A b \in Discs : g[b] \in Answered => h[b] \in Answered
      BY <1>2 DEF Answered, Commands, Forgotten
    <3> HIDE DEF g, t
    <3> QED
      BY <3>2, <3>4
  <2> QED
    BY <1>3, <2>1, <2>2, <2>3, <2>4 DEF Commands
<1> HIDE DEF t
<1>9. DriveGoesOn(s, t)
  BY <1>6, <1>8, GoingOn
<1>10. Updated(s, h, st, u, t)
  BY <1>8, <1>9 DEF Updated
<1> QED
  BY <1>8, <1>10 DEF t, a

\* Update() with a reply and no request: the reply is shown.
LEMMA UpdatingReply ==
  ASSUME NEW s, NEW h, NEW st, NEW u, Sound(s, h, st, u), IsReady(s), s.reply_queue # <<>>,
         NEW t, t = GenerateReply([s EXCEPT !.reply_queue = Tail(@)], Head(s.reply_queue))
  PROVE  Updated(s, h, st, u, t) /\ ~IsReady(t)
<1> DEFINE c == Head(s.reply_queue)
           g == [h EXCEPT ![c] = "mailbox"]
<1>1. /\ Holds(s, h, u) /\ st \in Statuses /\ Life(h, st, s.Y2, s.arm_msg)
      /\ InLine(h, u) /\ Listed(u, st) /\ ~s.Y1 /\ ~s.Y2
  BY DEF Sound, IsReady
<1>2. /\ s \in Ios /\ h \in [Commands -> Places] /\ s.Y2 = FALSE /\ s.volume \in 0 .. 2
      /\ s.reply_queue \in Seq(Commands) /\ QueueHolds(s.reply_queue, h, u, "reply_queue")
  BY <1>1, HoldsTypes, HoldsParts
<1>3. /\ c \in Commands /\ h[c] = "reply_queue"
      /\ \A b \in Files : c \in Files /\ h[b] = "reply_queue" /\ b # c => Precedes(u, c, b)
  BY <1>2, QueueHead
<1>4. Holds(t, g, u)
  BY <1>1, ShowReply
<1>5. /\ t.events = s.events /\ t.m_commands_to_execute = s.m_commands_to_execute
      /\ t.volume = s.volume /\ t.Y1 = TRUE /\ t.Y2 = s.Y2
  <2> DEFINE r == [[s EXCEPT !.reply_queue = Tail(@)] EXCEPT !.arm_msg = c, !.Y1 = TRUE]
  <2>1. Tail(s.reply_queue) \in Seq(Commands)
    BY <1>2, Ends
  <2>2. r \in Ios
    BY <1>2, <1>3, <2>1 DEF Ios
  <2> QED
    BY <1>2, <2>2 DEF GenerateReply, UpdateInterrupts, Ios
<1> HIDE DEF c, g
<1>6. Life(g, st, t.Y2, t.arm_msg)
  BY <1>1, <1>2, <1>3, <1>5, LifeShown DEF g
<1>7. InLine(g, u)
  <2>1. Rank(h[c]) = Rank("mailbox") + 1 /\ Rank(h[c]) < 6
    BY <1>3, Ranks
  <2> QED
    BY <1>1, <1>2, <1>3, <2>1, LineMoves, PlaceNames DEF g
<1>8. Sound(t, g, st, u)
  BY <1>1, <1>4, <1>6, <1>7 DEF Sound
<1>9. DriveStays(s, t)
  BY <1>5 DEF DriveStays, DriveSame
<1>10. \A b \in Discs : g[b] \in Answered => h[b] \in Answered
  BY <1>2, <1>3 DEF g, Answered, Commands
<1>11. DriveGoesOn(s, t)
  BY <1>2, <1>9, Staying
<1>12. Updated(s, h, st, u, t)
  BY <1>8, <1>9, <1>10, <1>11 DEF Updated
<1> QED
  BY <1>5, <1>12 DEF IsReady

\* Update() with an acknowledgement and neither request nor reply.
LEMMA UpdatingAcknowledgement ==
  ASSUME NEW s, NEW h, NEW st, NEW u, Sound(s, h, st, u), IsReady(s), s.ack_queue # <<>>,
         NEW r, r = [s EXCEPT !.ack_queue = Tail(@)], NEW c, c = Head(s.ack_queue)
  PROVE  Updated(s, h, st, u, GenerateAck(r, c)) /\ ~IsReady(GenerateAck(r, c))
<1> DEFINE t == GenerateAck(r, c)
           g == [h EXCEPT ![c] = "nowhere"]
<1>1. /\ Holds(s, h, u) /\ st \in Statuses /\ Life(h, st, s.Y2, s.arm_msg)
      /\ InLine(h, u) /\ Listed(u, st) /\ ~s.Y1 /\ ~s.Y2
  BY DEF Sound, IsReady
<1>2. /\ s \in Ios /\ h \in [Commands -> Places] /\ s.Y2 = FALSE /\ s.volume \in 0 .. 2
      /\ s.ack_queue \in Seq(Commands) /\ QueueHolds(s.ack_queue, h, u, "ack_queue")
  BY <1>1, HoldsTypes, HoldsParts
<1>3. c \in Commands /\ h[c] = "ack_queue"
  BY <1>2, QueueHead
<1>4. /\ r.events = s.events /\ r.m_commands_to_execute = s.m_commands_to_execute
      /\ r.volume = s.volume /\ r.Y1 = s.Y1
  BY <1>2 DEF Ios
<1>5. Holds(r, g, u)
  BY <1>1, TakeAcknowledgement
<1>6. ~r.Y1
  BY <1>1, <1>4
<1>0. Life(g, st, TRUE, c)
  <2>1. Life(h, st, FALSE, s.arm_msg)
    BY <1>1, <1>2
  <2> QED
    BY <1>1, <1>2, <1>3, <2>1, LifeAnswered
<1> HIDE DEF t, g
<1>7. Holds(t, g, u) /\ Shows(r, c, t)
  BY <1>3, <1>5, <1>6, Generating DEF t
<1>8. \A b \in Files : g[b] = h[b]
  <2>1. c \notin Files
    BY <1>1, <1>3, WiiIpcAssumption DEF Life
  <2> QED
    BY <1>2, <1>3, <2>1 DEF g, Commands
<1>9. Life(g, st, t.Y2, t.arm_msg)
  <2>2. t.Y2 = TRUE /\ t.arm_msg = c
    BY <1>7, HoldsTypes DEF Shows
  <2> QED
    BY <1>0, <2>2
<1>10. InLine(g, u)
  BY <1>1, <1>8 DEF InLine
<1>11. Sound(t, g, st, u)
  BY <1>1, <1>7, <1>9, <1>10 DEF Sound
<1>12. DriveStays(s, t)
  BY <1>4, <1>7 DEF DriveStays, Shows, SameQueues
<1>13. \A b \in Discs : g[b] \in Answered => h[b] \in Answered
  BY <1>2, <1>3 DEF g, Answered, Commands
<1>14. DriveGoesOn(s, t)
  BY <1>2, <1>12, Staying
<1>15. Updated(s, h, st, u, t)
  BY <1>11, <1>12, <1>13, <1>14 DEF Updated
<1> QED
  BY <1>7, <1>15 DEF IsReady, Shows, t

\* Update() in every case; it leaves nothing in a queue behind a free mailbox.
LEMMA Updating ==
  ASSUME NEW s, NEW h, NEW st, NEW u, Sound(s, h, st, u), NEW d \in Nat
  PROVE  Updated(s, h, st, u, Update(d)[s]) /\ Idle(Update(d)[s])
<1> DEFINE t == Update(d)[s]
           c == Head(s.request_queue)
           r == [s EXCEPT !.request_queue = Tail(@)]
           shown == GenerateReply([s EXCEPT !.reply_queue = Tail(@)], Head(s.reply_queue))
           r2 == [s EXCEPT !.ack_queue = Tail(@)]
           c2 == Head(s.ack_queue)
<1>1. s \in Ios /\ s.volume \in 0 .. 2
  BY HoldsTypes DEF Sound
<1>2. t = CASE ~IsReady(s) -> s
            [] IsReady(s) /\ s.request_queue # <<>> -> ExecuteCommand(c, d)[GenerateAck(r, c)]
            [] IsReady(s) /\ s.request_queue = <<>> /\ s.reply_queue # <<>> -> shown
            [] IsReady(s) /\ s.request_queue = <<>> /\ s.reply_queue = <<>> /\ s.ack_queue # <<>> ->
                 GenerateAck(r2, c2)
            [] OTHER -> s
  BY <1>1 DEF Update
<1> HIDE DEF t
<1>3. CASE ~IsReady(s) \/ (s.request_queue = <<>> /\ s.reply_queue = <<>> /\ s.ack_queue = <<>>)
  <2>1. t = s
    BY <1>2, <1>3
  <2>2. DriveStays(s, s)
    BY DEF DriveStays, DriveSame
  <2>3. DriveGoesOn(s, s)
    BY <1>1, <2>2, Staying
  <2>4. Updated(s, h, st, u, s)
    BY <2>2, <2>3 DEF Updated
  <2> QED
    BY <1>3, <2>1, <2>4 DEF Idle, t
<1>4. CASE IsReady(s) /\ s.request_queue # <<>>
  <2>1. t = ExecuteCommand(c, d)[GenerateAck(r, c)]
    BY <1>2, <1>4
  <2>2. Updated(s, h, st, u, t) /\ ~IsReady(t)
    BY <1>4, <2>1, UpdatingRequest
  <2> QED
    BY <2>2 DEF Idle, t
<1>5. CASE IsReady(s) /\ s.request_queue = <<>> /\ s.reply_queue # <<>>
  <2>1. t = shown
    BY <1>2, <1>5
  <2>2. Updated(s, h, st, u, t) /\ ~IsReady(t)
    BY <1>5, <2>1, UpdatingReply
  <2> QED
    BY <2>2 DEF Idle, t
<1>6. CASE IsReady(s) /\ s.request_queue = <<>> /\ s.reply_queue = <<>> /\ s.ack_queue # <<>>
  <2>1. t = GenerateAck(r2, c2)
    BY <1>2, <1>6
  <2>2. Updated(s, h, st, u, t) /\ ~IsReady(t)
    BY <1>6, <2>1, UpdatingAcknowledgement
  <2> QED
    BY <2>2 DEF Idle, t
<1> QED
  BY <1>3, <1>4, <1>5, <1>6

-----------------------------------------------------------------------------
(* The events that deliver a command, and those that finish one              *)

\* A step from s to t answers no command of the drive, and keeps the queues and the drive in
\* order; after a whole handler nothing is left that the mailbox has room for.
Prepared(s, h, st, u, t) ==
  /\ \E g : Sound(t, g, st, u) /\ \A c \in Discs : g[c] \in Answered => h[c] \in Answered
  /\ DriveGoesOn(s, t)
Stepped(s, h, st, u, t) == Prepared(s, h, st, u, t) /\ Idle(t)

\* The command c, which is nowhere, is put into a queue.
Puts(s, what, c) ==
  CASE what = "request" -> [s EXCEPT !.request_queue = Append(@, c)]
    [] what = "reply" -> [s EXCEPT !.reply_queue = Append(@, c)]
    [] what = "ack" -> [s EXCEPT !.ack_queue = Append(@, c)]

\* The queue that an event names takes its command.
LEMMA Putting ==
  ASSUME NEW s, NEW h, NEW u, Holds(s, h, u), NEW c \in Commands, h[c] = "nowhere",
         NEW what \in Enqueued, what = "ack" => c \in Titles,
         \A d \in Files : c \in Files /\ h[d] = QueueOf(what) => Precedes(u, d, c)
  PROVE  /\ Holds(Puts(s, what, c), [h EXCEPT ![c] = QueueOf(what)], u)
         /\ DriveStays(s, Puts(s, what, c)) /\ SameMailbox(s, Puts(s, what, c))
         /\ Puts(s, what, c) \in Ios
         /\ what = "reply" => Puts(s, what, c).request_queue = s.request_queue
<1> DEFINE t == Puts(s, what, c)
<1>1. s \in Ios
  BY HoldsTypes
<1>2. DriveSame(s.events, s.events)
  BY DEF DriveSame
<1>3. what = "request" \/ what = "reply" \/ what = "ack"
  BY PlaceNames
<1>4. CASE what = "request"
  <2>1. t = [s EXCEPT !.request_queue = Append(@, c)] /\ QueueOf(what) = "request_queue"
    BY <1>4 DEF Puts, QueueOf
  <2>2. /\ t.events = s.events /\ t.m_commands_to_execute = s.m_commands_to_execute
        /\ t.volume = s.volume /\ SameMailbox(s, t)
    BY <1>1, <2>1 DEF Ios, SameMailbox
  <2>3. Holds(t, [h EXCEPT ![c] = QueueOf(what)], u)
    BY <2>1, PutRequest
  <2> QED
    BY <1>2, <1>4, <2>2, <2>3, HoldsTypes DEF DriveStays
<1>5. CASE what = "reply"
  <2>1. t = [s EXCEPT !.reply_queue = Append(@, c)] /\ QueueOf(what) = "reply_queue"
    BY <1>5 DEF Puts, QueueOf
  <2>2. /\ t.events = s.events /\ t.m_commands_to_execute = s.m_commands_to_execute
        /\ t.volume = s.volume /\ SameMailbox(s, t) /\ t.request_queue = s.request_queue
    BY <1>1, <2>1 DEF Ios, SameMailbox
  <2>3. Holds(t, [h EXCEPT ![c] = QueueOf(what)], u)
    BY SMTT(40), <2>1, PutReply
  <2> QED
    BY <1>2, <2>2, <2>3, HoldsTypes DEF DriveStays
<1>6. CASE what = "ack"
  <2>1. t = [s EXCEPT !.ack_queue = Append(@, c)] /\ QueueOf(what) = "ack_queue"
    BY <1>6 DEF Puts, QueueOf
  <2>2. /\ t.events = s.events /\ t.m_commands_to_execute = s.m_commands_to_execute
        /\ t.volume = s.volume /\ SameMailbox(s, t)
    BY <1>1, <2>1 DEF Ios, SameMailbox
  <2>3. Holds(t, [h EXCEPT ![c] = QueueOf(what)], u)
    BY <1>6, <2>1, PutAcknowledgement
  <2> QED
    BY <1>2, <1>6, <2>2, <2>3, HoldsTypes DEF DriveStays
<1> QED
  BY <1>3, <1>4, <1>5, <1>6

\* EnqueueEvent() in every case.
LEMMA Enqueueing ==
  ASSUME NEW s, NEW h, NEW st \in Statuses, NEW u, Holds(s, h, u), Listed(u, st),
         NEW c \in Commands, h[c] = "nowhere",
         NEW what \in Enqueued, what = "ack" => c \in Titles,
         \A d \in Files : c \in Files /\ h[d] = QueueOf(what) => Precedes(u, d, c),
         NEW g, g = [h EXCEPT ![c] = QueueOf(what)],
         Life(g, st, s.Y2, s.arm_msg), InLine(g, u), NEW d \in Nat
  PROVE  /\ Stepped(s, g, st, u, EnqueueEvent(what, c, d)[s])
         /\ what = "reply" /\ Idle(s) => DriveStays(s, EnqueueEvent(what, c, d)[s])
<1> DEFINE t == EnqueueEvent(what, c, d)[s]
           r == Puts(s, what, c)
<1>1. s \in Ios /\ s.volume \in 0 .. 2
  BY HoldsTypes
<1>2. t = Update(d)[r]
  BY <1>1 DEF EnqueueEvent, Puts
<1>3. /\ Holds(r, g, u) /\ DriveStays(s, r) /\ SameMailbox(s, r)
      /\ what = "reply" => r.request_queue = s.request_queue
  <2> HIDE DEF r
  <2> QED
    BY Putting DEF r
<1> HIDE DEF r, t
<1>4. Sound(r, g, st, u)
  BY <1>3 DEF Sound, SameMailbox
<1>5. Updated(r, g, st, u, t) /\ Idle(t)
  BY <1>2, <1>4, Updating
<1>6. DriveGoesOn(s, t)
  <2>1. DriveGoesOn(s, r)
    BY <1>1, <1>3, Staying
  <2> QED
    BY <1>5, <2>1, GoingOn DEF Updated
<1>7. Stepped(s, g, st, u, t)
  BY <1>5, <1>6 DEF Stepped, Prepared, Updated
<1>8. ASSUME what = "reply", Idle(s) PROVE DriveStays(s, t)
  <2>1. ~IsReady(r) \/ r.request_queue = <<>>
    BY <1>3, <1>8 DEF Idle, IsReady, SameMailbox
  <2> QED
    BY <1>3, <1>5, <2>1, StayingOn DEF Updated
<1> QED
  BY <1>7, <1>8 DEF t

\* The File d is in a later event of the kind of e, which is for a File too.
Follows(h, e, d) == e.what # "ack" /\ e.cmd \in Files /\ h[d] = e.what /\ d # e.cmd

\* The next event is taken from the list.
LEMMA TakingEvent ==
  ASSUME NEW s, NEW h, NEW u, Holds(s, h, u), s.events # <<>>,
         NEW e, e = Head(s.events), NEW g \in [Commands -> Places],
         IF e.what \in Enqueued THEN g = [h EXCEPT ![e.cmd] = "nowhere"] ELSE g = h
  PROVE  LET r == [s EXCEPT !.events = Tail(@)]
         IN  /\ Holds(r, g, u) /\ r.events = Tail(s.events) /\ SameBut(s, r)
             /\ e \in Events
             /\ e.what \in Enqueued => /\ e.cmd \in Commands /\ h[e.cmd] = e.what
                                       /\ \A d \in Files : Follows(h, e, d) => Precedes(u, e.cmd, d)
<1> DEFINE r == [s EXCEPT !.events = Tail(@)]
<1>1. /\ s \in Ios /\ h \in [Commands -> Places] /\ s.last_reply \in Nat /\ s.events \in Seq(Events)
      /\ EventsHold(s.events, h, u, s.last_reply)
  BY HoldsTypes, HoldsParts
<1>2. e \in Events /\ Tail(s.events) \in Seq(Events)
  BY <1>1, Ends
<1>3. r \in Ios /\ r.events = Tail(s.events) /\ SameBut(s, r)
  BY <1>1, <1>2, OtherEvents
<1>4. EventsHold(Tail(s.events), g, u, s.last_reply)
  BY <1>1, HoldTail
<1>5. e.what \in Enqueued => /\ e.cmd \in Commands /\ h[e.cmd] = e.what
                             /\ \A d \in Files : Follows(h, e, d) => Precedes(u, e.cmd, d)
  BY <1>1, HoldHead DEF Follows
<1> HIDE DEF r
<1>6. /\ SameQueues(s, r) /\ r.last_reply = s.last_reply /\ r.Y1 = s.Y1 /\ r.arm_msg = s.arm_msg
      /\ ~(r.Y1 /\ r.Y2) /\ (r.Y1 \/ r.Y2 => r.arm_msg \in Commands)
  BY <1>3 DEF SameBut, SameMailbox, Holds
<1>7. Holds(r, g, u)
  <2>1. CASE e.what \in Enqueued
    <3>1. PICK c \in Commands : c = e.cmd /\ h[c] = e.what /\ g = [h EXCEPT ![c] = "nowhere"]
      BY <1>5, <2>1
    <3>2. h[c] \notin Queues \cup {"mailbox"} /\ "nowhere" \notin Queues \cup {"mailbox"}
      BY <2>1, <3>1, PlaceNames DEF Queues
    <3>3. /\ r.request_queue = s.request_queue /\ r.reply_queue = s.reply_queue
          /\ r.ack_queue = s.ack_queue /\ r.m_commands_to_execute = s.m_commands_to_execute
      BY <1>6 DEF SameQueues
    <3>4. EventsHold(r.events, g, u, r.last_reply)
      BY <1>3, <1>4, <1>6
    <3>5. "nowhere" \in Places
      BY PlaceNames
    <3> QED
      BY <1>3, <1>6, <3>1, <3>2, <3>3, <3>4, <3>5, HoldsChange DEF Queues
  <2>2. CASE e.what \notin Enqueued
    BY <1>3, <1>4, <1>6, <2>2, HoldsSame
  <2> QED
    BY <2>1, <2>2
<1> QED
  BY <1>2, <1>3, <1>5, <1>7 DEF r

LEMMA TailSame ==
  ASSUME NEW e \in Seq(Events), e # <<>>, Head(e).what \notin Finishing
  PROVE  DriveSame(e, Tail(e))
BY DriveTail DEF DriveSame

\* The handler of an event that enqueues.
LEMMA Delivering ==
  ASSUME NEW s, NEW h, NEW st, NEW u, Sound(s, h, st, u), s.events # <<>>,
         NEW e, e = Head(s.events), e.what \in Enqueued,
         NEW r, r = [s EXCEPT !.events = Tail(@)], NEW d \in Nat
  PROVE  /\ Stepped(s, h, st, u, EnqueueEvent(e.what, e.cmd, d)[r])
         /\ DriveOk(s) => Continues(r, EnqueueEvent(e.what, e.cmd, d)[r])
<1> DEFINE c == e.cmd
           what == e.what
           t == EnqueueEvent(what, c, d)[r]
           h1 == [h EXCEPT ![c] = "nowhere"]
           g == [h EXCEPT ![c] = QueueOf(what)]
<1>1. /\ Holds(s, h, u) /\ st \in Statuses /\ Life(h, st, s.Y2, s.arm_msg)
      /\ InLine(h, u) /\ Listed(u, st)
  BY DEF Sound
<1>2. /\ s \in Ios /\ h \in [Commands -> Places] /\ s.volume \in 0 .. 2
      /\ s.Y2 \in BOOLEAN /\ s.events \in Seq(Events)
  BY <1>1, HoldsTypes
<1>3. h1 \in [Commands -> Places]
  BY <1>2, PlaceNames
<1>4. /\ Holds(r, h1, u) /\ r.events = Tail(s.events) /\ SameBut(s, r)
      /\ c \in Commands /\ h[c] = what
      /\ \A b \in Files : Follows(h, e, b) => Precedes(u, c, b)
  <2>1. IF e.what \in Enqueued THEN h1 = [h EXCEPT ![e.cmd] = "nowhere"] ELSE h1 = h
    OBVIOUS
  <2> HIDE DEF h1
  <2>2. Holds(r, h1, u) /\ r.events = Tail(s.events) /\ SameBut(s, r)
    BY <1>1, <1>3, <2>1, TakingEvent
  <2>3. e.cmd \in Commands /\ h[e.cmd] = e.what
    BY SMTT(40), <1>1, <1>3, <2>1, TakingEvent
  <2>4. \A b \in Files : Follows(h, e, b) => Precedes(u, e.cmd, b)
    BY <1>1, <1>3, <2>1, TakingEvent
  <2> QED
    BY <2>2, <2>3, <2>4
<1>5. what \in Enqueued /\ \A b \in Files : what # "ack" /\ c \in Files /\ h[b] = what /\ b # c => Precedes(u, c, b)
  BY <1>4 DEF Follows
<1>6. h1[c] = "nowhere" /\ g = [h1 EXCEPT ![c] = QueueOf(what)] /\ \A b \in Commands : b # c => h1[b] = h[b]
  BY <1>2, <1>4
<1>7. /\ what = "request" => QueueOf(what) = "request_queue"
      /\ what = "reply" => QueueOf(what) = "reply_queue"
      /\ what = "ack" => QueueOf(what) = "ack_queue"
      /\ what \in {"request", "reply", "ack"}
  BY PlaceNames DEF QueueOf
<1>8. /\ what = "ack" => c \in Titles /\ c \notin Files
      /\ what = "reply" => c \in Files /\ c \notin Discs
  BY <1>1, <1>4, WiiIpcAssumption DEF Life
<1> HIDE DEF c, what, t, h1, g
<1>9. ASSUME NEW b \in Files, c \in Files, h1[b] = QueueOf(what) PROVE Precedes(u, b, c)
  <2>1. b \in Commands /\ what \in {"request", "reply"}
    BY <1>7, <1>8, <1>9 DEF Commands
  <2>2. b # c /\ h[b] = QueueOf(what)
    BY <1>6, <1>7, <1>9, <2>1
  <2>3. Rank(h[b]) < Rank(h[c]) /\ Rank(h[c]) < 6
    BY <1>4, <1>7, <2>1, <2>2, Ranks
  <2> QED
    BY <1>1, <1>9, <2>3 DEF InLine
<1>10. Life(g, st, r.Y2, r.arm_msg)
  <2>1. r.Y2 = s.Y2 /\ r.arm_msg = s.arm_msg
    BY <1>4 DEF SameBut, SameMailbox
  <2>2. g = [h EXCEPT ![c] = QueueOf(h[c])]
    BY <1>4 DEF g
  <2> QED
    BY <1>1, <1>2, <1>4, <1>5, <2>1, <2>2, LifeDelivered
<1>11. InLine(g, u)
  <2>1. QueueOf(what) \in Places
    BY <1>7 DEF Places, Queues
  <2>2. ASSUME c \in Files
        PROVE  /\ Rank(h[c]) = Rank(QueueOf(what)) + 1 /\ Rank(h[c]) < 6
               /\ \A b \in Files : h[b] = h[c] /\ b # c => Precedes(u, c, b)
    BY <1>4, <1>5, <1>7, <1>8, <2>2, Ranks
  <2> QED
    BY <1>1, <1>2, <1>4, <2>1, <2>2, LineMoves DEF g
<1>12. Stepped(r, g, st, u, t)
  BY <1>1, <1>4, <1>5, <1>6, <1>8, <1>9, <1>10, <1>11, Enqueueing DEF t
<1>13. \A b \in Discs : g[b] \in Answered => h[b] \in Answered
  BY <1>2, <1>4, <1>7, <1>8 DEF g, Answered, Commands
<1>14. DriveStays(s, r)
  <2>1. what \notin Finishing
    BY <1>7 DEF Finishing
  <2>2. DriveSame(s.events, r.events)
    BY <1>2, <1>4, <2>1, TailSame DEF what
  <2> QED
    BY <1>4, <2>2 DEF DriveStays, SameBut, SameQueues
<1>15. DriveGoesOn(s, r) /\ DriveGoesOn(r, t)
  BY <1>2, <1>12, <1>14, Staying DEF Stepped, Prepared
<1>16. DriveGoesOn(s, t)
  BY <1>15, GoingOn
<1>17. Stepped(s, h, st, u, t)
  BY <1>12, <1>13, <1>16 DEF Stepped, Prepared
<1>18. DriveOk(s) => Continues(r, t)
  BY <1>15 DEF DriveGoesOn
<1> QED
  BY <1>17, <1>18 DEF t, c, what

\* The handler of the event of an interrupt.
LEMMA Interrupting ==
  ASSUME NEW s, NEW h, NEW st, NEW u, Sound(s, h, st, u), s.events # <<>>, Idle(s),
         Head(s.events).what = "irq",
         NEW r, r = [s EXCEPT !.events = Tail(@)]
  PROVE  /\ Stepped(s, h, st, u, UpdateInterrupts[r])
         /\ DriveOk(s) => Continues(r, UpdateInterrupts[r])
<1> DEFINE t == UpdateInterrupts[r]
           e == Head(s.events)
<1>1. /\ Holds(s, h, u) /\ st \in Statuses /\ Life(h, st, s.Y2, s.arm_msg)
      /\ InLine(h, u) /\ Listed(u, st)
  BY DEF Sound
<1>2. /\ s \in Ios /\ h \in [Commands -> Places] /\ s.volume \in 0 .. 2
      /\ s.events \in Seq(Events)
  BY <1>1, HoldsTypes
<1>3. e.what \notin Enqueued /\ e.what \notin Finishing
  BY DEF Enqueued, Finishing
<1>4. Holds(r, h, u) /\ r.events = Tail(s.events) /\ SameBut(s, r)
  BY <1>1, <1>2, <1>3, TakingEvent
<1>5. r \in Ios
  BY <1>4, HoldsTypes
<1>6. /\ t \in Ios /\ SameQueues(r, t) /\ t.events = r.events /\ t.last_reply = r.last_reply
      /\ t.Y1 = r.Y1 /\ t.Y2 = r.Y2 /\ t.arm_msg = r.arm_msg /\ t.volume = r.volume
      /\ r.ppc_irq_flags => t.ppc_irq_flags
  BY <1>5 DEF UpdateInterrupts, Ios, SameQueues
<1> HIDE DEF t
<1>7. Holds(t, h, u)
  <2>1. EventsHold(t.events, h, u, t.last_reply) /\ ~(t.Y1 /\ t.Y2) /\ (t.Y1 \/ t.Y2 => t.arm_msg \in Commands)
    BY <1>4, <1>6 DEF Holds
  <2> QED
    BY <1>4, <1>6, <2>1, HoldsSame
<1>8. Sound(t, h, st, u)
  BY <1>1, <1>4, <1>6, <1>7 DEF Sound, SameBut, SameMailbox
<1>9. DriveStays(s, r) /\ DriveStays(r, t)
  <2>1. DriveSame(s.events, r.events)
    BY <1>2, <1>3, <1>4, TailSame
  <2>2. DriveSame(r.events, t.events)
    BY <1>6 DEF DriveSame
  <2> QED
    BY <1>4, <1>6, <2>1, <2>2 DEF DriveStays, SameBut, SameQueues
<1>10. DriveGoesOn(s, r) /\ DriveGoesOn(r, t)
  <2>1. r.volume \in 0 .. 2
    BY <1>5, Fields
  <2> QED
    BY <1>2, <1>9, <2>1, Staying
<1>11. DriveGoesOn(s, t)
  BY <1>10, GoingOn
<1>12. Idle(t)
  BY <1>4, <1>6 DEF Idle, IsReady, SameBut, SameMailbox, SameQueues
<1>13. Stepped(s, h, st, u, t)
  BY <1>8, <1>11, <1>12 DEF Stepped, Prepared
<1>14. DriveOk(s) => Continues(r, t)
  BY <1>10 DEF DriveGoesOn
<1> QED
  BY <1>13, <1>14 DEF t

\* What the end of a read, or of a command that found no disc, does for the commands: the first
\* of the drive's is answered, and the next begins.
Ended(s, h, st, u, t) ==
  /\ \E g : /\ Sound(t, g, st, u)
            /\ \A c \in Discs : g[c] \in Answered =>
                 h[c] \in Answered \/ c = Head(s.m_commands_to_execute)
  /\ DriveOk(t) /\ Idle(t) /\ t.volume = s.volume
  /\ Reads(t.events) => t.volume # 0

\* FinishIOCtl(): the first command of the drive is answered and the next one begins.
LEMMA Ending ==
  ASSUME NEW s, NEW h, NEW st, NEW u, Sound(s, h, st, u), Idle(s), DriveOk(s), s.events # <<>>,
         Head(s.events).what \in Finishing,
         NEW r, r = [s EXCEPT !.events = Tail(@)], NEW d \in Nat
  PROVE  /\ Ended(s, h, st, u, FinishIOCtl(r, d))
         /\ ~Reads(r.events) /\ r.volume = s.volume
         /\ r.m_commands_to_execute = s.m_commands_to_execute
         /\ s.m_commands_to_execute # <<>> /\ Head(s.m_commands_to_execute) \in Discs
<1> DEFINE e == Head(s.events)
           q == s.m_commands_to_execute
           c == Head(q)
           rest == [r EXCEPT !.m_commands_to_execute = Tail(@)]
           answered == EnqueueEvent("reply", c, d)[rest]
           t == FinishIOCtl(r, d)
           h1 == [h EXCEPT ![c] = "nowhere"]
           g == [h EXCEPT ![c] = "reply_queue"]
<1>1. /\ Holds(s, h, u) /\ st \in Statuses /\ Life(h, st, s.Y2, s.arm_msg)
      /\ InLine(h, u) /\ Listed(u, st)
  BY DEF Sound
<1>2. /\ s \in Ios /\ h \in [Commands -> Places] /\ s.volume \in 0 .. 2
      /\ s.events \in Seq(Events) /\ q \in Seq(Discs) /\ s.Y2 \in BOOLEAN
  BY <1>1, HoldsTypes
<1>3. e.what \notin Enqueued /\ e.what # "eject"
  BY DEF Enqueued, Finishing
<1>4. Holds(r, h, u) /\ r.events = Tail(s.events) /\ SameBut(s, r)
  BY <1>1, <1>2, <1>3, TakingEvent
<1>5. q # <<>> /\ c \in Discs
  <2>1. e = s.events[1] /\ 1 \in 1 .. Len(s.events)
    BY <1>2
  <2>2. Finishes(s.events)
    BY <2>1 DEF Finishes
  <2>3. q # <<>>
    BY <2>2 DEF DriveOk
  <2> QED
    BY <1>2, <2>3, Ends
<1>6. ~Finishes(r.events) /\ ~Reads(r.events)
  BY <1>2, <1>3, <1>4, DriveTail DEF DriveOk
<1>7. /\ r \in Ios /\ r.m_commands_to_execute = q /\ r.volume = s.volume
      /\ r.Y1 = s.Y1 /\ r.Y2 = s.Y2 /\ r.arm_msg = s.arm_msg /\ r.ppc_irq_flags = s.ppc_irq_flags
      /\ r.request_queue = s.request_queue /\ r.reply_queue = s.reply_queue /\ r.ack_queue = s.ack_queue
  BY <1>4, HoldsTypes DEF SameBut, SameQueues, SameMailbox
<1>8. t = IF answered.m_commands_to_execute # <<>> THEN StartIOCtl[answered] ELSE answered
  BY <1>7 DEF FinishIOCtl
<1>9. /\ rest.events = r.events /\ rest.m_commands_to_execute = Tail(q) /\ rest.volume = s.volume
      /\ rest.Y1 = s.Y1 /\ rest.Y2 = s.Y2 /\ rest.arm_msg = s.arm_msg
      /\ rest.ppc_irq_flags = s.ppc_irq_flags
      /\ rest.request_queue = s.request_queue /\ rest.reply_queue = s.reply_queue
      /\ rest.ack_queue = s.ack_queue
  BY <1>7 DEF Ios
<1>10. Holds(rest, h1, u)
  BY <1>4, <1>5, <1>7, TakeDrive
<1>11. QueueOf("reply") = "reply_queue" /\ "reply" \in Enqueued /\ c \in Commands /\ c \notin Files
  BY <1>5, PlaceNames, WiiIpcAssumption DEF QueueOf, Commands
<1>12. h1[c] = "nowhere" /\ g = [h1 EXCEPT ![c] = "reply_queue"] /\ h[c] = "m_commands_to_execute"
  <2>1. QueueHolds(q, h, u, "m_commands_to_execute")
    BY <1>1, HoldsParts
  <2> QED
    BY <1>2, <1>5, <1>11, <2>1, QueueHead
<1> HIDE DEF rest, answered, t, h1, q, c
<1>13. Life(g, st, rest.Y2, rest.arm_msg)
  BY <1>1, <1>2, <1>9, <1>11, <1>12, LifeRead
<1>14. InLine(g, u)
  BY <1>1, <1>2, <1>11, PlaceNames, LineMoves DEF Queues
<1>15. Idle(rest)
  BY <1>9 DEF Idle, IsReady
<1> HIDE DEF g
<1>16. Stepped(rest, g, st, u, answered) /\ DriveStays(rest, answered)
  <2>1. g = [h1 EXCEPT ![c] = QueueOf("reply")]
    BY <1>11, <1>12 DEF g
  <2>2. Stepped(rest, g, st, u, EnqueueEvent("reply", c, d)[rest])
        /\ DriveStays(rest, EnqueueEvent("reply", c, d)[rest])
    BY <1>1, <1>10, <1>11, <1>12, <1>13, <1>14, <1>15, <2>1, Enqueueing
  <2> QED
    BY <2>2 DEF answered
<1>17. PICK g2 : Sound(answered, g2, st, u) /\ \A b \in Discs : g2[b] \in Answered => g[b] \in Answered
  BY <1>16 DEF Stepped, Prepared
<1>18. \A b \in Discs : g2[b] \in Answered => h[b] \in Answered \/ b = c
  BY <1>2, <1>17 DEF g, Commands
<1>19. Idle(answered)
  BY <1>16 DEF Stepped, Prepared
<1>20. /\ answered.m_commands_to_execute = Tail(q) /\ answered.volume = s.volume
       /\ ~Finishes(answered.events) /\ ~Reads(answered.events)
  BY <1>2, <1>6, <1>9, <1>16 DEF DriveStays, DriveSame
<1>21. CASE answered.m_commands_to_execute = <<>>
  <2>1. t = answered
    BY <1>8, <1>21
  <2>2. DriveOk(t)
    BY <1>20, <1>21, <2>1 DEF DriveOk, OneFinish, Finishes
  <2>3. Ended(s, h, st, u, t)
    BY <1>17, <1>18, <1>19, <1>20, <2>1, <2>2 DEF Ended, c, q
  <2> QED
    BY <1>5, <1>6, <1>7, <2>3 DEF t, c, q
<1>22. CASE answered.m_commands_to_execute # <<>>
  <2>1. t = StartIOCtl[answered]
    BY <1>8, <1>22
  <2>2. Holds(answered, g2, u) /\ Life(g2, st, answered.Y2, answered.arm_msg) /\ InLine(g2, u)
    BY <1>17 DEF Sound
  <2>3. /\ Holds(t, g2, u) /\ SameBut(answered, t)
        /\ Finishes(t.events) /\ OneFinish(t.events) /\ (Reads(t.events) => t.volume # 0)
    BY <1>20, <2>1, <2>2, Starting
  <2>4. Sound(t, g2, st, u)
    BY <1>17, <2>2, <2>3 DEF Sound, SameBut, SameMailbox
  <2>5. DriveOk(t) /\ t.volume = s.volume
    BY <1>20, <1>22, <2>3 DEF DriveOk, SameBut, SameQueues
  <2>6. Idle(t)
    BY <1>19, <2>3 DEF Idle, IsReady, SameBut, SameQueues, SameMailbox
  <2>7. Ended(s, h, st, u, t)
    BY <1>18, <2>3, <2>4, <2>5, <2>6 DEF Ended, c, q
  <2> QED
    BY <1>5, <1>6, <1>7, <2>7 DEF t, c, q
<1> QED
  BY <1>21, <1>22

-----------------------------------------------------------------------------
(* What the guest does, up to the write that is common to all it does        *)

LEMMA HoldsOrdered ==
  ASSUME NEW s, NEW h, NEW u, Holds(s, h, u), NEW v,
         \A c, d \in Files : h[c] # "nowhere" /\ h[d] # "nowhere" /\ Precedes(u, c, d)
                               => Precedes(v, c, d)
  PROVE  Holds(s, h, v)
<1>1. \A p \in Enqueued \cup Queues : p # "nowhere"
  BY DEF Enqueued, Queues
<1>2. EventsHold(s.events, h, v, s.last_reply)
  BY <1>1, HoldsParts, HoldOrder
<1>3. \A q, p : QueueHolds(q, h, u, p) /\ p \in Queues => QueueHolds(q, h, v, p)
  BY <1>1, QueueOrder
<1> QED
  BY <1>2, <1>3 DEF Holds, Queues

LEMMA Known ==
  ASSUME NEW h \in [Commands -> Places], NEW st, NEW Y2, NEW arm, Life(h, st, Y2, arm),
         NEW c \in Commands, h[c] # "nowhere"
  PROVE  st[c] # "free"
<1>1. h[c] \in {"request", "reply", "ack", "request_queue", "reply_queue", "ack_queue",
                "m_commands_to_execute", "mailbox"}
  BY DEF Places, Enqueued, Queues
<1> QED
  BY <1>1 DEF Life

\* What a list with one more at its end keeps.
LEMMA Appending ==
  ASSUME NEW u \in Seq(Files), NEW c \in Files, NEW v, v = Append(u, c)
  PROVE  /\ v \in Seq(Files) /\ Len(v) = Len(u) + 1 /\ v[Len(v)] = c
         /\ \A i \in 1 .. Len(u) : v[i] = u[i] /\ i \in 1 .. Len(v) /\ i < Len(v)
         /\ \A i \in 1 .. Len(v) : i \in 1 .. Len(u) \/ i = Len(v)
         /\ \A a, b : Precedes(u, a, b) => Precedes(v, a, b)
         /\ \A i \in 1 .. Len(u) : Precedes(v, u[i], c)
<1>1. /\ v \in Seq(Files) /\ Len(v) = Len(u) + 1 /\ v[Len(v)] = c /\ Len(v) \in 1 .. Len(v)
      /\ \A i \in 1 .. Len(u) : v[i] = u[i] /\ i \in 1 .. Len(v) /\ i < Len(v)
      /\ \A i \in 1 .. Len(v) : i \in 1 .. Len(u) \/ i = Len(v)
  OBVIOUS
<1> QED
  BY <1>1 DEF Precedes

\* A command is sent.
LEMMA Sending ==
  ASSUME NEW s, NEW h, NEW st, NEW u, Sound(s, h, st, u), NEW c \in Commands, st[c] = "free",
         \A l \in Titles : st[l] = "free",
         c \in Titles => \A d \in Discs : st[d] = "free",
         NEW st2, st2 = [st EXCEPT ![c] = "sent"],
         NEW v, v = IF c \in Files THEN Append(u, c) ELSE u
  PROVE  Prepared(s, h, st2, v, Schedule(Latency, "request", c)[s]) /\ h[c] = "nowhere"
<1> DEFINE t == Schedule(Latency, "request", c)[s]
           g == [h EXCEPT ![c] = "request"]
<1>1. /\ Holds(s, h, u) /\ st \in Statuses /\ Life(h, st, s.Y2, s.arm_msg)
      /\ InLine(h, u) /\ Listed(u, st)
  BY DEF Sound
<1>2. /\ s \in Ios /\ h \in [Commands -> Places] /\ s.volume \in 0 .. 2
      /\ s.last_reply \in Nat
  BY <1>1, HoldsTypes
<1>3. h[c] = "nowhere"
  BY <1>1, <1>2, Known
<1>4. /\ st2 \in Statuses /\ st2[c] = "sent" /\ \A d \in Commands : d # c => st2[d] = st[d]
  BY <1>1 DEF Statuses
<1>5. /\ \A a, b : Precedes(u, a, b) => Precedes(v, a, b)
      /\ c \in Files => \A d \in Files : st[d] # "free" => Precedes(v, d, c)
  <2>1. CASE c \in Files
    <3>1. u \in Seq(Files) /\ v = Append(u, c)
      BY <1>1, <2>1 DEF Listed
    <3>2. /\ \A a, b : Precedes(u, a, b) => Precedes(v, a, b)
          /\ \A i \in 1 .. Len(u) : Precedes(v, u[i], c)
      BY <2>1, <3>1, Appending
    <3> QED
      BY <1>1, <3>2 DEF Listed
  <2>2. CASE c \notin Files
    BY <2>2
  <2> QED
    BY <2>1, <2>2
<1>6. \A d \in Files : d \in Commands
  BY DEF Commands
<1>7. Holds(s, h, v)
  BY <1>1, <1>5, HoldsOrdered
<1>8. Holds(t, g, v) /\ SameBut(s, t) /\ DriveSame(s.events, t.events)
  <2>1. \A d \in Files : c \in Files /\ h[d] = "request" => Precedes(v, d, c)
    <3>1. \A d \in Files : h[d] = "request" => st[d] # "free"
      BY <1>1, <1>2, <1>6, Known
    <3> QED
      BY <1>5, <3>1
  <2>2. "request" \in Enqueued /\ Latency \in Nat /\ "request" # "reply" /\ s.last_reply <= s.last_reply
        /\ SameQueues(s, s) /\ SameMailbox(s, s)
    BY <1>2, PlaceNames, WiiIpcAssumption DEF SameQueues, SameMailbox
  <2> QED
    BY <1>2, <1>3, <1>7, <2>1, <2>2, PutEvent
<1>9. g[c] = "request" /\ \A d \in Commands : d # c => g[d] = h[d]
  BY <1>2
<1> HIDE DEF g, t
<1>10. Life(g, st2, s.Y2, s.arm_msg)
  <2>1. s.Y2 => s.arm_msg # c
    BY <1>1, <1>3 DEF Life
  <2>2. \A d \in Commands :
          /\ g[d] = "reply" => d \in Files
          /\ g[d] \in {"reply_queue", "mailbox"} => d \notin Titles
          /\ g[d] = "m_commands_to_execute" => d \in Discs
          /\ g[d] \in {"ack", "ack_queue"} => d \in Titles
          /\ g[d] \in {"request", "request_queue"} => st2[d] = "sent" /\ ~(s.Y2 /\ s.arm_msg = d)
          /\ g[d] \in {"reply", "reply_queue", "m_commands_to_execute", "ack", "ack_queue"} =>
               st2[d] = "acked" \/ (st2[d] = "sent" /\ s.Y2 /\ s.arm_msg = d)
          /\ g[d] = "mailbox" => st2[d] = "acked"
    BY <1>1, <1>4, <1>9, <2>1 DEF Life
  <2>3. s.Y2 => /\ s.arm_msg \in Commands
                /\ \/ st2[s.arm_msg] = "sent"
                   \/ s.arm_msg \in Titles /\ st2[s.arm_msg] = "acked" /\ g[s.arm_msg] = "nowhere"
    BY <1>1, <1>4, <1>9, <2>1 DEF Life
  <2>4. \A l \in Titles : l \in Commands /\ (st2[l] # "free" => l = c)
    BY <1>4 DEF Commands
  <2>5. \A d \in Discs : d \in Commands /\ (c \in Titles => d # c)
    BY WiiIpcAssumption DEF Commands
  <2>6. \A l \in Titles : st2[l] # "free" =>
          /\ \A d \in Discs : st2[d] = "free"
          /\ \A m \in Titles : st2[m] # "free" => m = l
          /\ ~Executed(l, g, st2)
    BY <1>4, <1>9, <2>4, <2>5 DEF Executed
  <2>7. \A l \in Titles : ~Executed(l, h, st)
    BY DEF Executed
  <2>8. \A d \in Files : st2[d] # "free" => g[d] # "nowhere"
    BY <1>1, <1>4, <1>6, <1>9, <2>7 DEF Life
  <2> QED
    BY <2>2, <2>3, <2>6, <2>8 DEF Life
<1>11. InLine(g, v)
  <2> SUFFICES ASSUME NEW a \in Files, NEW b \in Files, Rank(g[a]) < Rank(g[b]), Rank(g[b]) < 6
               PROVE  Precedes(v, a, b)
    BY DEF InLine
  <2>1. a \in Commands /\ b \in Commands /\ Rank(h[a]) \in 1 .. 6 /\ Rank(h[b]) \in 1 .. 6
    BY <1>2, <1>6, Ranks
  <2>2. a # c
    BY <1>9, <2>1, Ranks
  <2>3. CASE b = c
    <3>1. h[a] # "nowhere"
      BY <1>9, <2>1, <2>2, <2>3, Ranks
    <3> QED
      BY <1>1, <1>2, <1>5, <2>1, <2>3, <3>1, Known
  <2>4. CASE b # c
    BY <1>1, <1>5, <1>9, <2>1, <2>2, <2>4 DEF InLine
  <2> QED
    BY <2>3, <2>4
<1>12. Listed(v, st2)
  <2>1. CASE c \in Files
    <3>1. u \in Seq(Files) /\ v = Append(u, c)
      BY <1>1, <2>1 DEF Listed
    <3>2. /\ v \in Seq(Files) /\ Len(v) \in 1 .. Len(v) /\ v[Len(v)] = c
          /\ \A i \in 1 .. Len(u) : v[i] = u[i] /\ i \in 1 .. Len(v) /\ i < Len(v)
          /\ \A i \in 1 .. Len(v) : i \in 1 .. Len(u) \/ i = Len(v)
      BY <2>1, <3>1, Appending
    <3>3. \A i \in 1 .. Len(u) : u[i] # c
      BY <1>1, <2>1 DEF Listed
    <3> QED
      BY <1>1, <1>4, <1>6, <3>2, <3>3 DEF Listed
  <2>2. CASE c \notin Files
    <3>1. v = u /\ \A d \in Files : st2[d] = st[d]
      BY <1>4, <1>6, <2>2
    <3> QED
      BY <1>1, <3>1 DEF Listed
  <2> QED
    BY <2>1, <2>2
<1>13. Sound(t, g, st2, v)
  BY <1>4, <1>8, <1>10, <1>11, <1>12 DEF Sound, SameBut, SameMailbox
<1>14. \A d \in Discs : g[d] \in Answered => h[d] \in Answered
  BY <1>9 DEF Answered, Commands
<1>15. DriveGoesOn(s, t)
  BY <1>2, <1>8, Staying DEF DriveStays, SameBut, SameQueues
<1> QED
  BY <1>3, <1>13, <1>14, <1>15 DEF Prepared, t

\* The reply in the mailbox is that of the File that was sent first.
LEMMA FirstInLine ==
  ASSUME NEW s, NEW h, NEW st, NEW u, Sound(s, h, st, u), s.Y1
  PROVE  /\ s.arm_msg \in Commands /\ h[s.arm_msg] = "mailbox" /\ st[s.arm_msg] = "acked"
         /\ s.arm_msg \notin Titles
         /\ \A l \in Titles : ~Executed(l, h, st)
         /\ s.arm_msg \in Files => u # <<>> /\ Head(u) = s.arm_msg
<1> DEFINE c == s.arm_msg
<1>1. /\ Holds(s, h, u) /\ st \in Statuses /\ Life(h, st, s.Y2, s.arm_msg)
      /\ InLine(h, u) /\ Listed(u, st)
  BY DEF Sound
<1>2. c \in Commands /\ h[c] = "mailbox" /\ h \in [Commands -> Places]
  BY <1>1 DEF Holds
<1>3. st[c] = "acked" /\ c \notin Titles
  BY <1>1, <1>2 DEF Life
<1>4. \A l \in Titles : ~Executed(l, h, st)
  BY <1>1, <1>2 DEF Life, Executed
<1>5. ASSUME c \in Files PROVE u # <<>> /\ Head(u) = c
  <2>1. u \in Seq(Files) /\ \A i, j \in 1 .. Len(u) : i # j => u[i] # u[j]
    BY <1>1 DEF Listed
  <2>2. PICK i \in 1 .. Len(u) : u[i] = c
    BY <1>1, <1>3, <1>5 DEF Listed
  <2>3. /\ u # <<>> /\ Head(u) = u[1] /\ 1 \in 1 .. Len(u) /\ u[1] \in Files
        /\ \A j \in 1 .. Len(u) : ~(j < 1)
    BY <2>1, <2>2
  <2>4. ASSUME u[1] # c PROVE FALSE
    <3> DEFINE d == u[1]
    <3>1. d \in Commands /\ d \in Files /\ d \notin Titles /\ d \notin Discs
      BY <2>3, WiiIpcAssumption DEF Commands
    <3>2. st[d] # "free"
      BY <1>1, <2>3 DEF Listed
    <3>3. h[d] # "nowhere"
      BY <1>1, <1>4, <3>1, <3>2 DEF Life
    <3>4. h[d] # "mailbox"
      BY <1>1, <2>4, <3>1 DEF Holds
    <3>5. h[d] \in {"request", "reply", "request_queue", "reply_queue"}
      <4>1. h[d] \in Enqueued \cup Queues \cup {"mailbox", "nowhere"}
        BY <1>2, <3>1 DEF Places
      <4>2. h[d] \notin {"ack", "ack_queue", "m_commands_to_execute"}
        BY <1>1, <3>1 DEF Life
      <4> QED
        BY <3>3, <3>4, <4>1, <4>2 DEF Enqueued, Queues
    <3>6. Rank(h[c]) < Rank(h[d]) /\ Rank(h[d]) < 6
      BY <1>2, <3>5, Ranks
    <3>7. Precedes(u, c, d)
      BY <1>1, <1>5, <3>1, <3>6 DEF InLine
    <3> QED
      BY <2>1, <2>3, <3>7 DEF Precedes
  <2> QED
    BY <2>3, <2>4
<1> QED
  BY <1>2, <1>3, <1>4, <1>5

\* Without its first element, which is left out of the comparison.
LEMMA Dropping ==
  ASSUME NEW u \in Seq(Files), u # <<>>, \A i, j \in 1 .. Len(u) : i # j => u[i] # u[j],
         NEW v, v = Tail(u)
  PROVE  /\ v \in Seq(Files)
         /\ \A i \in 1 .. Len(v) : v[i] = u[i + 1] /\ i + 1 \in 1 .. Len(u) /\ i + 1 # 1
         /\ \A i \in 1 .. Len(u) : i # 1 => i - 1 \in 1 .. Len(v) /\ v[i - 1] = u[i]
         /\ 1 \in 1 .. Len(u) /\ Head(u) = u[1]
         /\ \A a, b : Precedes(u, a, b) /\ a # u[1] /\ b # u[1] => Precedes(v, a, b)
<1>1. /\ v \in Seq(Files) /\ Len(v) = Len(u) - 1 /\ 1 \in 1 .. Len(u) /\ Head(u) = u[1]
      /\ \A i \in 1 .. Len(v) : v[i] = u[i + 1] /\ i + 1 \in 1 .. Len(u) /\ i + 1 # 1
      /\ \A i \in 1 .. Len(u) : i # 1 => i - 1 \in 1 .. Len(v) /\ v[i - 1] = u[i]
  OBVIOUS
<1>2. ASSUME NEW a, NEW b, Precedes(u, a, b), a # u[1], b # u[1] PROVE Precedes(v, a, b)
  <2>1. PICK i \in 1 .. Len(u), j \in 1 .. Len(u) : i < j /\ u[i] = a /\ u[j] = b
    BY <1>2 DEF Precedes
  <2>2. /\ i - 1 \in 1 .. Len(v) /\ v[i - 1] = a /\ j - 1 \in 1 .. Len(v) /\ v[j - 1] = b
        /\ i - 1 < j - 1
    BY <1>1, <1>2, <2>1
  <2> QED
    BY <2>2 DEF Precedes
<1> QED
  BY <1>1, <1>2

\* The reply is taken from the mailbox.
LEMMA TakingReply ==
  ASSUME NEW s, NEW h, NEW st, NEW u, Sound(s, h, st, u), s.Y1,
         NEW t, t = [s EXCEPT !.Y1 = FALSE],
         NEW st2, st2 = [st EXCEPT ![s.arm_msg] = "free"],
         NEW v, v = IF s.arm_msg \in Files THEN Tail(u) ELSE u
  PROVE  Prepared(s, h, st2, v, t)
<1> DEFINE c == s.arm_msg
           g == [h EXCEPT ![c] = "nowhere"]
<1>1. /\ Holds(s, h, u) /\ st \in Statuses /\ Life(h, st, s.Y2, s.arm_msg)
      /\ InLine(h, u) /\ Listed(u, st)
  BY DEF Sound
<1>2. /\ s \in Ios /\ h \in [Commands -> Places] /\ s.volume \in 0 .. 2
      /\ s.Y2 \in BOOLEAN
  BY <1>1, HoldsTypes
<1>3. /\ c \in Commands /\ h[c] = "mailbox" /\ st[c] = "acked" /\ c \notin Titles
      /\ \A l \in Titles : ~Executed(l, h, st)
      /\ c \in Files => u # <<>> /\ Head(u) = c
  BY FirstInLine
<1>4. /\ t \in Ios /\ SameQueues(s, t) /\ t.events = s.events /\ t.last_reply = s.last_reply
      /\ t.volume = s.volume /\ t.Y1 = FALSE /\ t.Y2 = s.Y2 /\ t.arm_msg = c
  BY <1>2 DEF Ios, SameQueues
<1>5. s.Y2 = FALSE
  BY <1>1, <1>2 DEF Holds
<1>6. g[c] = "nowhere" /\ \A d \in Commands : d # c => g[d] = h[d]
  BY <1>2, <1>3
<1>7. st2 \in Statuses /\ st2[c] = "free" /\ \A d \in Commands : d # c => st2[d] = st[d]
  BY <1>1, <1>3 DEF Statuses
<1>8. (\A d \in Files : d \in Commands) /\ (\A d \in Titles : d \in Commands /\ d # c)
      /\ (\A d \in Discs : d \in Commands)
  BY <1>3 DEF Commands
<1>9. "nowhere" \in Places /\ "nowhere" \notin Enqueued /\ "mailbox" \notin Enqueued
  BY PlaceNames
<1>10. Holds(t, g, u)
  <2>1. \A d \in Commands : g[d] = "mailbox" <=> t.Y1 /\ t.arm_msg = d
    BY <1>1, <1>4, <1>6 DEF Holds
  <2>2. /\ t.request_queue = s.request_queue /\ t.reply_queue = s.reply_queue
        /\ t.ack_queue = s.ack_queue /\ t.m_commands_to_execute = s.m_commands_to_execute
    BY <1>4 DEF SameQueues
  <2>3. ~(t.Y1 /\ t.Y2) /\ (t.Y1 \/ t.Y2 => t.arm_msg \in Commands)
    BY <1>3, <1>4
  <2>4. h[c] # "request_queue" /\ h[c] # "reply_queue" /\ h[c] # "ack_queue"
        /\ h[c] # "m_commands_to_execute" /\ h[c] \notin Enqueued
    BY <1>3, <1>9
  <2> HIDE DEF c
  <2> QED
    BY <1>1, <1>3, <1>4, <1>9, <2>1, <2>2, <2>3, <2>4, HoldsChange
<1> HIDE DEF g, c
<1>11. \A a, b \in Files : g[a] # "nowhere" /\ g[b] # "nowhere" /\ Precedes(u, a, b) => Precedes(v, a, b)
  <2>1. CASE c \in Files
    <3>1. v = Tail(u) /\ u # <<>> /\ Head(u) = c /\ u \in Seq(Files)
          /\ \A i, j \in 1 .. Len(u) : i # j => u[i] # u[j]
      BY <1>1, <1>3, <2>1 DEF Listed, c
    <3>2. u[1] = c /\ \A a, b : Precedes(u, a, b) /\ a # u[1] /\ b # u[1] => Precedes(v, a, b)
      BY <3>1, Dropping
    <3> QED
      BY <1>6, <3>2
  <2>2. CASE c \notin Files
    BY <2>2 DEF c
  <2> QED
    BY <2>1, <2>2
<1>12. Holds(t, g, v)
  BY <1>10, <1>11, HoldsOrdered
<1>13. InLine(g, v)
  <2>1. \A d \in Files : g[d] = h[d] \/ g[d] = "nowhere"
    BY <1>6, <1>8
  <2> QED
    BY <1>1, <1>11, <2>1, LineDrops
<1>14. Life(g, st2, FALSE, c)
  <2>1. \A d \in Commands :
          /\ g[d] = "reply" => d \in Files
          /\ g[d] \in {"reply_queue", "mailbox"} => d \notin Titles
          /\ g[d] = "m_commands_to_execute" => d \in Discs
          /\ g[d] \in {"ack", "ack_queue"} => d \in Titles
          /\ g[d] \in {"request", "request_queue"} => st2[d] = "sent" /\ ~(FALSE /\ c = d)
          /\ g[d] \in {"reply", "reply_queue", "m_commands_to_execute", "ack", "ack_queue"} =>
               st2[d] = "acked" \/ (st2[d] = "sent" /\ FALSE /\ c = d)
          /\ g[d] = "mailbox" => st2[d] = "acked"
    BY <1>1, <1>5, <1>6, <1>7 DEF Life
  <2>2. \A l \in Titles : ~Executed(l, g, st2)
    BY <1>3, <1>6, <1>7, <1>8 DEF Executed
  <2>3. \A l \in Titles : st2[l] # "free" =>
          /\ \A d \in Discs : st2[d] = "free"
          /\ \A m \in Titles : st2[m] # "free" => m = l
    BY <1>1, <1>7, <1>8 DEF Life
  <2>4. \A d \in Files : st2[d] # "free" => g[d] # "nowhere"
    BY <1>1, <1>3, <1>6, <1>7, <1>8 DEF Life
  <2> QED
    BY <2>1, <2>2, <2>3, <2>4 DEF Life
<1>15. Listed(v, st2)
  <2>1. CASE c \in Files
    <3>1. v = Tail(u) /\ u # <<>> /\ Head(u) = c /\ u \in Seq(Files)
          /\ \A i, j \in 1 .. Len(u) : i # j => u[i] # u[j]
      BY <1>1, <1>3, <2>1 DEF Listed, c
    <3>2. /\ v \in Seq(Files)
          /\ \A i \in 1 .. Len(v) : v[i] = u[i + 1] /\ i + 1 \in 1 .. Len(u) /\ i + 1 # 1
          /\ \A i \in 1 .. Len(u) : i # 1 => i - 1 \in 1 .. Len(v) /\ v[i - 1] = u[i]
          /\ 1 \in 1 .. Len(u) /\ c = u[1]
      BY <3>1, Dropping
    <3>3. \A i, j \in 1 .. Len(v) : i # j => v[i] # v[j]
      <4> SUFFICES ASSUME NEW i \in 1 .. Len(v), NEW j \in 1 .. Len(v), i # j PROVE v[i] # v[j]
        OBVIOUS
      <4>1. /\ v[i] = u[i + 1] /\ i + 1 \in 1 .. Len(u) /\ v[j] = u[j + 1] /\ j + 1 \in 1 .. Len(u)
            /\ i + 1 # j + 1
        BY <3>2
      <4>2. u[i + 1] # u[j + 1]
        BY <1>1, <4>1 DEF Listed
      <4> QED
        BY <4>1, <4>2
    <3>4. \A d \in Files : st2[d] # "free" <=> \E i \in 1 .. Len(v) : v[i] = d
      <4> SUFFICES ASSUME NEW d \in Files
                   PROVE  st2[d] # "free" <=> \E i \in 1 .. Len(v) : v[i] = d
        OBVIOUS
      <4>1. CASE d = c
        <5>1. ASSUME NEW i \in 1 .. Len(v) PROVE v[i] # c
          <6>1. v[i] = u[i + 1] /\ i + 1 \in 1 .. Len(u) /\ i + 1 # 1
            BY <3>2
          <6>2. u[i + 1] # u[1]
            BY <1>1, <3>2, <6>1 DEF Listed
          <6> QED
            BY <3>2, <6>1, <6>2
        <5> QED
          BY <1>7, <4>1, <5>1
      <4>2. CASE d # c
        <5>1. st2[d] # "free" <=> \E i \in 1 .. Len(u) : u[i] = d
          BY <1>1, <1>7, <1>8, <4>2 DEF Listed
        <5> QED
          BY <3>2, <4>2, <5>1
      <4> QED
        BY <4>1, <4>2
    <3> QED
      BY <3>2, <3>3, <3>4 DEF Listed
  <2>2. CASE c \notin Files
    <3>1. \A d \in Files : st2[d] = st[d]
      BY <1>7, <1>8, <2>2
    <3>2. Listed(u, st2)
      BY <1>1, <3>1 DEF Listed
    <3> QED
      BY <2>2, <3>2 DEF c
  <2> QED
    BY <2>1, <2>2
<1>16. Sound(t, g, st2, v)
  BY <1>4, <1>5, <1>7, <1>12, <1>13, <1>14, <1>15 DEF Sound
<1>17. \A d \in Discs : g[d] \in Answered => h[d] \in Answered
  BY <1>6, <1>8 DEF Answered
<1>18. DriveGoesOn(s, t)
  BY <1>2, <1>4, Staying DEF DriveStays, SameQueues, DriveSame
<1> QED
  BY <1>16, <1>17, <1>18 DEF Prepared

\* The mailbox is freed of an acknowledgement, and nothing else changes.
LEMMA Freeing ==
  ASSUME NEW s, NEW h, NEW u, Holds(s, h, u), s.Y2, NEW t, t = [s EXCEPT !.Y2 = FALSE]
  PROVE  /\ Holds(t, h, u) /\ DriveGoesOn(s, t) /\ t.Y2 = FALSE /\ t.arm_msg = s.arm_msg
<1>1. s \in Ios /\ s.volume \in 0 .. 2 /\ EventsHold(s.events, h, u, s.last_reply)
  BY HoldsTypes, HoldsParts
<1>2. /\ t \in Ios /\ SameQueues(s, t) /\ t.events = s.events /\ t.last_reply = s.last_reply
      /\ t.volume = s.volume /\ t.Y1 = s.Y1 /\ t.Y2 = FALSE /\ t.arm_msg = s.arm_msg
  BY <1>1 DEF Ios, SameQueues
<1>3. ~(t.Y1 /\ t.Y2) /\ (t.Y1 \/ t.Y2 => t.arm_msg \in Commands)
  BY <1>2 DEF Holds
<1>4. Holds(t, h, u)
  BY <1>1, <1>2, <1>3, HoldsSame
<1>5. DriveGoesOn(s, t)
  BY <1>1, <1>2, Staying DEF DriveStays, SameQueues, DriveSame
<1> QED
  BY <1>2, <1>4, <1>5

\* The first acknowledgement of a command is taken from the mailbox.
LEMMA TakingAcknowledgement ==
  ASSUME NEW s, NEW h, NEW st, NEW u, Sound(s, h, st, u), s.Y2, st[s.arm_msg] = "sent",
         NEW t, t = [s EXCEPT !.Y2 = FALSE],
         NEW st2, st2 = [st EXCEPT ![s.arm_msg] = "acked"]
  PROVE  Prepared(s, h, st2, u, t)
<1> DEFINE c == s.arm_msg
<1>1. /\ Holds(s, h, u) /\ st \in Statuses /\ Life(h, st, s.Y2, s.arm_msg)
      /\ InLine(h, u) /\ Listed(u, st)
  BY DEF Sound
<1>2. Holds(t, h, u) /\ DriveGoesOn(s, t) /\ t.Y2 = FALSE /\ t.arm_msg = c
  BY <1>1, Freeing
<1>3. c \in Commands /\ h[c] \notin {"request", "request_queue"}
  BY <1>1 DEF Life
<1>4. st2 \in Statuses /\ st2[c] = "acked" /\ \A d \in Commands : d # c => st2[d] = st[d]
  BY <1>1, <1>3 DEF Statuses
<1>5. (\A d \in Files : d \in Commands) /\ (\A d \in Titles : d \in Commands)
      /\ (\A d \in Discs : d \in Commands)
  BY DEF Commands
<1> HIDE DEF c
<1>6. \A d \in Commands : st2[d] = "free" <=> st[d] = "free"
  BY <1>4 DEF c
<1>7. \A l \in Titles : Executed(l, h, st2) <=> Executed(l, h, st)
  BY <1>5, <1>6 DEF Executed
<1>8. Life(h, st2, FALSE, c)
  <2>1. \A d \in Commands :
          /\ h[d] = "reply" => d \in Files
          /\ h[d] \in {"reply_queue", "mailbox"} => d \notin Titles
          /\ h[d] = "m_commands_to_execute" => d \in Discs
          /\ h[d] \in {"ack", "ack_queue"} => d \in Titles
          /\ h[d] \in {"request", "request_queue"} => st2[d] = "sent" /\ ~(FALSE /\ c = d)
          /\ h[d] \in {"reply", "reply_queue", "m_commands_to_execute", "ack", "ack_queue"} =>
               st2[d] = "acked" \/ (st2[d] = "sent" /\ FALSE /\ c = d)
          /\ h[d] = "mailbox" => st2[d] = "acked"
    <3> SUFFICES ASSUME NEW d \in Commands
                 PROVE  /\ h[d] = "reply" => d \in Files
                        /\ h[d] \in {"reply_queue", "mailbox"} => d \notin Titles
                        /\ h[d] = "m_commands_to_execute" => d \in Discs
                        /\ h[d] \in {"ack", "ack_queue"} => d \in Titles
                        /\ h[d] \in {"request", "request_queue"} => st2[d] = "sent"
                        /\ h[d] \in {"reply", "reply_queue", "m_commands_to_execute", "ack", "ack_queue"} =>
                             st2[d] = "acked"
                        /\ h[d] = "mailbox" => st2[d] = "acked"
      OBVIOUS
    <3>1. CASE d = c
      BY <1>1, <1>3, <1>4, <3>1 DEF Life
    <3>2. CASE d # c
      BY <1>1, <1>4, <3>2 DEF Life, c
    <3> QED
      BY <3>1, <3>2
  <2>2. \A l \in Titles : st2[l] # "free" =>
          /\ \A d \in Discs : st2[d] = "free"
          /\ \A m \in Titles : st2[m] # "free" => m = l
          /\ Executed(l, h, st2) => \A d \in Commands : h[d] \in {"nowhere", "ack", "ack_queue"}
    BY <1>1, <1>5, <1>6, <1>7 DEF Life
  <2>3. \A d \in Files : st2[d] # "free" => h[d] # "nowhere" \/ \E l \in Titles : Executed(l, h, st2)
    BY <1>1, <1>5, <1>6, <1>7 DEF Life
  <2> QED
    BY <2>1, <2>2, <2>3 DEF Life
<1>9. Listed(u, st2)
  BY <1>1, <1>5, <1>6 DEF Listed
<1>10. Sound(t, h, st2, u)
  BY <1>1, <1>2, <1>4, <1>8, <1>9 DEF Sound
<1> QED
  BY <1>2, <1>10 DEF Prepared

\* Nothing is sent and nothing is anywhere.
LEMMA LifeBegins ==
  ASSUME NEW h, \A c \in Commands : h[c] = "nowhere", NEW arm
  PROVE  /\ Life(h, NoCommand, FALSE, arm) /\ InLine(h, <<>>) /\ Listed(<<>>, NoCommand)
         /\ NoCommand \in Statuses
<1>1. \A c \in Commands : NoCommand[c] = "free"
  BY DEF NoCommand
<1>2. (\A d \in Files : d \in Commands) /\ (\A d \in Titles : d \in Commands)
  BY DEF Commands
<1>3. NoCommand \in Statuses
  BY DEF NoCommand, Statuses
<1> HIDE DEF NoCommand
<1>4. Life(h, NoCommand, FALSE, arm)
  BY <1>1, <1>2 DEF Life
<1>5. InLine(h, <<>>)
  BY <1>2, Ranks DEF InLine
<1>6. Listed(<<>>, NoCommand)
  BY <1>1, <1>2 DEF Listed
<1> QED
  BY <1>3, <1>4, <1>5, <1>6

\* The second acknowledgement, that of a launch, is taken.
LEMMA TakingAnswer ==
  ASSUME NEW s, NEW h, NEW st, NEW u, Sound(s, h, st, u), s.Y2, st[s.arm_msg] # "sent",
         s.arm_msg \notin Missing,
         NEW t, t = [s EXCEPT !.Y2 = FALSE]
  PROVE  Prepared(s, h, NoCommand, <<>>, t)
<1> DEFINE c == s.arm_msg
<1>1. /\ Holds(s, h, u) /\ st \in Statuses /\ Life(h, st, s.Y2, s.arm_msg)
  BY DEF Sound
<1>2. Holds(t, h, u) /\ DriveGoesOn(s, t) /\ t.Y2 = FALSE /\ t.arm_msg = c
  BY <1>1, Freeing
<1>3. c \in Titles /\ st[c] = "acked" /\ h[c] = "nowhere"
  BY <1>1 DEF Life
<1>4. Executed(c, h, st)
  BY <1>3 DEF Executed
<1>5. ASSUME NEW d \in Commands, h[d] # "nowhere" PROVE FALSE
  <2>1. h[d] \in {"ack", "ack_queue"}
    BY <1>1, <1>3, <1>4, <1>5 DEF Life
  <2>2. d \in Titles /\ st[d] # "free"
    BY <1>1, <1>3, <2>1 DEF Life
  <2>3. d = c
    BY <1>1, <1>3, <2>2 DEF Life
  <2> QED
    BY <1>3, <1>5, <2>3
<1>6. \A d \in Files : h[d] = "nowhere"
  BY <1>5 DEF Commands
<1>7. Holds(t, h, <<>>)
  BY <1>2, <1>6, HoldsOrdered
<1>8. Life(h, NoCommand, FALSE, c) /\ InLine(h, <<>>) /\ Listed(<<>>, NoCommand) /\ NoCommand \in Statuses
  BY <1>5, LifeBegins
<1>9. Sound(t, h, NoCommand, <<>>)
  BY <1>2, <1>7, <1>8 DEF Sound
<1> QED
  BY <1>2, <1>9 DEF Prepared

\* That of a launch that failed is taken.
LEMMA TakingFailure ==
  ASSUME NEW s, NEW h, NEW st, NEW u, Sound(s, h, st, u), s.Y2, st[s.arm_msg] # "sent",
         s.arm_msg \in Missing,
         NEW t, t = [s EXCEPT !.Y2 = FALSE],
         NEW st2, st2 = [st EXCEPT ![s.arm_msg] = "free"]
  PROVE  Prepared(s, h, st2, u, t)
<1> DEFINE c == s.arm_msg
<1>1. /\ Holds(s, h, u) /\ st \in Statuses /\ Life(h, st, s.Y2, s.arm_msg)
      /\ InLine(h, u) /\ Listed(u, st)
  BY DEF Sound
<1>2. Holds(t, h, u) /\ DriveGoesOn(s, t) /\ t.Y2 = FALSE /\ t.arm_msg = c
  BY <1>1, Freeing
<1>3. /\ c \in Titles /\ c \in Commands /\ c \notin Files /\ c \notin Discs
      /\ st[c] = "acked" /\ h[c] = "nowhere"
  BY <1>1, WiiIpcAssumption DEF Life, Titles
<1>4. st2 \in Statuses /\ st2[c] = "free" /\ \A d \in Commands : d # c => st2[d] = st[d]
  BY <1>1, <1>3 DEF Statuses
<1>5. (\A d \in Files : d \in Commands /\ d # c) /\ (\A d \in Titles : d \in Commands)
      /\ (\A d \in Discs : d \in Commands /\ d # c)
  BY <1>3 DEF Commands
<1>6. ~Executed(c, h, st) /\ ~Executed(c, h, st2)
  BY DEF Executed
<1> HIDE DEF c
<1>7. \A l \in Titles : Executed(l, h, st2) <=> Executed(l, h, st)
  BY <1>4, <1>5, <1>6 DEF Executed
<1>8. Life(h, st2, FALSE, c)
  <2>1. \A d \in Commands :
          /\ h[d] = "reply" => d \in Files
          /\ h[d] \in {"reply_queue", "mailbox"} => d \notin Titles
          /\ h[d] = "m_commands_to_execute" => d \in Discs
          /\ h[d] \in {"ack", "ack_queue"} => d \in Titles
          /\ h[d] \in {"request", "request_queue"} => st2[d] = "sent" /\ ~(FALSE /\ c = d)
          /\ h[d] \in {"reply", "reply_queue", "m_commands_to_execute", "ack", "ack_queue"} =>
               st2[d] = "acked" \/ (st2[d] = "sent" /\ FALSE /\ c = d)
          /\ h[d] = "mailbox" => st2[d] = "acked"
    <3> SUFFICES ASSUME NEW d \in Commands, d # c
                 PROVE  /\ h[d] = "reply" => d \in Files
                        /\ h[d] \in {"reply_queue", "mailbox"} => d \notin Titles
                        /\ h[d] = "m_commands_to_execute" => d \in Discs
                        /\ h[d] \in {"ack", "ack_queue"} => d \in Titles
                        /\ h[d] \in {"request", "request_queue"} => st2[d] = "sent"
                        /\ h[d] \in {"reply", "reply_queue", "m_commands_to_execute", "ack", "ack_queue"} =>
                             st2[d] = "acked"
                        /\ h[d] = "mailbox" => st2[d] = "acked"
      BY <1>3
    <3> QED
      BY <1>1, <1>4 DEF Life, c
  <2>2. \A l \in Titles : st2[l] # "free" =>
          /\ \A d \in Discs : st2[d] = "free"
          /\ \A m \in Titles : st2[m] # "free" => m = l
          /\ Executed(l, h, st2) => \A d \in Commands : h[d] \in {"nowhere", "ack", "ack_queue"}
    <3>1. \A l \in Titles : st[l] # "free" =>
            /\ \A d \in Discs : st[d] = "free"
            /\ \A m \in Titles : st[m] # "free" => m = l
            /\ Executed(l, h, st) => \A d \in Commands : h[d] \in {"nowhere", "ack", "ack_queue"}
      BY <1>1 DEF Life
    <3>2. \A d \in Commands : st2[d] # "free" => st[d] # "free"
      BY <1>4
    <3>3. \A d \in Discs : st2[d] = st[d]
      BY <1>4, <1>5
    <3> QED
      BY <1>5, <1>7, <3>1, <3>2, <3>3
  <2>3. \A d \in Files : st2[d] # "free" => h[d] # "nowhere" \/ \E l \in Titles : Executed(l, h, st2)
    <3>1. \A d \in Files : st[d] # "free" => h[d] # "nowhere" \/ \E l \in Titles : Executed(l, h, st)
      BY <1>1 DEF Life
    <3>2. \A d \in Files : st2[d] = st[d]
      BY <1>4, <1>5
    <3> QED
      BY <1>7, <3>1, <3>2
  <2> QED
    BY <2>1, <2>2, <2>3 DEF Life
<1>9. Listed(u, st2)
  BY <1>1, <1>4, <1>5 DEF Listed
<1>10. Sound(t, h, st2, u)
  BY <1>1, <1>2, <1>4, <1>8, <1>9 DEF Sound
<1> QED
  BY <1>2, <1>10 DEF Prepared

\* The guest clears its flag.
LEMMA Clearing ==
  ASSUME NEW s, NEW h, NEW st, NEW u, Sound(s, h, st, u),
         NEW t, t = [s EXCEPT !.ppc_irq_flags = FALSE]
  PROVE  Prepared(s, h, st, u, t)
<1>1. Holds(s, h, u) /\ s \in Ios /\ s.volume \in 0 .. 2
      /\ EventsHold(s.events, h, u, s.last_reply)
  BY HoldsTypes, HoldsParts DEF Sound
<1>2. /\ t \in Ios /\ SameQueues(s, t) /\ t.events = s.events /\ t.last_reply = s.last_reply
      /\ t.volume = s.volume /\ t.Y1 = s.Y1 /\ t.Y2 = s.Y2 /\ t.arm_msg = s.arm_msg
  BY <1>1 DEF Ios, SameQueues
<1>3. ~(t.Y1 /\ t.Y2) /\ (t.Y1 \/ t.Y2 => t.arm_msg \in Commands)
  BY <1>1, <1>2 DEF Holds
<1>4. Holds(t, h, u)
  BY <1>1, <1>2, <1>3, HoldsSame
<1>5. Sound(t, h, st, u)
  BY <1>2, <1>4 DEF Sound
<1>6. DriveGoesOn(s, t)
  BY <1>1, <1>2, Staying DEF DriveStays, SameQueues, DriveSame
<1> QED
  BY <1>5, <1>6 DEF Prepared

\* A booting guest resets the IPC.
LEMMA Resetting ==
  ASSUME NEW s, NEW h, NEW st, NEW u, Sound(s, h, st, u),
         s.m_commands_to_execute = <<>>, s.ack_queue = <<>>,
         NEW t, t = [ResetQueues(s) EXCEPT !.Y1 = FALSE, !.Y2 = FALSE, !.ppc_irq_flags = FALSE,
                                           !.arm_msg = Nothing]
  PROVE  Prepared(s, h, NoCommand, <<>>, t)
<1> DEFINE r == ResetQueues(s)
<1>1. Holds(s, h, u) /\ s \in Ios /\ s.volume \in 0 .. 2 /\ s.events \in Seq(Events)
  BY HoldsTypes DEF Sound
<1>2. /\ r \in Ios /\ r.events = RemoveAllEvents(s.events) /\ r.last_reply = 0
      /\ r.request_queue = <<>> /\ r.reply_queue = <<>>
      /\ r.ack_queue = s.ack_queue /\ r.m_commands_to_execute = s.m_commands_to_execute
      /\ r.volume = s.volume
  BY <1>1, ResetIs
<1> HIDE DEF r
<1>3. t = [r EXCEPT !.Y1 = FALSE, !.Y2 = FALSE, !.ppc_irq_flags = FALSE, !.arm_msg = Nothing]
  BY DEF r
<1>4. /\ t \in Ios /\ t.events = r.events /\ t.last_reply = 0
      /\ t.request_queue = <<>> /\ t.reply_queue = <<>> /\ t.ack_queue = <<>>
      /\ t.m_commands_to_execute = <<>> /\ t.volume = s.volume
      /\ t.Y1 = FALSE /\ t.Y2 = FALSE /\ t.arm_msg = Nothing
  BY <1>2, <1>3 DEF Ios
<1>5. Holds(t, Forgotten, <<>>)
  BY <1>1, <1>2, <1>4, HoldsNothing
<1>6. \A c \in Commands : Forgotten[c] = "nowhere"
  BY DEF Forgotten
<1> HIDE DEF Forgotten
<1>7. Sound(t, Forgotten, NoCommand, <<>>)
  BY <1>4, <1>5, <1>6, LifeBegins DEF Sound
<1>8. \A c \in Discs : Forgotten[c] \in Answered => h[c] \in Answered
  BY <1>6 DEF Answered, Commands
<1>9. DriveStays(s, t)
  <2>1. DriveSame(s.events, t.events)
    BY <1>1, <1>2, <1>4, DriveRemoved
  <2> QED
    BY <1>4, <2>1 DEF DriveStays
<1>10. DriveGoesOn(s, t)
  BY <1>1, <1>9, Staying
<1> QED
  BY <1>7, <1>8, <1>10 DEF Prepared

\* The write ends with an Update() and a call of UpdateInterrupts().
LEMMA Writing ==
  ASSUME NEW s, NEW h, NEW st, NEW u, NEW r, Prepared(s, h, st, u, r), NEW d \in Nat
  PROVE  Stepped(s, h, st, u, ScheduleUpdate(0)[Update(d)[r]])
<1> DEFINE a == Update(d)[r]
           t == ScheduleUpdate(0)[a]
<1>1. PICK g : Sound(r, g, st, u) /\ \A c \in Discs : g[c] \in Answered => h[c] \in Answered
  BY DEF Prepared
<1>2. Updated(r, g, st, u, a) /\ Idle(a)
  BY <1>1, Updating
<1> HIDE DEF a
<1>3. PICK g2 : Sound(a, g2, st, u) /\ \A c \in Discs : g2[c] \in Answered => g[c] \in Answered
  BY <1>2 DEF Updated
<1>4. Holds(a, g2, u) /\ a \in Ios /\ a.volume \in 0 .. 2
  BY <1>3, HoldsTypes DEF Sound
<1>5. Holds(t, g2, u) /\ SameBut(a, t) /\ DriveSame(a.events, t.events)
  <2>1. 0 \in Nat
    OBVIOUS
  <2> QED
    BY <1>4, <2>1, PutUpdate
<1> HIDE DEF t
<1>6. Sound(t, g2, st, u)
  BY <1>3, <1>5 DEF Sound, SameBut, SameMailbox
<1>7. Idle(t)
  BY <1>2, <1>5 DEF Idle, IsReady, SameBut, SameMailbox, SameQueues
<1>8. DriveGoesOn(a, t)
  BY <1>4, <1>5, Staying DEF DriveStays, SameBut, SameQueues
<1>9. DriveGoesOn(s, t)
  BY <1>2, <1>8, GoingOn DEF Updated, Prepared
<1>10. \A c \in Discs : g2[c] \in Answered => h[c] \in Answered
  BY <1>1, <1>3
<1>11. Stepped(s, h, st, u, t)
  BY <1>6, <1>7, <1>9, <1>10 DEF Stepped, Prepared
<1> QED
  BY <1>11 DEF t, a

-----------------------------------------------------------------------------
(* Time passes, and discs come and go *)

\* A step in which no read begins or ends.
SteppedStill(s, h, st, u, t) == Stepped(s, h, st, u, t) /\ (Reads(t.events) <=> Reads(s.events))

\* Time passes that nothing is due in.
LEMMA Elapsing ==
  ASSUME NEW s, NEW h, NEW st, NEW u, Sound(s, h, st, u), Idle(s),
         ~(s.events # <<>> /\ Head(s.events).due = 0),
         NEW f, f = [i \in DOMAIN s.events |->
                       [s.events[i] EXCEPT !.due = s.events[i].due - 1]],
         NEW t, t = [s EXCEPT !.events = f, !.last_reply = IF @ > 0 THEN @ - 1 ELSE 0]
  PROVE  SteppedStill(s, h, st, u, t)
<1> DEFINE last == IF s.last_reply > 0 THEN s.last_reply - 1 ELSE 0
<1>1. /\ Holds(s, h, u) /\ s \in Ios /\ s.volume \in 0 .. 2 /\ s.events \in Seq(Events)
      /\ EventsHold(s.events, h, u, s.last_reply) /\ s.last_reply \in Nat /\ Sorted(s.events)
  BY HoldsTypes, HoldsParts DEF Sound
<1>2. ASSUME NEW i \in 1 .. Len(s.events) PROVE s.events[i].due > 0
  <2>1. /\ Len(s.events) \in Nat /\ \A j \in 1 .. Len(s.events) : s.events[j].due \in Nat
    BY <1>1, EventTypes
  <2>2. s.events # <<>> /\ Head(s.events) = s.events[1] /\ 1 \in 1 .. Len(s.events)
    BY <1>1
  <2>3. s.events[1].due # 0 /\ s.events[1].due \in Nat
    BY <2>1, <2>2
  <2>4. s.events[1].due <= s.events[i].due
    <3>1. CASE i = 1
      BY <2>3, <3>1
    <3>2. CASE 1 < i
      <4>1. \A j, k \in 1 .. Len(s.events) : j < k => s.events[j].due <= s.events[k].due
        BY <1>1 DEF Sorted
      <4> QED
        BY <1>2, <2>2, <3>2, <4>1
    <3>3. i = 1 \/ 1 < i
      BY <1>2, <2>1
    <3> QED
      BY <3>1, <3>2, <3>3
  <2> QED
    <3>1. s.events[i].due \in Nat
      BY <1>2, <2>1
    <3> QED
      BY <2>3, <2>4, <3>1
<1>3. /\ EventsHold(f, h, u, last) /\ Len(f) = Len(s.events)
      /\ \A i \in 1 .. Len(s.events) : f[i].what = s.events[i].what /\ f[i].cmd = s.events[i].cmd
  <2>1. Latency \in Nat
    BY WiiIpcAssumption
  <2>2. f = [i \in DOMAIN s.events |-> [s.events[i] EXCEPT !.due = s.events[i].due - 1]]
    OBVIOUS
  <2>3. \A i \in 1 .. Len(s.events) : s.events[i].due > 0
    BY <1>2
  <2> DEFINE e == s.events
             now == s.last_reply
  <2>4. /\ EventsHold(e, h, u, now) /\ now \in Nat /\ \A i \in 1 .. Len(e) : e[i].due > 0
        /\ f = [i \in DOMAIN e |-> [e[i] EXCEPT !.due = e[i].due - 1]]
    BY <1>1, <2>2, <2>3
  <2> HIDE DEF e, now
  <2>5. EventsHold(f, h, u, IF now > 0 THEN now - 1 ELSE 0)
    BY SMTT(40), <2>1, <2>4, HoldElapsed
  <2>6. Len(f) = Len(e)
    BY <2>1, <2>4, HoldElapsed
  <2>7. ASSUME NEW i \in 1 .. Len(e) PROVE f[i].what = e[i].what /\ f[i].cmd = e[i].cmd
    <3>1. e[i] \in Events /\ i \in DOMAIN e
      BY <1>1, EventTypes DEF e
    <3>2. f[i] = [e[i] EXCEPT !.due = e[i].due - 1]
      BY <2>4, <3>1
    <3> QED
      BY <3>1, <3>2 DEF Events
  <2> QED
    BY <2>5, <2>6, <2>7 DEF e, now
<1>4. f \in Seq(Events) /\ last \in Nat
  <2>1. last \in Nat
    BY SMTT(40), <1>1
  <2> HIDE DEF last
  <2>2. f \in Seq(Events)
    BY <1>3 DEF EventsHold
  <2> QED
    BY <2>1, <2>2
<1>5. t = [s EXCEPT !.events = f, !.last_reply = last]
  OBVIOUS
<1> HIDE DEF last
<1>6. /\ t \in Ios /\ t.events = f /\ t.last_reply = last /\ t.volume = s.volume
      /\ SameQueues(s, t) /\ SameMailbox(s, t)
  BY <1>1, <1>4, <1>5 DEF Ios, SameQueues, SameMailbox
<1>7. Holds(t, h, u)
  <2>1. /\ t.Y1 = s.Y1 /\ t.Y2 = s.Y2 /\ t.arm_msg = s.arm_msg
        /\ ~(t.Y1 /\ t.Y2) /\ (t.Y1 \/ t.Y2 => t.arm_msg \in Commands)
    BY <1>1, <1>6 DEF SameMailbox, Holds
  <2> QED
    BY <1>1, <1>3, <1>6, <2>1, HoldsSame
<1>8. Sound(t, h, st, u)
  BY <1>6, <1>7 DEF Sound, SameMailbox
<1>9. DriveStays(s, t) /\ (Reads(t.events) <=> Reads(s.events))
  <2>1. DriveSame(s.events, t.events)
    BY <1>3, <1>6, DriveKinds
  <2> QED
    BY <1>6, <2>1 DEF DriveStays, SameQueues, DriveSame
<1>10. DriveGoesOn(s, t)
  BY <1>1, <1>9, Staying
<1>11. Idle(t)
  BY <1>6 DEF Idle, IsReady, SameMailbox, SameQueues
<1> QED
  BY <1>8, <1>9, <1>10, <1>11 DEF SteppedStill, Stepped, Prepared

\* The user asks for another disc: an ejection and an insertion are scheduled.
LEMMA Changing ==
  ASSUME NEW s, NEW h, NEW st, NEW u, Sound(s, h, st, u), Idle(s),
         NEW t, t = Schedule(SwapTime, "insert", Nothing)[Schedule(0, "eject", Nothing)[s]]
  PROVE  SteppedStill(s, h, st, u, t)
<1> DEFINE a == Schedule(0, "eject", Nothing)[s]
           x == Event(0, "eject", Nothing)
           y == Event(SwapTime, "insert", Nothing)
           k == Earlier(s, 0)
           n == Earlier(a, SwapTime)
<1>1. Holds(s, h, u) /\ s \in Ios /\ s.volume \in 0 .. 2 /\ s.events \in Seq(Events)
  BY HoldsTypes DEF Sound
<1>2. {"eject", "insert"} \subseteq Kinds \ Enqueued /\ SwapTime \in Nat /\ 0 \in Nat
  BY WiiIpcAssumption DEF Kinds, Enqueued
<1>3. Holds(a, h, u) /\ SameBut(s, a) /\ Inserted(s.events, x, k, a.events)
  BY <1>1, <1>2, PutOther
<1> HIDE DEF a, k
<1>4. Holds(t, h, u) /\ SameBut(a, t) /\ Inserted(a.events, y, n, t.events)
  BY <1>2, <1>3, PutOther DEF a
<1>5. a.events \in Seq(Events)
  BY <1>3, HoldsTypes
<1>6. x.what \notin Finishing /\ y.what \notin Finishing
  BY DEF Event, Finishing
<1> HIDE DEF n, x, y
<1>7. DriveSame(s.events, t.events)
  <2>1. DriveSame(s.events, a.events)
    BY <1>1, <1>3, <1>6, DriveInserted
  <2>2. DriveSame(a.events, t.events)
    BY <1>4, <1>5, <1>6, DriveInserted
  <2> QED
    BY <2>1, <2>2, DriveTrans
<1>8. /\ t.m_commands_to_execute = s.m_commands_to_execute /\ t.volume = s.volume
      /\ t.Y2 = s.Y2 /\ t.arm_msg = s.arm_msg
      /\ SameQueues(s, t) /\ SameMailbox(s, t)
  BY <1>3, <1>4 DEF SameBut, SameQueues, SameMailbox
<1>9. DriveGoesOn(s, t)
  BY <1>1, <1>7, <1>8, Staying DEF DriveStays
<1>10. Sound(t, h, st, u)
  BY <1>4, <1>8 DEF Sound
<1>11. Idle(t)
  BY <1>8 DEF Idle, IsReady, SameMailbox, SameQueues
<1>12. Reads(t.events) <=> Reads(s.events)
  BY <1>7 DEF DriveSame
<1> QED
  BY <1>9, <1>10, <1>11, <1>12 DEF SteppedStill, Stepped, Prepared

WithVolume(s, v) == [s EXCEPT !.volume = v]

\* A disc is taken out of the drive or put into it.
LEMMA Opening ==
  ASSUME NEW s, NEW h, NEW st, NEW u, Sound(s, h, st, u), Idle(s), DriveOk(s),
         NEW v, v \in 0 .. 2
  PROVE  /\ Sound(WithVolume(s, v), h, st, u)
         /\ Idle(WithVolume(s, v))
         /\ DriveOk(WithVolume(s, v))
         /\ WithVolume(s, v).events = s.events
         /\ WithVolume(s, v).m_commands_to_execute = s.m_commands_to_execute
         /\ WithVolume(s, v).volume = v
<1> DEFINE t == WithVolume(s, v)
<1>1. Holds(s, h, u) /\ s \in Ios /\ EventsHold(s.events, h, u, s.last_reply)
  BY HoldsTypes, HoldsParts DEF Sound
<1>2. /\ t \in Ios /\ SameQueues(s, t) /\ SameMailbox(s, t) /\ t.events = s.events
      /\ t.last_reply = s.last_reply /\ t.volume = v
  BY <1>1 DEF WithVolume, Ios, SameQueues, SameMailbox
<1>3. Holds(t, h, u)
  <2>1. /\ t.Y1 = s.Y1 /\ t.Y2 = s.Y2 /\ t.arm_msg = s.arm_msg
        /\ ~(t.Y1 /\ t.Y2) /\ (t.Y1 \/ t.Y2 => t.arm_msg \in Commands)
    BY <1>1, <1>2 DEF SameMailbox, Holds
  <2> QED
    BY <1>1, <1>2, <2>1, HoldsSame
<1>4. Sound(t, h, st, u)
  BY <1>2, <1>3 DEF Sound, SameMailbox
<1>5. Idle(t)
  BY <1>2 DEF Idle, IsReady, SameMailbox, SameQueues
<1>6. t.m_commands_to_execute = s.m_commands_to_execute
  BY <1>2 DEF SameQueues
<1>7. DriveOk(t)
  BY <1>2, <1>6 DEF DriveOk
<1> QED
  BY <1>2, <1>4, <1>5, <1>6, <1>7

\* s when the event that changes the disc is over.
WithoutFirst(s) == [s EXCEPT !.events = Tail(@)]

LEMMA Turning ==
  ASSUME NEW s, NEW h, NEW st, NEW u, Sound(s, h, st, u), Idle(s), DriveOk(s), s.events # <<>>,
         Head(s.events).what \in {"eject", "insert"}
  PROVE  /\ Sound(WithoutFirst(s), h, st, u) /\ Idle(WithoutFirst(s)) /\ DriveOk(WithoutFirst(s))
         /\ Reads(WithoutFirst(s).events) <=> Reads(s.events)
         /\ WithoutFirst(s).m_commands_to_execute = s.m_commands_to_execute
<1> DEFINE e == Head(s.events)
           r == WithoutFirst(s)
<1>9. r = [s EXCEPT !.events = Tail(@)]
  BY DEF WithoutFirst
<1> HIDE DEF r
<1>1. Holds(s, h, u) /\ h \in [Commands -> Places] /\ s.events \in Seq(Events)
  BY HoldsTypes DEF Sound
<1>2. e.what \notin Enqueued /\ e.what \notin Finishing
  BY DEF Enqueued, Finishing
<1>3. Holds(r, h, u) /\ r.events = Tail(s.events) /\ SameBut(s, r)
  BY <1>1, <1>2, <1>9, TakingEvent
<1>4. DriveSame(s.events, r.events)
  BY <1>1, <1>2, <1>3, TailSame
<1>5. Sound(r, h, st, u) /\ Idle(r)
  BY <1>3 DEF Sound, SameMailbox, SameBut, SameQueues, Idle, IsReady
<1>6. r.m_commands_to_execute = s.m_commands_to_execute
  BY <1>3 DEF SameBut, SameQueues
<1>7. DriveOk(r)
  BY <1>4, <1>6 DEF DriveOk, DriveSame
<1>8. Reads(r.events) <=> Reads(s.events)
  BY <1>4 DEF DriveSame
<1> QED
  BY <1>5, <1>6, <1>7, <1>8 DEF r

\* A machine that has just been switched on.
LEMMA Beginning ==
  /\ Sound(Fresh, Forgotten, NoCommand, <<>>) /\ DriveOk(Fresh) /\ Idle(Fresh)
  /\ ~Reads(Fresh.events) /\ ~Fresh.Y1 /\ \A c \in Discs : Forgotten[c] \notin Answered
<1>1. Fresh \in Ios
  BY WiiIpcAssumption DEF Fresh, Ios
<1>2. /\ Fresh.events = <<>> /\ Fresh.request_queue = <<>> /\ Fresh.reply_queue = <<>>
      /\ Fresh.ack_queue = <<>> /\ Fresh.m_commands_to_execute = <<>> /\ Fresh.last_reply = 0
      /\ Fresh.Y1 = FALSE /\ Fresh.Y2 = FALSE
  BY DEF Fresh
<1> HIDE DEF Fresh
<1>3. \A c \in Commands : Forgotten[c] = "nowhere"
  BY DEF Forgotten
<1>4. Forgotten \in [Commands -> Places]
  BY PlaceNames DEF Forgotten
<1>5. \A c \in Commands : Forgotten[c] \notin Enqueued \cup Queues \cup {"mailbox"}
  BY <1>3 DEF Enqueued, Queues
<1> HIDE DEF Forgotten
<1>6. EventsHold(<<>>, Forgotten, <<>>, 0)
  BY <1>5 DEF EventsHold, Sorted
<1>7. \A q \in Queues : QueueHolds(<<>>, Forgotten, <<>>, q)
  BY <1>5, QueueEmpty
<1>8. Holds(Fresh, Forgotten, <<>>)
  BY <1>1, <1>2, <1>4, <1>5, <1>6, <1>7 DEF Holds, Queues
<1>9. Sound(Fresh, Forgotten, NoCommand, <<>>)
  BY <1>2, <1>3, <1>8, LifeBegins DEF Sound
<1>10. DriveOk(Fresh) /\ ~Reads(Fresh.events)
  BY <1>2 DEF DriveOk, Finishes, Reads, OneFinish
<1> QED
  BY <1>2, <1>3, <1>9, <1>10 DEF Idle, Answered, Commands

-----------------------------------------------------------------------------
(* The inductive invariant *)

\* The DVD thread has nothing to do and does nothing.
Quiet == ~start_working /\ thread \in {"ready", "wait"}

\* While a read is under way in s, the DVD thread is on its way with that very read, or holds
\* its data; otherwise, and without a disc, it is quiet.
Attends(s) ==
  /\ Reads(s.events) =>
       /\ request = Head(s.m_commands_to_execute)
       /\ \/ thread = "wait" /\ start_working /\ ~done_working
          \/ thread \in {"woken", "read"} /\ ~start_working /\ ~done_working
          \/ Quiet /\ (done_working <=> thread = "wait") /\ s_dvd_buffer = request
  /\ ~Reads(s.events) \/ s.volume = 0 => Quiet

ThreadOk ==
  /\ power \in {"boot", "on"} => ~exiting /\ (~leftover => Attends(ios))
  /\ power = "off" => thread = "off" /\ ~exiting /\ leftover = start_working

\* A command to the drive whose reply is on its way to the guest has its result.
ResultOk(h, r) == \A c \in Discs : h[c] \in Answered => r[c] \in {"data", "error"}

Counted ==
  /\ result \in [Discs -> {"none", "data", "wrong", "error"}]
  /\ power \in {"off", "boot", "on", "flag", "join"}
  /\ sends \in 0 .. MaxSends /\ swaps \in 0 .. MaxSwaps /\ boots \in 0 .. MaxBoots

\* In a session that has met no signal of the one before.
InSession == power \in {"boot", "on"} /\ ~leftover

Placed(h) == Sound(ios, h, status, unanswered) /\ (InSession => ResultOk(h, result))

IInv ==
  /\ Counted /\ drive!DVDTypeOK
  /\ \E h : Placed(h)
  /\ DriveOk(ios) /\ Idle(ios)
  /\ ThreadOk

\* The two ways to say that a read is under way.
LEMMA ReadingIs ==
  ASSUME NEW s, s \in Ios
  PROVE  Reading(s) <=> Reads(s.events)
<1>1. DOMAIN s.events = 1 .. Len(s.events)
  BY Fields, EventTypes
<1> QED
  BY <1>1 DEF Reading, Reads

\* A handler that leaves the drive a read has left it a command.
LEMMA Commanded ==
  ASSUME NEW t, t \in Ios, DriveOk(t), Reads(t.events)
  PROVE  Head(t.m_commands_to_execute) \in Discs
<1>1. Finishes(t.events)
  BY DEF Reads, Finishes, Finishing
<1>2. t.m_commands_to_execute # <<>> /\ t.m_commands_to_execute \in Seq(Discs)
  BY <1>1, Fields DEF DriveOk
<1> QED
  BY <1>2

\* What a handler does to the DVD thread: at most it begins a read.
LEMMA Telling ==
  ASSUME drive!DVDTypeOK, NEW s, s \in Ios, NEW t, t \in Ios, DriveOk(t), Becomes(s, t)
  PROVE  /\ ios' = t /\ drive!DVDTypeOK'
         /\ UNCHANGED <<thread, exiting, s_dvd_buffer>>
         /\ \/ /\ Reads(t.events) /\ ~Reads(s.events)
               /\ done_working /\ ~done_working' /\ start_working'
               /\ request' = Head(t.m_commands_to_execute)
               /\ leftover' = (leftover \/ thread = "ready")
            \/ /\ Reads(t.events) => Reads(s.events)
               /\ UNCHANGED <<start_working, done_working, request, leftover>>
<1>1. (Reading(s) <=> Reads(s.events)) /\ (Reading(t) <=> Reads(t.events))
  BY ReadingIs
<1>2. CASE Reads(t.events) /\ ~Reads(s.events)
  <2>1. drive!StartRead(Head(t.m_commands_to_execute))
    BY <1>1, <1>2 DEF Becomes
  <2>2. Head(t.m_commands_to_execute) \in Discs
    BY <1>2, Commanded
  <2> QED
    BY <1>2, <2>1, <2>2 DEF Becomes, drive!StartRead, drive!DVDTypeOK
<1>3. CASE ~(Reads(t.events) /\ ~Reads(s.events))
  <2>1. UNCHANGED dvd
    BY <1>1, <1>3 DEF Becomes
  <2> QED
    BY <1>3, <2>1 DEF Becomes, dvd, drive!DVDTypeOK
<1> QED
  BY <1>2, <1>3

\* The DVD thread still attends to the drive after a handler.
LEMMA Attending ==
  ASSUME drive!DVDTypeOK, NEW s, s \in Ios, NEW t, t \in Ios, DriveOk(t), Becomes(s, t),
         ~leftover', Attends(s), Continues(s, t)
  PROVE  Attends(ios)'
<1>1. /\ ios' = t
      /\ UNCHANGED <<thread, exiting, s_dvd_buffer>>
      /\ \/ /\ Reads(t.events) /\ ~Reads(s.events)
            /\ done_working /\ ~done_working' /\ start_working'
            /\ request' = Head(t.m_commands_to_execute)
            /\ thread # "ready"
         \/ /\ Reads(t.events) => Reads(s.events)
            /\ UNCHANGED <<start_working, done_working, request>>
  <2>1. /\ ios' = t
        /\ UNCHANGED <<thread, exiting, s_dvd_buffer>>
        /\ \/ /\ Reads(t.events) /\ ~Reads(s.events)
              /\ done_working /\ ~done_working' /\ start_working'
              /\ request' = Head(t.m_commands_to_execute)
              /\ leftover' = (leftover \/ thread = "ready")
           \/ /\ Reads(t.events) => Reads(s.events)
              /\ UNCHANGED <<start_working, done_working, request, leftover>>
    BY Telling
  <2>2. (leftover' = (leftover \/ thread = "ready")) => thread # "ready"
    OBVIOUS
  <2> QED
    BY <2>1, <2>2
<1>2. CASE Reads(t.events) /\ ~Reads(s.events)
  <2>1. t.volume # 0
    BY <1>2 DEF Continues
  <2>2. Quiet
    BY <1>2 DEF Attends
  <2> QED
    BY <1>1, <1>2, <2>1, <2>2 DEF Attends, Quiet
<1>3. CASE ~(Reads(t.events) /\ ~Reads(s.events))
  <2>1. /\ Reads(t.events) <=> Reads(s.events)
        /\ Reads(t.events) => Head(t.m_commands_to_execute) = Head(s.m_commands_to_execute)
        /\ t.volume = s.volume
    BY <1>3 DEF Continues
  <2>2. UNCHANGED <<thread, start_working, done_working, request, s_dvd_buffer>>
    BY <1>1, <1>3
  <2> QED
    BY <1>1, <2>1, <2>2 DEF Attends, Quiet
<1> QED
  BY <1>2, <1>3

\* The obligations of a handler that turns s, which is ios or what is left of it without its
\* first event, into t.
LEMMA Stepping ==
  ASSUME IInv, power = "on", NEW s, s \in Ios, s.volume = ios.volume, InSession => Attends(s),
         NEW t, Becomes(s, t), Continues(s, t), DriveOk(t), Idle(t),
         NEW g, Sound(t, g, status', unanswered'),
         Counted', power' = power, InSession => ResultOk(g, result')
  PROVE  IInv' /\ ios'.volume = ios.volume
<1>1. t \in Ios
  BY HoldsTypes DEF Sound
<1>2. /\ ios' = t /\ drive!DVDTypeOK' /\ (leftover => leftover') /\ exiting' = exiting
  BY <1>1, Telling DEF IInv
<1>3. Placed(g)'
  BY <1>2 DEF Placed, InSession
<1>4. ThreadOk'
  <2>1. ~exiting
    BY DEF IInv, ThreadOk
  <2>2. ~leftover' => Attends(ios)'
    BY <1>1, <1>2, Attending DEF IInv, InSession
  <2> QED
    BY <1>2, <2>1, <2>2 DEF ThreadOk
<1>5. DriveOk(ios)' /\ Idle(ios)'
  BY <1>2
<1>6. ios'.volume = ios.volume
  BY <1>2 DEF Continues
<1> QED
  BY <1>2, <1>3, <1>4, <1>5, <1>6 DEF IInv

-----------------------------------------------------------------------------
(* The steps of the guest *)

\* FirstFree() finds a command that is free.
LEMMA Free ==
  ASSUME NEW S, S \subseteq Commands, NEW c, c \in Commands, c = FirstFree(S)
  PROVE  c \in S /\ status[c] = "free"
<1> DEFINE free == {x \in S : status[x] = "free"}
<1>1. free # {}
  BY WiiIpcAssumption DEF FirstFree
<1>2. c \in free
  BY <1>1 DEF FirstFree
<1> QED
  BY <1>2

\* A write to a register, that of a guest which knows st and u afterwards.
LEMMA GuestStep ==
  ASSUME IInv, power = "on", NEW h, Placed(h), NEW r,
         Prepared(ios, h, status', unanswered', r), Write(r),
         Counted', power' = power,
         \A c \in Discs : h[c] \in Answered => result'[c] = result[c]
  PROVE  IInv' /\ ios'.volume = ios.volume
<1>1. PICK d \in Delays : Becomes(ios, ScheduleUpdate(0)[Update(d)[r]])
  BY DEF Write
<1> DEFINE t == ScheduleUpdate(0)[Update(d)[r]]
<1>2. d \in Nat
  BY WiiIpcAssumption
<1>3. Stepped(ios, h, status', unanswered', t)
  BY <1>2, Writing
<1>4. Becomes(ios, t)
  BY <1>1
<1> HIDE DEF t
<1>5. PICK g : Sound(t, g, status', unanswered') /\ \A c \in Discs : g[c] \in Answered => h[c] \in Answered
  BY <1>3 DEF Stepped, Prepared
<1>6. Continues(ios, t) /\ DriveOk(t) /\ Idle(t)
  BY <1>3 DEF Stepped, Prepared, DriveGoesOn, IInv
<1>7. InSession => ResultOk(g, result')
  BY <1>5 DEF Placed, ResultOk
<1>8. ios \in Ios
  BY HoldsTypes DEF Placed, Sound
<1>9. InSession => Attends(ios)
  BY DEF InSession, IInv, ThreadOk
<1> QED
  BY <1>4, <1>5, <1>6, <1>7, <1>8, <1>9, Stepping

LEMMA StepSend ==
  ASSUME IInv, NEW c \in Commands, Send(c)
  PROVE  IInv' /\ ios'.volume = ios.volume
<1>1. PICK h : Placed(h)
  BY DEF IInv
<1>2. status[c] = "free"
  <2>1. /\ Files \subseteq Commands /\ Discs \subseteq Commands
        /\ Launches \subseteq Commands /\ Missing \subseteq Commands
        /\ c \in {FirstFree(Files), FirstFree(Discs), FirstFree(Launches), FirstFree(Missing)}
    BY DEF Commands, Titles, Send
  <2> QED
    BY <2>1, Free
<1>3. /\ \A l \in Titles : status[l] = "free"
      /\ c \in Titles => \A d \in Discs : status[d] = "free"
      /\ status' = [status EXCEPT ![c] = "sent"]
      /\ unanswered' = IF c \in Files THEN Append(unanswered, c) ELSE unanswered
  BY DEF Send
<1>4. Sound(ios, h, status, unanswered)
  BY <1>1 DEF Placed
<1> DEFINE r == Schedule(Latency, "request", c)[ios]
<1>5. Prepared(ios, h, status', unanswered', r) /\ h[c] = "nowhere"
  <2> HIDE DEF r
  <2>1. r = Schedule(Latency, "request", c)[ios]
    BY DEF r
  <2>2. Prepared(ios, h, status', unanswered', Schedule(Latency, "request", c)[ios])
    BY <1>2, <1>3, <1>4, Sending
  <2>3. h[c] = "nowhere"
    BY <1>2, <1>3, <1>4, Sending
  <2> QED
    BY <2>1, <2>2, <2>3
<1>6. power = "on" /\ power' = power /\ Write(r)
  BY DEF Send
<1> HIDE DEF r
<1>7. Counted'
  BY WiiIpcAssumption DEF Send, Counted, IInv
<1>8. ASSUME NEW d \in Discs, h[d] \in Answered PROVE result'[d] = result[d]
  <2>1. d # c
    BY <1>5, <1>8 DEF Answered
  <2> QED
    BY <2>1 DEF Send, IInv, Counted
<1> QED
  BY <1>1, <1>5, <1>6, <1>7, <1>8, GuestStep

LEMMA StepTakeReply ==
  ASSUME IInv, TakeReply
  PROVE  IInv' /\ ios'.volume = ios.volume
<1>1. PICK h : Placed(h)
  BY DEF IInv
<1> DEFINE r == [ios EXCEPT !.Y1 = FALSE]
<1>2. Prepared(ios, h, status', unanswered', r)
  <2>1. /\ Sound(ios, h, status, unanswered) /\ ios.Y1
        /\ status' = [status EXCEPT ![ios.arm_msg] = "free"]
        /\ unanswered' = IF ios.arm_msg \in Files THEN Tail(unanswered) ELSE unanswered
    BY <1>1 DEF Placed, TakeReply
  <2> QED
    BY <2>1, TakingReply
<1>3. /\ power = "on" /\ power' = power /\ Write(r) /\ result' = result
      /\ sends' = sends /\ swaps' = swaps /\ boots' = boots
  BY DEF TakeReply, counts
<1> HIDE DEF r
<1>4. Counted'
  BY <1>3 DEF Counted, IInv
<1> QED
  BY <1>1, <1>2, <1>3, <1>4, GuestStep

LEMMA StepTakeAck ==
  ASSUME IInv, TakeAck
  PROVE  IInv' /\ ios'.volume = ios.volume
<1>1. PICK h : Placed(h)
  BY DEF IInv
<1> DEFINE r == [ios EXCEPT !.Y2 = FALSE]
<1>2. Prepared(ios, h, status', unanswered', r)
  <2>1. Sound(ios, h, status, unanswered) /\ ios.Y2
    BY <1>1 DEF Placed, TakeAck
  <2>2. CASE status[ios.arm_msg] = "sent"
    <3>1. status' = [status EXCEPT ![ios.arm_msg] = "acked"] /\ unanswered' = unanswered
      BY <2>2 DEF TakeAck
    <3> QED
      BY <2>1, <2>2, <3>1, TakingAcknowledgement
  <2>3. CASE status[ios.arm_msg] # "sent" /\ ios.arm_msg \in Missing
    <3>1. status' = [status EXCEPT ![ios.arm_msg] = "free"] /\ unanswered' = unanswered
      BY <2>3 DEF TakeAck
    <3> QED
      BY <2>1, <2>3, <3>1, TakingFailure
  <2>4. CASE status[ios.arm_msg] # "sent" /\ ios.arm_msg \notin Missing
    <3>1. status' = NoCommand /\ unanswered' = <<>>
      BY <2>4 DEF TakeAck
    <3> QED
      BY <2>1, <2>4, <3>1, TakingAnswer
  <2> QED
    BY <2>2, <2>3, <2>4
<1>3. /\ power = "on" /\ power' = power /\ Write(r) /\ result' = result
      /\ sends' = sends /\ swaps' = swaps /\ boots' = boots
  BY DEF TakeAck, counts
<1> HIDE DEF r
<1>4. Counted'
  BY <1>3 DEF Counted, IInv
<1> QED
  BY <1>1, <1>2, <1>3, <1>4, GuestStep

LEMMA StepClearFlag ==
  ASSUME IInv, ClearFlag
  PROVE  IInv' /\ ios'.volume = ios.volume
<1>1. PICK h : Placed(h)
  BY DEF IInv
<1> DEFINE r == [ios EXCEPT !.ppc_irq_flags = FALSE]
<1>2. /\ power = "on" /\ power' = power /\ Write(r) /\ result' = result
      /\ status' = status /\ unanswered' = unanswered
      /\ sends' = sends /\ swaps' = swaps /\ boots' = boots
  BY DEF ClearFlag, counts, guest
<1>3. Prepared(ios, h, status', unanswered', r)
  <2>1. Sound(ios, h, status, unanswered)
    BY <1>1 DEF Placed
  <2>2. Prepared(ios, h, status, unanswered, r)
    BY <2>1, Clearing
  <2> QED
    BY <1>2, <2>2
<1> HIDE DEF r
<1>4. Counted'
  BY <1>2 DEF Counted, IInv
<1> QED
  BY <1>1, <1>2, <1>3, <1>4, GuestStep

LEMMA StepReset ==
  ASSUME IInv, Reset
  PROVE  IInv' /\ ios'.volume = ios.volume
<1>1. PICK h : Placed(h)
  BY DEF IInv
<1> DEFINE r == [ResetQueues(ios) EXCEPT !.Y1 = FALSE, !.Y2 = FALSE, !.ppc_irq_flags = FALSE,
                                         !.arm_msg = Nothing]
<1>2. /\ power = "on" /\ power' = power /\ Write(r) /\ result' = result
      /\ status' = NoCommand /\ unanswered' = <<>>
      /\ sends' = sends /\ swaps' = swaps /\ boots' = boots
  BY DEF Reset, counts
<1>3. Prepared(ios, h, status', unanswered', r)
  <2>1. /\ Sound(ios, h, status, unanswered)
        /\ ios.m_commands_to_execute = <<>> /\ ios.ack_queue = <<>>
    BY <1>1 DEF Placed, Reset
  <2>2. Prepared(ios, h, NoCommand, <<>>, r)
    BY <2>1, Resetting
  <2> QED
    BY <1>2, <2>2
<1> HIDE DEF r
<1>4. Counted'
  BY <1>2 DEF Counted, IInv
<1> QED
  BY <1>1, <1>2, <1>3, <1>4, GuestStep

-----------------------------------------------------------------------------
(* Events, the host and the DVD thread *)

\* What is left when the first event is taken.
LEMMA RestIs ==
  ASSUME IInv, Due, NEW h, Placed(h)
  PROVE  /\ Sound(ios, h, status, unanswered) /\ power = "on"
         /\ ios \in Ios /\ ios.events \in Seq(Events) /\ ios.events # <<>>
         /\ Rest \in Ios /\ Rest.events = Tail(ios.events) /\ Rest.volume = ios.volume
         /\ Rest.m_commands_to_execute = ios.m_commands_to_execute
         /\ InSession => Attends(ios) /\ ~exiting
<1>1. Sound(ios, h, status, unanswered)
  BY DEF Placed
<1>2. ios \in Ios /\ ios.events \in Seq(Events)
  BY <1>1, HoldsTypes DEF Sound
<1>3. ios.events # <<>> /\ power = "on"
  BY DEF Due
<1>4. Tail(ios.events) \in Seq(Events)
  BY <1>2, <1>3
<1>5. Rest = [ios EXCEPT !.events = Tail(ios.events)]
  BY DEF Rest
<1>6. /\ Rest \in Ios /\ Rest.events = Tail(ios.events) /\ Rest.volume = ios.volume
      /\ Rest.m_commands_to_execute = ios.m_commands_to_execute
  BY <1>2, <1>4, <1>5, OtherEvents DEF SameBut, SameQueues
<1>7. InSession => Attends(ios) /\ ~exiting
  BY DEF InSession, IInv, ThreadOk
<1> QED
  BY <1>1, <1>2, <1>3, <1>6, <1>7

LEMMA StepDispatchIpc ==
  ASSUME IInv, DispatchIpc
  PROVE  IInv' /\ ios'.volume = ios.volume
<1>1. PICK h : Placed(h)
  BY DEF IInv
<1>2. Due
  BY DEF DispatchIpc
<1>3. /\ Sound(ios, h, status, unanswered) /\ power = "on"
      /\ ios \in Ios /\ ios.events \in Seq(Events) /\ ios.events # <<>>
      /\ Rest \in Ios /\ Rest.events = Tail(ios.events) /\ Rest.volume = ios.volume
      /\ Rest.m_commands_to_execute = ios.m_commands_to_execute
      /\ InSession => Attends(ios)
  BY <1>1, <1>2, RestIs
<1>4. /\ power' = power /\ result' = result /\ status' = status /\ unanswered' = unanswered
      /\ sends' = sends /\ swaps' = swaps /\ boots' = boots
  BY DEF DispatchIpc, counts, guest
<1>5. DriveOk(ios) /\ Idle(ios)
  BY DEF IInv
<1>6. \E t : Stepped(ios, h, status, unanswered, t) /\ Continues(Rest, t) /\ Becomes(Rest, t)
  <2> DEFINE e == Head(ios.events)
  <2>1. Rest = [ios EXCEPT !.events = Tail(@)]
    BY DEF Rest
  <2>2. CASE /\ e.what \in Enqueued
             /\ \E d \in Delays : Becomes(Rest, EnqueueEvent(e.what, e.cmd, d)[Rest])
    <3>1. PICK d \in Delays : Becomes(Rest, EnqueueEvent(e.what, e.cmd, d)[Rest])
      BY <2>2
    <3>2. d \in Nat
      BY WiiIpcAssumption
    <3>3. /\ Stepped(ios, h, status, unanswered, EnqueueEvent(e.what, e.cmd, d)[Rest])
          /\ Continues(Rest, EnqueueEvent(e.what, e.cmd, d)[Rest])
      BY <1>3, <1>5, <2>1, <2>2, <3>2, Delivering
    <3> QED
      BY <3>1, <3>3
  <2>3. CASE e.what = "irq" /\ Becomes(Rest, UpdateInterrupts[Rest])
    <3>1. Stepped(ios, h, status, unanswered, UpdateInterrupts[Rest]) /\ Continues(Rest, UpdateInterrupts[Rest])
      BY <1>3, <1>5, <2>1, <2>3, Interrupting
    <3> QED
      BY <2>3, <3>1
  <2> QED
    BY <2>2, <2>3 DEF DispatchIpc
<1>7. PICK t : Stepped(ios, h, status, unanswered, t) /\ Continues(Rest, t) /\ Becomes(Rest, t)
  BY <1>6
<1>8. PICK g : Sound(t, g, status, unanswered) /\ \A c \in Discs : g[c] \in Answered => h[c] \in Answered
  BY <1>7 DEF Stepped, Prepared
<1>9. DriveOk(t) /\ Idle(t)
  BY <1>5, <1>7 DEF Stepped, Prepared, DriveGoesOn
<1>10. Reads(Rest.events) <=> Reads(ios.events)
  <2>1. Head(ios.events).what \notin Finishing
    BY DEF DispatchIpc, Enqueued, Finishing
  <2> QED
    BY <1>3, <1>5, <2>1, DriveTail DEF DriveOk
<1>11. InSession => Attends(Rest)
  BY <1>3, <1>10 DEF Attends
<1>12. InSession => ResultOk(g, result')
  BY <1>1, <1>4, <1>8 DEF Placed, ResultOk
<1>13. Counted' /\ Sound(t, g, status', unanswered')
  BY <1>4, <1>8 DEF Counted, IInv
<1> QED
  BY <1>3, <1>4, <1>7, <1>9, <1>11, <1>12, <1>13, Stepping

\* The end of a command to the drive, of which the guest is given the result r.
LEMMA EndStep ==
  ASSUME IInv, NEW h, Placed(h), Due, Head(ios.events).what \in Finishing,
         NEW d \in Delays, Becomes(Rest, FinishIOCtl(Rest, d)),
         UNCHANGED <<guest, power, counts>>, Counted',
         InSession => /\ Quiet
                      /\ result'[Head(ios.m_commands_to_execute)] \in {"data", "error"}
                      /\ \A c \in Discs : c # Head(ios.m_commands_to_execute) => result'[c] = result[c]
  PROVE  IInv' /\ ios'.volume = ios.volume
<1>1. /\ Sound(ios, h, status, unanswered) /\ power = "on"
      /\ ios \in Ios /\ ios.events \in Seq(Events) /\ ios.events # <<>>
      /\ Rest \in Ios /\ Rest.events = Tail(ios.events) /\ Rest.volume = ios.volume
      /\ Rest.m_commands_to_execute = ios.m_commands_to_execute
  BY RestIs
<1>2. DriveOk(ios) /\ Idle(ios)
  BY DEF IInv
<1> DEFINE t == FinishIOCtl(Rest, d)
<1>3. Ended(ios, h, status, unanswered, t) /\ ~Reads(Rest.events)
  <2>1. Rest = [ios EXCEPT !.events = Tail(@)] /\ d \in Nat
    BY WiiIpcAssumption DEF Rest
  <2> QED
    BY <1>1, <1>2, <2>1, Ending
<1>4. Becomes(Rest, t)
  OBVIOUS
<1> HIDE DEF t
<1>5. PICK g : /\ Sound(t, g, status, unanswered)
               /\ \A c \in Discs : g[c] \in Answered =>
                    h[c] \in Answered \/ c = Head(ios.m_commands_to_execute)
  BY <1>3 DEF Ended
<1>6. DriveOk(t) /\ Idle(t) /\ Continues(Rest, t)
  BY <1>1, <1>3 DEF Ended, Continues
<1>7. InSession => Attends(Rest)
  BY <1>3 DEF Attends
<1>8. InSession => ResultOk(g, result')
  BY <1>5 DEF Placed, ResultOk
<1>9. Sound(t, g, status', unanswered') /\ power' = power
  BY <1>5 DEF guest
<1> QED
  BY <1>1, <1>4, <1>6, <1>7, <1>8, <1>9, Stepping

\* The DVD thread holds the data of the read that ends.
LEMMA StepFinishRead ==
  ASSUME IInv, FinishRead
  PROVE  IInv' /\ ios'.volume = ios.volume
<1>1. PICK h : Placed(h)
  BY DEF IInv
<1>2. /\ Due /\ Head(ios.events).what \in Finishing /\ Head(ios.events).what = "FinishRead"
      /\ done_working /\ UNCHANGED <<guest, power, counts>>
      /\ result' = [result EXCEPT ![request] = IF s_dvd_buffer = request THEN "data" ELSE "wrong"]
  BY DEF FinishRead, Finishing, drive!WaitUntilIdle
<1>3. PICK d \in Delays : Becomes(Rest, FinishIOCtl(Rest, d))
  BY DEF FinishRead
<1>4. result \in [Discs -> {"none", "data", "wrong", "error"}]
  BY DEF IInv, Counted
<1>5. Counted'
  BY <1>2, <1>4 DEF IInv, Counted, counts
<1>6. ASSUME InSession
      PROVE  /\ Quiet
             /\ result'[Head(ios.m_commands_to_execute)] \in {"data", "error"}
             /\ \A c \in Discs : c # Head(ios.m_commands_to_execute) => result'[c] = result[c]
  <2>1. Reads(ios.events)
    <3>1. 1 \in 1 .. Len(ios.events) /\ Head(ios.events) = ios.events[1]
      BY <1>1, <1>2, RestIs
    <3> QED
      BY <1>2, <3>1 DEF Reads
  <2>2. Quiet /\ s_dvd_buffer = request /\ request = Head(ios.m_commands_to_execute)
    BY <1>1, <1>2, <1>6, <2>1, RestIs DEF Attends
  <2>3. Head(ios.m_commands_to_execute) \in Discs
    BY <1>1, <1>2, <2>1, RestIs, Commanded DEF IInv
  <2> QED
    BY <1>2, <1>4, <2>2, <2>3
<1> QED
  BY <1>1, <1>2, <1>3, <1>5, <1>6, EndStep

\* A command that found no disc ends with an error.
LEMMA StepFinishCommand ==
  ASSUME IInv, FinishCommand
  PROVE  IInv' /\ ios'.volume = ios.volume
<1>1. PICK h : Placed(h)
  BY DEF IInv
<1>2. /\ Due /\ Head(ios.events).what \in Finishing /\ Head(ios.events).what = "FinishCommand"
      /\ UNCHANGED <<guest, power, counts>>
      /\ result' = [result EXCEPT ![Head(ios.m_commands_to_execute)] = "error"]
  BY DEF FinishCommand, Finishing
<1>3. PICK d \in Delays : Becomes(Rest, FinishIOCtl(Rest, d))
  BY DEF FinishCommand
<1>4. result \in [Discs -> {"none", "data", "wrong", "error"}]
  BY DEF IInv, Counted
<1>5. Counted'
  BY <1>2, <1>4 DEF IInv, Counted, counts
<1>6. ASSUME InSession
      PROVE  /\ Quiet
             /\ result'[Head(ios.m_commands_to_execute)] \in {"data", "error"}
             /\ \A c \in Discs : c # Head(ios.m_commands_to_execute) => result'[c] = result[c]
  <2>1. ~Reads(ios.events) /\ Finishes(ios.events)
    <3>1. /\ 1 \in 1 .. Len(ios.events) /\ Head(ios.events) = ios.events[1]
          /\ Len(ios.events) \in Nat
      BY <1>1, <1>2, RestIs
    <3>2. OneFinish(ios.events)
      BY DEF IInv, DriveOk
    <3>3. \A i \in 1 .. Len(ios.events) : ios.events[i].what # "FinishRead"
      BY <1>2, <3>1, <3>2 DEF OneFinish, Finishing
    <3> QED
      BY <1>2, <3>1, <3>3 DEF Reads, Finishes
  <2>2. Quiet
    BY <1>1, <1>2, <1>6, <2>1, RestIs DEF Attends
  <2>3. Head(ios.m_commands_to_execute) \in Discs
    <3>1. ios.m_commands_to_execute # <<>>
      BY <2>1 DEF IInv, DriveOk
    <3>2. ios.m_commands_to_execute \in Seq(Discs)
      BY <1>1, HoldsTypes DEF Placed, Sound
    <3> QED
      BY <3>1, <3>2
  <2> QED
    BY <1>2, <1>4, <2>2, <2>3
<1> QED
  BY <1>1, <1>2, <1>3, <1>5, <1>6, EndStep

LEMMA StepChangeDisc ==
  ASSUME IInv, ChangeDisc
  PROVE  IInv' /\ ios'.volume = ios.volume
<1>1. PICK h : Placed(h)
  BY DEF IInv
<1> DEFINE t == Schedule(SwapTime, "insert", Nothing)[Schedule(0, "eject", Nothing)[ios]]
<1>2. /\ power = "on" /\ power' = power /\ result' = result /\ UNCHANGED dvd /\ ios' = t
      /\ status' = status /\ unanswered' = unanswered /\ Counted'
  BY WiiIpcAssumption DEF ChangeDisc, guest, IInv, Counted
<1>3. Sound(ios, h, status, unanswered) /\ ios \in Ios
  BY <1>1, HoldsTypes DEF Placed, Sound
<1>4. Stepped(ios, h, status, unanswered, t) /\ (Reads(t.events) <=> Reads(ios.events))
  BY <1>2, <1>3, Changing DEF IInv, SteppedStill
<1> HIDE DEF t
<1>5. PICK g : Sound(t, g, status, unanswered) /\ \A c \in Discs : g[c] \in Answered => h[c] \in Answered
  BY <1>4 DEF Stepped, Prepared
<1>6. Continues(ios, t) /\ DriveOk(t) /\ Idle(t)
  BY <1>4 DEF Stepped, Prepared, DriveGoesOn, IInv
<1>7. Becomes(ios, t)
  <2>1. t \in Ios
    BY <1>5, HoldsTypes DEF Sound
  <2> QED
    BY <1>2, <1>3, <1>4, <2>1, ReadingIs DEF Becomes
<1>8. InSession => ResultOk(g, result') /\ Attends(ios)
  BY <1>1, <1>2, <1>5 DEF Placed, ResultOk, InSession, IInv, ThreadOk
<1>9. Sound(t, g, status', unanswered')
  BY <1>2, <1>5
<1> QED
  BY <1>2, <1>3, <1>6, <1>7, <1>8, <1>9, Stepping

LEMMA StepElapse ==
  ASSUME IInv, Elapse
  PROVE  IInv' /\ ios'.volume = ios.volume
<1>1. PICK h : Placed(h)
  BY DEF IInv
<1> DEFINE f == [i \in DOMAIN ios.events |->
                   [ios.events[i] EXCEPT !.due = ios.events[i].due - 1]]
           t == [ios EXCEPT !.events = f, !.last_reply = IF @ > 0 THEN @ - 1 ELSE 0]
<1>2. /\ power = "on" /\ power' = power /\ result' = result /\ UNCHANGED dvd /\ ios' = t
      /\ status' = status /\ unanswered' = unanswered
      /\ sends' = sends /\ swaps' = swaps /\ boots' = boots
      /\ ~(ios.events # <<>> /\ Head(ios.events).due = 0)
  BY DEF Elapse, guest, counts, Due
<1>3. Sound(ios, h, status, unanswered) /\ ios \in Ios /\ Counted' /\ Idle(ios)
  BY <1>1, <1>2, HoldsTypes DEF Placed, Sound, IInv, Counted
<1>4. Stepped(ios, h, status, unanswered, t) /\ (Reads(t.events) <=> Reads(ios.events))
  <2> DEFINE s == ios
             now == [s EXCEPT !.events = f, !.last_reply = IF s.last_reply > 0 THEN s.last_reply - 1 ELSE 0]
  <2>1. /\ Sound(s, h, status, unanswered) /\ Idle(s)
        /\ ~(s.events # <<>> /\ Head(s.events).due = 0)
        /\ f = [i \in DOMAIN s.events |-> [s.events[i] EXCEPT !.due = s.events[i].due - 1]]
    BY <1>2, <1>3
  <2>2. now = [s EXCEPT !.events = f, !.last_reply = IF @ > 0 THEN @ - 1 ELSE 0]
    OBVIOUS
  <2>3. t = now
    OBVIOUS
  <2> HIDE DEF s, f, t, now
  <2>4. SteppedStill(s, h, status, unanswered, now)
    BY <2>1, <2>2, Elapsing
  <2> QED
    BY <2>3, <2>4 DEF s, SteppedStill
<1> HIDE DEF t
<1>5. PICK g : Sound(t, g, status, unanswered) /\ \A c \in Discs : g[c] \in Answered => h[c] \in Answered
  BY <1>4 DEF Stepped, Prepared
<1>6. Continues(ios, t) /\ DriveOk(t) /\ Idle(t)
  BY <1>4 DEF Stepped, Prepared, DriveGoesOn, IInv
<1>7. Becomes(ios, t)
  <2>1. t \in Ios
    BY <1>5, HoldsTypes DEF Sound
  <2> QED
    BY <1>2, <1>3, <1>4, <2>1, ReadingIs DEF Becomes
<1>8. InSession => ResultOk(g, result') /\ Attends(ios)
  BY <1>1, <1>2, <1>5 DEF Placed, ResultOk, InSession, IInv, ThreadOk
<1>9. Sound(t, g, status', unanswered')
  BY <1>2, <1>5
<1> QED
  BY <1>2, <1>3, <1>6, <1>7, <1>8, <1>9, Stepping

\* Whoever has waited for the DVD thread finds it quiet, and may change the disc.
LEMMA DiscChanges ==
  ASSUME IInv, power \in {"boot", "on"}, drive!WaitUntilIdle,
         NEW t, t.volume \in 0 .. 2, Reads(t.events) <=> Reads(ios.events),
         t.m_commands_to_execute = ios.m_commands_to_execute,
         ios' = t, UNCHANGED dvd, power' \in {"boot", "on"}
  PROVE  ThreadOk' /\ (~leftover => Quiet)
<1>1. UNCHANGED <<thread, start_working, done_working, exiting, request, s_dvd_buffer, leftover>>
  BY DEF dvd
<1>2. ~exiting /\ (~leftover => Attends(ios))
  BY DEF IInv, ThreadOk
<1>3. ~leftover => Quiet
  BY <1>2 DEF Attends, drive!WaitUntilIdle
<1>4. ~leftover => Attends(ios)'
  BY <1>1, <1>2, <1>3 DEF Attends, Quiet
<1> QED
  BY <1>1, <1>2, <1>3, <1>4 DEF ThreadOk

LEMMA DiscStep ==
  ASSUME IInv, NEW h, Placed(h), Due, NEW v, v \in 0 .. 2,
         Head(ios.events).what \in {"eject", "insert"}, drive!WaitUntilIdle,
         ios' = WithVolume(WithoutFirst(ios), v),
         UNCHANGED <<guest, result, power, counts, dvd>>
  PROVE  IInv' /\ (~leftover => Quiet)
<1> DEFINE rest == WithoutFirst(ios)
           t == WithVolume(rest, v)
<1>1. /\ Sound(ios, h, status, unanswered) /\ ios.events # <<>> /\ power = "on"
      /\ DriveOk(ios) /\ Idle(ios)
  BY DEF IInv, Placed, Due
<1>10. /\ Sound(rest, h, status, unanswered) /\ Idle(rest) /\ DriveOk(rest)
       /\ Reads(rest.events) <=> Reads(ios.events)
       /\ rest.m_commands_to_execute = ios.m_commands_to_execute
  BY <1>1, Turning
<1>2. /\ Sound(t, h, status, unanswered) /\ Idle(t) /\ DriveOk(t)
      /\ Reads(t.events) <=> Reads(ios.events)
      /\ t.m_commands_to_execute = ios.m_commands_to_execute /\ t.volume = v
  <2>1. /\ Sound(t, h, status, unanswered)
        /\ Idle(t)
        /\ DriveOk(t)
        /\ t.events = rest.events
        /\ t.m_commands_to_execute = rest.m_commands_to_execute
        /\ t.volume = v
    BY <1>10, Opening
  <2> QED
    BY <1>10, <2>1
<1>3. ios' = t
  OBVIOUS
<1> HIDE DEF t
<1>4. /\ UNCHANGED <<status, unanswered, result, power, sends, swaps, boots, leftover>>
      /\ UNCHANGED <<thread, start_working, done_working, exiting, request, s_dvd_buffer>>
      /\ UNCHANGED dvd
  BY DEF guest, counts, dvd
<1>5. ThreadOk' /\ (~leftover => Quiet)
  BY <1>1, <1>2, <1>3, <1>4, DiscChanges
<1>6. Counted' /\ drive!DVDTypeOK'
  BY <1>4 DEF IInv, Counted, drive!DVDTypeOK
<1>7. Placed(h)'
  BY <1>2, <1>3, <1>4 DEF Placed, InSession
<1>8. DriveOk(ios)' /\ Idle(ios)'
  BY <1>2, <1>3
<1> QED
  BY <1>5, <1>6, <1>7, <1>8 DEF IInv

LEMMA StepEjectDisc ==
  ASSUME IInv, EjectDisc
  PROVE  IInv' /\ (~leftover => Quiet)
<1>1. PICK h : Placed(h)
  BY DEF IInv
<1>2. 0 \in 0 .. 2
  OBVIOUS
<1>3. ios' = WithVolume(WithoutFirst(ios), 0)
  BY DEF EjectDisc, Rest, WithVolume, WithoutFirst
<1> QED
  BY <1>1, <1>2, <1>3, DiscStep DEF EjectDisc

LEMMA StepInsertDisc ==
  ASSUME IInv, InsertDisc
  PROVE  IInv' /\ (~leftover => Quiet)
<1>1. PICK h : Placed(h)
  BY DEF IInv
<1>2. Opened \subseteq 0 .. 2
  BY DEF Opened
<1>3. PICK v \in Opened : ios' = WithVolume(WithoutFirst(ios), v)
  BY DEF InsertDisc, Rest, WithVolume, WithoutFirst
<1> QED
  BY <1>1, <1>2, <1>3, DiscStep DEF InsertDisc

LEMMA StepBoot ==
  ASSUME IInv, Boot
  PROVE  IInv'
<1>1. /\ power = "off" /\ power' = "boot" /\ ios' = Fresh /\ status' = NoCommand
      /\ unanswered' = <<>> /\ result' = NoResult /\ sends' = sends /\ swaps' = swaps
      /\ boots < MaxBoots /\ boots' = boots + 1 /\ drive!Start
  BY DEF Boot
<1>2. Counted'
  BY <1>1, WiiIpcAssumption DEF IInv, Counted, NoResult
<1>3. drive!DVDTypeOK'
  BY <1>1 DEF IInv, drive!DVDTypeOK, drive!Start
<1>4. Placed(Forgotten)'
  <2>1. Sound(Fresh, Forgotten, NoCommand, <<>>) /\ \A c \in Discs : Forgotten[c] \notin Answered
    BY Beginning
  <2> QED
    BY <1>1, <2>1 DEF Placed, ResultOk
<1>5. DriveOk(ios)' /\ Idle(ios)'
  BY <1>1, Beginning
<1>6. ThreadOk'
  <2>1. ~Reads(Fresh.events)
    BY Beginning
  <2> QED
    BY <1>1, <2>1 DEF IInv, ThreadOk, Attends, Quiet, drive!Start, drive!DVDTypeOK
<1> QED
  BY <1>2, <1>3, <1>4, <1>5, <1>6 DEF IInv

\* The disc of the game is opened.
LEMMA StepBootDisc ==
  ASSUME IInv, BootDisc
  PROVE  IInv' /\ (~leftover => Quiet)
<1> DEFINE t == WithVolume(ios, 1)
<1>1. /\ power = "boot" /\ power' = "on" /\ drive!WaitUntilIdle /\ ios' = t /\ UNCHANGED dvd
      /\ UNCHANGED <<status, unanswered, result, sends, swaps, boots, leftover>>
  BY DEF BootDisc, WithVolume, guest, counts, dvd
<1>2. PICK h : Placed(h)
  BY DEF IInv
<1>3. /\ Sound(t, h, status, unanswered) /\ Idle(t) /\ DriveOk(t) /\ t.events = ios.events
      /\ t.m_commands_to_execute = ios.m_commands_to_execute /\ t.volume = 1
  <2>1. Sound(ios, h, status, unanswered) /\ Idle(ios) /\ DriveOk(ios) /\ 1 \in 0 .. 2
    BY <1>2 DEF Placed, IInv
  <2> QED
    BY <2>1, Opening
<1> HIDE DEF t
<1>4. ThreadOk' /\ (~leftover => Quiet)
  BY <1>1, <1>3, DiscChanges
<1>5. Counted' /\ drive!DVDTypeOK'
  BY <1>1 DEF IInv, Counted, drive!DVDTypeOK, dvd
<1>6. Placed(h)'
  BY <1>1, <1>2, <1>3 DEF Placed, InSession
<1>7. DriveOk(ios)' /\ Idle(ios)'
  BY <1>1, <1>3
<1> QED
  BY <1>4, <1>5, <1>6, <1>7 DEF IInv

\* After Stop() a signal is left exactly when leftover says so; the disc is closed after it.
LEMMA StepShutdown ==
  ASSUME IInv, Shutdown
  PROVE  IInv' /\ (ios' = ios \/ thread = "off")
<1>1. PICK h : Placed(h)
  BY DEF IInv
<1>2. /\ UNCHANGED <<status, unanswered, result, sends, swaps, boots>>
      /\ power' \in {"off", "flag", "join"}
  BY DEF Shutdown, guest, counts
<1>3. Sound(ios, h, status, unanswered) /\ Idle(ios) /\ DriveOk(ios) /\ Counted'
  BY <1>1, <1>2 DEF Placed, IInv, Counted
<1>4. Sound(ios', h, status, unanswered) /\ Idle(ios)' /\ DriveOk(ios)'
  <2>1. CASE ios' = ios
    BY <1>3, <2>1
  <2>2. CASE ios' = WithVolume(ios, 0)
    <3>1. 0 \in 0 .. 2
      OBVIOUS
    <3> QED
      BY <1>3, <2>2, <3>1, Opening
  <2> QED
    BY <2>1, <2>2 DEF Shutdown, WithVolume
<1>5. Placed(h)'
  BY <1>2, <1>4 DEF Placed, InSession
<1>6. drive!DVDTypeOK' /\ ThreadOk' /\ (ios' = ios \/ thread = "off")
  <2>1. CASE power = "on" /\ power' = "flag" /\ drive!StopFlag /\ ios' = ios
    BY <2>1 DEF IInv, ThreadOk, drive!StopFlag, drive!DVDTypeOK
  <2>2. CASE power = "flag" /\ power' = "join" /\ drive!StopSignal /\ ios' = ios
    BY <2>2 DEF IInv, ThreadOk, drive!StopSignal, drive!DVDTypeOK
  <2>3. CASE power = "join" /\ power' = "off" /\ drive!StopJoin
    BY <2>3 DEF IInv, ThreadOk, drive!StopJoin, drive!DVDTypeOK
  <2> QED
    BY <2>1, <2>2, <2>3 DEF Shutdown
<1> QED
  BY <1>3, <1>4, <1>5, <1>6 DEF IInv

\* The DVD thread on its way.
LEMMA StepDVDThread ==
  ASSUME IInv, DVDThread
  PROVE  IInv' /\ ios' = ios
<1>1. /\ drive!DVDStep /\ ios' = ios
      /\ UNCHANGED <<status, unanswered, result, power, sends, swaps, boots>>
  BY DEF DVDThread, guest, counts
<1>2. leftover' = leftover /\ exiting' = exiting /\ drive!DVDTypeOK'
  BY <1>1 DEF IInv, drive!DVDTypeOK, drive!DVDStep, drive!Ready, drive!Wake, drive!Look, drive!Read
<1>3. Counted' /\ DriveOk(ios)' /\ Idle(ios)' /\ \E h : Placed(h)'
  BY <1>1, <1>2 DEF IInv, Counted, Placed, InSession
<1>4. ThreadOk'
  <2>1. CASE power \in {"boot", "on"} /\ ~leftover
    <3>1. ~exiting /\ Attends(ios)
      BY <2>1 DEF IInv, ThreadOk
    <3>2. Attends(ios)'
      <4>1. CASE drive!Ready
        BY <1>1, <3>1, <4>1 DEF Attends, Quiet, drive!Ready
      <4>2. CASE drive!Wake
        BY <1>1, <3>1, <4>2 DEF Attends, Quiet, drive!Wake
      <4>3. CASE drive!Look
        BY <1>1, <3>1, <4>3 DEF Attends, Quiet, drive!Look
      <4>4. CASE drive!Read
        BY <1>1, <3>1, <4>4 DEF Attends, Quiet, drive!Read
      <4> QED
        BY <1>1, <4>1, <4>2, <4>3, <4>4 DEF drive!DVDStep
    <3> QED
      BY <1>1, <1>2, <2>1, <3>1, <3>2 DEF ThreadOk
  <2>2. CASE power \in {"boot", "on"} /\ leftover
    BY <1>1, <1>2, <2>2 DEF IInv, ThreadOk
  <2>3. CASE power \notin {"boot", "on"}
    <3>1. power = "off" => thread = "off" /\ ~exiting /\ leftover = start_working
      BY DEF IInv, ThreadOk
    <3>2. thread # "off"
      BY <1>1 DEF drive!DVDStep, drive!Ready, drive!Wake, drive!Look, drive!Read
    <3> QED
      BY <1>1, <2>3, <3>1, <3>2 DEF ThreadOk
  <2> QED
    BY <2>1, <2>2, <2>3
<1> QED
  BY <1>1, <1>2, <1>3, <1>4 DEF IInv

-----------------------------------------------------------------------------
(* Results *)

\* No step breaks the invariant, or changes the disc under a read.
LEMMA Invariance ==
  ASSUME IInv, [Next]_vars
  PROVE  IInv' /\ (~leftover /\ thread = "read" => ios'.volume = ios.volume)
<1>1. CASE \E c \in Commands : Send(c)
  BY <1>1, StepSend
<1>2. CASE TakeReply
  BY <1>2, StepTakeReply
<1>3. CASE TakeAck
  BY <1>3, StepTakeAck
<1>4. CASE ClearFlag
  BY <1>4, StepClearFlag
<1>5. CASE Reset
  BY <1>5, StepReset
<1>6. CASE Dispatch
  <2>1. CASE DispatchIpc
    BY <2>1, StepDispatchIpc
  <2>2. CASE FinishRead
    BY <2>2, StepFinishRead
  <2>3. CASE FinishCommand
    BY <2>3, StepFinishCommand
  <2>4. CASE EjectDisc
    BY <2>4, StepEjectDisc DEF Quiet
  <2>5. CASE InsertDisc
    BY <2>5, StepInsertDisc DEF Quiet
  <2> QED
    BY <1>6, <2>1, <2>2, <2>3, <2>4, <2>5 DEF Dispatch
<1>7. CASE ChangeDisc
  BY <1>7, StepChangeDisc
<1>8. CASE Elapse
  BY <1>8, StepElapse
<1>9. CASE Boot
  BY <1>9, StepBoot DEF Boot, drive!Start
<1>13. CASE BootDisc
  BY <1>13, StepBootDisc DEF Quiet
<1>10. CASE Shutdown
  BY <1>10, StepShutdown
<1>11. CASE DVDThread
  BY <1>11, StepDVDThread
<1>12. CASE UNCHANGED vars
  <2>1. /\ UNCHANGED <<ios, status, unanswered, result, power, sends, swaps, boots>>
        /\ UNCHANGED <<thread, start_working, done_working, exiting, request, s_dvd_buffer, leftover>>
    BY <1>12 DEF vars, guest, counts, dvd
  <2>2. Counted' /\ drive!DVDTypeOK' /\ DriveOk(ios)' /\ Idle(ios)'
    BY <2>1 DEF IInv, Counted, drive!DVDTypeOK
  <2>3. (\E h : Placed(h)') /\ ThreadOk'
    BY <2>1 DEF IInv, Placed, InSession, ThreadOk, Attends, Quiet
  <2> QED
    BY <2>1, <2>2, <2>3 DEF IInv
<1> QED
  BY <1>1, <1>2, <1>3, <1>4, <1>5, <1>6, <1>7, <1>8, <1>9, <1>10, <1>11, <1>12,
     <1>13 DEF Next

LEMMA Initially == Init => IInv
<1> SUFFICES ASSUME Init PROVE IInv
  OBVIOUS
<1>1. /\ ios = Fresh /\ power = "off" /\ sends = 0 /\ swaps = 0 /\ boots = 0
      /\ status = NoCommand /\ unanswered = <<>> /\ result = NoResult /\ drive!DVDInit
  BY DEF Init
<1>2. Counted
  BY <1>1, WiiIpcAssumption DEF Counted, NoResult
<1>3. drive!DVDTypeOK /\ ThreadOk
  BY <1>1 DEF drive!DVDTypeOK, drive!DVDInit, ThreadOk
<1>4. Placed(Forgotten)
  <2>1. Sound(Fresh, Forgotten, NoCommand, <<>>) /\ \A c \in Discs : Forgotten[c] \notin Answered
    BY Beginning
  <2> QED
    BY <1>1, <2>1 DEF Placed, ResultOk
<1>5. DriveOk(ios) /\ Idle(ios)
  BY <1>1, Beginning
<1> QED
  BY <1>2, <1>3, <1>4, <1>5 DEF IInv

\* WII_IPC_HLE.cpp, WII_IPC.cpp, DVDThread.cpp: every command is in at most one place between
\* the guest and its device, in an order that no delay disturbs, nothing waits for a free
\* mailbox, and the DVD thread and the drive agree about the read that is under way.
THEOREM Invariant == Spec => []IInv
<1>1. IInv /\ [Next]_vars => IInv'
  BY Invariance
<1> QED
  BY Initially, <1>1, PTL DEF Spec

\* WII_IPC_HLE.cpp:105-112: every reachable state is well typed, the queue of events sorted.
THEOREM TypeCorrect == Spec => []TypeOK
<1>1. IInv => TypeOK
  <2> SUFFICES ASSUME IInv PROVE TypeOK
    OBVIOUS
  <2>1. PICK h : Sound(ios, h, status, unanswered)
    BY DEF IInv, Placed
  <2>2. /\ ios \in Ios /\ ios.events \in Seq(Events) /\ Sorted(ios.events)
        /\ unanswered \in Seq(Files)
        /\ status \in [Commands -> {"free", "sent", "acked"}]
    BY <2>1, HoldsTypes DEF Sound, Listed, Statuses
  <2>3. \A i, j \in DOMAIN ios.events : i < j => ios.events[i].due <= ios.events[j].due
    BY <2>2, EventTypes DEF Sorted
  <2> QED
    BY <2>2, <2>3 DEF IInv, Counted, TypeOK
<1> QED
  BY Invariant, <1>1, PTL

\* WII_IPC_HLE.cpp:569-608: nobody polls, and still no message waits while the mailbox is
\* free, for any number of commands, any delays, and across discs, resets and sessions.
THEOREM NothingWaits == Spec => []NoStall
<1>1. IInv => NoStall
  BY DEF IInv, Idle, NoStall
<1> QED
  BY Invariant, <1>1, PTL

\* WII_IPC_HLE.cpp:519-529, WII_IPC.cpp:238: the guest has taken the acknowledgement of a
\* command before it is shown the reply, and the replies of devices that answer after a delay
\* come in the order in which their commands were sent, for any delays and any latency.
THEOREM RepliesInOrder == Spec => []InOrder
<1>1. IInv => InOrder
  <2> SUFFICES ASSUME IInv, ios.Y1 PROVE InOrder
    BY DEF InOrder
  <2>1. PICK h : Sound(ios, h, status, unanswered)
    BY DEF IInv, Placed
  <2>2. /\ status[ios.arm_msg] = "acked"
        /\ ios.arm_msg \in Files => unanswered # <<>> /\ Head(unanswered) = ios.arm_msg
    BY <2>1, FirstInLine
  <2> QED
    BY <2>2 DEF InOrder
<1> QED
  BY Invariant, <1>1, PTL

\* DVDThread.cpp:132-155: what the guest finds in its buffer when the reply to a read is in the
\* mailbox is the data of that read, or an error, however long the host takes over it, in every
\* session that meets no signal of the session before.
THEOREM ReadsAreRight == Spec => []RightData
<1>1. IInv => RightData
  <2> SUFFICES ASSUME IInv, power = "on", ~leftover, ios.Y1, ios.arm_msg \in Discs
               PROVE  result[ios.arm_msg] \in {"data", "error"}
    BY DEF RightData
  <2>1. PICK h : Placed(h)
    BY DEF IInv
  <2>2. h[ios.arm_msg] = "mailbox"
    BY <2>1, FirstInLine DEF Placed
  <2> QED
    BY <2>1, <2>2 DEF Placed, InSession, ResultOk, Answered
<1> QED
  BY Invariant, <1>1, PTL

\* DVDInterface.cpp:411, 421, 457: no disc is taken out of the drive, put into it or closed while
\* the DVD thread reads, as all three wait for the thread, for any number of pending insertions.
THEOREM DiscStays == Spec => DiscStaysForRead
<1>1. IInv /\ [Next]_vars =>
        [~leftover /\ thread = "read" => ios'.volume = ios.volume]_vars
  BY Invariance
<1> QED
  BY Invariant, <1>1, PTL DEF Spec, DiscStaysForRead
=============================================================================
