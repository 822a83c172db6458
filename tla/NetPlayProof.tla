---------------------------- MODULE NetPlayProof ----------------------------
(***************************************************************************)
(* Proofs about NetPlay for any number of players, games, polls, pads (up  *)
(* to four), mappings and sizes of the buffer: the machines take the same  *)
(* states at the same polls (PlayersInLockstep), and no state is lost,     *)
(* doubled or overtaken on the way to another machine (InputsArrive).      *)
(*                                                                         *)
(* The states that the owner d of a pad has given and machine c has not    *)
(* taken are a run of numbers, cut in three: c's buffer, the channel to c, *)
(* the channel from d (OnItsWay).  Flow says this of all machines in the   *)
(* game, and both properties follow.  What it takes to keep it:            *)
(*                                                                         *)
(* - Nothing of another game is taken for a state of this one.  On the way *)
(*   to the server a client's answer separates the games (Answered); on    *)
(*   the way back the announcement does (Told, InGame).                    *)
(* - Whoever has been told of the game is in it.  START and STOP alternate *)
(*   in each channel and in what is posted to each GUI (Alternate), so the *)
(*   GUI never answers a start while the machine still runs.  They do      *)
(*   because the host's buttons know of every player that plays            *)
(*   (HostKnows), which rests on the order of the reliable channels.       *)
(* - A buffer is cleared before the first state of the game reaches it,    *)
(*   and only then, in a machine that has not been overtaken: its GUI is   *)
(*   asked to start the game once (StartsOnce).  A state that comes before *)
(*   the GUI has started the machine is lost; overtaken says so, and the   *)
(*   two properties are about the machines that this has not happened to.  *)
(* - Owners and ports are the same on all machines: the last mapping sent  *)
(*   is the server's (Mapped), and a player without a pad, who may leave   *)
(*   during a game, leaves it as it is.                                    *)
(***************************************************************************)
EXTENDS NetPlay, FiniteSetTheorems, SequenceTheorems, WellFoundedInduction, TLAPS

-----------------------------------------------------------------------------
(* Messages and sequences of them                                          *)

\* What a message of each type carries.
LEMMA MessageTypes ==
  ASSUME NEW m \in Messages
  PROVE  /\ m.type \in {"PAD", "START", "STOP", "DISABLE", "BUFFER", "MAPPING"}
         /\ m.type = "PAD" => /\ m.pad \in Pads /\ m.state \in PadStates
                              /\ m.state[1] \in 1 .. MaxGames /\ m.state[2] \in Nat
                              /\ m.state = <<m.state[1], m.state[2]>>
         /\ m.type = "START" => m.game \in 1 .. MaxGames /\ m = Start(m.game)
         /\ m.type = "MAPPING" => m.map \in PadMaps
         /\ m.type = "BUFFER" => m.size \in Targets
BY DEF Messages, PadMsgs, PadStates, Start

\* The messages that server and clients make.
LEMMA NewMessages ==
  /\ Stop \in Messages /\ Stop.type = "STOP"
  /\ Disable \in Messages /\ Disable.type = "DISABLE"
  /\ \A g : Start(g).type = "START" /\ Start(g).game = g
  /\ \A g \in 1 .. MaxGames : Start(g) \in Messages
  /\ \A map : Mapping(map).type = "MAPPING" /\ Mapping(map).map = map
  /\ \A map \in PadMaps : Mapping(map) \in Messages
  /\ \A n : Buffer(n).type = "BUFFER"
  /\ \A n \in Targets : Buffer(n) \in Messages
BY DEF Messages, Stop, Disable, Start, Mapping, Buffer

LEMMA SeqTypes ==
  ASSUME NEW S, NEW q \in Seq(S)
  PROVE  /\ Len(q) \in Nat /\ DOMAIN q = 1 .. Len(q)
         /\ \A i \in 1 .. Len(q) : q[i] \in S
         /\ q = <<>> <=> Len(q) = 0
OBVIOUS

LEMMA Appended ==
  ASSUME NEW S, NEW q \in Seq(S), NEW m \in S
  PROVE  /\ Append(q, m) \in Seq(S) /\ Len(Append(q, m)) = Len(q) + 1
         /\ \A i \in 1 .. Len(q) : Append(q, m)[i] = q[i]
         /\ Append(q, m)[Len(q) + 1] = m
         /\ DOMAIN Append(q, m) = 1 .. Len(q) + 1
         /\ q \o <<m>> = Append(q, m)
OBVIOUS

LEMMA Tailed ==
  ASSUME NEW S, NEW q \in Seq(S), q # <<>>
  PROVE  /\ Tail(q) \in Seq(S) /\ Len(Tail(q)) = Len(q) - 1 /\ Len(q) \in Nat \ {0}
         /\ Head(q) = q[1] /\ Head(q) \in S
         /\ \A i \in 1 .. Len(q) - 1 : Tail(q)[i] = q[i + 1]
         /\ DOMAIN Tail(q) = 1 .. Len(q) - 1
         /\ DOMAIN q = 1 .. Len(q)
OBVIOUS

LEMMA Joined ==
  ASSUME NEW S, NEW q \in Seq(S), NEW r \in Seq(S)
  PROVE  /\ q \o r \in Seq(S) /\ Len(q \o r) = Len(q) + Len(r)
         /\ \A i \in 1 .. Len(q) : (q \o r)[i] = q[i]
         /\ \A i \in 1 .. Len(r) : (q \o r)[Len(q) + i] = r[i]
         /\ DOMAIN (q \o r) = 1 .. Len(q) + Len(r)
OBVIOUS

\* Two kinds of elements in a sequence, one of which opens and the other closes: a is there,
\* z is not, no z follows an a, a z is between two a's, and a z is before each a.
Has(q, a) == \E i \in DOMAIN q : q[i] = a
Lacks(q, z) == \A i \in DOMAIN q : q[i] # z
HasLast(q, a, z) == \E i \in DOMAIN q : q[i] = a /\ \A j \in DOMAIN q : i < j => q[j] # z
Alternating(q, a, z) ==
  \A i, k \in DOMAIN q : i < k /\ q[i] = a /\ q[k] = a => \E j \in DOMAIN q : i < j /\ j < k /\ q[j] = z
Before(q, z, a) == \A k \in DOMAIN q : q[k] = a => \E j \in DOMAIN q : j < k /\ q[j] = z

LEMMA AppendedSigns ==
  ASSUME NEW S, NEW q \in Seq(S), NEW m \in S, NEW a, NEW z, a # z
  PROVE  /\ Has(Append(q, m), a) <=> Has(q, a) \/ m = a
         /\ Lacks(Append(q, m), z) <=> Lacks(q, z) /\ m # z
         /\ HasLast(Append(q, m), a, z) <=> m = a \/ (HasLast(q, a, z) /\ m # z)
         /\ Alternating(Append(q, m), a, z) <=> Alternating(q, a, z) /\ (m = a => ~HasLast(q, a, z))
         /\ Before(Append(q, m), z, a) <=> Before(q, z, a) /\ (m = a => ~Lacks(q, z))
<1>1. /\ Len(q) \in Nat /\ DOMAIN q = 1 .. Len(q)
      /\ Len(q) + 1 \in 1 .. Len(q) + 1 /\ Len(q) + 1 \notin 1 .. Len(q)
      /\ 1 .. Len(q) + 1 = (1 .. Len(q)) \cup {Len(q) + 1}
  BY SeqTypes
<1>2. /\ DOMAIN Append(q, m) = 1 .. Len(q) + 1
      /\ \A i \in 1 .. Len(q) : Append(q, m)[i] = q[i]
      /\ Append(q, m)[Len(q) + 1] = m
  BY Appended
<1> DEFINE n == Len(q) + 1
           r == Append(q, m)
<1>3. \A i \in 1 .. Len(q) : i < n /\ ~(n < i)
  BY <1>1
<1>4. n \in DOMAIN r /\ r[n] = m /\ ~(n < n) /\ DOMAIN r = (DOMAIN q) \cup {n}
      /\ \A i \in DOMAIN q : r[i] = q[i] /\ i < n /\ ~(n < i)
  BY <1>1, <1>2, <1>3
<1> HIDE DEF n, r
<1>5. Has(r, a) <=> Has(q, a) \/ m = a
  BY <1>4 DEF Has
<1>6. Lacks(r, z) <=> Lacks(q, z) /\ m # z
  BY <1>4 DEF Lacks
<1>7. HasLast(r, a, z) <=> m = a \/ (HasLast(q, a, z) /\ m # z)
  BY <1>4 DEF HasLast
<1>8. Alternating(r, a, z) <=> Alternating(q, a, z) /\ (m = a => ~HasLast(q, a, z))
  <2>1. ASSUME Alternating(q, a, z), m = a => ~HasLast(q, a, z) PROVE Alternating(r, a, z)
    BY <1>4, <2>1 DEF Alternating, HasLast
  <2>2. ASSUME Alternating(r, a, z) PROVE Alternating(q, a, z)
    BY <1>4, <2>2 DEF Alternating
  <2>3. ASSUME Alternating(r, a, z), m = a PROVE ~HasLast(q, a, z)
    BY <1>4, <2>3 DEF Alternating, HasLast
  <2> QED
    BY <2>1, <2>2, <2>3
<1>9. Before(r, z, a) <=> Before(q, z, a) /\ (m = a => ~Lacks(q, z))
  BY <1>4 DEF Before, Lacks
<1> QED
  BY <1>5, <1>6, <1>7, <1>8, <1>9 DEF r

LEMMA TailedSigns ==
  ASSUME NEW S, NEW q \in Seq(S), q # <<>>, NEW a, NEW z, a # z
  PROVE  /\ Has(q, a) <=> Has(Tail(q), a) \/ Head(q) = a
         /\ Lacks(q, z) <=> Lacks(Tail(q), z) /\ Head(q) # z
         /\ HasLast(q, a, z) <=> HasLast(Tail(q), a, z) \/ (Head(q) = a /\ Lacks(Tail(q), z))
         /\ Alternating(q, a, z) <=> Alternating(Tail(q), a, z) /\ (Head(q) = a => Before(Tail(q), z, a))
         /\ Head(q) = z \/ (Head(q) # a /\ Before(Tail(q), z, a)) => Before(q, z, a)
         /\ Before(q, z, a) => Head(q) # a /\ (Head(q) = z \/ Before(Tail(q), z, a))
<1> DEFINE n == Len(q)
           t == Tail(q)
<1>1. /\ n \in Nat /\ n # 0 /\ DOMAIN q = 1 .. n /\ DOMAIN t = 1 .. n - 1
      /\ Head(q) = q[1] /\ \A i \in 1 .. n - 1 : t[i] = q[i + 1]
  BY Tailed
<1> HIDE DEF n, t
<1>2. /\ \A i \in DOMAIN t : i + 1 \in DOMAIN q /\ t[i] = q[i + 1] /\ 1 < i + 1
      /\ 1 \in DOMAIN q /\ q[1] = Head(q)
      /\ \A i \in DOMAIN q : i = 1 \/ \E k \in DOMAIN t : i = k + 1
      /\ \A i, k \in DOMAIN t : i < k <=> i + 1 < k + 1
      /\ \A i \in DOMAIN q : ~(i < 1)
  <2>1. ASSUME NEW i \in 1 .. n, i # 1 PROVE \E k \in 1 .. n - 1 : i = k + 1
    <3>1. i - 1 \in 1 .. n - 1 /\ i = (i - 1) + 1
      BY <1>1, <2>1
    <3> QED
      BY <3>1
  <2>2. \A i \in 1 .. n - 1 : i + 1 \in 1 .. n /\ 1 < i + 1
    BY <1>1
  <2>3. \A i, k \in 1 .. n - 1 : i < k <=> i + 1 < k + 1
    BY <1>1
  <2>4. 1 \in 1 .. n /\ \A i \in 1 .. n : ~(i < 1)
    BY <1>1
  <2> QED
    BY <1>1, <2>1, <2>2, <2>3, <2>4
<1>3. Has(q, a) <=> Has(t, a) \/ Head(q) = a
  BY <1>2 DEF Has
<1>4. Lacks(q, z) <=> Lacks(t, z) /\ Head(q) # z
  BY <1>2 DEF Lacks
<1>5. HasLast(q, a, z) <=> HasLast(t, a, z) \/ (Head(q) = a /\ Lacks(t, z))
  <2>1. ASSUME HasLast(t, a, z) PROVE HasLast(q, a, z)
    BY <1>2, <2>1 DEF HasLast
  <2>2. ASSUME Head(q) = a, Lacks(t, z) PROVE HasLast(q, a, z)
    BY <1>2, <2>2 DEF HasLast, Lacks
  <2>3. ASSUME HasLast(q, a, z) PROVE HasLast(t, a, z) \/ (Head(q) = a /\ Lacks(t, z))
    <3>1. PICK i \in DOMAIN q : q[i] = a /\ \A j \in DOMAIN q : i < j => q[j] # z
      BY <2>3 DEF HasLast
    <3>2. CASE i = 1
      BY <1>2, <3>1, <3>2 DEF Lacks
    <3>3. CASE i # 1
      <4>1. PICK k \in DOMAIN t : i = k + 1
        BY <1>2, <3>3
      <4> QED
        BY <1>2, <3>1, <4>1 DEF HasLast
    <3> QED
      BY <3>2, <3>3
  <2> QED
    BY <2>1, <2>2, <2>3
<1>6. Alternating(q, a, z) <=> Alternating(t, a, z) /\ (Head(q) = a => Before(t, z, a))
  <2>1. ASSUME Alternating(q, a, z) PROVE Alternating(t, a, z)
    <3> SUFFICES ASSUME NEW i \in DOMAIN t, NEW k \in DOMAIN t, i < k, t[i] = a, t[k] = a
                 PROVE  \E j \in DOMAIN t : i < j /\ j < k /\ t[j] = z
      BY DEF Alternating
    <3>1. PICK j \in DOMAIN q : i + 1 < j /\ j < k + 1 /\ q[j] = z
      BY <1>2, <2>1 DEF Alternating
    <3>2. PICK l \in DOMAIN t : j = l + 1
      <4>1. j # 1
        BY <1>2, <3>1
      <4> QED
        BY <1>2, <4>1
    <3> QED
      BY <1>2, <3>1, <3>2
  <2>2. ASSUME Alternating(q, a, z), Head(q) = a PROVE Before(t, z, a)
    <3> SUFFICES ASSUME NEW k \in DOMAIN t, t[k] = a
                 PROVE  \E j \in DOMAIN t : j < k /\ t[j] = z
      BY DEF Before
    <3>1. PICK j \in DOMAIN q : 1 < j /\ j < k + 1 /\ q[j] = z
      BY <1>2, <2>2 DEF Alternating
    <3>2. PICK l \in DOMAIN t : j = l + 1
      BY <1>2, <3>1
    <3> QED
      BY <1>2, <3>1, <3>2
  <2>3. ASSUME Alternating(t, a, z), Head(q) = a => Before(t, z, a) PROVE Alternating(q, a, z)
    <3> SUFFICES ASSUME NEW i \in DOMAIN q, NEW k \in DOMAIN q, i < k, q[i] = a, q[k] = a
                 PROVE  \E j \in DOMAIN q : i < j /\ j < k /\ q[j] = z
      BY DEF Alternating
    <3>1. PICK m \in DOMAIN t : k = m + 1
      BY <1>2
    <3>2. CASE i = 1
      <4>1. PICK j \in DOMAIN t : j < m /\ t[j] = z
        BY <1>2, <2>3, <3>1, <3>2 DEF Before
      <4> QED
        BY <1>2, <3>1, <3>2, <4>1
    <3>3. CASE i # 1
      <4>1. PICK l \in DOMAIN t : i = l + 1
        BY <1>2, <3>3
      <4>2. PICK j \in DOMAIN t : l < j /\ j < m /\ t[j] = z
        BY <1>2, <2>3, <3>1, <4>1 DEF Alternating
      <4> QED
        BY <1>2, <3>1, <4>1, <4>2
    <3> QED
      BY <3>2, <3>3
  <2> QED
    BY <2>1, <2>2, <2>3
<1>7. Head(q) = z \/ (Head(q) # a /\ Before(t, z, a)) => Before(q, z, a)
  <2>1. ASSUME Head(q) = z PROVE Before(q, z, a)
    <3>1. \A k \in DOMAIN q : k = 1 \/ 1 < k
      BY <1>2
    <3> QED
      BY <1>2, <2>1, <3>1 DEF Before
  <2>2. ASSUME Head(q) # a, Before(t, z, a) PROVE Before(q, z, a)
    <3> SUFFICES ASSUME NEW k \in DOMAIN q, q[k] = a
                 PROVE  \E j \in DOMAIN q : j < k /\ q[j] = z
      BY DEF Before
    <3>1. PICK m \in DOMAIN t : k = m + 1
      BY <1>2, <2>2
    <3>2. PICK j \in DOMAIN t : j < m /\ t[j] = z
      BY <1>2, <2>2, <3>1 DEF Before
    <3> QED
      BY <1>2, <3>1, <3>2
  <2> QED
    BY <2>1, <2>2
<1>8. Before(q, z, a) => Head(q) # a /\ (Head(q) = z \/ Before(t, z, a))
  <2> SUFFICES ASSUME Before(q, z, a)
               PROVE  Head(q) # a /\ (Head(q) = z \/ Before(t, z, a))
    OBVIOUS
  <2>1. Head(q) # a
    BY <1>2 DEF Before
  <2>2. ASSUME Head(q) # z PROVE Before(t, z, a)
    <3> SUFFICES ASSUME NEW k \in DOMAIN t, t[k] = a
                 PROVE  \E j \in DOMAIN t : j < k /\ t[j] = z
      BY DEF Before
    <3>1. PICK j \in DOMAIN q : j < k + 1 /\ q[j] = z
      BY <1>2 DEF Before
    <3>2. PICK l \in DOMAIN t : j = l + 1
      BY <1>2, <2>2, <3>1
    <3> QED
      BY <1>2, <3>1, <3>2
  <2> QED
    BY <2>1, <2>2
<1> QED
  BY <1>3, <1>4, <1>5, <1>6, <1>7, <1>8 DEF t


\* The types of messages, and those that open and close a game.
Types(q) == [i \in DOMAIN q |-> q[i].type]
HasStart(q) == Has(Types(q), "START")
NoStop(q) == Lacks(Types(q), "STOP")
Ends(q) == HasLast(Types(q), "START", "STOP")
Alternates(q) == Alternating(Types(q), "START", "STOP")
StopsFirst(q) == Before(Types(q), "STOP", "START")

LEMMA TypesOf ==
  ASSUME NEW q \in Seq(Messages)
  PROVE  /\ Types(q) \in Seq({m.type : m \in Messages})
         /\ q # <<>> => Types(q) # <<>> /\ Head(Types(q)) = Head(q).type /\ Types(Tail(q)) = Tail(Types(q))
         /\ \A m \in Messages : Types(Append(q, m)) = Append(Types(q), m.type)
<1> DEFINE T == {m.type : m \in Messages}
           t == Types(q)
<1>1. q \in Seq(Messages) /\ DOMAIN q = 1 .. Len(q) /\ Len(q) \in Nat /\ \A i \in 1 .. Len(q) : q[i] \in Messages
  BY SeqTypes
<1>2. t \in [1 .. Len(q) -> T]
  BY <1>1 DEF Types
<1>3. t \in Seq(T) /\ Len(t) = Len(q)
  BY <1>1, <1>2
<1>4. \A i \in 1 .. Len(q) : t[i] = q[i].type
  BY <1>1 DEF Types
<1> HIDE DEF t, T
<1>5. ASSUME q # <<>>
      PROVE  Types(q) # <<>> /\ Head(Types(q)) = Head(q).type /\ Types(Tail(q)) = Tail(Types(q))
  <2>1. /\ Tail(q) \in Seq(Messages) /\ Len(q) \in Nat \ {0} /\ Head(q) = q[1]
        /\ \A i \in 1 .. Len(q) - 1 : Tail(q)[i] = q[i + 1]
        /\ DOMAIN Tail(q) = 1 .. Len(q) - 1
    BY <1>1, <1>5, Tailed
  <2>2. /\ t # <<>> /\ Head(t) = t[1]
        /\ Tail(t) = [i \in 1 .. Len(t) - 1 |-> t[i + 1]]
    <3>1. t # <<>>
      BY <1>3, <2>1
    <3>2. /\ Tail(t) \in Seq(T) /\ Len(Tail(t)) = Len(t) - 1 /\ Head(t) = t[1]
          /\ \A i \in 1 .. Len(t) - 1 : Tail(t)[i] = t[i + 1]
      BY <1>3, <3>1, Tailed
    <3>3. \A u \in Seq(T) : u = [i \in 1 .. Len(u) |-> u[i]]
      OBVIOUS
    <3> QED
      BY <3>1, <3>2, <3>3
  <2>3. Types(Tail(q)) = [i \in 1 .. Len(q) - 1 |-> Tail(q)[i].type]
    BY <2>1 DEF Types
  <2>4. \A i \in 1 .. Len(q) - 1 : Tail(q)[i].type = t[i + 1]
    BY <1>1, <1>4, <2>1
  <2>5. Types(Tail(q)) = Tail(t)
    BY <1>3, <2>2, <2>3, <2>4
  <2>6. Head(t) = Head(q).type
    BY <1>1, <1>4, <2>1, <2>2
  <2> QED
    BY <2>2, <2>5, <2>6 DEF t
<1>6. ASSUME NEW m \in Messages PROVE Types(Append(q, m)) = Append(Types(q), m.type)
  <2>1. /\ DOMAIN Append(q, m) = 1 .. Len(q) + 1 /\ Append(q, m)[Len(q) + 1] = m
        /\ \A i \in 1 .. Len(q) : Append(q, m)[i] = q[i]
    BY Appended
  <2>2. Types(Append(q, m)) = [i \in 1 .. Len(q) + 1 |-> Append(q, m)[i].type]
    BY <2>1 DEF Types
  <2>3. Append(t, m.type) = [i \in 1 .. Len(t) + 1 |-> IF i = Len(t) + 1 THEN m.type ELSE t[i]]
    BY <1>3
  <2>4. \A i \in 1 .. Len(q) + 1 :
          Append(q, m)[i].type = IF i = Len(q) + 1 THEN m.type ELSE t[i]
    <3>1. \A i \in 1 .. Len(q) + 1 : i = Len(q) + 1 \/ (i # Len(q) + 1 /\ i \in 1 .. Len(q))
      BY <1>1
    <3> QED
      BY <1>4, <2>1, <3>1
  <2>5. Types(Append(q, m)) = Append(t, m.type)
    BY <1>3, <2>2, <2>3, <2>4
  <2> QED
    BY <2>5 DEF t
<1>7. Types(q) \in Seq({m.type : m \in Messages})
  BY <1>3 DEF t, T
<1> QED
  BY <1>5, <1>6, <1>7

LEMMA AppendedMarks ==
  ASSUME NEW q \in Seq(Messages), NEW m \in Messages
  PROVE  /\ HasStart(Append(q, m)) <=> HasStart(q) \/ m.type = "START"
         /\ NoStop(Append(q, m)) <=> NoStop(q) /\ m.type # "STOP"
         /\ Ends(Append(q, m)) <=> m.type = "START" \/ (Ends(q) /\ m.type # "STOP")
         /\ Alternates(Append(q, m)) <=> Alternates(q) /\ (m.type = "START" => ~Ends(q))
         /\ StopsFirst(Append(q, m)) <=> StopsFirst(q) /\ (m.type = "START" => ~NoStop(q))
<1> DEFINE T == {e.type : e \in Messages}
           t == Types(q)
           k == m.type
<1>1. t \in Seq(T) /\ k \in T /\ Types(Append(q, m)) = Append(t, k)
  BY TypesOf
<1> HIDE DEF T, t, k
<1>2. /\ Has(Append(t, k), "START") <=> Has(t, "START") \/ k = "START"
      /\ Lacks(Append(t, k), "STOP") <=> Lacks(t, "STOP") /\ k # "STOP"
      /\ HasLast(Append(t, k), "START", "STOP") <=> k = "START" \/ (HasLast(t, "START", "STOP") /\ k # "STOP")
      /\ Alternating(Append(t, k), "START", "STOP") <=>
           Alternating(t, "START", "STOP") /\ (k = "START" => ~HasLast(t, "START", "STOP"))
      /\ Before(Append(t, k), "STOP", "START") <=>
           Before(t, "STOP", "START") /\ (k = "START" => ~Lacks(t, "STOP"))
  BY <1>1, AppendedSigns
<1> QED
  BY <1>1, <1>2 DEF t, k, HasStart, NoStop, Ends, Alternates, StopsFirst

LEMMA TailedMarks ==
  ASSUME NEW q \in Seq(Messages), q # <<>>
  PROVE  /\ HasStart(q) <=> HasStart(Tail(q)) \/ Head(q).type = "START"
         /\ NoStop(q) <=> NoStop(Tail(q)) /\ Head(q).type # "STOP"
         /\ Ends(q) <=> Ends(Tail(q)) \/ (Head(q).type = "START" /\ NoStop(Tail(q)))
         /\ Alternates(q) <=> Alternates(Tail(q)) /\ (Head(q).type = "START" => StopsFirst(Tail(q)))
         /\ StopsFirst(q) => /\ Head(q).type # "START"
                             /\ Head(q).type = "STOP" \/ StopsFirst(Tail(q))
<1> DEFINE t == Types(q)
           T == {e.type : e \in Messages}
<1>1. t \in Seq(T) /\ t # <<>> /\ Types(Tail(q)) = Tail(t) /\ Head(t) = Head(q).type
  BY TypesOf
<1> HIDE DEF T, t
<1> DEFINE a == "START"
           z == "STOP"
<1>2. a # z
  OBVIOUS
<1> HIDE DEF a, z
<1>3. /\ Has(t, a) <=> Has(Tail(t), a) \/ Head(t) = a
      /\ Lacks(t, z) <=> Lacks(Tail(t), z) /\ Head(t) # z
      /\ HasLast(t, a, z) <=> HasLast(Tail(t), a, z) \/ (Head(t) = a /\ Lacks(Tail(t), z))
      /\ Alternating(t, a, z) <=> Alternating(Tail(t), a, z) /\ (Head(t) = a => Before(Tail(t), z, a))
      /\ Before(t, z, a) => Head(t) # a /\ (Head(t) = z \/ Before(Tail(t), z, a))
  BY <1>1, <1>2, TailedSigns
<1> QED
  BY <1>1, <1>3 DEF t, a, z, HasStart, NoStop, Ends, Alternates, StopsFirst

\* The elements of a sequence.
In(q) == {q[i] : i \in DOMAIN q}

LEMMA Contents ==
  ASSUME NEW S, NEW q \in Seq(S)
  PROVE  /\ In(q) \subseteq S
         /\ \A m \in S : In(Append(q, m)) = In(q) \cup {m}
         /\ \A r \in Seq(S) : In(q \o r) = In(q) \cup In(r)
         /\ q # <<>> => Head(q) \in In(q) /\ In(q) = In(Tail(q)) \cup {Head(q)}
         /\ In(<<>>) = {}
<1>1. In(q) \subseteq S
  BY SeqTypes DEF In
<1>2. ASSUME NEW m \in S PROVE In(Append(q, m)) = In(q) \cup {m}
  <2>1. /\ DOMAIN Append(q, m) = 1 .. Len(q) + 1 /\ Append(q, m)[Len(q) + 1] = m
        /\ \A i \in 1 .. Len(q) : Append(q, m)[i] = q[i]
        /\ DOMAIN q = 1 .. Len(q) /\ Len(q) \in Nat
    BY Appended, SeqTypes
  <2>2. /\ \A i \in 1 .. Len(q) + 1 : i = Len(q) + 1 \/ i \in 1 .. Len(q)
        /\ \A i \in 1 .. Len(q) : i \in 1 .. Len(q) + 1
        /\ Len(q) + 1 \in 1 .. Len(q) + 1
    BY <2>1
  <2> DEFINE a == Append(q, m)
             n == Len(q)
             l == n + 1
  <2>3. /\ DOMAIN a = 1 .. l /\ a[l] = m /\ \A i \in 1 .. n : a[i] = q[i]
        /\ DOMAIN q = 1 .. n /\ l \in 1 .. l
        /\ \A i \in 1 .. l : i = l \/ i \in 1 .. n
        /\ \A i \in 1 .. n : i \in 1 .. l
    BY <2>1, <2>2
  <2> HIDE DEF a, n, l
  <2>4. In(a) = In(q) \cup {m}
    BY <2>3 DEF In
  <2> QED
    BY <2>4 DEF a
<1>3. ASSUME NEW r \in Seq(S) PROVE In(q \o r) = In(q) \cup In(r)
  <2>1. /\ DOMAIN (q \o r) = 1 .. Len(q) + Len(r)
        /\ \A i \in 1 .. Len(q) : (q \o r)[i] = q[i]
        /\ \A i \in 1 .. Len(r) : (q \o r)[Len(q) + i] = r[i]
        /\ DOMAIN q = 1 .. Len(q) /\ Len(q) \in Nat /\ DOMAIN r = 1 .. Len(r) /\ Len(r) \in Nat
    BY Joined, SeqTypes
  <2> DEFINE n == Len(q)
             k == Len(r)
             a == q \o r
  <2>2. /\ \A i \in 1 .. n : i \in 1 .. n + k
        /\ \A i \in 1 .. k : n + i \in 1 .. n + k
    BY <2>1
  <2>3. ASSUME NEW i \in 1 .. n + k, i \notin 1 .. n PROVE i - n \in 1 .. k /\ i = n + (i - n)
    BY <2>1, <2>3
  <2>4. \A i \in 1 .. n + k : i \in 1 .. n \/ \E j \in 1 .. k : i = n + j
    BY <2>3
  <2>5. /\ DOMAIN a = 1 .. n + k /\ DOMAIN q = 1 .. n /\ DOMAIN r = 1 .. k
        /\ \A i \in 1 .. n : a[i] = q[i]
        /\ \A i \in 1 .. k : a[n + i] = r[i]
    BY <2>1
  <2> HIDE DEF n, k, a
  <2>6. In(a) = In(q) \cup In(r)
    BY <2>2, <2>4, <2>5 DEF In
  <2> QED
    BY <2>6 DEF a
<1>4. ASSUME q # <<>> PROVE Head(q) \in In(q) /\ In(q) = In(Tail(q)) \cup {Head(q)}
  <2> DEFINE n == Len(q)
             t == Tail(q)
  <2>1. /\ n \in Nat /\ n # 0 /\ DOMAIN q = 1 .. n /\ DOMAIN t = 1 .. n - 1
        /\ Head(q) = q[1] /\ \A i \in 1 .. n - 1 : t[i] = q[i + 1]
    BY <1>4, Tailed
  <2> HIDE DEF n, t
  <2>2. ASSUME NEW i \in 1 .. n, i # 1 PROVE i - 1 \in 1 .. n - 1 /\ i = (i - 1) + 1
    BY <2>1, <2>2
  <2>3. /\ 1 \in 1 .. n /\ \A i \in 1 .. n - 1 : i + 1 \in 1 .. n
        /\ \A i \in 1 .. n : i = 1 \/ \E j \in 1 .. n - 1 : i = j + 1
    BY <2>1, <2>2
  <2>4. /\ DOMAIN q = {1} \cup {j + 1 : j \in DOMAIN t}
        /\ \A j \in DOMAIN t : t[j] = q[j + 1]
    BY ZenonT(90), <2>1, <2>3
  <2>5. Head(q) \in In(q) /\ In(t) \subseteq In(q)
    BY <2>1, <2>4 DEF In
  <2>6. In(q) \subseteq In(t) \cup {Head(q)}
    <3> SUFFICES ASSUME NEW i \in DOMAIN q PROVE q[i] \in In(t) \cup {Head(q)}
      BY DEF In
    <3>1. CASE i = 1
      BY <2>1, <3>1
    <3>2. CASE i # 1
      <4>1. PICK j \in DOMAIN t : i = j + 1
        BY <2>4, <3>2
      <4> QED
        BY <2>4, <4>1 DEF In
    <3> QED
      BY <3>1, <3>2
  <2> QED
    BY <2>5, <2>6 DEF t
<1>5. In(<<>>) = {}
  BY DEF In
<1> QED
  BY <1>1, <1>2, <1>3, <1>4, <1>5
-----------------------------------------------------------------------------
(* Pads and ports: with no gaps, a machine has a controller in just those  *)
(* ports whose pads are assigned.                                          *)

\* A set of numbers that is not empty has a least.
LEMMA Smallest ==
  ASSUME NEW T, T \subseteq Nat, T # {}
  PROVE  \E m \in T : \A n \in T : m <= n
<1>1. PICK m \in T : \A n \in T : ~(<<n, m>> \in OpToRel(<, Nat))
  BY NatLessThanWellFounded, WFMin
<1>2. \A n \in T : ~(n < m)
  BY <1>1 DEF OpToRel
<1> QED
  BY <1>2

\* The first n pads that are c's, and those that are not.
Own(map, c, n) == {j \in 0 .. n - 1 : map[j] = c}
Others(map, c, n) == {j \in 0 .. n - 1 : map[j] # c}

LEMMA Counts ==
  ASSUME NEW map, NEW c, NEW n \in Nat
  PROVE  /\ IsFiniteSet(Own(map, c, n)) /\ IsFiniteSet(Others(map, c, n))
         /\ Cardinality(Own(map, c, n)) \in Nat /\ Cardinality(Others(map, c, n)) \in Nat
         /\ Cardinality(Own(map, c, n)) + Cardinality(Others(map, c, n)) = n
<1>1. IsFiniteSet(0 .. n - 1) /\ Cardinality(0 .. n - 1) = n
  BY FS_Interval
<1>2. Own(map, c, n) \subseteq 0 .. n - 1 /\ Others(map, c, n) \subseteq 0 .. n - 1
  BY DEF Own, Others
<1>3. IsFiniteSet(Own(map, c, n)) /\ IsFiniteSet(Others(map, c, n))
  BY <1>1, <1>2, FS_Subset
<1>4. /\ Own(map, c, n) \cup Others(map, c, n) = 0 .. n - 1
      /\ Own(map, c, n) \cap Others(map, c, n) = {}
  BY DEF Own, Others
<1>5. Cardinality(Own(map, c, n)) \in Nat /\ Cardinality(Others(map, c, n)) \in Nat
  BY <1>3, FS_CardinalityType
<1>6. Cardinality({}) = 0
  BY FS_EmptySet
<1>7. Cardinality(0 .. n - 1) = Cardinality(Own(map, c, n)) + Cardinality(Others(map, c, n)) - Cardinality({})
  BY <1>3, <1>4, FS_Union
<1> QED
  BY <1>1, <1>3, <1>5, <1>6, <1>7

\* One pad more.
LEMMA CountsStep ==
  ASSUME NEW map, NEW c, NEW n \in Nat
  PROVE  /\ Cardinality(Own(map, c, n + 1)) =
              IF map[n] = c THEN Cardinality(Own(map, c, n)) + 1 ELSE Cardinality(Own(map, c, n))
         /\ Cardinality(Others(map, c, n + 1)) =
              IF map[n] # c THEN Cardinality(Others(map, c, n)) + 1 ELSE Cardinality(Others(map, c, n))
<1>1. 0 .. (n + 1) - 1 = (0 .. n - 1) \cup {n} /\ n \notin 0 .. n - 1
  OBVIOUS
<1>2. /\ Own(map, c, n + 1) = IF map[n] = c THEN Own(map, c, n) \cup {n} ELSE Own(map, c, n)
      /\ Others(map, c, n + 1) = IF map[n] # c THEN Others(map, c, n) \cup {n} ELSE Others(map, c, n)
      /\ n \notin Own(map, c, n) /\ n \notin Others(map, c, n)
  BY <1>1 DEF Own, Others
<1>3. IsFiniteSet(Own(map, c, n)) /\ IsFiniteSet(Others(map, c, n))
  BY Counts
<1>4. /\ Cardinality(Own(map, c, n) \cup {n}) = Cardinality(Own(map, c, n)) + 1
      /\ Cardinality(Others(map, c, n) \cup {n}) = Cardinality(Others(map, c, n)) + 1
  BY <1>2, <1>3, FS_AddElement
<1> QED
  BY <1>2, <1>4

\* More pads.
LEMMA CountsGrow ==
  ASSUME NEW map, NEW c, NEW m \in Nat, NEW n \in Nat, m <= n
  PROVE  /\ Cardinality(Own(map, c, m)) <= Cardinality(Own(map, c, n))
         /\ Cardinality(Others(map, c, m)) <= Cardinality(Others(map, c, n))
<1>1. Own(map, c, m) \subseteq Own(map, c, n) /\ Others(map, c, m) \subseteq Others(map, c, n)
  BY DEF Own, Others
<1> QED
  BY <1>1, Counts, FS_Subset

\* A client's pad has one number among his own.
LEMMA OnePad ==
  ASSUME NEW c, NEW port, NEW i \in LocalPadToInGamePad(c, port), NEW j \in LocalPadToInGamePad(c, port)
  PROVE  i = j
<1> SUFFICES ASSUME NEW k \in LocalPadToInGamePad(c, port), NEW l \in LocalPadToInGamePad(c, port), k < l
             PROVE  FALSE
  <2>1. i \in Int /\ j \in Int
    BY NetPlayAssumption DEF LocalPadToInGamePad, Pads
  <2> QED
    BY <2>1
<1> DEFINE map == m_pad_map[c]
<1>1. /\ k \in Nat /\ l \in Nat /\ map[k] = c
      /\ Cardinality(Own(map, c, k)) = port /\ Cardinality(Own(map, c, l)) = port
  BY NetPlayAssumption DEF LocalPadToInGamePad, Pads, Own
<1>2. /\ Cardinality(Own(map, c, k + 1)) = Cardinality(Own(map, c, k)) + 1
      /\ Cardinality(Own(map, c, k + 1)) <= Cardinality(Own(map, c, l))
  BY <1>1, CountsStep, CountsGrow
<1>3. Cardinality(Own(map, c, k)) \in Nat
  BY <1>1, Counts
<1> QED
  BY <1>1, <1>2, <1>3

\* What UpdateDevices() computes, in terms of the counts.
LEMMA Devices ==
  ASSUME NEW map, NEW c
  PROVE  UpdateDevices(map, c) =
           (0 .. Cardinality(Own(map, c, NPads)) - 1) \cup
           {Cardinality(Own(map, c, NPads)) + Cardinality(Others(map, c, i)) :
              i \in {k \in Pads : map[k] \notin {c, Nobody}}}
BY DEF UpdateDevices, Own, Others, Pads

LEMMA PortsArePads ==
  ASSUME NEW map, NEW c
  PROVE  UpdateDevices(map, c) \subseteq Pads
<1> DEFINE own == Cardinality(Own(map, c, NPads))
<1>0. NPads \in Nat
  BY NetPlayAssumption
<1>1. own \in Nat /\ own <= NPads /\ own + Cardinality(Others(map, c, NPads)) = NPads
      /\ Cardinality(Others(map, c, NPads)) \in Nat
  BY <1>0, Counts
<1>2. ASSUME NEW i \in Pads, map[i] \notin {c, Nobody}
      PROVE  own + Cardinality(Others(map, c, i)) \in Pads
  <2>1. i \in Nat /\ i + 1 \in Nat /\ i + 1 <= NPads
    BY <1>0 DEF Pads
  <2>2. /\ Cardinality(Others(map, c, i + 1)) = Cardinality(Others(map, c, i)) + 1
        /\ Cardinality(Others(map, c, i + 1)) <= Cardinality(Others(map, c, NPads))
        /\ Cardinality(Others(map, c, i)) \in Nat
    BY <1>0, <1>2, <2>1, Counts, CountsStep, CountsGrow
  <2> QED
    BY <1>0, <1>1, <2>2 DEF Pads
<1>3. 0 .. own - 1 \subseteq Pads
  BY <1>0, <1>1 DEF Pads
<1> QED
  BY <1>2, <1>3, Devices

LEMMA PortsAreAssigned ==
  ASSUME NEW map \in PadMaps, NEW c \in Players, NoGaps(map)
  PROVE  \E n \in 0 .. NPads : /\ UpdateDevices(map, c) = 0 .. n - 1
                               /\ {i \in Pads : map[i] # Nobody} = 0 .. n - 1
<1> DEFINE bound == {k \in 0 .. NPads : k = NPads \/ map[k] = Nobody}
<1>0. NPads \in Nat /\ NPads \in 0 .. NPads /\ c # Nobody
  BY NetPlayAssumption DEF Nobody
<1>1. PICK n \in bound : \A k \in bound : n <= k
  <2>1. bound \subseteq Nat /\ bound # {}
    BY <1>0
  <2> HIDE DEF bound
  <2> QED
    BY <2>1, Smallest
<1>2. n \in 0 .. NPads /\ n \in Nat /\ (n = NPads \/ map[n] = Nobody)
  BY <1>0, <1>1
<1>3. \A i \in 0 .. n - 1 : i \in Pads /\ map[i] # Nobody
  <2> SUFFICES ASSUME NEW i \in 0 .. n - 1 PROVE i \in Pads /\ map[i] # Nobody
    OBVIOUS
  <2>1. i \in 0 .. NPads /\ ~(n <= i) /\ i \in Pads
    BY <1>0, <1>2 DEF Pads
  <2>2. i \notin bound
    <3> HIDE DEF bound
    <3> QED
      BY <1>1, <2>1
  <2> QED
    BY <2>1, <2>2
<1>4. \A i \in Pads : map[i] # Nobody => i \in 0 .. n - 1
  <2> SUFFICES ASSUME NEW i \in Pads, map[i] # Nobody PROVE i \in 0 .. n - 1
    OBVIOUS
  <2>1. i \in 0 .. NPads - 1
    BY DEF Pads
  <2>2. CASE n = NPads
    BY <2>1, <2>2
  <2>3. CASE n # NPads
    <3>1. n \in Pads /\ map[n] = Nobody
      BY <1>0, <1>2, <2>3 DEF Pads
    <3>2. ~(n < i)
      BY <3>1 DEF NoGaps
    <3>3. n # i
      BY <3>1
    <3> QED
      BY <1>2, <2>1, <3>2, <3>3
  <2> QED
    BY <2>2, <2>3
<1>5. {i \in Pads : map[i] # Nobody} = 0 .. n - 1
  BY <1>3, <1>4
<1> DEFINE own(k) == Cardinality(Own(map, c, k))
           others(k) == Cardinality(Others(map, c, k))
<1>6. own(NPads) = own(n) /\ own(n) \in Nat /\ others(n) \in Nat /\ own(n) + others(n) = n
  <2>1. Own(map, c, NPads) = Own(map, c, n)
    <3>1. Own(map, c, NPads) = {j \in Pads : map[j] = c}
      BY DEF Own, Pads
    <3>2. {j \in Pads : map[j] = c} = {j \in 0 .. n - 1 : map[j] = c}
      BY <1>0, <1>3, <1>4
    <3> QED
      BY <3>1, <3>2 DEF Own
  <2> QED
    BY <1>2, <2>1, Counts
<1> DEFINE rest == {i \in Pads : map[i] \notin {c, Nobody}}
<1>7. UpdateDevices(map, c) = (0 .. own(n) - 1) \cup {own(n) + others(i) : i \in rest}
  BY <1>6, Devices
<1>8. \A i \in 0 .. n : others(i) \in Nat
  BY <1>2, Counts
<1>9. \A i \in 0 .. n - 1 : others(i + 1) = IF map[i] # c THEN others(i) + 1 ELSE others(i)
  BY <1>2, CountsStep
<1>10. \A i \in 0 .. n : others(i) <= others(n)
  BY <1>2, CountsGrow
<1>11. others(0) = 0
  <2>1. Others(map, c, 0) = {}
    BY DEF Others
  <2> QED
    BY <2>1, FS_EmptySet
<1> HIDE DEF own, others
<1>12. ASSUME NEW i \in rest PROVE own(n) + others(i) \in 0 .. n - 1
  <2>1. i \in 0 .. n - 1 /\ map[i] # c /\ i \in 0 .. n /\ i + 1 \in 0 .. n
    BY <1>2, <1>4
  <2> HIDE DEF rest
  <2>2. others(i) + 1 <= others(n) /\ others(i) \in Nat
    BY <1>8, <1>9, <1>10, <2>1
  <2> QED
    BY <1>2, <1>6, <2>2
<1>13. ASSUME NEW p \in 0 .. n - 1, p \notin 0 .. own(n) - 1 PROVE \E i \in rest : p = own(n) + others(i)
  <2> DEFINE r == p - own(n)
             above == {m \in 0 .. n : others(m) > r}
  <2>1. r \in Nat /\ r < others(n) /\ p = own(n) + r
    BY <1>2, <1>6, <1>13
  <2> HIDE DEF r
  <2>2. above \subseteq Nat /\ n \in above
    BY <1>2, <1>6, <2>1
  <2>3. PICK m \in above : \A l \in above : m <= l
    <3> HIDE DEF above
    <3> QED
      BY <2>2, Smallest
  <2>4. m \in 0 .. n /\ others(m) > r
    BY <2>3
  <2>5. m # 0
    BY <1>11, <2>1, <2>4
  <2>6. m - 1 \in 0 .. n - 1 /\ m - 1 \in 0 .. n /\ ~(m <= m - 1) /\ (m - 1) + 1 = m
    BY <1>2, <2>4, <2>5
  <2>7. m - 1 \notin above
    <3> HIDE DEF above
    <3> QED
      BY <2>3, <2>6
  <2>8. others(m - 1) = r /\ map[m - 1] # c
    <3>1. ~(others(m - 1) > r) /\ others(m - 1) \in Nat
      BY <1>8, <2>6, <2>7
    <3>2. others(m) = IF map[m - 1] # c THEN others(m - 1) + 1 ELSE others(m - 1)
      BY <1>9, <2>6
    <3> QED
      BY <2>1, <2>4, <3>1, <3>2
  <2>9. m - 1 \in rest
    BY <1>3, <2>6, <2>8
  <2> QED
    BY <2>1, <2>8, <2>9
<1>14. 0 .. own(n) - 1 \subseteq 0 .. n - 1
  BY <1>2, <1>6
<1>15. UpdateDevices(map, c) = 0 .. n - 1
  <2>1. ASSUME NEW p \in UpdateDevices(map, c) PROVE p \in 0 .. n - 1
    BY <1>7, <1>12, <1>14
  <2>2. ASSUME NEW p \in 0 .. n - 1 PROVE p \in UpdateDevices(map, c)
    BY <1>7, <1>13
  <2> QED
    BY <2>1, <2>2
<1> QED
  BY <1>2, <1>5, <1>15

-----------------------------------------------------------------------------
(* Runs of states, in a buffer and among the messages                      *)

\* The states x + 1 to y of game g.
Run(g, x, y) == [k \in 1 .. y - x |-> <<g, x + k>>]

\* The message is a state of pad i in game g.
StateAt(m, i, g) == m.type = "PAD" /\ m.pad = i /\ m.state[1] = g

\* The states of pad i among the messages are x + 1 to y, in this order.
Carries(q, i, g, x, y) ==
  /\ \A j \in DOMAIN q : StateAt(q[j], i, g) => q[j].state[2] \in x + 1 .. y
  /\ \A k \in x + 1 .. y : \E j \in DOMAIN q : StateAt(q[j], i, g) /\ q[j].state[2] = k
  /\ \A j, k \in DOMAIN q : j < k /\ StateAt(q[j], i, g) /\ StateAt(q[k], i, g) =>
       q[j].state[2] < q[k].state[2]

\* A run as a sequence, and one run after another.
LEMMA RunTypes ==
  ASSUME NEW g, NEW x \in Nat, NEW y \in Nat, x <= y
  PROVE  Run(g, x, y) \in Seq({g} \X Nat) /\ Len(Run(g, x, y)) = y - x
<1>1. y - x \in Nat
  OBVIOUS
<1>2. \A k \in 1 .. y - x : x + k \in Nat
  OBVIOUS
<1> QED
  BY <1>1, <1>2 DEF Run

LEMMA RunGrown ==
  ASSUME NEW g, NEW x \in Nat, NEW y \in Nat, x <= y,
         NEW r \in Seq({g} \X Nat), \A j \in 1 .. Len(r) : r[j] = <<g, y + j>>
  PROVE  Run(g, x, y) \o r = Run(g, x, y + Len(r))
<1> DEFINE a == Run(g, x, y)
           n == Len(r)
           s == a \o r
<1>1. a \in Seq({g} \X Nat) /\ Len(a) = y - x /\ n \in Nat /\ y - x \in Nat
  BY RunTypes
<1>2. \A k \in 1 .. y - x : a[k] = <<g, x + k>>
  BY DEF Run
<1> HIDE DEF a, n
<1>3. /\ s \in Seq({g} \X Nat) /\ Len(s) = (y - x) + n
      /\ \A k \in 1 .. y - x : s[k] = a[k]
      /\ \A j \in 1 .. n : s[(y - x) + j] = r[j]
  <2> DEFINE S == {g} \X Nat
  <2>1. a \in Seq(S) /\ r \in Seq(S)
    BY <1>1
  <2> HIDE DEF S
  <2>2. /\ s \in Seq(S) /\ Len(s) = Len(a) + Len(r)
        /\ \A k \in 1 .. Len(a) : s[k] = a[k]
        /\ \A j \in 1 .. Len(r) : s[Len(a) + j] = r[j]
    BY <2>1, Joined
  <2> QED
    BY <1>1, <2>2 DEF n, S
<1> HIDE DEF s
<1>4. ASSUME NEW k \in 1 .. (y - x) + n PROVE s[k] = <<g, x + k>>
  <2>1. CASE k \in 1 .. y - x
    BY <1>2, <1>3, <2>1
  <2>2. CASE k \notin 1 .. y - x
    <3>1. /\ k - (y - x) \in 1 .. n /\ (y - x) + (k - (y - x)) = k
          /\ y + (k - (y - x)) = x + k
      BY <1>1, <2>2
    <3>2. s[(y - x) + (k - (y - x))] = r[k - (y - x)]
      BY <1>3, <3>1
    <3>3. r[k - (y - x)] = <<g, y + (k - (y - x))>>
      BY <3>1 DEF n
    <3> QED
      BY <3>1, <3>2, <3>3
  <2> QED
    BY <2>1, <2>2
<1> DEFINE u == Run(g, x, y + n)
<1>5. u \in Seq({g} \X Nat) /\ Len(u) = (y - x) + n
  <2>1. y + n \in Nat /\ x <= y + n /\ (y + n) - x = (y - x) + n
    BY <1>1
  <2> QED
    BY <2>1, RunTypes
<1>6. \A k \in 1 .. (y - x) + n : u[k] = <<g, x + k>>
  <2>1. (y + n) - x = (y - x) + n
    BY <1>1
  <2> QED
    BY <2>1 DEF Run
<1> HIDE DEF u
<1>7. s = u
  BY <1>3, <1>4, <1>5, <1>6, SeqEqual
<1> QED
  BY <1>7 DEF s, a, u, n

LEMMA RunJoined ==
  ASSUME NEW g, NEW x \in Nat, NEW y \in Nat, NEW z \in Nat, x <= y, y <= z
  PROVE  Run(g, x, y) \o Run(g, y, z) = Run(g, x, z)
<1> DEFINE r == Run(g, y, z)
<1>1. r \in Seq({g} \X Nat) /\ Len(r) = z - y
  BY RunTypes
<1>2. \A j \in 1 .. z - y : r[j] = <<g, y + j>>
  BY DEF Run
<1> HIDE DEF r
<1>3. Run(g, x, y) \o r = Run(g, x, y + Len(r))
  <2>1. \A j \in 1 .. Len(r) : r[j] = <<g, y + j>>
    BY <1>1, <1>2
  <2> QED
    BY <1>1, <2>1, RunGrown
<1>4. y + Len(r) = z
  BY <1>1
<1> QED
  BY <1>3, <1>4 DEF r

LEMMA RunTail ==
  ASSUME NEW g, NEW x \in Nat, NEW y \in Nat, x < y
  PROVE  /\ Run(g, x, y) # <<>> /\ Head(Run(g, x, y)) = <<g, x + 1>>
         /\ Tail(Run(g, x, y)) = Run(g, x + 1, y)
<1> DEFINE s == Run(g, x, y)
           u == Run(g, x + 1, y)
<1>1. s \in Seq({g} \X Nat) /\ Len(s) = y - x /\ y - x \in Nat \ {0}
  BY RunTypes
<1>2. u \in Seq({g} \X Nat) /\ Len(u) = (y - x) - 1
  <2>1. x + 1 \in Nat /\ x + 1 <= y /\ y - (x + 1) = (y - x) - 1
    OBVIOUS
  <2> QED
    BY <2>1, RunTypes
<1>3. \A k \in 1 .. y - x : s[k] = <<g, x + k>>
  BY DEF Run
<1>4. ASSUME NEW k \in 1 .. (y - x) - 1 PROVE u[k] = s[k + 1]
  <2>1. k + 1 \in 1 .. y - x /\ k \in 1 .. y - (x + 1) /\ (x + 1) + k = x + (k + 1)
    OBVIOUS
  <2>2. u[k] = <<g, (x + 1) + k>>
    BY <2>1 DEF Run
  <2> QED
    BY <1>3, <2>1, <2>2
<1> HIDE DEF s, u
<1>5. s # <<>> /\ 1 \in 1 .. y - x
  BY <1>1
<1>6. /\ Tail(s) \in Seq({g} \X Nat) /\ Len(Tail(s)) = (y - x) - 1 /\ Head(s) = s[1]
      /\ \A k \in 1 .. (y - x) - 1 : Tail(s)[k] = s[k + 1]
  <2> DEFINE S == {g} \X Nat
  <2>1. s \in Seq(S)
    BY <1>1
  <2> HIDE DEF S
  <2>2. /\ Tail(s) \in Seq(S) /\ Len(Tail(s)) = Len(s) - 1 /\ Head(s) = s[1]
        /\ \A k \in 1 .. Len(s) - 1 : Tail(s)[k] = s[k + 1]
    BY <1>5, <2>1, Tailed
  <2> QED
    BY <1>1, <2>2 DEF S
<1>7. Tail(s) = u
  BY SMTT(40), <1>1, <1>2, <1>4, <1>6, SeqEqual
<1>8. Head(s) = <<g, x + 1>>
  BY <1>3, <1>5, <1>6
<1> QED
  BY <1>5, <1>7, <1>8 DEF s, u

LEMMA RunShrunk ==
  ASSUME NEW g, NEW x \in Nat, NEW y \in Nat, x <= y, Run(g, x, y) # <<>>
  PROVE  x + 1 <= y /\ Head(Run(g, x, y)) = <<g, x + 1>> /\ Tail(Run(g, x, y)) = Run(g, x + 1, y)
<1>1. x # y
  BY DEF Run
<1>2. x < y /\ x + 1 <= y
  BY <1>1
<1> QED
  BY <1>2, RunTail

LEMMA Runs ==
  ASSUME NEW g, NEW x \in Nat, NEW y \in Nat, x <= y
  PROVE  /\ Run(g, x, x) = <<>>
         /\ x < y => /\ Run(g, x, y) # <<>> /\ Head(Run(g, x, y)) = <<g, x + 1>>
                     /\ Tail(Run(g, x, y)) = Run(g, x + 1, y)
         /\ x = y => Run(g, x, y) = <<>>
         /\ Append(Run(g, x, y), <<g, y + 1>>) = Run(g, x, y + 1)
<1>3. Run(g, x, y) \in Seq({g} \X Nat) /\ Len(Run(g, x, y)) = y - x
  BY RunTypes
<1>4. Run(g, x, x) = <<>>
  BY DEF Run
<1>6. ASSUME x < y
      PROVE  /\ Run(g, x, y) # <<>> /\ Head(Run(g, x, y)) = <<g, x + 1>>
             /\ Tail(Run(g, x, y)) = Run(g, x + 1, y)
  BY <1>6, RunTail
<1>7. Append(Run(g, x, y), <<g, y + 1>>) = Run(g, x, y + 1)
  <2> DEFINE e == <<g, y + 1>>
             r == <<e>>
  <2>1. e \in {g} \X Nat
    OBVIOUS
  <2>2. r \in Seq({g} \X Nat) /\ Len(r) = 1 /\ r[1] = e
    <3> HIDE DEF e
    <3> QED
      BY <2>1
  <2>3. \A j \in 1 .. Len(r) : r[j] = <<g, y + j>>
    BY <2>2
  <2>4. Append(Run(g, x, y), e) = Run(g, x, y) \o r
    <3> HIDE DEF e
    <3> QED
      BY <1>3, <2>1, Appended
  <2> HIDE DEF r
  <2>5. Run(g, x, y) \o r = Run(g, x, y + Len(r))
    BY <2>2, <2>3, RunGrown
  <2> QED
    BY <2>2, <2>4, <2>5
<1> QED
  BY <1>4, <1>6, <1>7

\* No state, no numbers.
LEMMA CarriesNone ==
  ASSUME NEW q, NEW i, NEW g, NEW x \in Nat, \A j \in DOMAIN q : ~StateAt(q[j], i, g)
  PROVE  Carries(q, i, g, x, x)
BY DEF Carries

\* A message is received, or relayed.
LEMMA CarriesTail ==
  ASSUME NEW q \in Seq(Messages), q # <<>>, NEW i, NEW g, NEW x \in Nat, NEW y \in Nat,
         Carries(q, i, g, x, y)
  PROVE  IF StateAt(Head(q), i, g)
         THEN x < y /\ Head(q).state = <<g, x + 1>> /\ Carries(Tail(q), i, g, x + 1, y)
         ELSE Carries(Tail(q), i, g, x, y)
<1> DEFINE t == Tail(q)
           n == Len(q)
<1>1. /\ n \in Nat /\ n # 0 /\ DOMAIN q = 1 .. n /\ DOMAIN t = 1 .. n - 1
      /\ Head(q) = q[1] /\ \A j \in 1 .. n - 1 : t[j] = q[j + 1]
  BY Tailed
<1> HIDE DEF t, n
<1>2. \A j \in DOMAIN t : j + 1 \in DOMAIN q /\ t[j] = q[j + 1] /\ 1 < j + 1
  BY <1>1
<1>3. 1 \in DOMAIN q /\ q[1] = Head(q)
  BY <1>1
<1>4. \A j \in DOMAIN q : j = 1 \/ (j - 1 \in DOMAIN t /\ (j - 1) + 1 = j /\ 1 < j)
  BY <1>1
<1>5. \A j, k \in DOMAIN t : j < k => j + 1 < k + 1
  BY <1>1
<1>6. \A j, k \in DOMAIN t : j < k /\ StateAt(t[j], i, g) /\ StateAt(t[k], i, g) =>
        t[j].state[2] < t[k].state[2]
  BY <1>2, <1>5 DEF Carries
<1>7. \A j \in DOMAIN q : StateAt(q[j], i, g) => q[j].state[2] \in x + 1 .. y
  BY DEF Carries
<1>8. CASE StateAt(Head(q), i, g)
  <2>1. q[1].state[2] \in x + 1 .. y
    BY <1>3, <1>7, <1>8
  <2>2. x + 1 \in x + 1 .. y /\ x < y
    BY <2>1
  <2>3. PICK j \in DOMAIN q : StateAt(q[j], i, g) /\ q[j].state[2] = x + 1
    BY <2>2 DEF Carries
  <2>4. j = 1
    <3>1. ASSUME 1 < j PROVE FALSE
      <4>1. q[1].state[2] < x + 1
        BY <1>3, <1>8, <2>3, <3>1 DEF Carries
      <4> QED
        BY <2>1, <4>1
    <3> QED
      BY <1>4, <2>3, <3>1
  <2>5. Head(q).state = <<g, x + 1>>
    <3>1. Head(q) \in Messages /\ Head(q).type = "PAD" /\ Head(q).state[1] = g
      BY <1>8, Tailed DEF StateAt
    <3> QED
      BY <1>3, <2>3, <2>4, <3>1, MessageTypes
  <2>6. ASSUME NEW k \in DOMAIN t, StateAt(t[k], i, g) PROVE t[k].state[2] \in (x + 1) + 1 .. y
    <3>1. q[k + 1].state[2] \in x + 1 .. y /\ q[1].state[2] < q[k + 1].state[2]
      BY <1>2, <1>3, <1>7, <1>8, <2>6 DEF Carries
    <3> QED
      BY <1>2, <2>3, <2>4, <3>1
  <2>7. ASSUME NEW k \in (x + 1) + 1 .. y
        PROVE  \E l \in DOMAIN t : StateAt(t[l], i, g) /\ t[l].state[2] = k
    <3>1. k \in x + 1 .. y /\ k # x + 1
      BY <2>7
    <3>2. PICK m \in DOMAIN q : StateAt(q[m], i, g) /\ q[m].state[2] = k
      BY <3>1 DEF Carries
    <3>3. m # 1
      BY <2>3, <2>4, <3>1, <3>2
    <3> QED
      BY <1>2, <1>4, <3>2, <3>3
  <2>8. Carries(t, i, g, x + 1, y)
    BY <1>6, <2>6, <2>7 DEF Carries
  <2> QED
    BY <1>8, <2>2, <2>5, <2>8 DEF t
<1>9. CASE ~StateAt(Head(q), i, g)
  <2>1. ASSUME NEW k \in DOMAIN t, StateAt(t[k], i, g) PROVE t[k].state[2] \in x + 1 .. y
    BY <1>2, <1>7, <2>1
  <2>2. ASSUME NEW k \in x + 1 .. y
        PROVE  \E l \in DOMAIN t : StateAt(t[l], i, g) /\ t[l].state[2] = k
    <3>2. PICK m \in DOMAIN q : StateAt(q[m], i, g) /\ q[m].state[2] = k
      BY DEF Carries
    <3>3. m # 1
      BY <1>3, <1>9, <3>2
    <3> QED
      BY <1>2, <1>4, <3>2, <3>3
  <2>3. Carries(t, i, g, x, y)
    BY <1>6, <2>1, <2>2 DEF Carries
  <2> QED
    BY <1>9, <2>3 DEF t
<1> QED
  BY <1>8, <1>9

\* The owner sends the next n states.
LEMMA CarriesJoined ==
  ASSUME NEW q \in Seq(Messages), NEW r \in Seq(Messages), NEW i, NEW g,
         NEW x \in Nat, NEW y \in Nat, x <= y, Carries(q, i, g, x, y),
         \A j \in 1 .. Len(r) : StateAt(r[j], i, g) /\ r[j].state[2] = y + j
  PROVE  Carries(q \o r, i, g, x, y + Len(r))
<1> DEFINE a == q \o r
           n == Len(q)
           l == Len(r)
<1>1. /\ n \in Nat /\ l \in Nat /\ DOMAIN q = 1 .. n /\ DOMAIN a = 1 .. n + l
      /\ \A j \in 1 .. n : a[j] = q[j]
      /\ \A j \in 1 .. l : a[n + j] = r[j]
  BY Joined, SeqTypes
<1>2. \A j \in 1 .. l : StateAt(a[n + j], i, g) /\ a[n + j].state[2] = y + j
  BY <1>1
<1> HIDE DEF a, n, l
<1>3. \A j \in DOMAIN a : j \in DOMAIN q \/ \E k \in 1 .. l : j = n + k
  <2> SUFFICES ASSUME NEW j \in DOMAIN a, j \notin DOMAIN q PROVE j - n \in 1 .. l /\ j = n + (j - n)
    OBVIOUS
  <2> QED
    BY <1>1
<1>4. \A j \in DOMAIN q : a[j] = q[j] /\ j \in DOMAIN a
  BY <1>1
<1>5. \A j \in 1 .. l : n + j \in DOMAIN a
  BY <1>1
<1>6. ASSUME NEW j \in DOMAIN a, StateAt(a[j], i, g) PROVE a[j].state[2] \in x + 1 .. y + l
  <2>1. CASE j \in DOMAIN q
    <3>1. a[j].state[2] \in x + 1 .. y
      BY <1>4, <1>6, <2>1 DEF Carries
    <3> QED
      BY <1>1, <3>1
  <2>2. ASSUME NEW k \in 1 .. l, j = n + k PROVE a[j].state[2] \in x + 1 .. y + l
    BY SMTT(40), <1>1, <1>2, <2>2
  <2> QED
    BY <1>3, <2>1, <2>2
<1>7. ASSUME NEW k \in x + 1 .. y + l PROVE \E j \in DOMAIN a : StateAt(a[j], i, g) /\ a[j].state[2] = k
  <2>1. CASE k \in x + 1 .. y
    BY <1>4, <2>1 DEF Carries
  <2>2. CASE k \notin x + 1 .. y
    <3>1. k - y \in 1 .. l /\ y + (k - y) = k
      BY <1>1, <2>2
    <3> QED
      BY <1>2, <1>5, <3>1
  <2> QED
    BY <2>1, <2>2
<1>8. ASSUME NEW j \in DOMAIN a, NEW k \in DOMAIN a, j < k, StateAt(a[j], i, g), StateAt(a[k], i, g)
      PROVE  a[j].state[2] < a[k].state[2]
  <2>1. CASE k \in DOMAIN q
    <3>1. j \in DOMAIN q
      BY <1>1, <1>8, <2>1
    <3> QED
      BY <1>4, <1>8, <2>1, <3>1 DEF Carries
  <2>2. ASSUME NEW k1 \in 1 .. l, k = n + k1, j \in DOMAIN q PROVE a[j].state[2] < a[k].state[2]
    <3>1. a[j].state[2] \in x + 1 .. y
      BY <1>4, <1>8, <2>2 DEF Carries
    <3>2. k1 \in Nat \ {0}
      BY <1>1
    <3>3. a[n + k1].state[2] = y + k1
      BY <1>2
    <3>4. a[k].state[2] = y + k1
      BY <2>2, <3>3
    <3> QED
      BY <3>1, <3>2, <3>4
  <2>3. ASSUME NEW k1 \in 1 .. l, k = n + k1, NEW j1 \in 1 .. l, j = n + j1 PROVE a[j].state[2] < a[k].state[2]
    <3>0. j1 \in Nat /\ k1 \in Nat
      BY <1>1
    <3>1. a[j].state[2] = y + j1 /\ a[k].state[2] = y + k1 /\ j1 \in Nat /\ k1 \in Nat
      <4>1. a[n + j1].state[2] = y + j1 /\ a[n + k1].state[2] = y + k1
        BY <1>2
      <4> QED
        BY <2>3, <3>0, <4>1
    <3>2. j1 < k1
      BY <1>1, <1>8, <2>3, <3>1
    <3> QED
      BY <3>1, <3>2
  <2> QED
    BY <1>3, <2>1, <2>2, <2>3
<1>9. Carries(a, i, g, x, y + l)
  BY <1>6, <1>7, <1>8 DEF Carries
<1> QED
  BY <1>9 DEF a, l

\* What is sent is about something else.
LEMMA CarriesOther ==
  ASSUME NEW q \in Seq(Messages), NEW r \in Seq(Messages), NEW i, NEW g,
         NEW x \in Nat, NEW y \in Nat, Carries(q, i, g, x, y),
         \A j \in 1 .. Len(r) : ~StateAt(r[j], i, g)
  PROVE  Carries(q \o r, i, g, x, y)
<1> DEFINE a == q \o r
           n == Len(q)
           l == Len(r)
<1>1. /\ n \in Nat /\ l \in Nat /\ DOMAIN q = 1 .. n /\ DOMAIN a = 1 .. n + l
      /\ \A j \in 1 .. n : a[j] = q[j]
      /\ \A j \in 1 .. l : a[n + j] = r[j]
  BY Joined, SeqTypes
<1>2. \A j \in 1 .. l : ~StateAt(a[n + j], i, g)
  BY <1>1
<1> HIDE DEF a, n, l
<1>3. \A j \in DOMAIN a : StateAt(a[j], i, g) => j \in DOMAIN q
  <2> SUFFICES ASSUME NEW j \in DOMAIN a, j \notin DOMAIN q PROVE j - n \in 1 .. l /\ j = n + (j - n)
    BY <1>2
  <2> QED
    BY <1>1
<1>4. \A j \in DOMAIN q : a[j] = q[j] /\ j \in DOMAIN a
  BY <1>1
<1>5. Carries(a, i, g, x, y)
  BY <1>3, <1>4 DEF Carries
<1> QED
  BY <1>5 DEF a

\* StatesOf() finds the states that the messages carry.
LEMMA StatesAre ==
  ASSUME NEW q \in Seq(Messages), NEW i, s_game \in Nat, NEW x \in Nat, NEW y \in Nat, x <= y,
         Carries(q, i, s_game, x, y)
  PROVE  StatesOf(i, q) = Run(s_game, x, y)
<1> DEFINE g == s_game
           n == Len(q)
           Bound(k, z) == \A j \in 1 .. n : StateAt(q[j], i, g) => (j <= k <=> q[j].state[2] <= z)
           body(f) == [k \in 0 .. n |->
                         IF k = 0 THEN <<>>
                         ELSE IF /\ q[k].type = "PAD" /\ q[k].pad = i
                                 /\ q[k].state[1] = s_game
                              THEN Append(f[k - 1], q[k].state)
                         ELSE f[k - 1]]
           own == CHOOSE f : f = body(f)
<1>1. n \in Nat /\ DOMAIN q = 1 .. n
  BY SeqTypes
<1>2. /\ \A j \in 1 .. n : StateAt(q[j], i, g) => q[j].state[2] \in x + 1 .. y
      /\ \A k \in x + 1 .. y : \E j \in 1 .. n : StateAt(q[j], i, g) /\ q[j].state[2] = k
      /\ \A j, k \in 1 .. n : j < k /\ StateAt(q[j], i, g) /\ StateAt(q[k], i, g) =>
           q[j].state[2] < q[k].state[2]
  BY <1>1 DEF Carries
<1>3. \A j \in 1 .. n : StateAt(q[j], i, g) => q[j].state = <<g, q[j].state[2]>>
  <2> SUFFICES ASSUME NEW j \in 1 .. n, StateAt(q[j], i, g) PROVE q[j].state = <<g, q[j].state[2]>>
    OBVIOUS
  <2>1. q[j] \in Messages /\ q[j].type = "PAD" /\ q[j].state[1] = g
    BY SeqTypes DEF StateAt
  <2> QED
    BY <2>1, MessageTypes
<1> HIDE DEF n
\* One message more: the bound stays, or is the next number.
<1>4. ASSUME NEW k \in 1 .. n, NEW z \in x .. y, Bound(k - 1, z)
      PROVE  IF StateAt(q[k], i, g) THEN z + 1 \in x .. y /\ q[k].state[2] = z + 1 /\ Bound(k, z + 1)
                                    ELSE Bound(k, z)
  <2>0. k - 1 \in Int /\ ~(k <= k - 1)
    BY <1>1
  <2>1. CASE StateAt(q[k], i, g)
    <3>1. q[k].state[2] \in x + 1 .. y /\ ~(q[k].state[2] <= z)
      BY <1>2, <1>4, <2>0, <2>1
    <3>2. z + 1 \in x + 1 .. y
      BY <3>1
    <3>3. PICK j \in 1 .. n : StateAt(q[j], i, g) /\ q[j].state[2] = z + 1
      BY <1>2, <3>2
    <3>4. ~(j <= k - 1)
      BY <1>4, <3>3
    <3>5. ~(k < j)
      BY SMTT(40), <1>2, <2>1, <3>1, <3>3
    <3>6. j = k
      BY <1>1, <3>4, <3>5
    <3>7. ASSUME NEW l \in 1 .. n, StateAt(q[l], i, g) PROVE l <= k <=> q[l].state[2] <= z + 1
      <4>1. q[l].state[2] \in x + 1 .. y
        BY <1>2, <3>7
      <4>2. CASE l <= k - 1
        <5>1. q[l].state[2] <= z
          BY <1>4, <3>7, <4>2
        <5> QED
          BY <1>1, <4>1, <4>2, <5>1
      <4>3. CASE l = k
        BY <3>3, <3>6, <4>3
      <4>4. CASE k < l
        <5>1. q[k].state[2] < q[l].state[2]
          BY <1>2, <2>1, <3>7, <4>4
        <5> QED
          BY <3>3, <3>6, <4>1, <4>4, <5>1
      <4> QED
        BY <1>1, <4>2, <4>3, <4>4
    <3> QED
      BY <2>1, <3>2, <3>3, <3>6, <3>7
  <2>2. CASE ~StateAt(q[k], i, g)
    <3> SUFFICES ASSUME NEW l \in 1 .. n, StateAt(q[l], i, g) PROVE l <= k <=> q[l].state[2] <= z
      BY <2>2
    <3>1. l # k
      BY <2>2
    <3>2. l <= k <=> l <= k - 1
      BY <1>1, <3>1
    <3> QED
      BY <1>4, <3>2
  <2> QED
    BY <2>1, <2>2
<1>5. Bound(0, x)
  BY <1>1, <1>2
<1> HIDE DEF Bound
<1>6. \A k \in 0 .. n : \E z \in x .. y : Bound(k, z)
  <2> DEFINE Bad == {k \in 0 .. n : ~ \E z \in x .. y : Bound(k, z)}
  <2> SUFFICES ASSUME Bad # {} PROVE FALSE
    OBVIOUS
  <2>1. Bad \subseteq Nat
    BY <1>1
  <2>2. PICK m \in Bad : \A k \in Bad : m <= k
    <3> HIDE DEF Bad
    <3> QED
      BY <2>1, Smallest
  <2>3. m \in 0 .. n /\ ~ \E z \in x .. y : Bound(m, z)
    OBVIOUS
  <2>4. m # 0
    BY <1>5, <2>3
  <2>5. m - 1 \in 0 .. n /\ m \in 1 .. n /\ ~(m <= m - 1)
    BY <1>1, <2>3, <2>4
  <2>6. m - 1 \notin Bad
    <3> HIDE DEF Bad
    <3> QED
      BY <2>2, <2>5
  <2>7. PICK z \in x .. y : Bound(m - 1, z)
    BY <2>5, <2>6
  <2> QED
    BY <1>4, <2>3, <2>5, <2>7
<1> DEFINE hi == [k \in 0 .. n |-> CHOOSE z \in x .. y : Bound(k, z)]
           made == [k \in 0 .. n |-> Run(g, x, hi[k])]
<1>7. \A k \in 0 .. n : hi[k] \in x .. y /\ Bound(k, hi[k]) /\ made[k] = Run(g, x, hi[k])
  BY <1>6
<1>8. \A k \in 0 .. n : \A z1, z2 \in x .. y : Bound(k, z1) /\ Bound(k, z2) => z1 = z2
  <2> SUFFICES ASSUME NEW k \in 0 .. n, NEW z1 \in x .. y, NEW z2 \in x .. y,
                      Bound(k, z1), Bound(k, z2), z1 < z2
               PROVE  FALSE
    <3>1. \A z1, z2 \in x .. y : z1 < z2 \/ z2 < z1 \/ z1 = z2
      OBVIOUS
    <3> QED
      BY <3>1
  <2>1. z2 \in x + 1 .. y /\ ~(z2 <= z1) /\ z2 <= z2
    OBVIOUS
  <2>2. PICK j \in 1 .. n : StateAt(q[j], i, g) /\ q[j].state[2] = z2
    BY <1>2, <2>1
  <2> QED
    BY <2>1, <2>2 DEF Bound
<1> HIDE DEF hi, made
<1>9. made[0] = <<>>
  <2>1. 0 \in 0 .. n /\ x \in x .. y
    BY <1>1
  <2>2. hi[0] = x
    BY <1>5, <1>7, <1>8, <2>1
  <2>3. Run(g, x, x) = <<>>
    BY Runs
  <2> QED
    BY <1>7, <2>1, <2>2, <2>3
<1>10. ASSUME NEW k \in 1 .. n
       PROVE  made[k] = IF StateAt(q[k], i, g) THEN Append(made[k - 1], q[k].state) ELSE made[k - 1]
  <2>1. k - 1 \in 0 .. n /\ k \in 0 .. n
    BY <1>1
  <2>2. hi[k - 1] \in x .. y /\ Bound(k - 1, hi[k - 1])
        /\ made[k - 1] = Run(g, x, hi[k - 1]) /\ made[k] = Run(g, x, hi[k])
    BY <1>7, <2>1
  <2>3. CASE StateAt(q[k], i, g)
    <3>1. hi[k - 1] + 1 \in x .. y /\ q[k].state[2] = hi[k - 1] + 1 /\ Bound(k, hi[k - 1] + 1)
      BY <1>4, <2>2, <2>3
    <3>2. hi[k] = hi[k - 1] + 1
      BY <1>7, <1>8, <2>1, <3>1
    <3>3. q[k].state = <<g, hi[k - 1] + 1>>
      BY <1>3, <2>3, <3>1
    <3>4. hi[k - 1] \in Nat /\ x <= hi[k - 1]
      BY <2>2
    <3>5. Append(Run(g, x, hi[k - 1]), <<g, hi[k - 1] + 1>>) = Run(g, x, hi[k - 1] + 1)
      BY ZenonT(90), <3>4, Runs
    <3> QED
      BY <2>2, <2>3, <3>2, <3>3, <3>5
  <2>4. CASE ~StateAt(q[k], i, g)
    <3>1. Bound(k, hi[k - 1])
      BY <1>4, <2>2, <2>4
    <3>2. hi[k] = hi[k - 1]
      BY <1>7, <1>8, <2>1, <2>2, <3>1
    <3> QED
      BY <2>2, <2>4, <3>2
  <2> QED
    BY <2>3, <2>4
<1>11. made = body(made)
  <2>1. made = [k \in 0 .. n |-> made[k]]
    BY DEF made
  <2>2. \A k \in 0 .. n : made[k] = body(made)[k]
    <3> SUFFICES ASSUME NEW k \in 0 .. n PROVE made[k] = body(made)[k]
      OBVIOUS
    <3>1. CASE k = 0
      BY <1>9, <3>1
    <3>2. CASE k # 0
      <4>1. k \in 1 .. n
        BY <1>1, <3>2
      <4> QED
        BY <1>10, <3>2, <4>1 DEF StateAt
    <3> QED
      BY <3>1, <3>2
  <2>3. body(made) = [k \in 0 .. n |-> body(made)[k]]
    OBVIOUS
  <2> HIDE DEF body
  <2>4. [k \in 0 .. n |-> made[k]] = [k \in 0 .. n |-> body(made)[k]]
    BY <2>2
  <2> QED
    BY <2>1, <2>3, <2>4
<1>12. own = body(own)
  <2> HIDE DEF body
  <2> QED
    BY <1>11
<1> HIDE DEF own
<1>13. own[0] = <<>>
  <2>1. 0 \in 0 .. n
    BY <1>1
  <2>2. body(own)[0] = <<>>
    BY <2>1
  <2> HIDE DEF body
  <2> QED
    BY <1>12, <2>2
<1>14. ASSUME NEW k \in 1 .. n
       PROVE  own[k] = IF StateAt(q[k], i, g) THEN Append(own[k - 1], q[k].state) ELSE own[k - 1]
  <2>1. k \in 0 .. n /\ k # 0
    BY <1>1
  <2>2. body(own)[k] = IF StateAt(q[k], i, g) THEN Append(own[k - 1], q[k].state) ELSE own[k - 1]
    BY <2>1 DEF StateAt
  <2> HIDE DEF body
  <2> QED
    BY <1>12, <2>2
<1>15. \A k \in 0 .. n : own[k] = made[k]
  <2> DEFINE Bad == {k \in 0 .. n : own[k] # made[k]}
  <2> SUFFICES ASSUME Bad # {} PROVE FALSE
    OBVIOUS
  <2>1. Bad \subseteq Nat
    BY <1>1
  <2>2. PICK m \in Bad : \A k \in Bad : m <= k
    <3> HIDE DEF Bad
    <3> QED
      BY <2>1, Smallest
  <2>3. m \in 0 .. n /\ own[m] # made[m]
    OBVIOUS
  <2>4. m # 0
    BY <1>9, <1>13, <2>3
  <2>5. m - 1 \in 0 .. n /\ m \in 1 .. n /\ ~(m <= m - 1)
    BY <1>1, <2>3, <2>4
  <2>6. m - 1 \notin Bad
    <3> HIDE DEF Bad
    <3> QED
      BY <2>2, <2>5
  <2>7. own[m - 1] = made[m - 1]
    BY <2>5, <2>6
  <2> QED
    BY <1>10, <1>14, <2>3, <2>5, <2>7
<1>16. hi[n] = y
  <2>1. n \in 0 .. n /\ y \in x .. y
    BY <1>1
  <2>2. hi[n] \in x .. y /\ Bound(n, hi[n])
    BY <1>7, <2>1
  <2>3. CASE x = y
    BY <2>2, <2>3
  <2>4. CASE x # y
    <3>1. y \in x + 1 .. y
      BY <2>4
    <3>2. PICK j \in 1 .. n : StateAt(q[j], i, g) /\ q[j].state[2] = y
      BY <1>2, <3>1
    <3>3. j <= n
      BY <1>1
    <3>4. y <= hi[n]
      BY <2>2, <3>2, <3>3 DEF Bound
    <3> QED
      BY <2>2, <3>4
  <2> QED
    BY <2>3, <2>4
<1>17. StatesOf(i, q) = own[n]
  BY DEF StatesOf, own, n
<1> QED
  BY <1>1, <1>7, <1>15, <1>16, <1>17

-----------------------------------------------------------------------------
(* The invariant                                                           *)

\* What travels where, and numbers that are not 0.
KindsOK ==
  /\ \A i \in DOMAIN s_async_queue : s_async_queue[i].type \in {"BUFFER", "START"}
  /\ \A c \in Players : \A i \in DOMAIN toServer[c] : toServer[c][i].type \in {"PAD", "START", "STOP"}
  /\ \A c \in Players : \A i \in DOMAIN gui[c] : gui[c][i] = "start" => m_current_game[c] # 0
  /\ \A c \in Players : cpu[c] # "off" => session[c] # 0

\* A client is connected as long as the server knows it.
Members ==
  /\ \A c \in Players : link[c] = "up" <=> c \in s_players
  /\ \A c \in Players : c \notin s_players => toClient[c] = <<>>
  /\ \A i \in Pads : s_pad_map[i] \in s_players \cup {Nobody}

\* No message is of a game later than g.
NoLater(m, g) == (m.type = "START" => m.game <= g) /\ (m.type = "PAD" => m.state[1] <= g)
UpTo(q, g) == \A m \in In(q) : NoLater(m, g)

\* Nobody is ahead of the server, and the server announces its current game only.
Numbers ==
  /\ \A i \in DOMAIN s_async_queue : s_async_queue[i].type = "START" =>
       i = Len(s_async_queue) /\ s_async_queue[i].game = s_game
  /\ \A c \in Players : /\ m_current_game[c] <= s_game /\ session[c] <= s_game
                        /\ current_game[c] <= s_game
                        /\ UpTo(toClient[c], s_game) /\ UpTo(toServer[c], s_game)

\* The message announces, or answers the announcement of, game g.
StartOf(m, g) == m.type = "START" /\ m.game = g

\* Later announcements are of later games.
Ascending(q) ==
  \A i, j \in DOMAIN q : i < j /\ q[i].type = "START" /\ q[j].type = "START" => q[i].game < q[j].game

\* Nothing at client c belongs to game g yet.
Behind(c, g) ==
  /\ m_current_game[c] < g /\ session[c] < g /\ current_game[c] < g
  /\ \A m \in In(toServer[c]) : ~StartOf(m, g)

\* A client to which a game is still to be announced is behind.
Announced ==
  /\ HasStart(s_async_queue) => Host \in s_players
  /\ \A c \in s_players :
       /\ Ascending(toClient[c])
       /\ HasStart(s_async_queue) => UpTo(toClient[c], s_game - 1)
       /\ HasStart(s_async_queue) \/ HasStart(toClient[c]) => Behind(c, s_game)

\* The client plays when the GUI has done what it was asked for, and when all that the server has
\* sent him has arrived.
GuiPlays(c) ==
  HasLast(gui[c], "start", "stop") \/ (m_is_running[c] /\ Lacks(gui[c], "stop"))
Plays(c) == Ends(toClient[c]) \/ (NoStop(toClient[c]) /\ GuiPlays(c))

\* The host's buttons are disabled when all has arrived.
HostPlays ==
  \/ HasStart(s_async_queue) \/ Ends(toClient[Host])
  \/ NoStop(toClient[Host]) /\ ~startable

\* No client that plays is told to start: there is a stop in between.
Alternate ==
  \A c \in s_players :
    /\ Alternating(gui[c], "start", "stop")
    /\ m_is_running[c] => Before(gui[c], "stop", "start")
    /\ Alternates(toClient[c])
    /\ GuiPlays(c) => StopsFirst(toClient[c])
    /\ HasStart(s_async_queue) => ~Plays(c)

\* The host cannot start a game while somebody plays.
HostKnows ==
  /\ \A c \in s_players : Plays(c) => HostPlays
  /\ s_running => HostPlays

\* The last mapping that is on its way is the server's.
MapArrives(c) ==
  \/ \E i \in DOMAIN toClient[c] :
       /\ toClient[c][i].type = "MAPPING" /\ toClient[c][i].map = s_pad_map
       /\ \A j \in DOMAIN toClient[c] : i < j => toClient[c][j].type # "MAPPING"
  \/ /\ m_pad_map[c] = s_pad_map
     /\ \A j \in DOMAIN toClient[c] : toClient[c][j].type # "MAPPING"

Mapped ==
  /\ \A c \in Players : ports[c] = UpdateDevices(m_pad_map[c], c)
  /\ \A c \in s_players : MapArrives(c)
  /\ s_running => NoGaps(s_pad_map)

\* Client c has answered the announcement of the server's game.
HasSent(c) ==
  current_game[c] = s_game \/ \E m \in In(toServer[c]) : StartOf(m, s_game)

\* The message belongs to game g with this mapping, and is not a state of p himself.
Belongs(m, g, map, p) ==
  /\ m.type \in {"BUFFER", "MAPPING", "PAD"}
  /\ m.type = "MAPPING" => m.map = map
  /\ m.type = "PAD" => m.state[1] = g /\ map[m.pad] # p

\* The announcement has arrived; the GUI may still have to do its part.
InGame(c) ==
  /\ m_current_game[c] = s_game /\ m_pad_map[c] = s_pad_map
  /\ \A m \in In(toClient[c]) : Belongs(m, s_game, s_pad_map, c)
  /\ GuiPlays(c)
  /\ gui[c] = <<>> => session[c] = s_game
  /\ session[c] = s_game => HasSent(c)

\* Game g is announced in a queue to p, who has the mapping cur; the mapping of the game comes before,
\* and what belongs to the game after it.
Tells(q, cur, g, map, p) ==
  \E j \in DOMAIN q :
    /\ StartOf(q[j], g)
    /\ \A k \in DOMAIN q : j < k => Belongs(q[k], g, map, p)
    /\ \/ \E i \in DOMAIN q : /\ i < j /\ q[i].type = "MAPPING" /\ q[i].map = map
                              /\ \A k \in DOMAIN q : i < k /\ k < j => q[k].type # "MAPPING"
       \/ cur = map /\ \A k \in DOMAIN q : k < j => q[k].type # "MAPPING"
Told(c) == Tells(toClient[c], m_pad_map[c], s_game, s_pad_map, c)

\* While the game runs, it is still to be announced to a client, or the client is in it.
Joining == s_running => \A c \in s_players : HasStart(s_async_queue) \/ Told(c) \/ InGame(c)

\* A client's answer separates his states of other games from those of this game, which are
\* states of his own pads.
Answers(p) ==
  \A j \in DOMAIN toServer[p] :
    /\ toServer[p][j].type = "PAD" /\ toServer[p][j].state[1] = s_game =>
         /\ s_pad_map[toServer[p][j].pad] = p
         /\ \/ current_game[p] = s_game
            \/ \E i \in DOMAIN toServer[p] : i < j /\ StartOf(toServer[p][i], s_game)
    /\ \/ toServer[p][j].type = "PAD" /\ toServer[p][j].state[1] # s_game
       \/ toServer[p][j].type = "START" /\ toServer[p][j].game # s_game
       => /\ current_game[p] # s_game
          /\ \A i \in DOMAIN toServer[p] : i < j => ~StartOf(toServer[p][i], s_game)

Answered == s_running => \A p \in s_players : Answers(p) /\ (HasSent(p) => session[p] = s_game)

\* The GUI is asked once to start the game, and not by a machine that plays it.
Once(q, a) == \A i, j \in DOMAIN q : q[i] = a /\ q[j] = a => i = j
StartsOnce ==
  \A c \in s_players : m_current_game[c] = s_game /\ InStep(c) =>
    Once(gui[c], "start") /\ (session[c] = s_game => Lacks(gui[c], "start"))

\* How many states of pad i machine c has taken in this game, those it has received and not taken,
\* and how many its user has given.
Taken(c, i) == IF session[c] = s_game THEN polled[c] + (IF slot[c] > i THEN 1 ELSE 0) ELSE 0
Held(c, i) == IF session[c] = s_game THEN m_pad_buffer[c][i] ELSE <<>>
Given(d, i) == IF session[d] = s_game THEN pushed[d][i] ELSE 0

\* The states of pad i that its owner d has given and c has not taken: some are in the buffer
\* of c, the next on the way to him, the last on the way to the server.
OnItsWay(c, d, i) ==
  \E x, y \in Nat :
    /\ Taken(c, i) <= x /\ x <= y /\ y <= Given(d, i)
    /\ Held(c, i) = Run(s_game, Taken(c, i), x)
    /\ c = d => x = Given(d, i)
    /\ c # d => /\ Carries(toClient[c], i, s_game, x, y)
                /\ Carries(toServer[d], i, s_game, y, Given(d, i))

Flow ==
  s_running => \A c \in s_players : InStep(c) =>
    /\ session[c] = s_game /\ (slot[c] # 0 \/ cpu[c] = "take") => slot[c] \in ports[c]
    /\ \A i \in Pads : \A d \in s_players : InStep(d) /\ s_pad_map[i] = d => OnItsWay(c, d, i)

IInv ==
  /\ TypeOK /\ KindsOK /\ Members /\ Numbers /\ Announced /\ Alternate /\ HostKnows
  /\ Mapped /\ Joining /\ Answered /\ StartsOnce /\ Flow

-----------------------------------------------------------------------------
(* The steps, one for each case of an action, with what they change        *)

\* The host starts a game.
Starts ==
  /\ HostIsIdle /\ s_game < MaxGames /\ s_players = Players /\ NoGaps(s_pad_map)
  /\ s_game' = s_game + 1 /\ s_running' = TRUE
  /\ s_async_queue' = Append(Append(s_async_queue, Buffer(s_target)), Start(s_game'))
  /\ UNCHANGED <<s_players, s_pad_map, s_target, current_game, startable, toServer,
                 toClient, link, m_current_game, m_is_running, m_pad_map,
                 m_target_buffer_size, m_pad_buffer, netplay_client, disabling, gui, ports,
                 cpu, slot, stopping, session, pushed, polled>>

\* The host assigns pads.
Assigns(map) ==
  /\ HostIsIdle /\ map \in PadMaps /\ \A i \in Pads : map[i] \in s_players \cup {Nobody}
  /\ s_pad_map' = map
  /\ toClient' = [c \in Players |-> IF c \in s_players THEN Append(toClient[c], Mapping(map))
                                    ELSE toClient[c]]
  /\ UNCHANGED <<s_players, s_target, s_game, s_running, s_async_queue, current_game,
                 startable, toServer, link, m_current_game, m_is_running, m_pad_map,
                 m_target_buffer_size, m_pad_buffer, netplay_client, disabling, gui, ports,
                 cpu, slot, stopping, session, pushed, polled>>

\* The host changes the size of the buffer.
Adjusts(n) ==
  /\ n \in Targets /\ Arrived
  /\ s_target' = n /\ s_async_queue' = Append(s_async_queue, Buffer(n))
  /\ UNCHANGED <<s_players, s_pad_map, s_game, s_running, current_game, startable,
                 toServer, toClient, link, m_current_game, m_is_running, m_pad_map,
                 m_target_buffer_size, m_pad_buffer, netplay_client, disabling, gui, ports,
                 cpu, slot, stopping, session, pushed, polled>>

\* The server sends what is in its queue.
Sends ==
  /\ s_async_queue # <<>>
  /\ toClient' = [c \in Players |-> IF c \in s_players THEN Append(toClient[c], Head(s_async_queue))
                                    ELSE toClient[c]]
  /\ s_async_queue' = Tail(s_async_queue)
  /\ UNCHANGED <<s_players, s_pad_map, s_target, s_game, s_running, current_game,
                 startable, toServer, link, m_current_game, m_is_running, m_pad_map,
                 m_target_buffer_size, m_pad_buffer, netplay_client, disabling, gui, ports,
                 cpu, slot, stopping, session, pushed, polled>>

\* A player joins.
Joins(p) ==
  /\ p \in Players \ s_players /\ ~s_running /\ Arrived /\ gui[p] = <<>> /\ cpu[p] = "off"
  /\ s_players' = s_players \cup {p}
  /\ s_pad_map' \in PadMaps /\ \A i \in Pads : s_pad_map'[i] \in {s_pad_map[i], p}
  /\ toClient' = [c \in Players |->
       IF c = p THEN <<Buffer(s_target), Mapping(s_pad_map')>>
       ELSE IF c \in s_players THEN Append(toClient[c], Mapping(s_pad_map')) ELSE toClient[c]]
  /\ toServer' = [toServer EXCEPT ![p] = <<>>] /\ link' = [link EXCEPT ![p] = "up"]
  /\ m_is_running' = [m_is_running EXCEPT ![p] = FALSE]
  /\ m_pad_buffer' = [m_pad_buffer EXCEPT ![p] = Empty]
  /\ UNCHANGED <<s_target, s_game, s_running, s_async_queue, current_game, startable,
                 m_current_game, m_pad_map, m_target_buffer_size, netplay_client,
                 disabling, gui, ports, cpu, slot, stopping, session, pushed, polled>>

\* A player leaves, or is thrown out.
Leaves(p) ==
  /\ p \in s_players
  /\ s_players' = s_players \ {p}
  /\ s_running' = (s_running /\ ~(p # Host /\ \E i \in Pads : s_pad_map[i] = p))
  /\ s_pad_map' = [i \in Pads |-> IF s_pad_map[i] = p THEN Nobody ELSE s_pad_map[i]]
  /\ toClient' = [c \in Players |->
       IF c = p THEN <<>>
       ELSE IF c \in s_players
            THEN IF s_running /\ ~s_running' /\ c # Host
                 THEN Append(Append(toClient[c], Disable), Mapping(s_pad_map'))
                 ELSE Append(toClient[c], Mapping(s_pad_map'))
       ELSE toClient[c]]
  /\ toServer' = [toServer EXCEPT ![p] = <<>>] /\ link' = [link EXCEPT ![p] = "lost"]
  /\ UNCHANGED <<s_target, s_game, s_async_queue, current_game, startable, m_current_game,
                 m_is_running, m_pad_map, m_target_buffer_size, m_pad_buffer,
                 netplay_client, disabling, gui, ports, cpu, slot, stopping, session,
                 pushed, polled>>

\* A state of another game reaches the server.
Ignores(p) ==
  /\ p \in s_players /\ toServer[p] # <<>> /\ Head(toServer[p]).type = "PAD" /\ current_game[p] # s_game
  /\ toServer' = [toServer EXCEPT ![p] = Tail(@)]
  /\ UNCHANGED <<s_players, s_pad_map, s_target, s_game, s_running, s_async_queue,
                 current_game, startable, toClient, link, m_current_game, m_is_running,
                 m_pad_map, m_target_buffer_size, m_pad_buffer, netplay_client, disabling,
                 gui, ports, cpu, slot, stopping, session, pushed, polled>>

\* A state reaches the server, and is sent to the others.
Relays(p) ==
  /\ p \in s_players /\ toServer[p] # <<>> /\ Head(toServer[p]).type = "PAD"
  /\ current_game[p] = s_game /\ s_pad_map[Head(toServer[p]).pad] = p
  /\ toClient' = [c \in Players |-> IF c \in s_players \ {p} THEN Append(toClient[c], Head(toServer[p]))
                                    ELSE toClient[c]]
  /\ toServer' = [toServer EXCEPT ![p] = Tail(@)]
  /\ UNCHANGED <<s_players, s_pad_map, s_target, s_game, s_running, s_async_queue,
                 current_game, startable, link, m_current_game, m_is_running, m_pad_map,
                 m_target_buffer_size, m_pad_buffer, netplay_client, disabling, gui, ports,
                 cpu, slot, stopping, session, pushed, polled>>

\* An answer to an announcement reaches the server.
HearsStart(p) ==
  /\ p \in s_players /\ toServer[p] # <<>> /\ Head(toServer[p]).type = "START"
  /\ current_game' = [current_game EXCEPT ![p] = Head(toServer[p]).game]
  /\ toServer' = [toServer EXCEPT ![p] = Tail(@)]
  /\ UNCHANGED <<s_players, s_pad_map, s_target, s_game, s_running, s_async_queue,
                 startable, toClient, link, m_current_game, m_is_running, m_pad_map,
                 m_target_buffer_size, m_pad_buffer, netplay_client, disabling, gui, ports,
                 cpu, slot, stopping, session, pushed, polled>>

\* A stop reaches the server.
HearsStop(p) ==
  /\ p \in s_players /\ toServer[p] # <<>> /\ Head(toServer[p]).type = "STOP"
  /\ toClient' = [c \in Players |-> IF c \in s_players THEN Append(toClient[c], Stop) ELSE toClient[c]]
  /\ s_running' = FALSE
  /\ toServer' = [toServer EXCEPT ![p] = Tail(@)]
  /\ UNCHANGED <<s_players, s_pad_map, s_target, s_game, s_async_queue, current_game,
                 startable, link, m_current_game, m_is_running, m_pad_map,
                 m_target_buffer_size, m_pad_buffer, netplay_client, disabling, gui, ports,
                 cpu, slot, stopping, session, pushed, polled>>

\* A client gets a state.
GetsState(c) ==
  /\ c \in Players /\ link[c] = "up" /\ toClient[c] # <<>> /\ Head(toClient[c]).type = "PAD"
  /\ toClient' = [toClient EXCEPT ![c] = Tail(@)]
  /\ m_pad_buffer' = [m_pad_buffer EXCEPT ![c][Head(toClient[c]).pad] = Append(@, Head(toClient[c]).state)]
  /\ Head(toClient[c]).state[1] # session[c] => <<c, Head(toClient[c]).state[1]>> \in overtaken'
  /\ UNCHANGED <<s_players, s_pad_map, s_target, s_game, s_running, s_async_queue,
                 current_game, startable, toServer, link, m_current_game, m_is_running,
                 m_pad_map, m_target_buffer_size, netplay_client, disabling, gui, ports,
                 cpu, slot, stopping, session, pushed, polled>>

\* A client gets a mapping.
GetsMap(c) ==
  /\ c \in Players /\ link[c] = "up" /\ toClient[c] # <<>> /\ Head(toClient[c]).type = "MAPPING"
  /\ toClient' = [toClient EXCEPT ![c] = Tail(@)]
  /\ m_pad_map' = [m_pad_map EXCEPT ![c] = Head(toClient[c]).map]
  /\ ports' = [ports EXCEPT ![c] = UpdateDevices(Head(toClient[c]).map, c)]
  /\ UNCHANGED <<s_players, s_pad_map, s_target, s_game, s_running, s_async_queue,
                 current_game, startable, toServer, link, m_current_game, m_is_running,
                 m_target_buffer_size, m_pad_buffer, netplay_client, disabling, gui, cpu,
                 slot, stopping, session, pushed, polled>>

\* A client gets the size of the buffer.
GetsSize(c) ==
  /\ c \in Players /\ link[c] = "up" /\ toClient[c] # <<>> /\ Head(toClient[c]).type = "BUFFER"
  /\ toClient' = [toClient EXCEPT ![c] = Tail(@)]
  /\ m_target_buffer_size' = [m_target_buffer_size EXCEPT ![c] = Head(toClient[c]).size]
  /\ UNCHANGED <<s_players, s_pad_map, s_target, s_game, s_running, s_async_queue,
                 current_game, startable, toServer, link, m_current_game, m_is_running,
                 m_pad_map, m_pad_buffer, netplay_client, disabling, gui, ports, cpu, slot,
                 stopping, session, pushed, polled>>

\* A client gets an announcement.
GetsStart(c) ==
  /\ c \in Players /\ link[c] = "up" /\ toClient[c] # <<>> /\ Head(toClient[c]).type = "START"
  /\ toClient' = [toClient EXCEPT ![c] = Tail(@)]
  /\ m_current_game' = [m_current_game EXCEPT ![c] = Head(toClient[c]).game]
  /\ gui' = [gui EXCEPT ![c] = Append(@, "start")]
  /\ startable' = (startable /\ c # Host)
  /\ Has(gui[c], "start") => <<c, Head(toClient[c]).game>> \in overtaken'
  /\ UNCHANGED <<s_players, s_pad_map, s_target, s_game, s_running, s_async_queue,
                 current_game, toServer, link, m_is_running, m_pad_map,
                 m_target_buffer_size, m_pad_buffer, netplay_client, disabling, ports, cpu,
                 slot, stopping, session, pushed, polled>>

\* A client gets a stop.
GetsStop(c) ==
  /\ c \in Players /\ link[c] = "up" /\ toClient[c] # <<>> /\ Head(toClient[c]).type = "STOP"
  /\ toClient' = [toClient EXCEPT ![c] = Tail(@)]
  /\ gui' = [gui EXCEPT ![c] = Append(@, "stop")]
  /\ startable' = (startable \/ c = Host)
  /\ UNCHANGED <<s_players, s_pad_map, s_target, s_game, s_running, s_async_queue,
                 current_game, toServer, link, m_current_game, m_is_running, m_pad_map,
                 m_target_buffer_size, m_pad_buffer, netplay_client, disabling, ports, cpu,
                 slot, stopping, session, pushed, polled>>

\* A client is told to go on without NetPlay.
GetsDisable(c) ==
  /\ c \in Players /\ link[c] = "up" /\ toClient[c] # <<>> /\ Head(toClient[c]).type = "DISABLE"
  /\ toClient' = [toClient EXCEPT ![c] = Tail(@)]
  /\ m_is_running' = [m_is_running EXCEPT ![c] = FALSE]
  /\ disabling' = [disabling EXCEPT ![c] = @ \cup {"net"}]
  /\ UNCHANGED <<s_players, s_pad_map, s_target, s_game, s_running, s_async_queue,
                 current_game, startable, toServer, link, m_current_game, m_pad_map,
                 m_target_buffer_size, m_pad_buffer, netplay_client, gui, ports, cpu, slot,
                 stopping, session, pushed, polled>>

\* A client has lost the connection.
Loses(c) ==
  /\ c \in Players /\ link[c] = "lost"
  /\ link' = [link EXCEPT ![c] = "none"]
  /\ m_is_running' = [m_is_running EXCEPT ![c] = FALSE]
  /\ disabling' = [disabling EXCEPT ![c] = @ \cup {"net"}]
  /\ UNCHANGED <<s_players, s_pad_map, s_target, s_game, s_running, s_async_queue,
                 current_game, startable, toServer, toClient, m_current_game, m_pad_map,
                 m_target_buffer_size, m_pad_buffer, netplay_client, gui, ports, cpu, slot,
                 stopping, session, pushed, polled>>

\* A client's thread lets go of NetPlay.
Disables(c, thread) ==
  /\ c \in Players /\ thread \in disabling[c]
  /\ netplay_client' = [netplay_client EXCEPT ![c] = FALSE]
  /\ disabling' = [disabling EXCEPT ![c] = @ \ {thread}]
  /\ stopping' = [stopping EXCEPT ![c] = @ \/ (thread = "gui" /\ cpu[c] # "off")]
  /\ UNCHANGED <<s_players, s_pad_map, s_target, s_game, s_running, s_async_queue,
                 current_game, startable, toServer, toClient, link, m_current_game,
                 m_is_running, m_pad_map, m_target_buffer_size, m_pad_buffer, gui, ports,
                 cpu, slot, session, pushed, polled>>

\* The GUI starts the machine.
StartsMachine(c) ==
  /\ c \in Players /\ gui[c] # <<>> /\ Head(gui[c]) = "start" /\ ~m_is_running[c] /\ cpu[c] = "off"
  /\ gui' = [gui EXCEPT ![c] = Tail(@)]
  /\ toServer' = IF link[c] = "up" THEN [toServer EXCEPT ![c] = Append(@, Start(m_current_game[c]))] ELSE toServer
  /\ m_is_running' = [m_is_running EXCEPT ![c] = TRUE]
  /\ netplay_client' = [netplay_client EXCEPT ![c] = TRUE]
  /\ m_pad_buffer' = [m_pad_buffer EXCEPT ![c] = Empty]
  /\ ports' = [ports EXCEPT ![c] = UpdateDevices(m_pad_map[c], c)]
  /\ cpu' = [cpu EXCEPT ![c] = "guest"] /\ slot' = [slot EXCEPT ![c] = 0]
  /\ stopping' = [stopping EXCEPT ![c] = FALSE]
  /\ session' = [session EXCEPT ![c] = m_current_game[c]]
  /\ pushed' = [pushed EXCEPT ![c] = Zero] /\ polled' = [polled EXCEPT ![c] = 0]
  /\ UNCHANGED <<s_players, s_pad_map, s_target, s_game, s_running, s_async_queue,
                 current_game, startable, toClient, link, m_current_game, m_pad_map,
                 m_target_buffer_size, disabling>>

\* The GUI answers an announcement while the machine runs.
StartsAgain(c) ==
  /\ c \in Players /\ gui[c] # <<>> /\ Head(gui[c]) = "start" /\ m_is_running[c]
  /\ gui' = [gui EXCEPT ![c] = Tail(@)]
  /\ toServer' = IF link[c] = "up" THEN [toServer EXCEPT ![c] = Append(@, Start(m_current_game[c]))] ELSE toServer
  /\ UNCHANGED <<s_players, s_pad_map, s_target, s_game, s_running, s_async_queue,
                 current_game, startable, toClient, link, m_current_game, m_is_running,
                 m_pad_map, m_target_buffer_size, m_pad_buffer, netplay_client, disabling,
                 ports, cpu, slot, stopping, session, pushed, polled>>

\* The GUI stops the machine.
StopsMachine(c) ==
  /\ c \in Players /\ gui[c] # <<>> /\ Head(gui[c]) = "stop"
  /\ gui' = [gui EXCEPT ![c] = Tail(@)]
  /\ m_is_running' = [m_is_running EXCEPT ![c] = FALSE]
  /\ disabling' = [disabling EXCEPT ![c] = IF m_is_running[c] THEN @ \cup {"gui"} ELSE @]
  /\ UNCHANGED <<s_players, s_pad_map, s_target, s_game, s_running, s_async_queue,
                 current_game, startable, toServer, toClient, link, m_current_game,
                 m_pad_map, m_target_buffer_size, m_pad_buffer, netplay_client, ports, cpu,
                 slot, stopping, session, pushed, polled>>

\* The user stops his machine.
Quits(c) ==
  /\ c \in Players
  /\ stopping' = [stopping EXCEPT ![c] = TRUE]
  /\ \/ toServer' = toServer
     \/ link[c] = "up" /\ toServer' = [toServer EXCEPT ![c] = Append(@, Stop)]
  /\ UNCHANGED <<s_players, s_pad_map, s_target, s_game, s_running, s_async_queue,
                 current_game, startable, toClient, link, m_current_game, m_is_running,
                 m_pad_map, m_target_buffer_size, m_pad_buffer, netplay_client, disabling,
                 gui, ports, cpu, slot, session, pushed, polled>>

\* How many states of pad i the poll of port s adds.
Missing(c, s, i) ==
  IF i \in LocalPadToInGamePad(c, s) /\ Len(m_pad_buffer[c][i]) <= m_target_buffer_size[c]
  THEN m_target_buffer_size[c] + 1 - Len(m_pad_buffer[c][i]) ELSE 0

\* The states, and the messages that carry them.
Added(c, i, n) == [k \in 1 .. n |-> <<session[c], pushed[c][i] + k>>]
AddedMsgs(c, i, n) == [k \in 1 .. n |-> [type |-> "PAD", pad |-> i, state |-> <<session[c], pushed[c][i] + k>>]]

\* The guest polls port s.
Polls(c, s) ==
  /\ c \in Players /\ cpu[c] = "guest"
  /\ s \in ports[c] /\ s >= slot[c] /\ \A t \in ports[c] : t >= slot[c] => s <= t
  /\ slot' = [slot EXCEPT ![c] = s] /\ cpu' = [cpu EXCEPT ![c] = "take"]
  /\ m_pad_buffer' = [m_pad_buffer EXCEPT ![c] = [i \in Pads |-> @[i] \o Added(c, i, Missing(c, s, i))]]
  /\ pushed' = [pushed EXCEPT ![c] = [i \in Pads |-> @[i] + Missing(c, s, i)]]
  /\ \/ LocalPadToInGamePad(c, s) = {} /\ toServer' = toServer
     \/ \E i \in LocalPadToInGamePad(c, s) :
          toServer' = IF link[c] = "up"
                      THEN [toServer EXCEPT ![c] = @ \o AddedMsgs(c, i, Missing(c, s, i))] ELSE toServer
  /\ UNCHANGED <<s_players, s_pad_map, s_target, s_game, s_running, s_async_queue,
                 current_game, startable, toClient, link, m_current_game, m_is_running,
                 m_pad_map, m_target_buffer_size, netplay_client, disabling, gui, ports,
                 stopping, session, polled>>

\* The poll takes a state.
Takes(c) ==
  /\ c \in Players /\ cpu[c] = "take" /\ m_pad_buffer[c][slot[c]] # <<>>
  /\ m_pad_buffer' = [m_pad_buffer EXCEPT ![c][slot[c]] = Tail(@)]
  /\ cpu' = [cpu EXCEPT ![c] = "guest"]
  /\ \/ (\A t \in ports[c] : t <= slot[c]) /\ slot' = [slot EXCEPT ![c] = 0]
        /\ polled' = [polled EXCEPT ![c] = @ + 1]
     \/ (\E t \in ports[c] : t > slot[c]) /\ slot' = [slot EXCEPT ![c] = @ + 1] /\ polled' = polled
  /\ UNCHANGED <<s_players, s_pad_map, s_target, s_game, s_running, s_async_queue,
                 current_game, startable, toServer, toClient, link, m_current_game,
                 m_is_running, m_pad_map, m_target_buffer_size, netplay_client, disabling,
                 gui, ports, stopping, session, pushed>>

\* The poll returns without a state.
TakesNothing(c) ==
  /\ c \in Players /\ cpu[c] = "take" /\ ~m_is_running[c]
  /\ cpu' = [cpu EXCEPT ![c] = "guest"]
  /\ \/ (\A t \in ports[c] : t <= slot[c]) /\ slot' = [slot EXCEPT ![c] = 0]
        /\ polled' = [polled EXCEPT ![c] = @ + 1]
     \/ (\E t \in ports[c] : t > slot[c]) /\ slot' = [slot EXCEPT ![c] = @ + 1] /\ polled' = polled
  /\ UNCHANGED <<s_players, s_pad_map, s_target, s_game, s_running, s_async_queue,
                 current_game, startable, toServer, toClient, link, m_current_game,
                 m_is_running, m_pad_map, m_target_buffer_size, m_pad_buffer,
                 netplay_client, disabling, gui, ports, stopping, session, pushed>>

\* The machine is off.
TurnsOff(c) ==
  /\ c \in Players /\ cpu[c] = "guest"
  /\ cpu' = [cpu EXCEPT ![c] = "off"] /\ stopping' = [stopping EXCEPT ![c] = FALSE]
  /\ UNCHANGED <<s_players, s_pad_map, s_target, s_game, s_running, s_async_queue,
                 current_game, startable, toServer, toClient, link, m_current_game,
                 m_is_running, m_pad_map, m_target_buffer_size, m_pad_buffer,
                 netplay_client, disabling, gui, ports, slot, session, pushed, polled>>

LEMMA HostSteps ==
  ASSUME TypeOK
  PROVE  /\ HostGUI => Starts \/ (\E map \in PadMaps : Assigns(map)) \/ (\E n \in Targets : Adjusts(n))
         /\ SendAsyncToClients => Sends
<1> USE DEF server, channels, settings, runState, machine
<1>1. ASSUME HostIsIdle, s_game < MaxGames, s_players = Players, NoGaps(s_pad_map), StartGame PROVE Starts
  <2>1. Buffer(s_target) \in Messages /\ s_game + 1 \in 1 .. MaxGames
    BY <1>1, NewMessages, NetPlayAssumption DEF TypeOK
  <2>2. Start(s_game + 1) \in Messages
    BY <2>1, NewMessages
  <2> DEFINE b == Buffer(s_target)
             m == Start(s_game + 1)
  <2> HIDE DEF b, m
  <2>3. s_async_queue \o <<b, m>> = Append(Append(s_async_queue, b), m)
    BY <2>1, <2>2 DEF TypeOK, b, m
  <2>4. s_async_queue' = Append(Append(s_async_queue, Buffer(s_target)), Start(s_game'))
    BY <1>1, <2>3 DEF StartGame, b, m
  <2> QED
    BY <1>1, <2>4 DEF StartGame, Starts
<1>2. ASSUME HostIsIdle, NEW map \in Maps, \A i \in Pads : map[i] \in s_players \cup {Nobody}, SetPadMapping(map)
      PROVE  Assigns(map) /\ map \in PadMaps
  <2>1. map \in PadMaps
    BY NetPlayAssumption
  <2>2. \A c \in Players : toClient[c] \o <<Mapping(map)>> = Append(toClient[c], Mapping(map))
    BY <2>1, NewMessages, Appended DEF TypeOK
  <2>3. SendToClients(s_players, <<Mapping(map)>>) =
          [c \in Players |-> IF c \in s_players THEN Append(toClient[c], Mapping(map)) ELSE toClient[c]]
    BY <2>2 DEF SendToClients
  <2> QED
    BY <1>2, <2>1, <2>3 DEF SetPadMapping, Assigns
<1>3. ASSUME Arrived, NEW n \in Targets, AdjustPadBufferSize(n) PROVE Adjusts(n)
  BY <1>3 DEF AdjustPadBufferSize, Adjusts
<1>4. ASSUME SendAsyncToClients PROVE Sends
  <2>1. Head(s_async_queue) \in Messages
    BY <1>4 DEF SendAsyncToClients, TypeOK
  <2>2. \A c \in Players : toClient[c] \o <<Head(s_async_queue)>> = Append(toClient[c], Head(s_async_queue))
    BY <2>1, Appended DEF TypeOK
  <2>3. SendToClients(s_players, <<Head(s_async_queue)>>) =
          [c \in Players |-> IF c \in s_players THEN Append(toClient[c], Head(s_async_queue)) ELSE toClient[c]]
    BY <2>2 DEF SendToClients
  <2> QED
    BY <1>4, <2>3 DEF SendAsyncToClients, Sends
<1>5. ASSUME HostGUI
      PROVE  Starts \/ (\E map \in PadMaps : Assigns(map)) \/ (\E n \in Targets : Adjusts(n))
  <2>1. CASE HostIsIdle /\ s_game < MaxGames /\ s_players = Players /\ NoGaps(s_pad_map) /\ StartGame
    BY <1>1, <2>1
  <2>2. ASSUME HostIsIdle, NEW map \in Maps, \A i \in Pads : map[i] \in s_players \cup {Nobody},
               SetPadMapping(map)
        PROVE  \E m \in PadMaps : Assigns(m)
    BY <1>2, <2>2
  <2>3. ASSUME Arrived, NEW n \in Targets, AdjustPadBufferSize(n) PROVE \E m \in Targets : Adjusts(m)
    BY <1>3, <2>3
  <2> QED
    BY <1>5, <2>1, <2>2, <2>3 DEF HostGUI
<1> QED
  BY <1>4, <1>5

LEMMA MemberSteps ==
  ASSUME TypeOK, NEW p \in Players
  PROVE  /\ OnConnect(p) => Joins(p)
         /\ Disconnect(p) => Leaves(p) /\ p # Host
         /\ OnData(p) => \/ Ignores(p) \/ Relays(p) \/ HearsStart(p) \/ HearsStop(p)
                         \/ Leaves(p) /\ toServer[p] # <<>> /\ Head(toServer[p]).type = "PAD"
                            /\ current_game[p] = s_game /\ s_pad_map[Head(toServer[p]).pad] # p
<1> USE DEF server, channels, settings, runState, machine
<1>1. ASSUME OnConnect(p) PROVE Joins(p)
  <2> DEFINE map == [i \in Pads |->
       IF s_pad_map[i] = Nobody /\ \A j \in Pads : j < i => s_pad_map[j] # Nobody
       THEN p ELSE s_pad_map[i]]
  <2>1. s_pad_map' = map /\ map \in PadMaps
    BY <1>1 DEF OnConnect, TypeOK, PadMaps
  <2>2. \A i \in Pads : map[i] \in {s_pad_map[i], p}
    OBVIOUS
  <2> HIDE DEF map
  <2>3. \A c \in Players : toClient[c] \o <<Mapping(map)>> = Append(toClient[c], Mapping(map))
    BY <2>1, NewMessages, Appended DEF TypeOK
  <2>4. [SendToClients(s_players, <<Mapping(map)>>) EXCEPT ![p] = <<Buffer(s_target), Mapping(map)>>] =
        [c \in Players |->
           IF c = p THEN <<Buffer(s_target), Mapping(map)>>
           ELSE IF c \in s_players THEN Append(toClient[c], Mapping(map)) ELSE toClient[c]]
    BY <2>3 DEF SendToClients
  <2> QED
    BY <1>1, <2>1, <2>2, <2>4 DEF OnConnect, Joins
<1>2. ASSUME p \in s_players, OnDisconnect(p), UNCHANGED <<startable, settings, runState, m_pad_buffer, machine>>
      PROVE  Leaves(p)
  <2> DEFINE map == [i \in Pads |-> IF s_pad_map[i] = p THEN Nobody ELSE s_pad_map[i]]
             inGame == s_running /\ p # Host /\ \E i \in Pads : s_pad_map[i] = p
  <2>1. s_pad_map' = map /\ map \in PadMaps
    BY <1>2 DEF OnDisconnect, TypeOK, PadMaps
  <2>2. s_running' = (s_running /\ ~inGame)
    BY <1>2 DEF OnDisconnect
  <2>3. s_running' = (s_running /\ ~(p # Host /\ \E i \in Pads : s_pad_map[i] = p))
    BY <2>2
  <2>4. inGame <=> s_running /\ ~s_running'
    BY <2>2
  <2>5. toClient' = [c \in Players |->
       IF c = p THEN <<>>
       ELSE IF c \in s_players \ {p}
       THEN toClient[c] \o [d \in Players |-> IF inGame /\ d # Host THEN <<Disable>> ELSE <<>>][c] \o <<Mapping(map)>>
       ELSE toClient[c]]
    BY <1>2, <2>1 DEF OnDisconnect
  <2> HIDE DEF map, inGame
  <2>6. ASSUME NEW c \in Players
        PROVE  toClient'[c] =
       IF c = p THEN <<>>
       ELSE IF c \in s_players
            THEN IF s_running /\ ~s_running' /\ c # Host
                 THEN Append(Append(toClient[c], Disable), Mapping(map))
                 ELSE Append(toClient[c], Mapping(map))
       ELSE toClient[c]
    <3>1. toClient[c] \in Seq(Messages) /\ Disable \in Messages /\ Mapping(map) \in Messages
      BY <2>1, NewMessages DEF TypeOK
    <3> DEFINE d == Disable
               m == Mapping(map)
               q == toClient[c]
    <3> HIDE DEF d, m, q
    <3>2. q \o <<d>> \o <<m>> = Append(Append(q, d), m)
      BY <3>1 DEF q, d, m
    <3>3. q \o <<>> \o <<m>> = Append(q, m)
      BY <3>1 DEF q, d, m
    <3>4. toClient'[c] = IF c = p THEN <<>>
            ELSE IF c \in s_players \ {p}
            THEN q \o (IF inGame /\ c # Host THEN <<d>> ELSE <<>>) \o <<m>>
            ELSE q
      BY <2>5 DEF q, d, m
    <3>5. CASE inGame /\ c # Host
      BY <2>4, <3>2, <3>4, <3>5 DEF q, d, m
    <3>6. CASE ~(inGame /\ c # Host)
      BY <2>4, <3>3, <3>4, <3>6 DEF q, d, m
    <3> QED
      BY <3>5, <3>6
  <2>7. toClient' = [c \in Players |->
       IF c = p THEN <<>>
       ELSE IF c \in s_players
            THEN IF s_running /\ ~s_running' /\ c # Host
                 THEN Append(Append(toClient[c], Disable), Mapping(s_pad_map'))
                 ELSE Append(toClient[c], Mapping(s_pad_map'))
       ELSE toClient[c]]
    <3>1. toClient' = [c \in Players |-> toClient'[c]]
      BY <2>5
    <3> QED
      BY <2>1, <2>6, <3>1
  <2> QED
    BY <1>2, <2>1, <2>3, <2>7 DEF OnDisconnect, Leaves, map
<1>3. ASSUME Disconnect(p) PROVE Leaves(p) /\ p # Host
  <2>1. p \in s_players /\ p \in Leavers
    BY <1>3 DEF Disconnect
  <2>2. p # Host
    BY <2>1, NetPlayAssumption
  <2> QED
    BY <1>2, <1>3, <2>1, <2>2 DEF Disconnect
<1>4. ASSUME OnData(p)
      PROVE  \/ Ignores(p) \/ Relays(p) \/ HearsStart(p) \/ HearsStop(p)
             \/ Leaves(p) /\ toServer[p] # <<>> /\ Head(toServer[p]).type = "PAD"
                /\ current_game[p] = s_game /\ s_pad_map[Head(toServer[p]).pad] # p
  <2> DEFINE msg == Head(toServer[p])
  <2>1. p \in s_players /\ toServer[p] # <<>> /\ msg \in Messages
    BY <1>4 DEF OnData, TypeOK
  <2>2. UNCHANGED <<s_target, s_game, s_async_queue, startable, settings, runState, m_pad_buffer, machine>>
    BY <1>4 DEF OnData
  <2>3. \A S \in SUBSET Players : \A m \in Messages :
          SendToClients(S, <<m>>) = [c \in Players |-> IF c \in S THEN Append(toClient[c], m) ELSE toClient[c]]
    <3>1. \A c \in Players : \A m \in Messages : toClient[c] \o <<m>> = Append(toClient[c], m)
      BY Appended DEF TypeOK
    <3> QED
      BY <3>1 DEF SendToClients
  <2>4. Stop \in Messages /\ s_players \subseteq Players /\ s_players \ {p} \subseteq Players
    BY NewMessages DEF TypeOK
  <2> HIDE DEF msg
  <2>5. ASSUME msg.type = "PAD", OnPadData(p, msg), UNCHANGED current_game
        PROVE  \/ Ignores(p) \/ Relays(p)
               \/ Leaves(p) /\ current_game[p] = s_game /\ s_pad_map[msg.pad] # p
    <3>1. CASE current_game[p] # s_game /\ toServer' = [toServer EXCEPT ![p] = Tail(@)]
               /\ UNCHANGED <<s_players, s_pad_map, s_running, toClient, link>>
      BY <2>1, <2>2, <2>5, <3>1 DEF Ignores, msg
    <3>2. CASE current_game[p] = s_game /\ s_pad_map[msg.pad] # p /\ OnDisconnect(p)
      BY <1>2, <2>1, <2>2, <3>2
    <3>3. CASE /\ current_game[p] = s_game /\ s_pad_map[msg.pad] = p
               /\ toClient' = SendToClients(s_players \ {p}, <<msg>>)
               /\ toServer' = [toServer EXCEPT ![p] = Tail(@)]
               /\ UNCHANGED <<s_players, s_pad_map, s_running, link>>
      <4>1. toClient' = [c \in Players |-> IF c \in s_players \ {p} THEN Append(toClient[c], msg)
                                                                  ELSE toClient[c]]
        BY <2>1, <2>3, <2>4, <3>3
      <4> QED
        BY <2>1, <2>2, <2>5, <3>3, <4>1 DEF Relays, msg
    <3> QED
      BY <2>5, <3>1, <3>2, <3>3 DEF OnPadData
  <2>6. ASSUME msg.type = "START", current_game' = [current_game EXCEPT ![p] = msg.game],
               toServer' = [toServer EXCEPT ![p] = Tail(@)],
               UNCHANGED <<s_players, s_pad_map, s_running, toClient, link>>
        PROVE  HearsStart(p)
    BY <2>1, <2>2, <2>6 DEF HearsStart, msg
  <2>7. ASSUME msg.type = "STOP", toClient' = SendToClients(s_players, <<Stop>>), s_running' = FALSE,
               toServer' = [toServer EXCEPT ![p] = Tail(@)],
               UNCHANGED <<s_players, s_pad_map, current_game, link>>
        PROVE  HearsStop(p)
    <3>1. toClient' = [c \in Players |-> IF c \in s_players THEN Append(toClient[c], Stop) ELSE toClient[c]]
      BY <2>3, <2>4, <2>7
    <3> QED
      BY <2>1, <2>2, <2>7, <3>1 DEF HearsStop, msg
  <2> QED
    BY <1>4, <2>1, <2>5, <2>6, <2>7 DEF OnData, msg
<1> QED
  BY <1>1, <1>3, <1>4

LEMMA ClientSteps ==
  ASSUME TypeOK, NEW c \in Players
  PROVE  /\ ClientOnData(c) => \/ GetsState(c) \/ GetsMap(c) \/ GetsSize(c)
                               \/ GetsStart(c) \/ GetsStop(c) \/ GetsDisable(c)
         /\ LostConnection(c) => Loses(c)
         /\ \A thread : NetPlay_Disable(c, thread) => Disables(c, thread)
         /\ StartMachine(c) => StartsMachine(c) \/ StartsAgain(c)
         /\ StopMachine(c) => StopsMachine(c)
         /\ UserStop(c) => Quits(c)
<1> USE DEF server, channels, settings, runState, machine
<1>1. ASSUME ClientOnData(c)
      PROVE  \/ GetsState(c) \/ GetsMap(c) \/ GetsSize(c)
             \/ GetsStart(c) \/ GetsStop(c) \/ GetsDisable(c)
  <2> DEFINE msg == Head(toClient[c])
  <2>1. /\ link[c] = "up" /\ toClient[c] # <<>> /\ toClient' = [toClient EXCEPT ![c] = Tail(@)]
        /\ Receive(c, msg) /\ UNCHANGED <<server, toServer, link, machine>>
        /\ overtaken' = overtaken \cup ({c} \X Early(c, msg))
    BY SMTT(40), <1>1 DEF ClientOnData
  <2>9. /\ msg.type = "PAD" /\ msg.state[1] # session[c] => <<c, msg.state[1]>> \in overtaken'
        /\ msg.type = "START" /\ Has(gui[c], "start") => <<c, msg.game>> \in overtaken'
    <3> DEFINE e == Early(c, msg)
    <3>1. \A g \in e : <<c, g>> \in overtaken'
      BY <2>1
    <3>2. /\ msg.type = "PAD" /\ msg.state[1] # session[c] => msg.state[1] \in e
          /\ msg.type = "START" /\ Has(gui[c], "start") => msg.game \in e
      BY DEF Early, Has
    <3> QED
      BY <3>1, <3>2
  <2>2. CASE msg.type = "PAD"
    BY ZenonT(90), <2>1, <2>2, <2>9 DEF Receive, GetsState
  <2>3. CASE msg.type = "MAPPING"
    BY SMTT(40), <2>1, <2>3 DEF Receive, GetsMap
  <2>4. CASE msg.type = "BUFFER"
    BY SMTT(40), <2>1, <2>4 DEF Receive, GetsSize
  <2>5. CASE msg.type = "START"
    BY SMTT(40), <2>1, <2>5, <2>9 DEF Receive, GetsStart
  <2>6. CASE msg.type = "STOP"
    BY SMTT(40), <2>1, <2>6 DEF Receive, GetsStop
  <2>7. CASE msg.type = "DISABLE"
    BY <2>1, <2>7 DEF Receive, GetsDisable
  <2>8. Receive(c, msg) => msg.type \in {"PAD", "MAPPING", "BUFFER", "START", "STOP", "DISABLE"}
    BY DEF Receive
  <2> QED
    BY <2>1, <2>2, <2>3, <2>4, <2>5, <2>6, <2>7, <2>8
<1>2. ASSUME LostConnection(c) PROVE Loses(c)
  BY <1>2 DEF LostConnection, Loses
<1>3. ASSUME NEW thread, NetPlay_Disable(c, thread) PROVE Disables(c, thread)
  BY <1>3 DEF NetPlay_Disable, Disables
<1>4. ASSUME StartMachine(c) PROVE StartsMachine(c) \/ StartsAgain(c)
  <2>1. CASE m_is_running[c]
    <3>1. StartsAgain(c)
      <4>1. toServer' = IF link[c] = "up" THEN [toServer EXCEPT ![c] = @ \o <<Start(m_current_game[c])>>]
                        ELSE toServer
        BY <1>4 DEF StartMachine, Send
      <4>2. toServer[c] \o <<Start(m_current_game[c])>> = Append(toServer[c], Start(m_current_game[c]))
        BY DEF TypeOK
      <4> QED
        BY <1>4, <2>1, <4>1, <4>2 DEF StartMachine, StartsAgain
    <3> QED
      BY <3>1
  <2>2. CASE ~m_is_running[c]
    <3>1. StartsMachine(c)
      <4>1. toServer' = IF link[c] = "up" THEN [toServer EXCEPT ![c] = @ \o <<Start(m_current_game[c])>>]
                        ELSE toServer
        BY <1>4 DEF StartMachine, Send
      <4>2. toServer[c] \o <<Start(m_current_game[c])>> = Append(toServer[c], Start(m_current_game[c]))
        BY DEF TypeOK
      <4> QED
        BY <1>4, <2>2, <4>1, <4>2 DEF StartMachine, StartsMachine
    <3> QED
      BY <3>1
  <2> QED
    BY <2>1, <2>2
<1>5. ASSUME StopMachine(c) PROVE StopsMachine(c)
  BY <1>5 DEF StopMachine, StopsMachine
<1>6. ASSUME UserStop(c) PROVE Quits(c)
  <2>1. toServer[c] \o <<Stop>> = Append(toServer[c], Stop)
    BY DEF TypeOK
  <2>2. toServer' = toServer \/ (link[c] = "up" /\ toServer' = [toServer EXCEPT ![c] = @ \o <<Stop>>])
    BY <1>6 DEF UserStop, Send
  <2> QED
    BY <1>6, <2>1, <2>2 DEF UserStop, Quits
<1> QED
  BY <1>1, <1>2, <1>3, <1>4, <1>5, <1>6

LEMMA MachineSteps ==
  ASSUME TypeOK, NEW c \in Players
  PROVE  /\ NetPlay_GetInput(c) => \E s \in Pads : Polls(c, s)
         /\ Pop(c) => Takes(c)
         /\ GiveUp(c) => TakesNothing(c)
         /\ PowerOff(c) => TurnsOff(c)
<1> USE DEF server, channels, settings, runState, machine
<1>0. ports[c] \subseteq Pads /\ slot[c] \in Pads /\ Pads \subseteq Int
  BY NetPlayAssumption DEF TypeOK, Pads
<1>1. ASSUME NetPlay_GetInput(c) PROVE \E s \in Pads : Polls(c, s)
  <2>1. PICK s \in ports[c] :
       /\ s >= slot[c] /\ \A t \in ports[c] : t >= slot[c] => s <= t
       /\ slot' = [slot EXCEPT ![c] = s]
       /\ m_pad_buffer' = [m_pad_buffer EXCEPT ![c] = [i \in Pads |-> @[i] \o Added(c, i, Missing(c, s, i))]]
       /\ pushed' = [pushed EXCEPT ![c] = [i \in Pads |-> @[i] + Missing(c, s, i)]]
       /\ IF LocalPadToInGamePad(c, s) = {} THEN UNCHANGED toServer
          ELSE LET i == CHOOSE j \in LocalPadToInGamePad(c, s) : TRUE IN
               Send(c, [k \in 1 .. Missing(c, s, i) |->
                          [type |-> "PAD", pad |-> i, state |-> Added(c, i, Missing(c, s, i))[k]]])
    BY <1>1 DEF NetPlay_GetInput, Missing, Added
  <2>2. \A i, n : [k \in 1 .. n |-> [type |-> "PAD", pad |-> i, state |-> Added(c, i, n)[k]]] = AddedMsgs(c, i, n)
    BY DEF Added, AddedMsgs
  <2>3. \/ LocalPadToInGamePad(c, s) = {} /\ toServer' = toServer
        \/ \E i \in LocalPadToInGamePad(c, s) :
             toServer' = IF link[c] = "up"
                         THEN [toServer EXCEPT ![c] = @ \o AddedMsgs(c, i, Missing(c, s, i))] ELSE toServer
    <3>1. CASE LocalPadToInGamePad(c, s) = {}
      BY <2>1, <3>1
    <3>2. CASE LocalPadToInGamePad(c, s) # {}
      <4> DEFINE i == CHOOSE j \in LocalPadToInGamePad(c, s) : TRUE
      <4>1. i \in LocalPadToInGamePad(c, s)
        BY <3>2
      <4>2. Send(c, [k \in 1 .. Missing(c, s, i) |->
                       [type |-> "PAD", pad |-> i, state |-> Added(c, i, Missing(c, s, i))[k]]])
        BY <2>1, <3>2
      <4> HIDE DEF i
      <4>3. Send(c, AddedMsgs(c, i, Missing(c, s, i)))
        BY <2>2, <4>2
      <4> QED
        BY <4>1, <4>3 DEF Send
    <3> QED
      BY <3>1, <3>2
  <2> HIDE DEF server, channels, settings, runState, machine
  <2>4. /\ cpu[c] = "guest" /\ cpu' = [cpu EXCEPT ![c] = "take"]
        /\ UNCHANGED <<server, startable, toClient, link, settings, runState, stopping, session, polled>>
    BY <1>1 DEF NetPlay_GetInput
  <2>5. Polls(c, s)
    BY <2>1, <2>3, <2>4 DEF Polls, server, channels, settings, runState, machine
  <2> QED
    BY <1>0, <2>5
<1>2. ASSUME Return(c)
      PROVE  /\ cpu' = [cpu EXCEPT ![c] = "guest"]
             /\ \/ (\A t \in ports[c] : t <= slot[c]) /\ slot' = [slot EXCEPT ![c] = 0]
                   /\ polled' = [polled EXCEPT ![c] = @ + 1]
                \/ (\E t \in ports[c] : t > slot[c]) /\ slot' = [slot EXCEPT ![c] = @ + 1] /\ polled' = polled
  <2>1. CASE \A t \in ports[c] : t <= slot[c]
    BY <1>2, <2>1 DEF Return
  <2>2. CASE ~ \A t \in ports[c] : t <= slot[c]
    <3>0. PICK t \in ports[c] : ~(t <= slot[c])
      BY <2>2
    <3>1. \E u \in ports[c] : u > slot[c]
      <4>0. t \in Int /\ slot[c] \in Int
        BY <1>0, <3>0
      <4> HIDE DEF server, channels, settings, runState, machine
      <4>1. t > slot[c]
        BY <3>0, <4>0
      <4> QED
        BY <4>1
    <3> QED
      BY <1>2, <2>2, <3>1 DEF Return, TypeOK
  <2> QED
    BY <2>1, <2>2
<1>3. ASSUME Pop(c) PROVE Takes(c)
  <2>1. Return(c)
    BY <1>3 DEF Pop
  <2> QED
    BY <1>2, <1>3, <2>1 DEF Pop, Takes
<1>4. ASSUME GiveUp(c) PROVE TakesNothing(c)
  <2>1. Return(c)
    BY <1>4 DEF GiveUp
  <2> QED
    BY <1>2, <1>4, <2>1 DEF GiveUp, TakesNothing
<1>5. ASSUME PowerOff(c) PROVE TurnsOff(c)
  BY <1>5 DEF PowerOff, TurnsOff
<1> QED
  BY <1>1, <1>3, <1>4, <1>5

\* Every step is one of these.
LEMMA Steps ==
  ASSUME TypeOK, [Next]_vars
  PROVE  \/ UNCHANGED vars
         \/ Starts \/ Sends
         \/ \E map \in PadMaps : Assigns(map)
         \/ \E n \in Targets : Adjusts(n)
         \/ \E c \in Players :
              \/ Joins(c)
              \/ Leaves(c) /\ c # Host
              \/ Leaves(c) /\ toServer[c] # <<>> /\ Head(toServer[c]).type = "PAD"
                 /\ current_game[c] = s_game /\ s_pad_map[Head(toServer[c]).pad] # c
              \/ Ignores(c) \/ Relays(c) \/ HearsStart(c) \/ HearsStop(c)
              \/ GetsState(c) \/ GetsMap(c) \/ GetsSize(c) \/ GetsStart(c) \/ GetsStop(c) \/ GetsDisable(c)
              \/ Loses(c) \/ Disables(c, "net") \/ Disables(c, "gui")
              \/ StartsMachine(c) \/ StartsAgain(c) \/ StopsMachine(c) \/ Quits(c)
              \/ (\E s \in Pads : Polls(c, s)) \/ Takes(c) \/ TakesNothing(c) \/ TurnsOff(c)
<1>1. CASE UNCHANGED vars
  BY <1>1
<1>2. CASE HostGUI \/ SendAsyncToClients
  BY <1>2, HostSteps
<1>3. ASSUME NEW c \in Players, OnConnect(c) \/ Disconnect(c) \/ OnData(c)
      PROVE  \/ Joins(c)
             \/ Leaves(c) /\ c # Host
             \/ Leaves(c) /\ toServer[c] # <<>> /\ Head(toServer[c]).type = "PAD"
                /\ current_game[c] = s_game /\ s_pad_map[Head(toServer[c]).pad] # c
             \/ Ignores(c) \/ Relays(c) \/ HearsStart(c) \/ HearsStop(c)
  BY <1>3, MemberSteps
<1>4. ASSUME NEW c \in Players, Network(c) \/ Gui(c) \/ UserStop(c)
      PROVE  \/ GetsState(c) \/ GetsMap(c) \/ GetsSize(c) \/ GetsStart(c) \/ GetsStop(c) \/ GetsDisable(c)
             \/ Loses(c) \/ Disables(c, "net") \/ Disables(c, "gui")
             \/ StartsMachine(c) \/ StartsAgain(c) \/ StopsMachine(c) \/ Quits(c)
  BY <1>4, ClientSteps DEF Network, Gui
<1>5. ASSUME NEW c \in Players, Cpu(c)
      PROVE  (\E s \in Pads : Polls(c, s)) \/ Takes(c) \/ TakesNothing(c) \/ TurnsOff(c)
  BY <1>5, MachineSteps DEF Cpu
<1> QED
  BY <1>1, <1>2, <1>3, <1>4, <1>5 DEF Next

-----------------------------------------------------------------------------
(* Type correctness                                                        *)

LEMMA TypesFirst ==
  ASSUME Init
  PROVE  TypeOK /\ KindsOK
<1>1. NoMap \in PadMaps /\ Empty \in [Pads -> Seq(PadStates)] /\ Zero \in [Pads -> Nat] /\ 0 \in Pads
  BY NetPlayAssumption DEF NoMap, PadMaps, Empty, Zero, Pads
<1>2. 0 \in 0 .. MaxGames
  BY NetPlayAssumption
<1>3. TypeOK
  <2>1. /\ s_async_queue \in Seq(Messages)
        /\ toServer \in [Players -> Seq(Messages)] /\ toClient \in [Players -> Seq(Messages)]
        /\ gui \in [Players -> Seq({"start", "stop"})]
    <3>1. <<>> \in Seq(Messages) /\ <<>> \in Seq({"start", "stop"})
      OBVIOUS
    <3> QED
      BY <3>1 DEF Init
  <2>2. /\ s_players \subseteq Players /\ s_pad_map \in PadMaps /\ s_target \in Targets
        /\ s_game \in 0 .. MaxGames /\ s_running \in BOOLEAN /\ startable \in BOOLEAN
        /\ current_game \in [Players -> 0 .. MaxGames]
        /\ m_pad_map \in [Players -> PadMaps]
        /\ m_target_buffer_size \in [Players -> Targets]
    BY <1>1, <1>2 DEF Init
  <2>3. /\ link \in [Players -> {"none", "up", "lost"}]
        /\ m_current_game \in [Players -> 0 .. MaxGames]
        /\ m_is_running \in [Players -> BOOLEAN] /\ netplay_client \in [Players -> BOOLEAN]
        /\ disabling \in [Players -> SUBSET {"net", "gui"}]
        /\ ports \in [Players -> SUBSET Pads]
        /\ cpu \in [Players -> {"off", "guest", "take"}]
    BY <1>1, <1>2 DEF Init
  <2>4. /\ m_pad_buffer \in [Players -> [Pads -> Seq(PadStates)]]
        /\ slot \in [Players -> Pads] /\ stopping \in [Players -> BOOLEAN]
        /\ session \in [Players -> 0 .. MaxGames]
        /\ pushed \in [Players -> [Pads -> Nat]] /\ polled \in [Players -> Nat]
        /\ overtaken \subseteq Players \X (0 .. MaxGames)
    BY <1>1, <1>2 DEF Init
  <2> QED
    BY <2>1, <2>2, <2>3, <2>4 DEF TypeOK
<1>4. KindsOK
  BY DEF Init, KindsOK
<1> QED
  BY <1>3, <1>4

\* What has come too early stays so.
LEMMA Overtakes ==
  ASSUME TypeOK, [Next]_vars
  PROVE  /\ overtaken \subseteq overtaken'
         /\ overtaken' \subseteq Players \X (0 .. MaxGames)
<1>0. overtaken \subseteq Players \X (0 .. MaxGames) /\ s_game \in 0 .. MaxGames
  BY DEF TypeOK
<1>1. ASSUME NEW c \in Players, ClientOnData(c)
      PROVE  \E E \in SUBSET (0 .. MaxGames) : overtaken' = overtaken \cup ({c} \X E)
  <2> DEFINE msg == Head(toClient[c])
  <2>1. overtaken' = overtaken \cup ({c} \X Early(c, msg)) /\ msg \in Messages
    BY <1>1 DEF ClientOnData, TypeOK
  <2>2. /\ msg.type = "PAD" => msg.state[1] \in 0 .. MaxGames
        /\ msg.type = "START" => msg.game \in 0 .. MaxGames
    <3>1. 1 .. MaxGames \subseteq 0 .. MaxGames
      BY NetPlayAssumption
    <3> QED
      BY <2>1, <3>1, MessageTypes
  <2> HIDE DEF msg
  <2>3. Early(c, msg) \subseteq 0 .. MaxGames
    BY <1>0, <2>2 DEF Early
  <2> QED
    BY <2>1, <2>3
<1>2. ASSUME NEW c \in Players, LostConnection(c)
      PROVE  \E E \in SUBSET (0 .. MaxGames) : overtaken' = overtaken \cup ({c} \X E)
  BY <1>0, <1>2 DEF LostConnection
<1>3. ASSUME ~ \E c \in Players : ClientOnData(c) \/ LostConnection(c) PROVE overtaken' = overtaken
  <2>1. CASE UNCHANGED vars
    BY <2>1 DEF vars
  <2>2. CASE HostGUI \/ SendAsyncToClients
    BY <2>2 DEF HostGUI, StartGame, SetPadMapping, AdjustPadBufferSize, SendAsyncToClients
  <2>3. ASSUME NEW c \in Players, OnConnect(c) \/ Disconnect(c) \/ OnData(c) PROVE overtaken' = overtaken
    BY <2>3 DEF OnConnect, Disconnect, OnData
  <2>4. ASSUME NEW c \in Players, Network(c) \/ Gui(c) \/ UserStop(c) PROVE overtaken' = overtaken
    BY <1>3, <2>4 DEF Network, Gui, NetPlay_Disable, StartMachine, StopMachine, UserStop
  <2>5. ASSUME NEW c \in Players, Cpu(c) PROVE overtaken' = overtaken
    BY <2>5 DEF Cpu, NetPlay_GetInput, Pop, GiveUp, PowerOff
  <2> QED
    BY <2>1, <2>2, <2>3, <2>4, <2>5 DEF Next
<1>4. ASSUME NEW c \in Players, NEW E \in SUBSET (0 .. MaxGames), overtaken' = overtaken \cup ({c} \X E)
      PROVE  overtaken \subseteq overtaken' /\ overtaken' \subseteq Players \X (0 .. MaxGames)
  BY <1>0, <1>4
<1>5. ASSUME NEW c \in Players, ClientOnData(c) \/ LostConnection(c)
      PROVE  overtaken \subseteq overtaken' /\ overtaken' \subseteq Players \X (0 .. MaxGames)
  BY <1>1, <1>2, <1>4, <1>5
<1> QED
  BY <1>0, <1>3, <1>5

\* A change of one buffer.
LEMMA OneBuffer ==
  ASSUME TypeOK, NEW c \in Players, NEW i \in Pads, NEW b \in Seq(PadStates),
         m_pad_buffer' = [m_pad_buffer EXCEPT ![c][i] = b]
  PROVE  /\ m_pad_buffer' \in [Players -> [Pads -> Seq(PadStates)]]
         /\ \A d \in Players : \A j \in Pads :
              m_pad_buffer'[d][j] = IF d = c /\ j = i THEN b ELSE m_pad_buffer[d][j]
         /\ \A d \in Players : d # c => m_pad_buffer'[d] = m_pad_buffer[d]
<1> DEFINE f == m_pad_buffer[c]
           g == [f EXCEPT ![i] = b]
<1>1. f \in [Pads -> Seq(PadStates)]
  BY DEF TypeOK
<1>2. g \in [Pads -> Seq(PadStates)] /\ \A j \in Pads : g[j] = IF j = i THEN b ELSE f[j]
  BY <1>1
<1>3. m_pad_buffer' = [m_pad_buffer EXCEPT ![c] = g]
  OBVIOUS
<1> HIDE DEF g
<1>4. m_pad_buffer' \in [Players -> [Pads -> Seq(PadStates)]]
  BY SMTT(40), <1>2, <1>3 DEF TypeOK
<1>5. \A d \in Players : m_pad_buffer'[d] = IF d = c THEN g ELSE m_pad_buffer[d]
  BY <1>3 DEF TypeOK
<1> QED
  BY <1>2, <1>4, <1>5 DEF f

\* What the server does keeps the types.
LEMMA ServerTypes ==
  ASSUME TypeOK, KindsOK, overtaken' \subseteq Players \X (0 .. MaxGames), NEW p \in Players,
         \/ Starts \/ Sends
         \/ \E map \in PadMaps : Assigns(map)
         \/ \E n \in Targets : Adjusts(n)
         \/ Joins(p) \/ Leaves(p)
         \/ Ignores(p) \/ Relays(p) \/ HearsStart(p) \/ HearsStop(p)
  PROVE  TypeOK' /\ KindsOK'
<1>1. CASE Starts
  <2>1. s_game + 1 \in 1 .. MaxGames /\ 1 .. MaxGames \subseteq 0 .. MaxGames
    BY <1>1, NetPlayAssumption DEF TypeOK, Starts
  <2>2. Buffer(s_target) \in Messages /\ Start(s_game') \in Messages
    BY <1>1, <2>1, NewMessages DEF TypeOK, Starts
  <2> DEFINE q == Append(s_async_queue, Buffer(s_target))
  <2>3. /\ q \in Seq(Messages) /\ Len(q) = Len(s_async_queue) + 1 /\ DOMAIN q = 1 .. Len(s_async_queue) + 1
        /\ \A i \in 1 .. Len(s_async_queue) : q[i] = s_async_queue[i]
        /\ q[Len(s_async_queue) + 1] = Buffer(s_target)
        /\ DOMAIN s_async_queue = 1 .. Len(s_async_queue) /\ Len(s_async_queue) \in Nat
    BY <2>2, Appended, SeqTypes DEF TypeOK
  <2>4. \A i \in DOMAIN q : q[i].type \in {"BUFFER", "START"}
    BY <2>3, NewMessages DEF KindsOK
  <2> HIDE DEF q
  <2>5. s_async_queue' = Append(q, Start(s_game'))
    BY <1>1 DEF Starts, q
  <2>6. /\ Append(q, Start(s_game')) \in Seq(Messages)
        /\ DOMAIN Append(q, Start(s_game')) = 1 .. Len(q) + 1
        /\ \A i \in 1 .. Len(q) : Append(q, Start(s_game'))[i] = q[i]
        /\ Append(q, Start(s_game'))[Len(q) + 1] = Start(s_game')
        /\ DOMAIN q = 1 .. Len(q) /\ Len(q) \in Nat
    BY <2>2, <2>3, Appended, SeqTypes
  <2>7. \A i \in DOMAIN s_async_queue' : s_async_queue'[i].type \in {"BUFFER", "START"}
    <3>1. \A i \in 1 .. Len(q) + 1 : i \in 1 .. Len(q) \/ i = Len(q) + 1
      BY <2>6
    <3> QED
      BY <2>4, <2>5, <2>6, <3>1, NewMessages
  <2>8. s_async_queue' \in Seq(Messages)
    BY <2>5, <2>6
  <2>9. TypeOK'
    BY <1>1, <2>1, <2>8 DEF TypeOK, Starts
  <2>10. KindsOK'
    BY <1>1, <2>7 DEF KindsOK, Starts
  <2> QED
    BY <2>9, <2>10
<1>2. CASE Sends
  <2>1. /\ Tail(s_async_queue) \in Seq(Messages) /\ Head(s_async_queue) \in Messages
        /\ \A i \in DOMAIN Tail(s_async_queue) :
             i + 1 \in DOMAIN s_async_queue /\ Tail(s_async_queue)[i] = s_async_queue[i + 1]
    <3>1. s_async_queue \in Seq(Messages) /\ s_async_queue # <<>>
      BY <1>2 DEF Sends, TypeOK
    <3>2. /\ Tail(s_async_queue) \in Seq(Messages) /\ Head(s_async_queue) \in Messages
          /\ Len(s_async_queue) \in Nat \ {0}
          /\ \A i \in 1 .. Len(s_async_queue) - 1 : Tail(s_async_queue)[i] = s_async_queue[i + 1]
          /\ DOMAIN Tail(s_async_queue) = 1 .. Len(s_async_queue) - 1
          /\ DOMAIN s_async_queue = 1 .. Len(s_async_queue)
      BY <3>1, Tailed
    <3>3. \A i \in 1 .. Len(s_async_queue) - 1 : i + 1 \in 1 .. Len(s_async_queue)
      BY <3>2
    <3> QED
      BY <3>2, <3>3
  <2>2. \A c \in Players : Append(toClient[c], Head(s_async_queue)) \in Seq(Messages)
    BY <2>1, Appended DEF TypeOK
  <2>3. toClient' \in [Players -> Seq(Messages)] /\ s_async_queue' \in Seq(Messages)
    BY <1>2, <2>1, <2>2 DEF Sends, TypeOK
  <2>4. TypeOK'
    BY <1>2, <2>3 DEF Sends, TypeOK
  <2>5. KindsOK'
    BY <1>2, <2>1 DEF Sends, KindsOK
  <2> QED
    BY <2>4, <2>5
<1>3. ASSUME NEW map \in PadMaps, Assigns(map) PROVE TypeOK' /\ KindsOK'
  <2>1. \A c \in Players : Append(toClient[c], Mapping(map)) \in Seq(Messages)
    BY NewMessages, Appended DEF TypeOK
  <2>2. toClient' \in [Players -> Seq(Messages)]
    BY <1>3, <2>1 DEF Assigns, TypeOK
  <2>3. TypeOK'
    BY <1>3, <2>2 DEF Assigns, TypeOK
  <2> QED
    BY <1>3, <2>3 DEF Assigns, KindsOK
<1>4. ASSUME NEW n \in Targets, Adjusts(n) PROVE TypeOK' /\ KindsOK'
  <2> DEFINE q == s_async_queue
  <2>1. q \in Seq(Messages) /\ Buffer(n) \in Messages /\ Buffer(n).type = "BUFFER"
    BY NewMessages DEF TypeOK
  <2>2. /\ Append(q, Buffer(n)) \in Seq(Messages)
        /\ DOMAIN Append(q, Buffer(n)) = 1 .. Len(q) + 1
        /\ \A i \in 1 .. Len(q) : Append(q, Buffer(n))[i] = q[i]
        /\ Append(q, Buffer(n))[Len(q) + 1] = Buffer(n)
        /\ DOMAIN q = 1 .. Len(q) /\ Len(q) \in Nat
    BY <2>1, Appended, SeqTypes
  <2>3. TypeOK'
    BY <1>4, <2>2 DEF Adjusts, TypeOK
  <2>4. \A i \in 1 .. Len(q) + 1 : i \in 1 .. Len(q) \/ i = Len(q) + 1
    BY <2>2
  <2>5. \A i \in DOMAIN Append(q, Buffer(n)) : Append(q, Buffer(n))[i].type \in {"BUFFER", "START"}
    BY <2>1, <2>2, <2>4 DEF KindsOK
  <2> QED
    BY <1>4, <2>3, <2>5 DEF Adjusts, KindsOK
<1>5. CASE Joins(p)
  <2>1. /\ <<Buffer(s_target), Mapping(s_pad_map')>> \in Seq(Messages) /\ Mapping(s_pad_map') \in Messages
        /\ Empty \in [Pads -> Seq(PadStates)]
    BY <1>5, NewMessages DEF Joins, TypeOK, Empty
  <2>2. \A c \in Players : Append(toClient[c], Mapping(s_pad_map')) \in Seq(Messages)
    BY <2>1, Appended DEF TypeOK
  <2>3. toClient' \in [Players -> Seq(Messages)] /\ toServer' \in [Players -> Seq(Messages)]
    BY <1>5, <2>1, <2>2 DEF Joins, TypeOK
  <2>4. TypeOK'
    BY <1>5, <2>1, <2>3 DEF Joins, TypeOK
  <2>5. \A c \in Players : toServer'[c] = IF c = p THEN <<>> ELSE toServer[c]
    BY <1>5 DEF Joins, TypeOK
  <2>6. \A c \in Players : \A i \in DOMAIN toServer'[c] : toServer'[c][i].type \in {"PAD", "START", "STOP"}
    BY <2>5 DEF KindsOK
  <2> QED
    BY <1>5, <2>4, <2>6 DEF Joins, KindsOK
<1>6. CASE Leaves(p)
  <2>1. s_pad_map' \in PadMaps
    BY <1>6 DEF Leaves, TypeOK, PadMaps
  <2>2. Mapping(s_pad_map') \in Messages /\ Disable \in Messages
    BY <2>1, NewMessages
  <2>3. \A c \in Players : /\ Append(toClient[c], Mapping(s_pad_map')) \in Seq(Messages)
                           /\ Append(Append(toClient[c], Disable), Mapping(s_pad_map')) \in Seq(Messages)
    BY <2>2, Appended DEF TypeOK
  <2>4. toClient' \in [Players -> Seq(Messages)] /\ toServer' \in [Players -> Seq(Messages)]
    <3>1. \A c \in Players : toClient'[c] \in Seq(Messages)
      <4> SUFFICES ASSUME NEW c \in Players PROVE toClient'[c] \in Seq(Messages)
        OBVIOUS
      <4>1. \/ toClient'[c] = <<>> \/ toClient'[c] = toClient[c]
            \/ toClient'[c] = Append(toClient[c], Mapping(s_pad_map'))
            \/ toClient'[c] = Append(Append(toClient[c], Disable), Mapping(s_pad_map'))
        BY <1>6 DEF Leaves
      <4>2. toClient[c] \in Seq(Messages) /\ <<>> \in Seq(Messages)
        BY DEF TypeOK
      <4> QED
        BY <2>3, <4>1, <4>2
    <3>2. toClient' = [c \in Players |-> toClient'[c]]
      BY <1>6 DEF Leaves
    <3>3. toServer' \in [Players -> Seq(Messages)]
      BY <1>6 DEF Leaves, TypeOK
    <3> QED
      BY <3>1, <3>2, <3>3
  <2>5. TypeOK'
    BY <1>6, <2>1, <2>4 DEF Leaves, TypeOK
  <2>6. \A c \in Players : toServer'[c] = IF c = p THEN <<>> ELSE toServer[c]
    BY <1>6 DEF Leaves, TypeOK
  <2>7. \A c \in Players : \A i \in DOMAIN toServer'[c] : toServer'[c][i].type \in {"PAD", "START", "STOP"}
    BY <2>6 DEF KindsOK
  <2> QED
    BY <1>6, <2>5, <2>7 DEF Leaves, KindsOK
<1>7. ASSUME toServer[p] # <<>>, toServer' = [toServer EXCEPT ![p] = Tail(@)]
      PROVE  /\ toServer' \in [Players -> Seq(Messages)] /\ Head(toServer[p]) \in Messages
             /\ \A c \in Players : \A i \in DOMAIN toServer'[c] : toServer'[c][i].type \in {"PAD", "START", "STOP"}
  <2>1. toServer[p] \in Seq(Messages)
    BY DEF TypeOK
  <2>2. /\ Tail(toServer[p]) \in Seq(Messages) /\ Head(toServer[p]) \in Messages
        /\ Len(toServer[p]) \in Nat \ {0}
        /\ \A i \in 1 .. Len(toServer[p]) - 1 : Tail(toServer[p])[i] = toServer[p][i + 1]
        /\ DOMAIN Tail(toServer[p]) = 1 .. Len(toServer[p]) - 1
        /\ DOMAIN toServer[p] = 1 .. Len(toServer[p])
    BY <1>7, <2>1, Tailed
  <2>3. \A i \in 1 .. Len(toServer[p]) - 1 : i + 1 \in 1 .. Len(toServer[p])
    BY <2>2
  <2>4. \A i \in DOMAIN Tail(toServer[p]) : Tail(toServer[p])[i].type \in {"PAD", "START", "STOP"}
    BY <2>2, <2>3 DEF KindsOK
  <2> QED
    BY ZenonT(90), <1>7, <2>2, <2>4 DEF TypeOK, KindsOK
<1>8. CASE Ignores(p) \/ HearsStart(p)
  <2>1. /\ toServer' \in [Players -> Seq(Messages)] /\ Head(toServer[p]) \in Messages
        /\ \A c \in Players : \A i \in DOMAIN toServer'[c] : toServer'[c][i].type \in {"PAD", "START", "STOP"}
    BY <1>7, <1>8 DEF Ignores, HearsStart
  <2>2. Head(toServer[p]).type = "START" => Head(toServer[p]).game \in 0 .. MaxGames
    BY <2>1, MessageTypes, NetPlayAssumption
  <2>3. CASE Ignores(p)
    BY ZenonT(90), <2>1, <2>3 DEF Ignores, TypeOK, KindsOK
  <2>4. CASE HearsStart(p)
    BY ZenonT(90), <2>1, <2>2, <2>4 DEF HearsStart, TypeOK, KindsOK
  <2> QED
    BY <1>8, <2>3, <2>4
<1>9. CASE Relays(p) \/ HearsStop(p)
  <2>1. /\ toServer' \in [Players -> Seq(Messages)] /\ Head(toServer[p]) \in Messages
        /\ \A c \in Players : \A i \in DOMAIN toServer'[c] : toServer'[c][i].type \in {"PAD", "START", "STOP"}
    BY <1>7, <1>9 DEF Relays, HearsStop
  <2>2. \A c \in Players : /\ Append(toClient[c], Head(toServer[p])) \in Seq(Messages)
                           /\ Append(toClient[c], Stop) \in Seq(Messages)
    BY <2>1, NewMessages, Appended DEF TypeOK
  <2>3. toClient' \in [Players -> Seq(Messages)]
    <3>1. \A c \in Players : toClient[c] \in Seq(Messages)
      BY DEF TypeOK
    <3>2. CASE Relays(p)
      BY <2>2, <3>1, <3>2 DEF Relays
    <3>3. CASE HearsStop(p)
      BY <2>2, <3>1, <3>3 DEF HearsStop
    <3> QED
      BY <1>9, <3>2, <3>3
  <2>4. CASE Relays(p)
    BY ZenonT(90), <2>1, <2>3, <2>4 DEF Relays, TypeOK, KindsOK
  <2>5. CASE HearsStop(p)
    BY ZenonT(90), <2>1, <2>3, <2>5 DEF HearsStop, TypeOK, KindsOK
  <2> QED
    BY <1>9, <2>4, <2>5
<1> QED
  BY <1>1, <1>2, <1>3, <1>4, <1>5, <1>6, <1>8, <1>9

\* What the network thread of a client does keeps the types.
LEMMA ClientTypes ==
  ASSUME TypeOK, KindsOK, overtaken' \subseteq Players \X (0 .. MaxGames), NEW c \in Players,
         \/ GetsState(c) \/ GetsMap(c) \/ GetsSize(c) \/ GetsStart(c) \/ GetsStop(c) \/ GetsDisable(c)
  PROVE  TypeOK' /\ KindsOK'
<1>1. /\ toClient[c] \in Seq(Messages) /\ toClient[c] # <<>>
      /\ toClient' = [toClient EXCEPT ![c] = Tail(@)]
  BY DEF TypeOK, GetsState, GetsMap, GetsSize, GetsStart, GetsStop, GetsDisable
<1>2. Tail(toClient[c]) \in Seq(Messages) /\ Head(toClient[c]) \in Messages
  BY <1>1, Tailed
<1>3. toClient' \in [Players -> Seq(Messages)]
  BY <1>1, <1>2 DEF TypeOK
<1> DEFINE msg == Head(toClient[c])
<1>4. /\ msg.type = "PAD" => msg.pad \in Pads /\ msg.state \in PadStates
      /\ msg.type = "START" => msg.game \in 0 .. MaxGames /\ msg.game # 0
      /\ msg.type = "MAPPING" => msg.map \in PadMaps
      /\ msg.type = "BUFFER" => msg.size \in Targets
  BY <1>2, MessageTypes, NetPlayAssumption
<1> HIDE DEF msg
<1>5. ASSUME NEW e \in {"start", "stop"}
      PROVE  /\ Append(gui[c], e) \in Seq({"start", "stop"})
             /\ \A i \in DOMAIN Append(gui[c], e) : Append(gui[c], e)[i] = "start" =>
                  e = "start" \/ \E j \in DOMAIN gui[c] : gui[c][j] = "start"
  <2>1. gui[c] \in Seq({"start", "stop"})
    BY DEF TypeOK
  <2> QED
    BY <2>1
<1>6. CASE GetsState(c)
  <2>1. Append(m_pad_buffer[c][msg.pad], msg.state) \in Seq(PadStates)
    BY SMTT(40), <1>4, <1>6 DEF GetsState, TypeOK, msg
  <2>2. m_pad_buffer' = [m_pad_buffer EXCEPT ![c][msg.pad] = Append(m_pad_buffer[c][msg.pad], msg.state)]
    BY <1>6 DEF GetsState, msg
  <2>3. m_pad_buffer' \in [Players -> [Pads -> Seq(PadStates)]]
    BY <1>4, <1>6, <2>1, <2>2, OneBuffer DEF GetsState, msg
  <2>4. TypeOK'
    BY <1>3, <1>6, <2>3 DEF GetsState, TypeOK
  <2> QED
    BY <1>6, <2>4 DEF GetsState, KindsOK
<1>7. CASE GetsMap(c)
  <2>1. msg.map \in PadMaps /\ UpdateDevices(msg.map, c) \in SUBSET Pads
    BY <1>4, <1>7, PortsArePads DEF GetsMap, msg
  <2>2. TypeOK'
    BY <1>3, <1>7, <2>1 DEF GetsMap, TypeOK, msg
  <2> QED
    BY <1>7, <2>2 DEF GetsMap, KindsOK
<1>8. CASE GetsSize(c)
  <2>1. TypeOK'
    BY <1>3, <1>4, <1>8 DEF GetsSize, TypeOK, msg
  <2> QED
    BY <1>8, <2>1 DEF GetsSize, KindsOK
<1>9. CASE GetsStart(c)
  <2>1. TypeOK'
    BY <1>3, <1>4, <1>5, <1>9 DEF GetsStart, TypeOK, msg
  <2>2. m_current_game'[c] # 0
    BY <1>4, <1>9 DEF GetsStart, TypeOK, msg
  <2>3. \A d \in Players : d # c => gui'[d] = gui[d] /\ m_current_game'[d] = m_current_game[d]
    BY <1>9 DEF GetsStart, TypeOK
  <2>4. \A d \in Players : \A i \in DOMAIN gui'[d] : gui'[d][i] = "start" => m_current_game'[d] # 0
    BY <2>2, <2>3 DEF KindsOK
  <2> QED
    BY <1>9, <2>1, <2>4 DEF GetsStart, KindsOK
<1>10. CASE GetsStop(c)
  <2>1. TypeOK'
    BY <1>3, <1>5, <1>10 DEF GetsStop, TypeOK
  <2>2. \A d \in Players : /\ d # c => gui'[d] = gui[d]
                           /\ d = c => gui'[d] = Append(gui[d], "stop")
    BY <1>10 DEF GetsStop, TypeOK
  <2>3. \A d \in Players : \A i \in DOMAIN gui'[d] : gui'[d][i] = "start" => m_current_game[d] # 0
    <3> SUFFICES ASSUME NEW d \in Players, NEW i \in DOMAIN gui'[d], gui'[d][i] = "start"
                 PROVE  m_current_game[d] # 0
      OBVIOUS
    <3>1. CASE d = c
      <4>1. \E j \in DOMAIN gui[c] : gui[c][j] = "start"
        BY <1>5, <2>2, <3>1
      <4> QED
        BY <3>1, <4>1 DEF KindsOK
    <3>2. CASE d # c
      BY <2>2, <3>2 DEF KindsOK
    <3> QED
      BY <3>1, <3>2
  <2> QED
    BY <1>10, <2>1, <2>3 DEF GetsStop, KindsOK
<1>11. CASE GetsDisable(c)
  <2>1. TypeOK'
    BY <1>3, <1>11 DEF GetsDisable, TypeOK
  <2> QED
    BY <1>11, <2>1 DEF GetsDisable, KindsOK
<1> QED
  BY SMTT(40), <1>6, <1>7, <1>8, <1>9, <1>10, <1>11

\* How many states a poll adds, and the types of them and of the messages.
LEMMA AddedTypes ==
  ASSUME TypeOK, KindsOK, NEW c \in Players, NEW s, NEW i \in Pads, cpu[c] # "off"
  PROVE  /\ Missing(c, s, i) \in Nat
         /\ session[c] \in 1 .. MaxGames /\ pushed[c][i] \in Nat
         /\ \A n \in Nat : /\ Added(c, i, n) \in Seq(PadStates) /\ AddedMsgs(c, i, n) \in Seq(Messages)
                           /\ Len(AddedMsgs(c, i, n)) = n
                           /\ \A k \in 1 .. n : AddedMsgs(c, i, n)[k].type = "PAD"
<1>1. session[c] \in 1 .. MaxGames /\ pushed[c][i] \in Nat
  <2>1. session[c] # 0
    BY DEF KindsOK
  <2>2. session[c] \in 0 .. MaxGames /\ pushed[c][i] \in Nat
    BY DEF TypeOK
  <2> QED
    BY <2>1, <2>2, NetPlayAssumption
<1>2. ASSUME NEW n \in Nat
      PROVE  /\ Added(c, i, n) \in Seq(PadStates) /\ AddedMsgs(c, i, n) \in Seq(Messages)
             /\ Len(AddedMsgs(c, i, n)) = n
             /\ \A k \in 1 .. n : AddedMsgs(c, i, n)[k].type = "PAD"
  <2>1. \A k \in 1 .. n : /\ <<session[c], pushed[c][i] + k>> \in PadStates
                          /\ [type |-> "PAD", pad |-> i, state |-> <<session[c], pushed[c][i] + k>>] \in Messages
    BY <1>1 DEF PadStates, Messages, PadMsgs
  <2>2. Added(c, i, n) \in [1 .. n -> PadStates] /\ AddedMsgs(c, i, n) \in [1 .. n -> Messages]
    BY <2>1 DEF Added, AddedMsgs
  <2>3. \A k \in 1 .. n : AddedMsgs(c, i, n)[k].type = "PAD"
    BY DEF AddedMsgs
  <2>4. ASSUME NEW S, NEW q \in [1 .. n -> S] PROVE q \in Seq(S) /\ Len(q) = n
    OBVIOUS
  <2> QED
    BY <2>2, <2>3, <2>4
<1>3. Missing(c, s, i) \in Nat
  <2>1. m_pad_buffer[c][i] \in Seq(PadStates) /\ m_target_buffer_size[c] \in Targets
    BY DEF TypeOK
  <2>2. Len(m_pad_buffer[c][i]) \in Nat
    BY <2>1
  <2>3. m_target_buffer_size[c] \in Nat
    BY <2>1, NetPlayAssumption
  <2> QED
    BY <2>2, <2>3 DEF Missing
<1> QED
  BY <1>1, <1>2, <1>3

\* What the GUI and the machine do keeps the types.
LEMMA MachineTypes ==
  ASSUME TypeOK, KindsOK, overtaken' \subseteq Players \X (0 .. MaxGames), NEW c \in Players,
         \/ Loses(c) \/ Disables(c, "net") \/ Disables(c, "gui")
         \/ StartsMachine(c) \/ StartsAgain(c) \/ StopsMachine(c) \/ Quits(c)
         \/ (\E s \in Pads : Polls(c, s)) \/ Takes(c) \/ TakesNothing(c) \/ TurnsOff(c)
  PROVE  TypeOK' /\ KindsOK'
<1>1. CASE Loses(c)
  <2>1. TypeOK'
    BY <1>1 DEF Loses, TypeOK
  <2> QED
    BY <1>1, <2>1 DEF Loses, KindsOK
<1>2. ASSUME NEW thread \in {"net", "gui"}, Disables(c, thread) PROVE TypeOK' /\ KindsOK'
  <2>1. TypeOK'
    BY <1>2 DEF Disables, TypeOK
  <2> QED
    BY <1>2, <2>1 DEF Disables, KindsOK
<1>3. ASSUME NEW m \in Messages, m.type \in {"PAD", "START", "STOP"},
             toServer' = [toServer EXCEPT ![c] = Append(@, m)]
      PROVE  /\ toServer' \in [Players -> Seq(Messages)]
             /\ \A d \in Players : \A i \in DOMAIN toServer'[d] : toServer'[d][i].type \in {"PAD", "START", "STOP"}
  <2>1. toServer[c] \in Seq(Messages)
    BY DEF TypeOK
  <2>2. /\ Append(toServer[c], m) \in Seq(Messages)
        /\ DOMAIN Append(toServer[c], m) = 1 .. Len(toServer[c]) + 1
        /\ \A i \in 1 .. Len(toServer[c]) : Append(toServer[c], m)[i] = toServer[c][i]
        /\ Append(toServer[c], m)[Len(toServer[c]) + 1] = m
        /\ DOMAIN toServer[c] = 1 .. Len(toServer[c]) /\ Len(toServer[c]) \in Nat
    BY <2>1, Appended, SeqTypes
  <2>3. \A i \in 1 .. Len(toServer[c]) + 1 : i \in 1 .. Len(toServer[c]) \/ i = Len(toServer[c]) + 1
    BY <2>2
  <2>4. \A i \in DOMAIN Append(toServer[c], m) : Append(toServer[c], m)[i].type \in {"PAD", "START", "STOP"}
    BY <1>3, <2>2, <2>3 DEF KindsOK
  <2> QED
    BY ZenonT(90), <1>3, <2>2, <2>4 DEF TypeOK, KindsOK
<1>4. ASSUME gui[c] # <<>>, gui' = [gui EXCEPT ![c] = Tail(@)]
      PROVE  /\ gui' \in [Players -> Seq({"start", "stop"})] /\ Head(gui[c]) \in {"start", "stop"}
             /\ Head(gui[c]) = "start" => m_current_game[c] # 0
             /\ \A d \in Players : \A i \in DOMAIN gui'[d] : gui'[d][i] = "start" => m_current_game[d] # 0
  <2>1. gui[c] \in Seq({"start", "stop"})
    BY DEF TypeOK
  <2>2. /\ Tail(gui[c]) \in Seq({"start", "stop"}) /\ Head(gui[c]) \in {"start", "stop"}
        /\ Len(gui[c]) \in Nat \ {0} /\ Head(gui[c]) = gui[c][1]
        /\ \A i \in 1 .. Len(gui[c]) - 1 : Tail(gui[c])[i] = gui[c][i + 1]
        /\ DOMAIN Tail(gui[c]) = 1 .. Len(gui[c]) - 1
        /\ DOMAIN gui[c] = 1 .. Len(gui[c])
    BY <1>4, <2>1, Tailed
  <2>3. 1 \in 1 .. Len(gui[c]) /\ \A i \in 1 .. Len(gui[c]) - 1 : i + 1 \in 1 .. Len(gui[c])
    BY <2>2
  <2>4. \A i \in DOMAIN Tail(gui[c]) : Tail(gui[c])[i] = "start" => m_current_game[c] # 0
    BY <2>2, <2>3 DEF KindsOK
  <2>5. Head(gui[c]) = "start" => m_current_game[c] # 0
    BY <2>2, <2>3 DEF KindsOK
  <2>6. gui' \in [Players -> Seq({"start", "stop"})]
    BY <1>4, <2>2 DEF TypeOK
  <2>7. \A d \in Players : gui'[d] = IF d = c THEN Tail(gui[c]) ELSE gui[d]
    BY <1>4 DEF TypeOK
  <2>8. \A d \in Players : \A i \in DOMAIN gui'[d] : gui'[d][i] = "start" => m_current_game[d] # 0
    BY <2>4, <2>7 DEF KindsOK
  <2> QED
    BY <2>2, <2>5, <2>6, <2>8
<1>5. ASSUME Head(gui[c]) = "start", gui[c] # <<>>, gui' = [gui EXCEPT ![c] = Tail(@)],
             toServer' = IF link[c] = "up" THEN [toServer EXCEPT ![c] = Append(@, Start(m_current_game[c]))]
                         ELSE toServer
      PROVE  /\ toServer' \in [Players -> Seq(Messages)]
             /\ \A d \in Players : \A i \in DOMAIN toServer'[d] : toServer'[d][i].type \in {"PAD", "START", "STOP"}
  <2>1. m_current_game[c] \in 1 .. MaxGames
    <3>1. m_current_game[c] # 0
      BY <1>4, <1>5
    <3>2. m_current_game[c] \in 0 .. MaxGames
      BY DEF TypeOK
    <3> QED
      BY <3>1, <3>2, NetPlayAssumption
  <2>2. Start(m_current_game[c]) \in Messages /\ Start(m_current_game[c]).type = "START"
    BY <2>1, NewMessages
  <2> QED
    BY <1>3, <1>5, <2>2 DEF TypeOK, KindsOK
<1>6. CASE StartsMachine(c)
  <2>1. /\ m_current_game[c] # 0 /\ gui' \in [Players -> Seq({"start", "stop"})]
        /\ \A d \in Players : \A i \in DOMAIN gui'[d] : gui'[d][i] = "start" => m_current_game[d] # 0
    BY <1>4, <1>6 DEF StartsMachine
  <2>2. /\ toServer' \in [Players -> Seq(Messages)]
        /\ \A d \in Players : \A i \in DOMAIN toServer'[d] : toServer'[d][i].type \in {"PAD", "START", "STOP"}
    BY <1>5, <1>6 DEF StartsMachine
  <2>3. /\ UpdateDevices(m_pad_map[c], c) \in SUBSET Pads /\ 0 \in Pads
        /\ Empty \in [Pads -> Seq(PadStates)] /\ Zero \in [Pads -> Nat]
    BY PortsArePads, NetPlayAssumption DEF Pads, Empty, Zero
  <2>4. /\ m_pad_buffer' \in [Players -> [Pads -> Seq(PadStates)]]
        /\ ports' \in [Players -> SUBSET Pads] /\ slot' \in [Players -> Pads]
        /\ pushed' \in [Players -> [Pads -> Nat]] /\ polled' \in [Players -> Nat]
        /\ session' \in [Players -> 0 .. MaxGames] /\ cpu' \in [Players -> {"off", "guest", "take"}]
        /\ m_is_running' \in [Players -> BOOLEAN] /\ netplay_client' \in [Players -> BOOLEAN]
        /\ stopping' \in [Players -> BOOLEAN]
    BY <1>6, <2>3 DEF StartsMachine, TypeOK
  <2>5. TypeOK'
    BY <1>6, <2>1, <2>2, <2>4 DEF StartsMachine, TypeOK
  <2>6. \A d \in Players : cpu'[d] # "off" => session'[d] # 0
    BY <1>6, <2>1 DEF StartsMachine, TypeOK, KindsOK
  <2> QED
    BY <1>6, <2>1, <2>2, <2>5, <2>6 DEF StartsMachine, KindsOK
<1>7. CASE StartsAgain(c)
  <2>1. /\ gui' \in [Players -> Seq({"start", "stop"})]
        /\ \A d \in Players : \A i \in DOMAIN gui'[d] : gui'[d][i] = "start" => m_current_game[d] # 0
    BY <1>4, <1>7 DEF StartsAgain
  <2>2. /\ toServer' \in [Players -> Seq(Messages)]
        /\ \A d \in Players : \A i \in DOMAIN toServer'[d] : toServer'[d][i].type \in {"PAD", "START", "STOP"}
    BY <1>5, <1>7 DEF StartsAgain
  <2>3. TypeOK'
    BY <1>7, <2>1, <2>2 DEF StartsAgain, TypeOK
  <2> QED
    BY <1>7, <2>1, <2>2, <2>3 DEF StartsAgain, KindsOK
<1>8. CASE StopsMachine(c)
  <2>1. /\ gui' \in [Players -> Seq({"start", "stop"})]
        /\ \A d \in Players : \A i \in DOMAIN gui'[d] : gui'[d][i] = "start" => m_current_game[d] # 0
    BY <1>4, <1>8 DEF StopsMachine
  <2>2. TypeOK'
    BY <1>8, <2>1 DEF StopsMachine, TypeOK
  <2> QED
    BY <1>8, <2>1, <2>2 DEF StopsMachine, KindsOK
<1>9. CASE Quits(c)
  <2>1. Stop \in Messages /\ Stop.type = "STOP"
    BY NewMessages
  <2>2. /\ toServer' \in [Players -> Seq(Messages)]
        /\ \A d \in Players : \A i \in DOMAIN toServer'[d] : toServer'[d][i].type \in {"PAD", "START", "STOP"}
    BY <1>3, <1>9, <2>1 DEF Quits, TypeOK, KindsOK
  <2>3. TypeOK'
    BY <1>9, <2>2 DEF Quits, TypeOK
  <2> QED
    BY <1>9, <2>2, <2>3 DEF Quits, KindsOK
<1>10. ASSUME NEW s \in Pads, Polls(c, s) PROVE TypeOK' /\ KindsOK'
  <2>1. ASSUME NEW i \in Pads, NEW n \in Nat
        PROVE  /\ Added(c, i, n) \in Seq(PadStates) /\ AddedMsgs(c, i, n) \in Seq(Messages)
               /\ Len(AddedMsgs(c, i, n)) = n
               /\ \A k \in 1 .. n : AddedMsgs(c, i, n)[k].type = "PAD"
    BY <1>10, AddedTypes DEF Polls
  <2>2. ASSUME NEW i \in Pads PROVE Missing(c, s, i) \in Nat
    BY <1>10, AddedTypes DEF Polls
  <2>3. m_pad_buffer' \in [Players -> [Pads -> Seq(PadStates)]] /\ pushed' \in [Players -> [Pads -> Nat]]
    <3>1. \A i \in Pads : /\ m_pad_buffer[c][i] \o Added(c, i, Missing(c, s, i)) \in Seq(PadStates)
                          /\ pushed[c][i] + Missing(c, s, i) \in Nat
      <4> SUFFICES ASSUME NEW i \in Pads
                   PROVE  /\ m_pad_buffer[c][i] \o Added(c, i, Missing(c, s, i)) \in Seq(PadStates)
                          /\ pushed[c][i] + Missing(c, s, i) \in Nat
        OBVIOUS
      <4>1. m_pad_buffer[c][i] \in Seq(PadStates) /\ pushed[c][i] \in Nat
        BY DEF TypeOK
      <4>2. Missing(c, s, i) \in Nat /\ Added(c, i, Missing(c, s, i)) \in Seq(PadStates)
        BY SMTT(40), <2>1, <2>2
      <4> QED
        BY <4>1, <4>2
    <3> QED
      BY <1>10, <3>1 DEF Polls, TypeOK
  <2>4. /\ toServer' \in [Players -> Seq(Messages)]
        /\ \A d \in Players : \A k \in DOMAIN toServer'[d] : toServer'[d][k].type \in {"PAD", "START", "STOP"}
    <3>1. CASE toServer' = toServer
      BY <3>1 DEF TypeOK, KindsOK
    <3>2. ASSUME NEW i \in Pads, toServer' = [toServer EXCEPT ![c] = @ \o AddedMsgs(c, i, Missing(c, s, i))]
          PROVE  /\ toServer' \in [Players -> Seq(Messages)]
                 /\ \A d \in Players : \A k \in DOMAIN toServer'[d] : toServer'[d][k].type \in {"PAD", "START", "STOP"}
      <4> DEFINE q == toServer[c]
                 r == AddedMsgs(c, i, Missing(c, s, i))
      <4>1. q \in Seq(Messages) /\ r \in Seq(Messages) /\ \A k \in 1 .. Len(r) : r[k].type = "PAD"
        BY <2>1, <2>2 DEF TypeOK
      <4> HIDE DEF q, r
      <4>2. /\ q \o r \in Seq(Messages)
            /\ \A k \in 1 .. Len(q) : (q \o r)[k] = q[k]
            /\ \A k \in 1 .. Len(r) : (q \o r)[Len(q) + k] = r[k]
            /\ DOMAIN (q \o r) = 1 .. Len(q) + Len(r)
            /\ Len(q) \in Nat /\ Len(r) \in Nat /\ DOMAIN q = 1 .. Len(q)
        BY <4>1, Joined, SeqTypes
      <4>3. ASSUME NEW k \in 1 .. Len(q) + Len(r) PROVE (q \o r)[k].type \in {"PAD", "START", "STOP"}
        <5>1. CASE k <= Len(q)
          BY <4>2, <5>1 DEF KindsOK, q
        <5>2. CASE ~(k <= Len(q))
          <6>1. k - Len(q) \in 1 .. Len(r) /\ k = Len(q) + (k - Len(q))
            BY <4>2, <5>2
          <6> QED
            BY <4>1, <4>2, <6>1
        <5> QED
          BY <5>1, <5>2
      <4>4. toServer' = [toServer EXCEPT ![c] = q \o r]
        BY <3>2 DEF q, r
      <4>5. toServer' \in [Players -> Seq(Messages)]
        BY <4>2, <4>4 DEF TypeOK
      <4>6. \A d \in Players : toServer'[d] = IF d = c THEN q \o r ELSE toServer[d]
        BY <4>4 DEF TypeOK
      <4>7. \A d \in Players : \A k \in DOMAIN toServer'[d] : toServer'[d][k].type \in {"PAD", "START", "STOP"}
        BY ZenonT(90), <4>2, <4>3, <4>6 DEF KindsOK
      <4> QED
        BY <4>5, <4>7
    <3> QED
      BY <1>10, <3>1, <3>2 DEF Polls, LocalPadToInGamePad
  <2>5. TypeOK'
    BY <1>10, <2>3, <2>4 DEF Polls, TypeOK
  <2> QED
    BY SMTT(40), <1>10, <2>4, <2>5 DEF Polls, KindsOK
<1>11. ASSUME \/ (\A t \in ports[c] : t <= slot[c]) /\ slot' = [slot EXCEPT ![c] = 0]
                 /\ polled' = [polled EXCEPT ![c] = @ + 1]
              \/ (\E t \in ports[c] : t > slot[c]) /\ slot' = [slot EXCEPT ![c] = @ + 1] /\ polled' = polled
       PROVE  slot' \in [Players -> Pads] /\ polled' \in [Players -> Nat]
  <2>1. 0 \in Pads
    BY NetPlayAssumption DEF Pads
  <2>2. ASSUME NEW t \in ports[c], t > slot[c] PROVE slot[c] + 1 \in Pads
    <3>1. t \in Pads /\ slot[c] \in Pads /\ NPads \in Nat
      BY NetPlayAssumption DEF TypeOK
    <3> QED
      BY <2>2, <3>1 DEF Pads
  <2>3. CASE slot' = [slot EXCEPT ![c] = 0] /\ polled' = [polled EXCEPT ![c] = @ + 1]
    BY SMTT(40), <2>1, <2>3 DEF TypeOK
  <2>4. ASSUME NEW t \in ports[c], t > slot[c], slot' = [slot EXCEPT ![c] = @ + 1], polled' = polled
        PROVE  slot' \in [Players -> Pads] /\ polled' \in [Players -> Nat]
    BY <2>2, <2>4 DEF TypeOK
  <2> QED
    BY <1>11, <2>3, <2>4
<1>12. CASE Takes(c)
  <2>1. slot' \in [Players -> Pads] /\ polled' \in [Players -> Nat]
    BY <1>11, <1>12 DEF Takes
  <2>2. m_pad_buffer' = [m_pad_buffer EXCEPT ![c][slot[c]] = Tail(m_pad_buffer[c][slot[c]])]
    BY <1>12 DEF Takes
  <2>3. Tail(m_pad_buffer[c][slot[c]]) \in Seq(PadStates) /\ slot[c] \in Pads
    <3>1. slot[c] \in Pads /\ m_pad_buffer[c][slot[c]] \in Seq(PadStates) /\ m_pad_buffer[c][slot[c]] # <<>>
      BY <1>12 DEF Takes, TypeOK
    <3> QED
      BY <3>1, Tailed
  <2>4. m_pad_buffer' \in [Players -> [Pads -> Seq(PadStates)]]
    BY <2>2, <2>3, OneBuffer
  <2>5. TypeOK'
    BY <1>12, <2>1, <2>4 DEF Takes, TypeOK
  <2> QED
    BY ZenonT(90), <1>12, <2>5 DEF Takes, KindsOK, TypeOK
<1>13. CASE TakesNothing(c)
  <2>1. slot' \in [Players -> Pads] /\ polled' \in [Players -> Nat]
    BY <1>11, <1>13 DEF TakesNothing
  <2>2. TypeOK'
    BY <1>13, <2>1 DEF TakesNothing, TypeOK
  <2> QED
    BY ZenonT(90), <1>13, <2>2 DEF TakesNothing, KindsOK, TypeOK
<1>14. CASE TurnsOff(c)
  <2>1. TypeOK'
    BY <1>14 DEF TurnsOff, TypeOK
  <2> QED
    BY SMTT(40), <1>14, <2>1 DEF TurnsOff, KindsOK, TypeOK
<1> QED
  BY <1>1, <1>2, <1>6, <1>7, <1>8, <1>9, <1>10, <1>12, <1>13, <1>14

LEMMA TypesNext ==
  ASSUME TypeOK, KindsOK, [Next]_vars
  PROVE  TypeOK' /\ KindsOK'
<1>1. CASE UNCHANGED vars
  BY <1>1 DEF vars, server, channels, settings, runState, machine, TypeOK, KindsOK
<1> QED
  BY <1>1, Overtakes, Steps, ServerTypes, ClientTypes, MachineTypes, NetPlayAssumption

\* The state has the types it should have, whatever the machines and the GUIs do first.
THEOREM TypeCorrect == Spec => []TypeOK
<1>1. Init => TypeOK /\ KindsOK
  BY TypesFirst
<1>2. TypeOK /\ KindsOK /\ [Next]_vars => TypeOK' /\ KindsOK'
  BY TypesNext
<1> QED
  BY <1>1, <1>2, PTL DEF Spec
-----------------------------------------------------------------------------
(* Members and numbers                                                     *)

\* Members of the server are players with a channel, before and after a step.
LEMMA MembersNext ==
  ASSUME TypeOK, Members, [Next]_vars
  PROVE  Members'
<1> DEFINE Same == UNCHANGED <<link, s_players, toClient, s_pad_map>>
<1>0. s_players \subseteq Players /\ \A c \in Players : link[c] = "up" <=> c \in s_players
  BY DEF TypeOK, Members
<1>1. ASSUME UNCHANGED <<link, s_players, s_pad_map>>,
             \A c \in Players : c \notin s_players => toClient'[c] = toClient[c]
      PROVE  Members'
  BY <1>1 DEF Members
<1>2. CASE Same
  BY <1>1, <1>2
<1>3. ASSUME NEW map \in PadMaps, Assigns(map) PROVE Members'
  <2>1. \A i \in Pads : s_pad_map'[i] \in s_players' \cup {Nobody}
    BY <1>3 DEF Assigns
  <2>2. \A c \in Players : c \notin s_players => toClient'[c] = toClient[c]
    BY <1>3 DEF Assigns
  <2> QED
    BY <1>3, <2>1, <2>2 DEF Assigns, Members
<1>4. CASE Sends
  <2>1. \A c \in Players : c \notin s_players => toClient'[c] = toClient[c]
    BY <1>4 DEF Sends
  <2> QED
    BY <1>1, <1>4, <2>1 DEF Sends
<1>5. ASSUME NEW p \in Players, Relays(p) \/ HearsStop(p) PROVE Members'
  <2>1. \A c \in Players : c \notin s_players => toClient'[c] = toClient[c]
    BY <1>5 DEF Relays, HearsStop
  <2> QED
    BY <1>1, <1>5, <2>1 DEF Relays, HearsStop
<1>6. ASSUME NEW c \in Players,
             \/ GetsState(c) \/ GetsMap(c) \/ GetsSize(c) \/ GetsStart(c) \/ GetsStop(c) \/ GetsDisable(c)
      PROVE  Members'
  <2>1. /\ c \in s_players /\ toClient' = [toClient EXCEPT ![c] = Tail(@)]
        /\ UNCHANGED <<link, s_players, s_pad_map>>
    BY <1>0, <1>6 DEF GetsState, GetsMap, GetsSize, GetsStart, GetsStop, GetsDisable
  <2> QED
    BY SMTT(40), <1>1, <2>1 DEF TypeOK
<1>7. ASSUME NEW c \in Players, Loses(c) PROVE Members'
  <2>1. \A d \in Players : link'[d] = "up" <=> link[d] = "up"
    BY <1>7 DEF Loses, TypeOK
  <2> QED
    BY <1>7, <2>1 DEF Loses, Members
<1>8. ASSUME NEW p \in Players, Joins(p) PROVE Members'
  <2>1. \A c \in Players : link'[c] = "up" <=> c \in s_players'
    BY <1>0, <1>8 DEF Joins, TypeOK
  <2>2. \A c \in Players : c \notin s_players' => toClient'[c] = <<>>
    BY <1>8 DEF Joins, Members
  <2>3. \A i \in Pads : s_pad_map'[i] \in s_players' \cup {Nobody}
    BY <1>8 DEF Joins, Members
  <2> QED
    BY <2>1, <2>2, <2>3 DEF Members
<1>9. ASSUME NEW p \in Players, Leaves(p) PROVE Members'
  <2>1. \A c \in Players : link'[c] = "up" <=> c \in s_players'
    BY <1>0, <1>9 DEF Leaves, TypeOK
  <2>2. \A c \in Players : c \notin s_players' => toClient'[c] = <<>>
    BY <1>9 DEF Leaves, Members
  <2>3. \A i \in Pads : s_pad_map'[i] \in s_players' \cup {Nobody}
    BY <1>9 DEF Leaves, Members
  <2> QED
    BY <2>1, <2>2, <2>3 DEF Members
<1>10. ASSUME NEW c \in Players,
              \/ Ignores(c) \/ HearsStart(c) \/ Disables(c, "net") \/ Disables(c, "gui")
              \/ StartsMachine(c) \/ StartsAgain(c) \/ StopsMachine(c) \/ Quits(c)
              \/ (\E s \in Pads : Polls(c, s)) \/ Takes(c) \/ TakesNothing(c) \/ TurnsOff(c)
       PROVE  Same
  BY <1>10 DEF Ignores, HearsStart, Disables, StartsMachine, StartsAgain, StopsMachine, Quits, Polls,
               Takes, TakesNothing, TurnsOff
<1>11. CASE Starts
  BY <1>2, <1>11 DEF Starts
<1>12. ASSUME NEW n \in Targets, Adjusts(n) PROVE Same
  BY <1>12 DEF Adjusts
<1>13. CASE UNCHANGED vars
  BY <1>2, <1>13 DEF vars, server, channels
<1> QED
  BY <1>2, <1>3, <1>4, <1>5, <1>6, <1>7, <1>8, <1>9, <1>10, <1>11, <1>12, <1>13, Steps

\* The last message that is put into a queue, and the first that is taken out.
LEMMA Grown ==
  ASSUME NEW q \in Seq(Messages), NEW m \in Messages, NEW g
  PROVE  /\ In(Append(q, m)) = In(q) \cup {m}
         /\ UpTo(Append(q, m), g) <=> UpTo(q, g) /\ NoLater(m, g)
         /\ Append(q, m) # <<>> /\ Append(q, m)[Len(Append(q, m))] = m
<1>1. In(Append(q, m)) = In(q) \cup {m}
  BY Contents
<1>2. Append(q, m) # <<>> /\ Append(q, m)[Len(Append(q, m))] = m
  OBVIOUS
<1> QED
  BY <1>1, <1>2 DEF UpTo

LEMMA Shrunk ==
  ASSUME NEW q \in Seq(Messages), q # <<>>, NEW g
  PROVE  /\ In(q) = In(Tail(q)) \cup {Head(q)} /\ Head(q) \in Messages /\ Tail(q) \in Seq(Messages)
         /\ UpTo(q, g) <=> UpTo(Tail(q), g) /\ NoLater(Head(q), g)
<1>1. In(q) = In(Tail(q)) \cup {Head(q)}
  BY Contents
<1>2. Head(q) \in Messages /\ Tail(q) \in Seq(Messages)
  BY Tailed
<1> QED
  BY <1>1, <1>2 DEF UpTo

\* What is not later than a game is not later than the next.
LEMMA Later ==
  ASSUME NEW q \in Seq(Messages), NEW g \in Nat, NEW h \in Nat, g <= h, UpTo(q, g)
  PROVE  UpTo(q, h)
<1>1. ASSUME NEW m \in In(q) PROVE NoLater(m, h)
  <2>1. m \in Messages /\ NoLater(m, g)
    BY Contents DEF UpTo
  <2>2. m.type = "START" => m.game \in Nat
    BY <2>1, MessageTypes
  <2>3. m.type = "PAD" => m.state[1] \in Nat
    BY <2>1, MessageTypes
  <2> QED
    BY <2>1, <2>2, <2>3 DEF NoLater
<1> QED
  BY <1>1 DEF UpTo

\* Nobody gets ahead of the server.
LEMMA NumbersNext ==
  ASSUME TypeOK, TypeOK', KindsOK, Numbers, [Next]_vars
  PROVE  Numbers'
<1> DEFINE Queued == \A i \in DOMAIN s_async_queue : s_async_queue[i].type = "START" =>
                       i = Len(s_async_queue) /\ s_async_queue[i].game = s_game
           Current(c) == m_current_game[c] <= s_game /\ session[c] <= s_game /\ current_game[c] <= s_game
           Below(c) == UpTo(toClient[c], s_game) /\ UpTo(toServer[c], s_game)
<1>0. Queued /\ \A c \in Players : Current(c) /\ Below(c)
  BY DEF Numbers
<1>a. /\ s_async_queue \in Seq(Messages) /\ s_game \in Nat
      /\ \A c \in Players : toClient[c] \in Seq(Messages) /\ toServer[c] \in Seq(Messages)
  BY DEF TypeOK
<1>b. \A c \in Players : Current(c) /\ Below(c)
  BY <1>0
<1>c. ASSUME Queued', \A c \in Players : Current(c)' /\ Below(c)' PROVE Numbers'
  BY <1>c DEF Numbers
<1>d. /\ \A n : NoLater(Buffer(n), s_game) /\ \A map : NoLater(Mapping(map), s_game)
      /\ NoLater(Stop, s_game) /\ NoLater(Disable, s_game)
      /\ \A g : NoLater(Start(g), s_game) <=> g <= s_game
  BY DEF NoLater, Buffer, Mapping, Stop, Disable, Start
<1>e. UpTo(<<>>, s_game)
  BY Contents DEF UpTo, In
<1> HIDE DEF Queued
<1>1. CASE UNCHANGED <<s_async_queue, s_game, m_current_game, session, current_game, toClient, toServer>>
  BY <1>0, <1>1, <1>c DEF Queued
<1>2. CASE Starts
  <2>1. s_game' = s_game + 1 /\ UNCHANGED <<m_current_game, session, current_game, toClient, toServer>>
    BY <1>2 DEF Starts
  <2>2. \A c \in Players : Current(c)'
    <3>1. \A c \in Players : m_current_game[c] \in Int /\ session[c] \in Int /\ current_game[c] \in Int
      BY DEF TypeOK
    <3> QED
      BY <1>a, <1>b, <2>1, <3>1
  <2>3. \A c \in Players : Below(c)'
    BY <1>a, <1>b, <2>1, Later
  <2>4. Queued'
    <3> DEFINE q == Append(s_async_queue, Buffer(s_target))
               m == Start(s_game')
    <3>1. Buffer(s_target) \in Messages /\ Buffer(s_target).type = "BUFFER" /\ m \in Messages /\ m.game = s_game'
      <4>1. s_game' \in 1 .. MaxGames
        BY <1>a, <2>1 DEF TypeOK
      <4> QED
        BY <4>1, NewMessages DEF TypeOK
    <3>2. /\ q \in Seq(Messages) /\ DOMAIN q = 1 .. Len(s_async_queue) + 1 /\ Len(q) = Len(s_async_queue) + 1
          /\ \A i \in 1 .. Len(s_async_queue) : q[i] = s_async_queue[i]
          /\ q[Len(s_async_queue) + 1] = Buffer(s_target)
          /\ DOMAIN s_async_queue = 1 .. Len(s_async_queue) /\ Len(s_async_queue) \in Nat
      BY <1>a, <3>1, Appended, SeqTypes
    <3>3. \A i \in 1 .. Len(s_async_queue) : s_async_queue[i].type # "START"
      <4> SUFFICES ASSUME NEW i \in 1 .. Len(s_async_queue), s_async_queue[i].type = "START" PROVE FALSE
        OBVIOUS
      <4>1. s_async_queue[i].game \in 1 .. MaxGames /\ s_async_queue[i] = Start(s_async_queue[i].game)
        BY <1>a, SeqTypes, MessageTypes
      <4> QED
        BY <1>2, <3>2, <4>1 DEF Starts, HostIsIdle
    <3>4. \A i \in 1 .. Len(q) : q[i].type # "START"
      <4>1. \A i \in 1 .. Len(q) : i \in 1 .. Len(s_async_queue) \/ i = Len(s_async_queue) + 1
        BY <3>2
      <4> QED
        BY <3>1, <3>2, <3>3, <4>1
    <3> HIDE DEF q, m
    <3>5. s_async_queue' = Append(q, m)
      BY <1>2 DEF Starts, q, m
    <3>6. /\ DOMAIN Append(q, m) = 1 .. Len(q) + 1 /\ Len(Append(q, m)) = Len(q) + 1
          /\ \A i \in 1 .. Len(q) : Append(q, m)[i] = q[i]
          /\ Append(q, m)[Len(q) + 1] = m /\ Len(q) \in Nat
      BY <3>1, <3>2, Appended, SeqTypes
    <3>7. \A i \in 1 .. Len(q) + 1 : i \in 1 .. Len(q) \/ i = Len(q) + 1
      BY <3>6
    <3> QED
      BY <3>1, <3>4, <3>5, <3>6, <3>7 DEF Queued
  <2> QED
    BY <1>c, <2>2, <2>3, <2>4
<1>3. CASE Sends
  <2> DEFINE q == s_async_queue
  <2>1. /\ q \in Seq(Messages) /\ q # <<>> /\ s_async_queue' = Tail(q)
        /\ UNCHANGED <<s_game, m_current_game, session, current_game, toServer>>
    BY <1>3, <1>a DEF Sends
  <2>2. /\ Tail(q) \in Seq(Messages) /\ Len(Tail(q)) = Len(q) - 1 /\ Len(q) \in Nat \ {0}
        /\ Head(q) = q[1] /\ Head(q) \in Messages
        /\ \A i \in 1 .. Len(q) - 1 : Tail(q)[i] = q[i + 1]
        /\ DOMAIN Tail(q) = 1 .. Len(q) - 1 /\ DOMAIN q = 1 .. Len(q)
    BY <2>1, Tailed
  <2>3. 1 \in 1 .. Len(q) /\ \A i \in 1 .. Len(q) - 1 : i + 1 \in 1 .. Len(q)
    BY <2>2
  <2>4. Queued'
    <3> SUFFICES ASSUME NEW i \in 1 .. Len(q) - 1, Tail(q)[i].type = "START"
                 PROVE  i = Len(q) - 1 /\ Tail(q)[i].game = s_game
      BY ZenonT(90), <2>1, <2>2 DEF Queued
    <3>1. i + 1 = Len(q) /\ q[i + 1].game = s_game
      BY <1>0, <2>2, <2>3 DEF Queued
    <3>2. Tail(q)[i] = q[i + 1]
      BY <2>2
    <3>3. Len(q) \in Int /\ i \in Int
      BY <2>2
    <3> QED
      BY SMTT(40), <3>1, <3>2, <3>3
  <2>5. NoLater(Head(q), s_game)
    <3>1. Head(q).type \in {"BUFFER", "START"}
      BY <2>2, <2>3 DEF KindsOK
    <3>2. Head(q).type = "START" => Head(q).game = s_game
      BY <1>0, <2>2, <2>3 DEF Queued
    <3> QED
      BY <1>a, <3>1, <3>2 DEF NoLater
  <2>6. \A c \in Players : UpTo(toClient'[c], s_game)
    <3>1. \A c \in Players : toClient'[c] = toClient[c] \/ toClient'[c] = Append(toClient[c], Head(q))
      BY <1>3 DEF Sends
    <3>2. \A c \in Players : UpTo(Append(toClient[c], Head(q)), s_game)
      BY <1>a, <1>b, <2>2, <2>5, Grown
    <3> QED
      BY <1>b, <3>1, <3>2
  <2> HIDE DEF q
  <2> QED
    BY <1>b, <1>c, <2>1, <2>4, <2>6
<1>4. ASSUME NEW map \in PadMaps, Assigns(map) PROVE Numbers'
  <2>1. \A c \in Players : toClient'[c] = toClient[c] \/ toClient'[c] = Append(toClient[c], Mapping(map))
    BY <1>4 DEF Assigns
  <2>2. \A c \in Players : UpTo(toClient'[c], s_game)
    <3>1. \A c \in Players : UpTo(Append(toClient[c], Mapping(map)), s_game)
      BY <1>a, <1>b, <1>d, Grown, NewMessages
    <3> QED
      BY <1>b, <2>1, <3>1
  <2>3. UNCHANGED <<s_async_queue, s_game, m_current_game, session, current_game, toServer>>
    BY <1>4 DEF Assigns
  <2> QED
    BY <1>0, <1>b, <1>c, <2>2, <2>3 DEF Queued
<1>5. ASSUME NEW n \in Targets, Adjusts(n) PROVE Numbers'
  <2>1. s_async_queue = <<>> /\ s_async_queue' = Append(s_async_queue, Buffer(n))
    BY <1>5 DEF Adjusts, Arrived
  <2>2. DOMAIN s_async_queue' = {1} /\ s_async_queue'[1] = Buffer(n) /\ Buffer(n).type = "BUFFER"
    BY <2>1, NewMessages
  <2>3. Queued'
    BY <2>2 DEF Queued
  <2>4. UNCHANGED <<s_game, m_current_game, session, current_game, toServer, toClient>>
    BY <1>5 DEF Adjusts
  <2> QED
    BY <1>b, <1>c, <2>3, <2>4
<1>6. ASSUME NEW p \in Players, Joins(p) \/ Leaves(p) PROVE Numbers'
  <2>1. UNCHANGED <<s_async_queue, s_game, m_current_game, session, current_game>>
    BY <1>6 DEF Joins, Leaves
  <2>2. \A c \in Players : toServer'[c] = <<>> \/ toServer'[c] = toServer[c]
    BY ZenonT(90), <1>6 DEF Joins, Leaves, TypeOK
  <2>3. Mapping(s_pad_map') \in Messages /\ Buffer(s_target) \in Messages /\ Disable \in Messages
    BY NewMessages DEF TypeOK
  <2>4. \A c \in Players :
          \/ toClient'[c] = <<>> \/ toClient'[c] = toClient[c]
          \/ toClient'[c] = <<Buffer(s_target), Mapping(s_pad_map')>>
          \/ toClient'[c] = Append(toClient[c], Mapping(s_pad_map'))
          \/ toClient'[c] = Append(Append(toClient[c], Disable), Mapping(s_pad_map'))
    BY <1>6 DEF Joins, Leaves
  <2>5. UpTo(<<Buffer(s_target), Mapping(s_pad_map')>>, s_game)
    <3>1. In(<<Buffer(s_target), Mapping(s_pad_map')>>) = {Buffer(s_target), Mapping(s_pad_map')}
      BY DEF In
    <3> QED
      BY <1>d, <3>1 DEF UpTo
  <2>6. \A c \in Players : /\ UpTo(Append(toClient[c], Mapping(s_pad_map')), s_game)
                           /\ UpTo(Append(toClient[c], Disable), s_game)
                           /\ Append(toClient[c], Disable) \in Seq(Messages)
    BY <1>a, <1>b, <1>d, <2>3, Grown, Appended
  <2>7. \A c \in Players : UpTo(Append(Append(toClient[c], Disable), Mapping(s_pad_map')), s_game)
    BY <1>d, <2>3, <2>6, Grown
  <2>8. \A c \in Players : Below(c)'
    BY <1>b, <1>e, <2>1, <2>2, <2>4, <2>5, <2>6, <2>7
  <2> QED
    BY <1>0, <1>c, <2>1, <2>8 DEF Queued
<1>7. ASSUME NEW p \in Players, Ignores(p) \/ Relays(p) \/ HearsStart(p) \/ HearsStop(p) PROVE Numbers'
  <2>1. /\ toServer[p] # <<>> /\ toServer' = [toServer EXCEPT ![p] = Tail(@)]
        /\ UNCHANGED <<s_async_queue, s_game, m_current_game, session>>
    BY <1>7 DEF Ignores, Relays, HearsStart, HearsStop
  <2>2. /\ UpTo(Tail(toServer[p]), s_game) /\ NoLater(Head(toServer[p]), s_game)
        /\ Head(toServer[p]) \in Messages
    BY <1>a, <1>b, <2>1, Shrunk
  <2>3. \A c \in Players : toServer'[c] = IF c = p THEN Tail(toServer[c]) ELSE toServer[c]
    BY <2>1 DEF TypeOK
  <2>4. \A c \in Players : UpTo(toServer'[c], s_game)
    BY <1>b, <2>2, <2>3
  <2>5. \A c \in Players : \/ toClient'[c] = toClient[c] \/ toClient'[c] = Append(toClient[c], Head(toServer[p]))
                           \/ toClient'[c] = Append(toClient[c], Stop)
    BY <1>7 DEF Ignores, Relays, HearsStart, HearsStop
  <2>6. \A c \in Players : UpTo(toClient'[c], s_game)
    <3>1. \A c \in Players : /\ UpTo(Append(toClient[c], Head(toServer[p])), s_game)
                             /\ UpTo(Append(toClient[c], Stop), s_game)
      BY <1>a, <1>b, <1>d, <2>2, Grown, NewMessages
    <3> QED
      BY <1>b, <2>5, <3>1
  <2>7. \A c \in Players : current_game'[c] <= s_game
    <3>1. HearsStart(p) => \A c \in Players : current_game'[c] = IF c = p THEN Head(toServer[p]).game ELSE current_game[c]
      BY DEF HearsStart, TypeOK
    <3>2. HearsStart(p) => Head(toServer[p]).game <= s_game
      BY <2>2 DEF HearsStart, NoLater
    <3>3. ~HearsStart(p) => current_game' = current_game
      BY <1>7 DEF Ignores, Relays, HearsStop
    <3> QED
      BY <1>b, <3>1, <3>2, <3>3
  <2> QED
    BY <1>0, <1>b, <1>c, <2>1, <2>4, <2>6, <2>7 DEF Queued
<1>8. ASSUME NEW c \in Players,
             \/ GetsState(c) \/ GetsMap(c) \/ GetsSize(c) \/ GetsStart(c) \/ GetsStop(c) \/ GetsDisable(c)
      PROVE  Numbers'
  <2>1. /\ toClient[c] # <<>> /\ toClient' = [toClient EXCEPT ![c] = Tail(@)]
        /\ UNCHANGED <<s_async_queue, s_game, session, current_game, toServer>>
    BY <1>8 DEF GetsState, GetsMap, GetsSize, GetsStart, GetsStop, GetsDisable
  <2>2. UpTo(Tail(toClient[c]), s_game) /\ NoLater(Head(toClient[c]), s_game)
    BY <1>a, <1>b, <2>1, Shrunk
  <2>3. \A d \in Players : toClient'[d] = IF d = c THEN Tail(toClient[d]) ELSE toClient[d]
    BY <2>1 DEF TypeOK
  <2>4. \A d \in Players : UpTo(toClient'[d], s_game)
    BY <1>b, <2>2, <2>3
  <2>5. \A d \in Players : m_current_game'[d] <= s_game
    <3>1. GetsStart(c) => \A d \in Players :
            m_current_game'[d] = IF d = c THEN Head(toClient[c]).game ELSE m_current_game[d]
      BY DEF GetsStart, TypeOK
    <3>2. GetsStart(c) => Head(toClient[c]).game <= s_game
      BY SMTT(40), <2>2 DEF GetsStart, NoLater
    <3>3. ~GetsStart(c) => m_current_game' = m_current_game
      BY <1>8 DEF GetsState, GetsMap, GetsSize, GetsStop, GetsDisable
    <3> QED
      BY <1>b, <3>1, <3>2, <3>3
  <2> QED
    BY SMTT(40), <1>0, <1>b, <1>c, <2>1, <2>4, <2>5 DEF Queued
<1>9. ASSUME NEW c \in Players, StartsMachine(c) \/ StartsAgain(c) \/ Quits(c) PROVE Numbers'
  <2>1. UNCHANGED <<s_async_queue, s_game, m_current_game, current_game, toClient>>
    BY <1>9 DEF StartsMachine, StartsAgain, Quits
  <2>2. \A d \in Players : session'[d] <= s_game
    <3>1. \A d \in Players : session'[d] = session[d] \/ session'[d] = m_current_game[d]
      <4>1. session' = session \/ session' = [session EXCEPT ![c] = m_current_game[c]]
        BY <1>9 DEF StartsMachine, StartsAgain, Quits
      <4>2. session \in [Players -> 0 .. MaxGames]
        BY DEF TypeOK
      <4> QED
        BY <4>1, <4>2
    <3> QED
      BY <1>b, <3>1
  <2>3. \A d \in Players : \/ toServer'[d] = toServer[d] \/ toServer'[d] = Append(toServer[d], Stop)
                           \/ d = c /\ m_current_game[c] # 0 /\ toServer'[d] = Append(toServer[d], Start(m_current_game[c]))
    <3>1. CASE StartsMachine(c) \/ StartsAgain(c)
      <4>1. gui[c] \in Seq({"start", "stop"}) /\ gui[c] # <<>> /\ Head(gui[c]) = "start"
        BY <3>1 DEF StartsMachine, StartsAgain, TypeOK
      <4>2. 1 \in DOMAIN gui[c] /\ gui[c][1] = "start"
        BY <4>1
      <4>3. m_current_game[c] # 0
        BY <4>2 DEF KindsOK
      <4>4. \/ toServer' = toServer
            \/ toServer' = [toServer EXCEPT ![c] = Append(@, Start(m_current_game[c]))]
        BY <3>1 DEF StartsMachine, StartsAgain
      <4>5. toServer \in [Players -> Seq(Messages)]
        BY DEF TypeOK
      <4> QED
        BY <4>3, <4>4, <4>5
    <3>2. CASE Quits(c)
      <4>1. toServer' = toServer \/ toServer' = [toServer EXCEPT ![c] = Append(@, Stop)]
        BY <3>2 DEF Quits
      <4>2. toServer \in [Players -> Seq(Messages)]
        BY DEF TypeOK
      <4> QED
        BY <4>1, <4>2
    <3> QED
      BY <1>9, <3>1, <3>2
  <2>4. \A d \in Players : UpTo(toServer'[d], s_game)
    <3>1. m_current_game[c] # 0 => Start(m_current_game[c]) \in Messages
      <4>1. m_current_game[c] \in 0 .. MaxGames /\ MaxGames \in Nat
        BY NetPlayAssumption DEF TypeOK
      <4>2. m_current_game[c] # 0 => m_current_game[c] \in 1 .. MaxGames
        BY <4>1
      <4> QED
        BY <4>2, NewMessages
    <3>2. NoLater(Start(m_current_game[c]), s_game) /\ NoLater(Stop, s_game) /\ Stop \in Messages
      BY <1>b, <1>d, NewMessages
    <3>3. \A d \in Players : /\ UpTo(Append(toServer[d], Stop), s_game)
                             /\ m_current_game[c] # 0 => UpTo(Append(toServer[d], Start(m_current_game[c])), s_game)
      BY <1>a, <1>b, <3>1, <3>2, Grown
    <3> QED
      BY <1>b, <2>3, <3>3
  <2> QED
    BY <1>0, <1>b, <1>c, <2>1, <2>2, <2>4 DEF Queued
<1>10. ASSUME NEW c \in Players, NEW s \in Pads, Polls(c, s) PROVE Numbers'
  <2>1. UNCHANGED <<s_async_queue, s_game, m_current_game, session, current_game, toClient>>
    BY <1>10 DEF Polls
  <2>2. \A d \in Players : \/ toServer'[d] = toServer[d]
                           \/ d = c /\ \E i \in Pads : toServer'[c] = toServer[c] \o AddedMsgs(c, i, Missing(c, s, i))
    <3>1. \/ toServer' = toServer
          \/ \E i \in Pads : toServer' = [toServer EXCEPT ![c] = @ \o AddedMsgs(c, i, Missing(c, s, i))]
      BY <1>10 DEF Polls, LocalPadToInGamePad
    <3>2. toServer \in [Players -> Seq(Messages)]
      BY DEF TypeOK
    <3> QED
      BY <3>1, <3>2
  <2>3. ASSUME NEW i \in Pads, toServer'[c] = toServer[c] \o AddedMsgs(c, i, Missing(c, s, i))
        PROVE  UpTo(toServer'[c], s_game)
    <3> DEFINE n == Missing(c, s, i)
    <3>1. n \in Nat
      BY <1>10, AddedTypes DEF Polls
    <3> HIDE DEF n
    <3>4. AddedMsgs(c, i, n) \in Seq(Messages)
      BY <1>10, <3>1, AddedTypes DEF Polls
    <3>5. In(toServer'[c]) = In(toServer[c]) \cup In(AddedMsgs(c, i, n))
      BY <1>a, <2>3, <3>4, Contents DEF n
    <3>6. \A m \in In(AddedMsgs(c, i, n)) : NoLater(m, s_game)
      <4>1. \A k \in 1 .. n : NoLater([type |-> "PAD", pad |-> i, state |-> <<session[c], pushed[c][i] + k>>], s_game)
        BY <1>b DEF NoLater
      <4> QED
        BY <3>1, <4>1 DEF AddedMsgs, In
    <3> QED
      BY <1>b, <3>5, <3>6 DEF UpTo
  <2>4. \A d \in Players : UpTo(toServer'[d], s_game)
    BY <1>b, <2>2, <2>3
  <2> QED
    BY <1>0, <1>b, <1>c, <2>1, <2>4 DEF Queued
<1>11. ASSUME NEW c \in Players,
              \/ Loses(c) \/ Disables(c, "net") \/ Disables(c, "gui") \/ StopsMachine(c)
              \/ Takes(c) \/ TakesNothing(c) \/ TurnsOff(c)
       PROVE  Numbers'
  BY <1>1, <1>11 DEF Loses, Disables, StopsMachine, Takes, TakesNothing, TurnsOff
<1>12. CASE UNCHANGED vars
  BY <1>1, <1>12 DEF vars, server, channels, settings, machine
<1> HIDE DEF Held, Below
<1> QED
  BY <1>2, <1>3, <1>4, <1>5, <1>6, <1>7, <1>8, <1>9, <1>10, <1>11, <1>12, Steps

\* No later announcement has the number of an earlier one.
LEMMA GrownStarts ==
  ASSUME NEW q \in Seq(Messages), NEW m \in Messages, Ascending(q),
         m.type = "START" => \E g \in Nat : g < m.game /\ UpTo(q, g)
  PROVE  Ascending(Append(q, m))
<1>1. /\ DOMAIN Append(q, m) = 1 .. Len(q) + 1 /\ DOMAIN q = 1 .. Len(q) /\ Len(q) \in Nat
      /\ \A i \in 1 .. Len(q) : Append(q, m)[i] = q[i]
      /\ Append(q, m)[Len(q) + 1] = m
  BY Appended, SeqTypes
<1> DEFINE a == Append(q, m)
           n == Len(q)
<1>2. /\ DOMAIN a = 1 .. n + 1 /\ DOMAIN q = 1 .. n /\ n \in Nat
      /\ \A i \in 1 .. n : a[i] = q[i]
      /\ a[n + 1] = m
  BY <1>1
<1> HIDE DEF a, n
<1>3. ASSUME NEW i \in 1 .. n + 1, NEW j \in 1 .. n + 1, i < j, a[i].type = "START", a[j].type = "START"
      PROVE  a[i].game < a[j].game
  <2>1. i \in 1 .. n /\ a[i] = q[i] /\ q[i] \in Messages
    <3>1. i \in 1 .. n
      BY <1>2, <1>3
    <3> QED
      BY <1>2, <3>1, SeqTypes
  <2>2. CASE j \in 1 .. n
    BY <1>2, <1>3, <2>1, <2>2 DEF Ascending
  <2>3. CASE j = n + 1
    <3>1. PICK g \in Nat : g < m.game /\ UpTo(q, g)
      BY <1>2, <1>3, <2>3
    <3>2. q[i].game <= g
      BY <1>2, <1>3, <2>1, <3>1 DEF UpTo, NoLater, In
    <3>3. q[i].game \in Nat /\ m.game \in Nat
      BY <1>2, <1>3, <2>1, <2>3, MessageTypes
    <3> QED
      BY <1>2, <2>1, <2>3, <3>1, <3>2, <3>3
  <2>4. j \in 1 .. n \/ j = n + 1
    BY <1>2
  <2> QED
    BY <2>2, <2>3, <2>4
<1> QED
  BY <1>2, <1>3 DEF Ascending, a

\* The rest of a queue announces what is later than its head.
LEMMA ShrunkStarts ==
  ASSUME NEW q \in Seq(Messages), q # <<>>, Ascending(q)
  PROVE  /\ Ascending(Tail(q))
         /\ Head(q).type = "START" => \A m \in In(Tail(q)) : m.type = "START" => Head(q).game < m.game
<1> DEFINE n == Len(q)
           t == Tail(q)
<1>1. /\ n \in Nat /\ n # 0 /\ DOMAIN q = 1 .. n /\ DOMAIN t = 1 .. n - 1
      /\ Head(q) = q[1] /\ \A i \in 1 .. n - 1 : t[i] = q[i + 1]
  BY Tailed
<1> HIDE DEF n, t
<1>2. /\ 1 \in 1 .. n
      /\ \A i \in 1 .. n - 1 : i + 1 \in 1 .. n /\ 1 < i + 1
      /\ \A i, j \in 1 .. n - 1 : i < j => i + 1 < j + 1
  BY <1>1
<1>3. Ascending(t)
  BY ZenonT(90), <1>1, <1>2 DEF Ascending
<1>4. ASSUME Head(q).type = "START", NEW m \in In(t), m.type = "START" PROVE Head(q).game < m.game
  <2>1. PICK i \in 1 .. n - 1 : m = t[i]
    BY <1>1 DEF In
  <2> QED
    BY <1>1, <1>2, <1>4, <2>1 DEF Ascending
<1> QED
  BY <1>3, <1>4 DEF t

\* A message that is an announcement.
LEMMA Announces ==
  ASSUME NEW q \in Seq(Messages)
  PROVE  HasStart(q) <=> \E m \in In(q) : m.type = "START"
BY DEF HasStart, Has, Types, In

\* A client to whom a game is still to be announced stays behind.
LEMMA AnnouncedNext ==
  ASSUME TypeOK, TypeOK', KindsOK, Members, Numbers, Announced, [Next]_vars
  PROVE  Announced'
<1> DEFINE Queued == HasStart(s_async_queue)
           Due(c) == Queued \/ HasStart(toClient[c])
           Good(c) == /\ Ascending(toClient[c])
                      /\ Queued => UpTo(toClient[c], s_game - 1)
                      /\ Due(c) => Behind(c, s_game)
<1>0. /\ Queued => Host \in s_players
      /\ \A c \in s_players : Good(c)
      /\ s_players \subseteq Players /\ Host \in Players
  BY NetPlayAssumption DEF Announced, TypeOK
<1>a. /\ s_async_queue \in Seq(Messages) /\ s_game \in Nat
      /\ \A c \in Players : /\ toClient[c] \in Seq(Messages) /\ toServer[c] \in Seq(Messages)
                            /\ m_current_game[c] \in Nat /\ session[c] \in Nat /\ current_game[c] \in Nat
  BY DEF TypeOK
<1>b. /\ s_async_queue' \in Seq(Messages) /\ s_game' \in Nat /\ s_players' \subseteq Players
      /\ \A c \in Players : toClient'[c] \in Seq(Messages) /\ toServer'[c] \in Seq(Messages)
  BY DEF TypeOK
<1>c. ASSUME Queued' => Host \in s_players', \A c \in s_players' : Good(c)' PROVE Announced'
  BY <1>c DEF Announced
<1>d. /\ \A n : NoLater(Buffer(n), s_game - 1) /\ Buffer(n).type # "START"
      /\ \A map : NoLater(Mapping(map), s_game - 1) /\ Mapping(map).type # "START"
      /\ NoLater(Stop, s_game - 1) /\ Stop.type # "START" /\ NoLater(Disable, s_game - 1) /\ Disable.type # "START"
  BY DEF NoLater, Buffer, Mapping, Stop, Disable
<1> HIDE DEF Queued
<1>1. ASSUME UNCHANGED <<s_async_queue, s_game, m_current_game, session, current_game, toClient>>,
             s_players' \subseteq s_players, Queued => Host \in s_players',
             \A c \in s_players' : Behind(c, s_game) => Behind(c, s_game)'
      PROVE  Announced'
  <2>1. Queued' <=> Queued
    BY <1>1 DEF Queued
  <2>2. \A c \in s_players' : Good(c)'
    BY <1>0, <1>1, <2>1
  <2> QED
    BY <1>1, <1>c, <2>1, <2>2
<1>2. ASSUME NEW c \in Players, NEW m \in Messages, Good(c), m.type # "START", NoLater(m, s_game - 1)
      PROVE  /\ Ascending(Append(toClient[c], m))
             /\ Queued => UpTo(Append(toClient[c], m), s_game - 1)
             /\ HasStart(Append(toClient[c], m)) <=> HasStart(toClient[c])
  BY <1>2, <1>a, Grown, GrownStarts, AppendedMarks
<1>3. CASE Starts
  <2>1. /\ s_game' = s_game + 1 /\ UNCHANGED <<m_current_game, session, current_game, toClient, toServer, s_players>>
        /\ Host \in s_players
    BY <1>3 DEF Starts, HostIsIdle
  <2>2. ASSUME NEW c \in s_players PROVE Good(c)'
    <3>1. Behind(c, s_game + 1)
      <4>1. m_current_game[c] <= s_game /\ session[c] <= s_game /\ current_game[c] <= s_game /\ UpTo(toServer[c], s_game)
        BY <1>0 DEF Numbers
      <4>2. ASSUME NEW m \in In(toServer[c]), StartOf(m, s_game + 1) PROVE FALSE
        <5>1. m.game <= s_game /\ m.game = s_game + 1
          BY <4>1, <4>2 DEF UpTo, NoLater, StartOf
        <5> QED
          BY <1>a, <5>1
      <4> QED
        BY <1>0, <1>a, <4>1, <4>2 DEF Behind
    <3>2. UpTo(toClient[c], s_game)
      BY <1>0 DEF Numbers
    <3>3. s_game' - 1 = s_game
      BY <1>a, <2>1
    <3>4. Behind(c, s_game)'
      BY <2>1, <3>1 DEF Behind
    <3> QED
      BY <1>0, <2>1, <2>2, <3>2, <3>3, <3>4
  <2> QED
    BY <1>c, <2>1, <2>2
<1>4. CASE Sends
  <2> DEFINE q == s_async_queue
  <2>1. /\ q # <<>> /\ s_async_queue' = Tail(q)
        /\ UNCHANGED <<s_game, m_current_game, session, current_game, toServer, s_players>>
        /\ \A c \in s_players : toClient'[c] = Append(toClient[c], Head(q))
    BY <1>0, <1>4 DEF Sends
  <2>2. Head(q) \in Messages /\ Head(q).type \in {"BUFFER", "START"} /\ Head(q) = q[1] /\ 1 \in DOMAIN q
    <3>1. Head(q) = q[1] /\ Head(q) \in Messages /\ DOMAIN q = 1 .. Len(q) /\ Len(q) \in Nat \ {0}
      BY <1>a, <2>1, Tailed
    <3>2. 1 \in DOMAIN q
      BY <3>1
    <3> QED
      BY <3>1, <3>2 DEF KindsOK
  <2>3. Queued <=> Queued' \/ Head(q).type = "START"
    BY <1>a, <2>1, TailedMarks DEF Queued
  <2>4. Head(q).type = "START" => ~Queued' /\ Head(q).game = s_game
    <3>1. ASSUME Head(q).type = "START" PROVE Len(q) = 1 /\ Head(q).game = s_game
      BY <2>2, <3>1 DEF Numbers
    <3>2. Len(q) = 1 => ~HasStart(Tail(q))
      <4>1. Len(q) = 1 => In(Tail(q)) = {}
        BY <1>a, <2>1 DEF In
      <4> QED
        BY <1>a, <2>1, <4>1, Announces, Tailed
    <3> QED
      BY <2>1, <3>1, <3>2 DEF Queued
  <2> HIDE DEF q
  <2>5. ASSUME NEW c \in s_players PROVE Good(c)'
    <3>0. /\ toClient'[c] = Append(toClient[c], Head(q)) /\ toClient[c] \in Seq(Messages) /\ Good(c) /\ c \in Players
          /\ (Behind(c, s_game) => Behind(c, s_game)') /\ s_game' = s_game
      BY <1>0, <1>a, <2>1 DEF Behind
    <3>1. CASE Head(q).type = "START"
      <4>1. Queued /\ UpTo(toClient[c], s_game - 1) /\ Behind(c, s_game)
        BY <2>3, <3>0, <3>1
      <4>2. Head(q).game = s_game /\ s_game - 1 < s_game /\ s_game - 1 \in Nat
        <5>1. s_game \in 1 .. MaxGames
          BY <2>2, <2>4, <3>1, MessageTypes
        <5> QED
          BY <1>a, <2>4, <3>1, <5>1
      <4>3. Ascending(toClient'[c])
        BY <2>2, <3>0, <4>1, <4>2, GrownStarts
      <4> QED
        BY <2>4, <3>0, <3>1, <4>1, <4>3
    <3>2. CASE Head(q).type # "START"
      <4>1. NoLater(Head(q), s_game - 1)
        BY <2>2, <3>2 DEF NoLater
      <4>2. /\ Ascending(toClient'[c])
            /\ Queued => UpTo(toClient'[c], s_game - 1)
            /\ HasStart(toClient'[c]) <=> HasStart(toClient[c])
        BY <1>2, <2>2, <3>0, <3>2, <4>1
      <4> QED
        BY <2>3, <3>0, <3>2, <4>2
    <3> QED
      BY <3>1, <3>2
  <2> QED
    BY <1>0, <1>c, <2>1, <2>3, <2>5
<1>5. ASSUME NEW map \in PadMaps, Assigns(map) PROVE Announced'
  <2>1. /\ UNCHANGED <<s_async_queue, s_game, m_current_game, session, current_game, toServer, s_players>>
        /\ \A c \in s_players : toClient'[c] = Append(toClient[c], Mapping(map))
        /\ Mapping(map) \in Messages
    BY <1>0, <1>5, NewMessages DEF Assigns
  <2>2. Queued' <=> Queued
    BY <2>1 DEF Queued
  <2>3. \A c \in s_players : Behind(c, s_game) => Behind(c, s_game)'
    BY <2>1 DEF Behind
  <2>4. \A c \in s_players : Good(c)'
    BY <1>0, <1>2, <1>d, <2>1, <2>2, <2>3
  <2> QED
    BY <1>0, <1>c, <2>1, <2>2, <2>4
<1>6. ASSUME NEW n \in Targets, Adjusts(n) PROVE Announced'
  <2>1. /\ UNCHANGED <<s_game, m_current_game, session, current_game, toServer, toClient, s_players>>
        /\ s_async_queue' = Append(s_async_queue, Buffer(n))
    BY <1>6 DEF Adjusts
  <2>2. Queued' <=> Queued
    BY <1>a, <1>d, <2>1, AppendedMarks, NewMessages DEF Queued
  <2>3. \A c \in s_players : Behind(c, s_game) => Behind(c, s_game)'
    BY <2>1 DEF Behind
  <2>4. \A c \in s_players : Good(c)'
    BY <1>0, <2>1, <2>2, <2>3
  <2> QED
    BY <1>0, <1>c, <2>1, <2>2, <2>4
<1>7. ASSUME NEW p \in Players, Joins(p) PROVE Announced'
  <2>1. UNCHANGED <<s_async_queue, s_game, m_current_game, session, current_game>> /\ s_async_queue = <<>>
    BY <1>7 DEF Joins, Arrived
  <2>2. ~Queued /\ ~Queued'
    <3>1. ~HasStart(<<>>)
      BY DEF HasStart, Has, Types
    <3> QED
      BY <2>1, <3>1 DEF Queued
  <2>3. ASSUME NEW c \in s_players' PROVE Good(c)'
    <3>1. CASE c = p
      <4>1. In(toClient'[c]) = {Buffer(s_target), Mapping(s_pad_map')}
        BY <1>7, <3>1 DEF Joins, In
      <4>2. ~HasStart(toClient'[c])
        BY ZenonT(90), <1>7, <1>b, <1>d, <3>1, <4>1, Announces DEF Joins
      <4>3. Ascending(toClient'[c])
        BY <4>1, <1>d DEF Ascending, In
      <4> QED
        BY <2>2, <4>2, <4>3
    <3>2. CASE c # p
      <4>1. c \in s_players /\ toClient'[c] = Append(toClient[c], Mapping(s_pad_map')) /\ Mapping(s_pad_map') \in Messages
        BY <1>0, <1>7, <2>3, <3>2, NewMessages DEF Joins
      <4>2. Behind(c, s_game) => Behind(c, s_game)'
        <5>1. toServer'[c] = toServer[c]
          BY <1>0, <1>7, <3>2, <4>1 DEF Joins, TypeOK
        <5> QED
          BY <2>1, <5>1 DEF Behind
      <4> QED
        BY <1>0, <1>2, <1>d, <2>1, <2>2, <4>1, <4>2
    <3> QED
      BY <3>1, <3>2
  <2> QED
    BY <1>c, <2>2, <2>3
<1>8. ASSUME NEW p \in Players, Leaves(p),
             \/ p # Host
             \/ current_game[p] = s_game
      PROVE  Announced'
  <2>1. /\ UNCHANGED <<s_async_queue, s_game, m_current_game, session, current_game>>
        /\ s_players' = s_players \ {p} /\ p \in s_players
    BY <1>8 DEF Leaves
  <2>2. Queued' <=> Queued
    BY <2>1 DEF Queued
  <2>3. Queued => p # Host
    <3>1. Queued => Behind(p, s_game)
      BY <1>0, <2>1
    <3> QED
      BY <1>8, <1>a, <3>1 DEF Behind
  <2>4. ASSUME NEW c \in s_players' PROVE Good(c)'
    <3>1. /\ c \in s_players /\ c # p /\ Mapping(s_pad_map') \in Messages /\ Disable \in Messages
          /\ \/ toClient'[c] = Append(toClient[c], Mapping(s_pad_map'))
             \/ toClient'[c] = Append(Append(toClient[c], Disable), Mapping(s_pad_map'))
      <4>1. c \in s_players /\ c # p /\ c \in Players
        BY <1>0, <2>1, <2>4
      <4>2. Mapping(s_pad_map') \in Messages /\ Disable \in Messages
        BY NewMessages DEF TypeOK
      <4> QED
        BY <1>8, <4>1, <4>2 DEF Leaves
    <3>2. Behind(c, s_game) => Behind(c, s_game)'
      <4>1. toServer'[c] = toServer[c]
        BY <1>0, <1>8, <3>1 DEF Leaves, TypeOK
      <4> QED
        BY SMTT(40), <2>1, <4>1 DEF Behind
    <3>3. /\ Ascending(Append(toClient[c], Disable))
          /\ Queued => UpTo(Append(toClient[c], Disable), s_game - 1)
          /\ HasStart(Append(toClient[c], Disable)) <=> HasStart(toClient[c])
          /\ Append(toClient[c], Disable) \in Seq(Messages)
      BY <1>0, <1>2, <1>a, <1>d, <3>1, Appended
    <3> DEFINE b == Append(Append(toClient[c], Disable), Mapping(s_pad_map'))
    <3>4. /\ Ascending(b)
          /\ Queued => UpTo(b, s_game - 1)
          /\ HasStart(b) <=> HasStart(toClient[c])
      <4> DEFINE a == Append(toClient[c], Disable)
                 m == Mapping(s_pad_map')
      <4>1. /\ a \in Seq(Messages) /\ m \in Messages /\ m.type # "START" /\ NoLater(m, s_game - 1)
            /\ Ascending(a) /\ (Queued => UpTo(a, s_game - 1)) /\ (HasStart(a) <=> HasStart(toClient[c]))
        BY <1>d, <3>1, <3>3
      <4> HIDE DEF a, m
      <4>2. /\ Ascending(Append(a, m))
            /\ Queued => UpTo(Append(a, m), s_game - 1)
            /\ HasStart(Append(a, m)) <=> HasStart(a)
        BY <4>1, Grown, GrownStarts, AppendedMarks
      <4> QED
        BY <4>1, <4>2 DEF a, m
    <3> HIDE DEF b
    <3>5. /\ Ascending(toClient'[c])
          /\ Queued => UpTo(toClient'[c], s_game - 1)
          /\ HasStart(toClient'[c]) <=> HasStart(toClient[c])
      BY <1>0, <1>2, <1>d, <3>1, <3>4 DEF b
    <3> QED
      BY <1>0, <2>1, <2>2, <3>1, <3>2, <3>5
  <2> QED
    BY <1>0, <1>c, <2>1, <2>2, <2>3, <2>4
<1>9. ASSUME NEW p \in Players, toServer[p] # <<>>, toServer' = [toServer EXCEPT ![p] = Tail(@)],
             UNCHANGED <<s_game, m_current_game, session>>,
             current_game'[p] < s_game \/ current_game'[p] = current_game[p],
             \A c \in Players : c # p => current_game'[c] = current_game[c]
      PROVE  \A c \in Players : Behind(c, s_game) => Behind(c, s_game)'
  <2> SUFFICES ASSUME NEW c \in Players, Behind(c, s_game) PROVE Behind(c, s_game)'
    OBVIOUS
  <2>1. toServer'[c] = IF c = p THEN Tail(toServer[c]) ELSE toServer[c]
    <3>1. toServer \in [Players -> Seq(Messages)]
      BY DEF TypeOK
    <3> QED
      BY <1>9, <3>1
  <2>2. In(toServer'[c]) \subseteq In(toServer[c])
    <3>1. toServer[p] \in Seq(Messages)
      BY <1>a
    <3>2. In(Tail(toServer[p])) \subseteq In(toServer[p])
      BY <1>9, <3>1, Shrunk
    <3> QED
      BY <2>1, <3>2
  <2> QED
    BY <1>9, <2>2 DEF Behind
<1>10. ASSUME NEW p \in Players, Ignores(p) PROVE Announced'
  <2>1. \A c \in Players : Behind(c, s_game) => Behind(c, s_game)'
    BY <1>9, <1>10 DEF Ignores
  <2> QED
    BY <1>0, <1>1, <1>10, <2>1 DEF Ignores
<1>11. ASSUME NEW p \in Players, HearsStart(p) PROVE Announced'
  <2>1. /\ p \in s_players /\ toServer[p] # <<>> /\ Head(toServer[p]).type = "START"
        /\ current_game' = [current_game EXCEPT ![p] = Head(toServer[p]).game]
        /\ toServer' = [toServer EXCEPT ![p] = Tail(@)]
        /\ UNCHANGED <<s_async_queue, s_game, m_current_game, session, toClient, s_players>>
    BY <1>11 DEF HearsStart
  <2>2. \A c \in Players : current_game'[c] = IF c = p THEN Head(toServer[p]).game ELSE current_game[c]
    BY <2>1 DEF TypeOK
  <2>3. Head(toServer[p]) \in In(toServer[p]) /\ Head(toServer[p]) \in Messages
    BY <1>a, <2>1, Contents, Tailed
  <2>4. Head(toServer[p]).game <= s_game /\ Head(toServer[p]).game \in Nat
    <3>1. UpTo(toServer[p], s_game)
      BY DEF Numbers
    <3> QED
      BY <2>1, <2>3, <3>1, MessageTypes DEF UpTo, NoLater
  <2>5. ASSUME NEW c \in Players, Behind(c, s_game) PROVE Behind(c, s_game)'
    <3>1. CASE c = p
      <4>1. Head(toServer[p]).game # s_game
        BY <2>1, <2>3, <2>5, <3>1 DEF Behind, StartOf
      <4>2. current_game'[p] < s_game
        BY <1>a, <2>2, <2>4, <4>1
      <4> QED
        BY <1>9, <2>1, <2>2, <2>5, <4>2
    <3>2. CASE c # p
      <4>1. toServer'[c] = toServer[c]
        BY <2>1, <3>2 DEF TypeOK
      <4> QED
        BY <2>1, <2>2, <2>5, <3>2, <4>1 DEF Behind
    <3> QED
      BY <3>1, <3>2
  <2>6. Queued' <=> Queued
    BY <2>1 DEF Queued
  <2>7. \A c \in s_players' : Good(c)'
    BY <1>0, <2>1, <2>5, <2>6
  <2> QED
    BY <1>0, <1>c, <2>1, <2>6, <2>7
<1>12. ASSUME NEW p \in Players, HearsStop(p) PROVE Announced'
  <2>1. /\ UNCHANGED <<s_async_queue, s_game, m_current_game, session, current_game, s_players>>
        /\ \A c \in s_players : toClient'[c] = Append(toClient[c], Stop)
        /\ Stop \in Messages
    BY <1>0, <1>12, NewMessages DEF HearsStop
  <2>2. Queued' <=> Queued
    BY <2>1 DEF Queued
  <2>3. \A c \in Players : Behind(c, s_game) => Behind(c, s_game)'
    BY <1>9, <1>12 DEF HearsStop
  <2>4. \A c \in s_players : Good(c)'
    BY <1>0, <1>2, <1>d, <2>1, <2>2, <2>3
  <2> QED
    BY <1>0, <1>c, <2>1, <2>2, <2>4
<1>13. ASSUME NEW p \in Players, Relays(p) PROVE Announced'
  <2> DEFINE m == Head(toServer[p])
  <2>1. /\ p \in s_players /\ toServer[p] # <<>> /\ m.type = "PAD" /\ current_game[p] = s_game
        /\ UNCHANGED <<s_async_queue, s_game, m_current_game, session, current_game, s_players>>
        /\ \A c \in s_players : toClient'[c] = toClient[c] \/ toClient'[c] = Append(toClient[c], m)
    BY <1>0, <1>13 DEF Relays
  <2>2. m \in Messages
    BY <1>a, <2>1, Tailed
  <2>3. Queued' <=> Queued
    BY <2>1 DEF Queued
  <2>4. ~Queued
    BY <1>0, <1>a, <2>1 DEF Behind
  <2>5. \A c \in Players : Behind(c, s_game) => Behind(c, s_game)'
    BY <1>9, <1>13 DEF Relays
  <2> HIDE DEF m
  <2>6. ASSUME NEW c \in s_players PROVE Good(c)'
    <3>1. Good(c) /\ c \in Players /\ toClient[c] \in Seq(Messages)
      BY <1>0, <1>a
    <3>2. /\ Ascending(Append(toClient[c], m))
          /\ HasStart(Append(toClient[c], m)) <=> HasStart(toClient[c])
      BY <2>1, <2>2, <3>1, GrownStarts, AppendedMarks
    <3>3. Ascending(toClient'[c]) /\ (HasStart(toClient'[c]) <=> HasStart(toClient[c]))
      BY <2>1, <3>1, <3>2
    <3> QED
      BY <2>1, <2>3, <2>4, <2>5, <3>1, <3>3
  <2> QED
    BY <1>0, <1>c, <2>1, <2>3, <2>6
<1>14. ASSUME NEW c \in Players,
              \/ GetsState(c) \/ GetsMap(c) \/ GetsSize(c) \/ GetsStart(c) \/ GetsStop(c) \/ GetsDisable(c)
       PROVE  Announced'
  <2> DEFINE q == toClient[c]
  <2>1. /\ q # <<>> /\ toClient' = [toClient EXCEPT ![c] = Tail(@)] /\ link[c] = "up"
        /\ UNCHANGED <<s_async_queue, s_game, session, current_game, toServer, s_players>>
    BY <1>14 DEF GetsState, GetsMap, GetsSize, GetsStart, GetsStop, GetsDisable
  <2>2. \A d \in Players : toClient'[d] = IF d = c THEN Tail(toClient[d]) ELSE toClient[d]
    BY <2>1 DEF TypeOK
  <2>3. c \in s_players /\ Good(c) /\ (Queued' <=> Queued)
    BY SMTT(40), <1>0, <2>1 DEF Members, Queued
  <2>4. \/ m_current_game' = m_current_game
        \/ Head(q).type = "START" /\ m_current_game' = [m_current_game EXCEPT ![c] = Head(q).game]
    BY <1>14 DEF GetsState, GetsMap, GetsSize, GetsStart, GetsStop, GetsDisable
  <2>5. \A d \in Players : \/ m_current_game'[d] = m_current_game[d]
                           \/ d = c /\ Head(q).type = "START" /\ m_current_game'[d] = Head(q).game
    <3>1. m_current_game \in [Players -> 0 .. MaxGames]
      BY DEF TypeOK
    <3> QED
      BY <2>4, <3>1
  <2>6. /\ Ascending(Tail(q)) /\ (HasStart(q) <=> HasStart(Tail(q)) \/ Head(q).type = "START")
        /\ Head(q) \in In(q) /\ In(q) = In(Tail(q)) \cup {Head(q)} /\ Tail(q) \in Seq(Messages) /\ Head(q) \in Messages
        /\ Head(q).type = "START" => \A m \in In(Tail(q)) : m.type = "START" => Head(q).game < m.game
    BY <1>a, <2>1, <2>3, ShrunkStarts, TailedMarks, Contents, Tailed
  <2>7. ASSUME Head(q).type = "START", Queued \/ HasStart(Tail(q)) PROVE Head(q).game < s_game
    <3>0. Head(q).game \in Nat
      BY <2>6, <2>7, MessageTypes
    <3>1. CASE Queued
      <4>1. Head(q).game <= s_game - 1
        BY <2>3, <2>6, <2>7, <3>1 DEF UpTo, NoLater
      <4> QED
        BY <1>a, <3>0, <4>1
    <3>2. CASE HasStart(Tail(q))
      <4>1. PICK m \in In(Tail(q)) : m.type = "START"
        BY <2>6, <3>2, Announces
      <4>2. m \in In(q) /\ UpTo(q, s_game) /\ m \in Messages
        BY <1>a, <2>6, <4>1, Contents DEF Numbers
      <4>3. Head(q).game < m.game /\ m.game <= s_game /\ m.game \in Nat
        BY <2>6, <2>7, <4>1, <4>2, MessageTypes DEF UpTo, NoLater
      <4> QED
        BY <1>a, <3>0, <4>3
    <3> QED
      BY <2>7, <3>1, <3>2
  <2>8. ASSUME NEW d \in s_players PROVE Good(d)'
    <3>1. CASE d # c
      <4>1. toClient'[d] = toClient[d] /\ m_current_game'[d] = m_current_game[d] /\ d \in Players
        BY <1>0, <2>2, <2>5, <3>1
      <4> QED
        BY <1>0, <2>1, <2>3, <4>1 DEF Behind
    <3>2. CASE d = c
      <4>0. d \in Players /\ toClient'[d] = Tail(toClient[d])
        BY <1>0, <2>2, <3>2
      <4>a. Queued => UpTo(Tail(q), s_game - 1)
        BY <1>a, <2>1, <2>3, Shrunk
      <4>b. toClient'[d] = Tail(q)
        BY <3>2, <4>0
      <4>1. toClient'[d] = Tail(q) /\ Ascending(Tail(q)) /\ (Queued => UpTo(Tail(q), s_game - 1))
        <5> HIDE DEF q
        <5> QED
          BY <2>6, <4>b, <4>a
      <4>2. ASSUME Queued \/ HasStart(Tail(q)) PROVE Behind(c, s_game)'
        <5>1. Behind(c, s_game)
          BY <2>3, <2>6, <4>2
        <5>2. m_current_game'[c] < s_game
          BY <2>5, <2>7, <4>2, <5>1 DEF Behind
        <5> QED
          BY <2>1, <5>1, <5>2 DEF Behind
      <4> QED
        BY <2>1, <2>3, <3>2, <4>1, <4>2
    <3> QED
      BY <3>1, <3>2
  <2> QED
    BY <1>0, <1>c, <2>1, <2>3, <2>8
<1>15. ASSUME NEW c \in Players, StartsMachine(c) \/ StartsAgain(c) \/ Quits(c) PROVE Announced'
  <2>1. UNCHANGED <<s_async_queue, s_game, m_current_game, current_game, toClient, s_players>>
    BY <1>15 DEF StartsMachine, StartsAgain, Quits
  <2>2. \A d \in Players : session'[d] = session[d] \/ session'[d] = m_current_game[d]
    <3>1. session' = session \/ session' = [session EXCEPT ![c] = m_current_game[c]]
      BY <1>15 DEF StartsMachine, StartsAgain, Quits
    <3>2. session \in [Players -> 0 .. MaxGames]
      BY DEF TypeOK
    <3> QED
      BY <3>1, <3>2
  <2>3. \A d \in Players : \/ toServer'[d] = toServer[d] \/ toServer'[d] = Append(toServer[d], Stop)
                           \/ toServer'[d] = Append(toServer[d], Start(m_current_game[d]))
    <3>1. \/ toServer' = toServer \/ toServer' = [toServer EXCEPT ![c] = Append(@, Stop)]
          \/ toServer' = [toServer EXCEPT ![c] = Append(@, Start(m_current_game[c]))]
      BY <1>15 DEF StartsMachine, StartsAgain, Quits
    <3>2. toServer \in [Players -> Seq(Messages)]
      BY DEF TypeOK
    <3> QED
      BY <3>1, <3>2
  <2>4. ASSUME NEW d \in Players, Behind(d, s_game) PROVE Behind(d, s_game)'
    <3>1. m_current_game[d] < s_game
      BY <2>4 DEF Behind
    <3>2. \A m \in In(toServer'[d]) : ~StartOf(m, s_game)
      <4>1. \A m : In(Append(toServer[d], m)) \subseteq In(toServer[d]) \cup {m}
        <5> SUFFICES ASSUME NEW m PROVE In(Append(toServer[d], m)) \subseteq In(toServer[d]) \cup {m}
          OBVIOUS
        <5>1. toServer[d] \in Seq(Messages \cup {m}) /\ m \in Messages \cup {m}
          BY <1>a
        <5> QED
          BY <5>1, Contents
      <4>2. ~StartOf(Stop, s_game) /\ ~StartOf(Start(m_current_game[d]), s_game)
        <5>1. m_current_game[d] # s_game
          BY <1>a, <3>1
        <5> QED
          BY <5>1 DEF StartOf, Stop, Start
      <4>3. \A m \in In(toServer[d]) : ~StartOf(m, s_game)
        BY <2>4 DEF Behind
      <4>4. In(toServer'[d]) \subseteq In(toServer[d]) \cup {Stop, Start(m_current_game[d])}
        BY <2>3, <4>1
      <4> QED
        BY <4>2, <4>3, <4>4
    <3> QED
      BY <2>1, <2>2, <2>4, <3>1, <3>2 DEF Behind
  <2>5. \A d \in s_players' : Behind(d, s_game) => Behind(d, s_game)'
    BY <1>0, <2>1, <2>4
  <2>6. UNCHANGED <<s_async_queue, s_game, m_current_game, current_game, toClient, s_players>>
    BY <2>1
  <2>7. \A d \in s_players' : Good(d)'
    <3>1. Queued' <=> Queued
      BY <2>1 DEF Queued
    <3> QED
      BY <1>0, <2>5, <2>6, <3>1
  <2> QED
    BY <1>0, <1>c, <2>1, <2>7 DEF Queued
<1>16. ASSUME NEW c \in Players, NEW s \in Pads, Polls(c, s) PROVE Announced'
  <2>1. UNCHANGED <<s_async_queue, s_game, m_current_game, session, current_game, toClient, s_players>>
    BY <1>16 DEF Polls
  <2>2. ASSUME NEW d \in Players, Behind(d, s_game) PROVE Behind(d, s_game)'
    <3>1. \/ toServer'[d] = toServer[d]
          \/ \E i \in Pads : d = c /\ toServer'[c] = toServer[c] \o AddedMsgs(c, i, Missing(c, s, i))
      <4>1. \/ toServer' = toServer
            \/ \E i \in Pads : toServer' = [toServer EXCEPT ![c] = @ \o AddedMsgs(c, i, Missing(c, s, i))]
        BY <1>16 DEF Polls, LocalPadToInGamePad
      <4>2. toServer \in [Players -> Seq(Messages)]
        BY DEF TypeOK
      <4> QED
        BY <4>1, <4>2
    <3>2. ASSUME NEW i \in Pads, d = c, toServer'[c] = toServer[c] \o AddedMsgs(c, i, Missing(c, s, i))
          PROVE  \A m \in In(toServer'[d]) : ~StartOf(m, s_game)
      <4>1. AddedMsgs(c, i, Missing(c, s, i)) \in Seq(Messages)
        BY <1>16, <3>2, AddedTypes DEF Polls
      <4>2. In(toServer'[d]) = In(toServer[d]) \cup In(AddedMsgs(c, i, Missing(c, s, i)))
        BY <1>a, <3>2, <4>1, Contents
      <4>3. \A m \in In(AddedMsgs(c, i, Missing(c, s, i))) : ~StartOf(m, s_game)
        BY DEF AddedMsgs, In, StartOf
      <4> QED
        BY <2>2, <4>2, <4>3 DEF Behind
    <3> QED
      BY <2>1, <2>2, <3>1, <3>2 DEF Behind
  <2> QED
    BY <1>0, <1>1, <2>1, <2>2
<1>17. ASSUME NEW c \in Players,
              \/ Loses(c) \/ Disables(c, "net") \/ Disables(c, "gui") \/ StopsMachine(c)
              \/ Takes(c) \/ TakesNothing(c) \/ TurnsOff(c)
       PROVE  UNCHANGED <<s_async_queue, s_game, m_current_game, session, current_game, toClient, toServer, s_players>>
  BY <1>17 DEF Loses, Disables, StopsMachine, Takes, TakesNothing, TurnsOff
<1>18. ASSUME UNCHANGED <<s_async_queue, s_game, m_current_game, session, current_game, toClient, toServer, s_players>>
       PROVE  Announced'
  BY <1>0, <1>1, <1>18 DEF Behind
<1>19. CASE UNCHANGED vars
  BY <1>18, <1>19 DEF vars, server, channels, settings, machine
<1> QED
  BY <1>3, <1>4, <1>5, <1>6, <1>7, <1>8, <1>10, <1>11, <1>12, <1>13, <1>14, <1>15, <1>16, <1>17, <1>18, <1>19, Steps
-----------------------------------------------------------------------------
(* Who plays, and what the host knows of it                                *)

\* What a message does to the marks that is neither an announcement nor a stop.
LEMMA QuietMarks ==
  ASSUME NEW q \in Seq(Messages), NEW m \in Messages, m.type \notin {"START", "STOP"}
  PROVE  /\ Append(q, m) \in Seq(Messages)
         /\ HasStart(Append(q, m)) <=> HasStart(q)
         /\ NoStop(Append(q, m)) <=> NoStop(q)
         /\ Ends(Append(q, m)) <=> Ends(q)
         /\ Alternates(Append(q, m)) <=> Alternates(q)
         /\ StopsFirst(Append(q, m)) <=> StopsFirst(q)
<1> DEFINE a == Append(q, m)
<1>1. a \in Seq(Messages)
  BY Appended
<1>2. /\ HasStart(a) <=> HasStart(q) \/ m.type = "START"
      /\ NoStop(a) <=> NoStop(q) /\ m.type # "STOP"
      /\ Ends(a) <=> m.type = "START" \/ (Ends(q) /\ m.type # "STOP")
      /\ Alternates(a) <=> Alternates(q) /\ (m.type = "START" => ~Ends(q))
      /\ StopsFirst(a) <=> StopsFirst(q) /\ (m.type = "START" => ~NoStop(q))
  BY AppendedMarks
<1> HIDE DEF a
<1> QED
  BY <1>1, <1>2 DEF a

\* An empty channel.
LEMMA EmptyMarks ==
  ~HasStart(<<>>) /\ NoStop(<<>>) /\ ~Ends(<<>>) /\ Alternates(<<>>) /\ StopsFirst(<<>>)
BY DEF HasStart, NoStop, Ends, Alternates, StopsFirst, Has, Lacks, HasLast, Alternating, Before, Types

\* What ends with an announcement has one.
LEMMA EndsStart ==
  ASSUME NEW q \in Seq(Messages)
  PROVE  Ends(q) => HasStart(q)
BY DEF Ends, HasStart, HasLast, Has

\* The GUI's queue.
LEMMA GuiGrown ==
  ASSUME NEW q \in Seq({"start", "stop"})
  PROVE  /\ HasLast(Append(q, "start"), "start", "stop")
         /\ Alternating(Append(q, "start"), "start", "stop") <=>
              Alternating(q, "start", "stop") /\ ~HasLast(q, "start", "stop")
         /\ Before(Append(q, "start"), "stop", "start") <=> Before(q, "stop", "start") /\ ~Lacks(q, "stop")
         /\ ~HasLast(Append(q, "stop"), "start", "stop") /\ ~Lacks(Append(q, "stop"), "stop")
         /\ Alternating(Append(q, "stop"), "start", "stop") <=> Alternating(q, "start", "stop")
         /\ Before(Append(q, "stop"), "stop", "start") <=> Before(q, "stop", "start")
<1> DEFINE a == "start"
           z == "stop"
           S == {a, z}
<1>1. q \in Seq(S) /\ a \in S /\ z \in S /\ a # z
  OBVIOUS
<1> HIDE DEF a, z, S
<1>2. /\ HasLast(Append(q, a), a, z) <=> a = a \/ (HasLast(q, a, z) /\ a # z)
      /\ Alternating(Append(q, a), a, z) <=> Alternating(q, a, z) /\ (a = a => ~HasLast(q, a, z))
      /\ Before(Append(q, a), z, a) <=> Before(q, z, a) /\ (a = a => ~Lacks(q, z))
  BY <1>1, AppendedSigns
<1>3. /\ Lacks(Append(q, z), z) <=> Lacks(q, z) /\ z # z
      /\ HasLast(Append(q, z), a, z) <=> z = a \/ (HasLast(q, a, z) /\ z # z)
      /\ Alternating(Append(q, z), a, z) <=> Alternating(q, a, z) /\ (z = a => ~HasLast(q, a, z))
      /\ Before(Append(q, z), z, a) <=> Before(q, z, a) /\ (z = a => ~Lacks(q, z))
  BY <1>1, AppendedSigns
<1>4. /\ HasLast(Append(q, a), a, z)
      /\ Alternating(Append(q, a), a, z) <=> Alternating(q, a, z) /\ ~HasLast(q, a, z)
      /\ Before(Append(q, a), z, a) <=> Before(q, z, a) /\ ~Lacks(q, z)
      /\ ~HasLast(Append(q, z), a, z) /\ ~Lacks(Append(q, z), z)
      /\ Alternating(Append(q, z), a, z) <=> Alternating(q, a, z)
      /\ Before(Append(q, z), z, a) <=> Before(q, z, a)
  BY <1>1, <1>2, <1>3
<1> QED
  BY <1>4 DEF a, z

LEMMA GuiShrunk ==
  ASSUME NEW q \in Seq({"start", "stop"}), q # <<>>
  PROVE  /\ Head(q) = "start" => /\ HasLast(q, "start", "stop") <=>
                                      HasLast(Tail(q), "start", "stop") \/ Lacks(Tail(q), "stop")
                                 /\ Alternating(q, "start", "stop") => Before(Tail(q), "stop", "start")
                                 /\ ~Before(q, "stop", "start")
         /\ Head(q) = "stop" => /\ HasLast(q, "start", "stop") <=> HasLast(Tail(q), "start", "stop")
                                /\ ~Lacks(q, "stop")
         /\ Alternating(q, "start", "stop") => Alternating(Tail(q), "start", "stop")
<1> DEFINE a == "start"
           z == "stop"
           S == {a, z}
           t == Tail(q)
           h == Head(q)
<1>1. q \in Seq(S) /\ a # z
  OBVIOUS
<1> HIDE DEF a, z, S
<1>2. /\ Lacks(q, z) <=> Lacks(t, z) /\ h # z
      /\ HasLast(q, a, z) <=> HasLast(t, a, z) \/ (h = a /\ Lacks(t, z))
      /\ Alternating(q, a, z) <=> Alternating(t, a, z) /\ (h = a => Before(t, z, a))
      /\ Before(q, z, a) => h # a /\ (h = z \/ Before(t, z, a))
  BY <1>1, TailedSigns
<1> HIDE DEF h, t
<1>3. /\ h = a => /\ HasLast(q, a, z) <=> HasLast(t, a, z) \/ Lacks(t, z)
                  /\ Alternating(q, a, z) => Before(t, z, a)
                  /\ ~Before(q, z, a)
      /\ h = z => /\ HasLast(q, a, z) <=> HasLast(t, a, z)
                  /\ ~Lacks(q, z)
      /\ Alternating(q, a, z) => Alternating(t, a, z)
  BY <1>1, <1>2
<1> QED
  BY <1>3 DEF a, z, h, t

LEMMA GuiEmpty ==
  /\ ~HasLast(<<>>, "start", "stop") /\ Lacks(<<>>, "stop")
  /\ Alternating(<<>>, "start", "stop") /\ Before(<<>>, "stop", "start")
BY DEF HasLast, Lacks, Alternating, Before

\* What a client's network thread takes from its channel.
LEMMA Gets ==
  ASSUME TypeOK, Members, NEW c \in Players,
         \/ GetsState(c) \/ GetsMap(c) \/ GetsSize(c) \/ GetsStart(c) \/ GetsStop(c) \/ GetsDisable(c)
  PROVE  /\ c \in s_players /\ toClient[c] # <<>> /\ toClient[c] \in Seq(Messages) /\ Head(toClient[c]) \in Messages
         /\ toClient'[c] = Tail(toClient[c]) /\ \A d \in Players : d # c => toClient'[d] = toClient[d]
         /\ UNCHANGED <<s_players, s_pad_map, s_target, s_game, s_running, s_async_queue,
                        current_game, toServer, link, cpu, slot, stopping, session, pushed, polled>>
<1>1. /\ toClient[c] # <<>> /\ toClient' = [toClient EXCEPT ![c] = Tail(@)] /\ link[c] = "up"
      /\ UNCHANGED <<s_players, s_pad_map, s_target, s_game, s_running, s_async_queue,
                     current_game, toServer, link, cpu, slot, stopping, session, pushed, polled>>
  BY DEF GetsState, GetsMap, GetsSize, GetsStart, GetsStop, GetsDisable
<1>2. toClient \in [Players -> Seq(Messages)]
  BY DEF TypeOK
<1>3. toClient[c] \in Seq(Messages) /\ Head(toClient[c]) \in Messages
  <2>1. toClient[c] \in Seq(Messages)
    BY <1>2
  <2> QED
    BY <1>1, <2>1, Tailed
<1>4. c \in s_players
  BY <1>1 DEF Members
<1> QED
  BY SMTT(40), <1>1, <1>2, <1>3, <1>4

\* What the server sends when a player leaves.
LEMMA Left ==
  ASSUME TypeOK, TypeOK', NEW p \in Players, Leaves(p), NEW c \in s_players'
  PROVE  /\ c \in s_players /\ c # p /\ c \in Players /\ toServer'[c] = toServer[c]
         /\ Mapping(s_pad_map') \in Messages /\ Disable \in Messages
         /\ \/ toClient'[c] = Append(toClient[c], Mapping(s_pad_map'))
            \/ /\ toClient'[c] = Append(Append(toClient[c], Disable), Mapping(s_pad_map'))
               /\ s_running /\ ~s_running'
<1>1. c \in s_players /\ c # p /\ c \in Players
  BY DEF Leaves, TypeOK
<1>2. Mapping(s_pad_map') \in Messages /\ Disable \in Messages
  BY NewMessages DEF TypeOK
<1>3. toServer'[c] = toServer[c]
  BY <1>1 DEF Leaves, TypeOK
<1>4. toClient'[c] = IF s_running /\ ~s_running' /\ c # Host
                     THEN Append(Append(toClient[c], Disable), Mapping(s_pad_map'))
                     ELSE Append(toClient[c], Mapping(s_pad_map'))
  BY <1>1 DEF Leaves
<1> QED
  BY <1>1, <1>2, <1>3, <1>4

\* The host whose buttons are enabled is not about to play.
LEMMA Idle ==
  ASSUME TypeOK, HostIsIdle
  PROVE  ~HasStart(s_async_queue) /\ ~HasStart(toClient[Host]) /\ ~HostPlays
<1>1. s_async_queue \in Seq(Messages) /\ toClient[Host] \in Seq(Messages) /\ startable
  BY NetPlayAssumption DEF TypeOK, HostIsIdle
<1>2. ASSUME NEW q \in Seq(Messages), \A g \in 1 .. MaxGames : \A i \in DOMAIN q : q[i] # Start(g)
      PROVE  ~HasStart(q)
  <2>1. ASSUME NEW m \in In(q), m.type = "START" PROVE FALSE
    <3>1. m \in Messages /\ \E i \in DOMAIN q : m = q[i]
      BY Contents DEF In
    <3> QED
      BY <1>2, <2>1, <3>1, MessageTypes
  <2> QED
    BY <2>1, Announces
<1>3. ~HasStart(s_async_queue) /\ ~HasStart(toClient[Host])
  BY <1>1, <1>2 DEF HostIsIdle
<1> QED
  BY <1>1, <1>3, EndsStart DEF HostPlays
\* No client that plays is told to start, and the host starts no game while somebody plays.
LEMMA AlternateNext ==
  ASSUME TypeOK, TypeOK', KindsOK, Members, Numbers, Announced, Alternate, HostKnows, [Next]_vars
  PROVE  Alternate' /\ HostKnows'
<1> DEFINE Queued == HasStart(s_async_queue)
           Good(c) == /\ Alternating(gui[c], "start", "stop")
                      /\ m_is_running[c] => Before(gui[c], "stop", "start")
                      /\ Alternates(toClient[c])
                      /\ GuiPlays(c) => StopsFirst(toClient[c])
                      /\ Queued => ~Plays(c)
           \* the marks of the channel are as before
           Same(c) == /\ NoStop(toClient[c])' <=> NoStop(toClient[c])
                      /\ Ends(toClient[c])' <=> Ends(toClient[c])
                      /\ Alternates(toClient[c]) => Alternates(toClient[c])'
                      /\ StopsFirst(toClient[c]) => StopsFirst(toClient[c])'
<1>0. /\ \A c \in s_players : Good(c) /\ (Plays(c) => HostPlays)
      /\ s_running => HostPlays
      /\ s_players \subseteq Players /\ s_players' \subseteq Players /\ Host \in Players
  BY NetPlayAssumption DEF Alternate, HostKnows, TypeOK
<1>a. /\ s_async_queue \in Seq(Messages) /\ s_async_queue' \in Seq(Messages)
      /\ \A c \in Players : /\ toClient[c] \in Seq(Messages) /\ toClient'[c] \in Seq(Messages)
                            /\ toServer[c] \in Seq(Messages)
                            /\ gui[c] \in Seq({"start", "stop"})
                            /\ m_is_running[c] \in BOOLEAN
      /\ startable \in BOOLEAN
  BY DEF TypeOK
<1>b. ASSUME \A c \in s_players' : Good(c)' /\ (Plays(c)' => HostPlays'), s_running' => HostPlays'
      PROVE  Alternate' /\ HostKnows'
  BY <1>b DEF Alternate, HostKnows
<1>d. /\ \A n : Buffer(n).type \notin {"START", "STOP"}
      /\ \A map : Mapping(map).type \notin {"START", "STOP"}
      /\ Disable.type \notin {"START", "STOP"} /\ Stop.type = "STOP"
  BY DEF Buffer, Mapping, Disable, Stop
<1> HIDE DEF Queued
<1>c. HostPlays <=> Queued \/ Ends(toClient[Host]) \/ (NoStop(toClient[Host]) /\ ~startable)
  BY DEF HostPlays, Queued
<1>e. HostPlays' <=> Queued' \/ Ends(toClient[Host])' \/ (NoStop(toClient[Host])' /\ ~startable')
  BY DEF HostPlays, Queued
\* steps that open nothing
<1>1. ASSUME NEW c \in s_players, c \in s_players', Same(c), gui'[c] = gui[c], Queued' => Queued \/ ~Plays(c),
             m_is_running'[c] => m_is_running[c]
      PROVE  Good(c)' /\ (Plays(c)' => Plays(c))
  <2>1. Good(c)
    BY <1>0
  <2>2. GuiPlays(c)' => GuiPlays(c)
    BY <1>1 DEF GuiPlays
  <2>3. Plays(c)' => Plays(c)
    BY <1>1, <2>2 DEF Plays
  <2>4. Alternating(gui[c], "start", "stop")' /\ (m_is_running'[c] => Before(gui[c], "stop", "start")')
    BY <1>1, <2>1
  <2>5. Alternates(toClient[c])' /\ (GuiPlays(c)' => StopsFirst(toClient[c])')
    BY <1>1, <2>1, <2>2
  <2> QED
    BY <1>1, <2>1, <2>3, <2>4, <2>5
<1>2. ASSUME NEW c \in Players, toClient'[c] = toClient[c] PROVE Same(c)
  BY <1>2
<1>3. ASSUME NEW c \in Players, NEW m \in Messages, m.type \notin {"START", "STOP"},
             toClient'[c] = Append(toClient[c], m)
      PROVE  Same(c)
  BY <1>3, <1>a, QuietMarks
<1>4. ASSUME s_players' \subseteq s_players, startable' = startable, s_running' => s_running, Queued' <=> Queued,
             \A c \in s_players' : Same(c) /\ gui'[c] = gui[c] /\ (m_is_running'[c] => m_is_running[c]),
             Host \in s_players' \/ toClient'[Host] = toClient[Host]
      PROVE  Alternate' /\ HostKnows'
  <2>1. Same(Host)
    BY <1>0, <1>2, <1>4
  <2>2. HostPlays => HostPlays'
    BY <1>4, <1>c, <1>e, <2>1
  <2>3. \A c \in s_players' : Good(c)' /\ (Plays(c)' => Plays(c))
    BY <1>1, <1>4
  <2> QED
    BY <1>0, <1>4, <1>b, <2>2, <2>3
<1>5. CASE Starts
  <2>1. /\ Host \in s_players /\ startable
        /\ UNCHANGED <<gui, m_is_running, toClient, startable, s_players>>
        /\ s_async_queue' = Append(Append(s_async_queue, Buffer(s_target)), Start(s_game'))
    BY <1>5 DEF Starts, HostIsIdle
  <2>4. ~Queued /\ ~HostPlays
    BY <1>5, Idle DEF Starts, Queued
  <2>5. Queued'
    <3>1. Buffer(s_target) \in Messages /\ s_game' \in 1 .. MaxGames
      BY <1>5, NewMessages, NetPlayAssumption DEF TypeOK, Starts
    <3>2. Append(s_async_queue, Buffer(s_target)) \in Seq(Messages) /\ Start(s_game') \in Messages
          /\ Start(s_game').type = "START"
      BY <1>a, <3>1, Appended, NewMessages
    <3> QED
      BY <2>1, <3>2, AppendedMarks DEF Queued
  <2>6. \A c \in s_players : Good(c)' /\ (Plays(c)' => Plays(c))
    BY <1>0, <1>1, <1>2, <2>1, <2>4
  <2> QED
    BY <1>b, <1>e, <2>1, <2>5, <2>6
<1>6. CASE Sends
  <2> DEFINE q == s_async_queue
             h == Head(q)
  <2>1. /\ q # <<>> /\ s_async_queue' = Tail(q)
        /\ UNCHANGED <<gui, m_is_running, startable, s_players, s_running>>
        /\ \A c \in s_players : toClient'[c] = Append(toClient[c], h)
        /\ \A c \in Players \ s_players : toClient'[c] = toClient[c]
    BY <1>0, <1>6 DEF Sends
  <2>2. h \in Messages /\ h.type \in {"BUFFER", "START"} /\ h = q[1] /\ 1 \in DOMAIN q
    <3>1. h = q[1] /\ h \in Messages /\ DOMAIN q = 1 .. Len(q) /\ Len(q) \in Nat \ {0}
      BY <1>a, <2>1, Tailed
    <3>2. 1 \in DOMAIN q
      BY <3>1
    <3> QED
      BY <3>1, <3>2 DEF KindsOK
  <2>3. Queued <=> Queued' \/ h.type = "START"
    BY <1>a, <2>1, TailedMarks DEF Queued
  <2>4. h.type = "START" => ~Queued'
    <3>1. ASSUME h.type = "START" PROVE Len(q) = 1
      BY <2>2, <3>1 DEF Numbers
    <3>2. Len(q) = 1 => ~HasStart(Tail(q))
      <4>1. Len(q) = 1 => In(Tail(q)) = {}
        BY <1>a, <2>1 DEF In
      <4> QED
        BY <1>a, <2>1, <4>1, Announces, Tailed
    <3> QED
      BY <2>1, <3>1, <3>2 DEF Queued
  <2> HIDE DEF h, q
  <2>5. CASE h.type = "BUFFER"
    <3>1. \A c \in s_players' : Same(c) /\ gui'[c] = gui[c] /\ (m_is_running'[c] => m_is_running[c])
      BY <1>0, <1>3, <2>1, <2>2, <2>5
    <3> QED
      BY <1>0, <1>4, <2>1, <2>3, <2>5, <3>1
  <2>6. CASE h.type = "START"
    <3>1. Queued /\ ~Queued' /\ Host \in s_players
      BY <2>3, <2>4, <2>6 DEF Announced, Queued
    <3>2. Ends(toClient[Host])'
      <4>1. Ends(Append(toClient[Host], h))
        BY <1>0, <1>a, <2>2, <2>6, AppendedMarks
      <4> QED
        BY <2>1, <3>1, <4>1
    <3>3. ASSUME NEW c \in s_players PROVE Good(c)'
      <4>1. /\ Good(c) /\ ~Plays(c) /\ gui'[c] = gui[c] /\ m_is_running'[c] = m_is_running[c] /\ c \in Players
        BY <1>0, <2>1, <3>1
      <4>2. /\ Alternates(Append(toClient[c], h)) <=> Alternates(toClient[c]) /\ ~Ends(toClient[c])
            /\ StopsFirst(Append(toClient[c], h)) <=> StopsFirst(toClient[c]) /\ ~NoStop(toClient[c])
        BY <1>a, <2>2, <2>6, <4>1, AppendedMarks
      <4>3. /\ Alternates(toClient[c])' <=> Alternates(toClient[c]) /\ ~Ends(toClient[c])
            /\ StopsFirst(toClient[c])' <=> StopsFirst(toClient[c]) /\ ~NoStop(toClient[c])
        BY <2>1, <4>2
      <4>4. GuiPlays(c)' <=> GuiPlays(c)
        BY <4>1 DEF GuiPlays
      <4>5. ~Ends(toClient[c]) /\ (GuiPlays(c) => ~NoStop(toClient[c]))
        BY <4>1 DEF Plays
      <4> QED
        BY <3>1, <4>1, <4>3, <4>4, <4>5
    <3> QED
      BY <1>b, <1>e, <2>1, <3>2, <3>3
  <2> QED
    BY <2>2, <2>5, <2>6
<1>7. ASSUME NEW map \in PadMaps, Assigns(map) PROVE Alternate' /\ HostKnows'
  <2>1. /\ UNCHANGED <<s_async_queue, gui, m_is_running, startable, s_players, s_running>>
        /\ \A c \in s_players : toClient'[c] = Append(toClient[c], Mapping(map))
        /\ \A c \in Players \ s_players : toClient'[c] = toClient[c]
        /\ Mapping(map) \in Messages
    BY <1>0, <1>7, NewMessages DEF Assigns
  <2>2. \A c \in s_players' : Same(c) /\ gui'[c] = gui[c] /\ (m_is_running'[c] => m_is_running[c])
    BY <1>0, <1>3, <1>d, <2>1
  <2> QED
    BY <1>0, <1>4, <2>1, <2>2 DEF Queued
<1>8. ASSUME NEW n \in Targets, Adjusts(n) PROVE Alternate' /\ HostKnows'
  <2>1. /\ UNCHANGED <<gui, m_is_running, startable, s_players, s_running, toClient>>
        /\ s_async_queue' = Append(s_async_queue, Buffer(n))
    BY <1>8 DEF Adjusts
  <2>2. Queued' <=> Queued
    BY <1>a, <1>d, <2>1, QuietMarks, NewMessages DEF Queued
  <2>3. \A c \in s_players' : Same(c) /\ gui'[c] = gui[c] /\ (m_is_running'[c] => m_is_running[c])
    BY <1>0, <1>2, <2>1
  <2> QED
    BY <1>4, <2>1, <2>2, <2>3
<1>9. ASSUME NEW p \in Players, Joins(p) PROVE Alternate' /\ HostKnows'
  <2>1. /\ s_players' = s_players \cup {p} /\ p \notin s_players /\ gui'[p] = <<>> /\ s_async_queue = <<>>
        /\ \A c \in Players : toClient[c] = <<>>
        /\ UNCHANGED <<s_async_queue, gui, startable, s_running>> /\ ~s_running
    BY <1>9 DEF Joins, Arrived
  <2>2. ~Queued /\ ~Queued'
    BY <2>1, EmptyMarks DEF Queued
  <2>3. /\ m_is_running'[p] = FALSE /\ \A c \in Players : c # p => m_is_running'[c] = m_is_running[c]
        /\ toClient'[p] = <<Buffer(s_target), Mapping(s_pad_map')>>
        /\ \A c \in s_players : toClient'[c] = Append(toClient[c], Mapping(s_pad_map'))
        /\ \A c \in Players \ (s_players \cup {p}) : toClient'[c] = toClient[c]
    <3>1. m_is_running' = [m_is_running EXCEPT ![p] = FALSE] /\ m_is_running \in [Players -> BOOLEAN]
      BY <1>9 DEF Joins, TypeOK
    <3>2. \A c \in Players : toClient'[c] = IF c = p THEN <<Buffer(s_target), Mapping(s_pad_map')>>
            ELSE IF c \in s_players THEN Append(toClient[c], Mapping(s_pad_map')) ELSE toClient[c]
      BY <1>9 DEF Joins
    <3>3. m_is_running'[p] = FALSE /\ \A c \in Players : c # p => m_is_running'[c] = m_is_running[c]
      BY <3>1
    <3> HIDE DEF Same
    <3> QED
      BY <1>0, <2>1, <3>2, <3>3
  <2>4. Mapping(s_pad_map') \in Messages /\ Buffer(s_target) \in Messages
    BY <1>9, NewMessages DEF Joins, TypeOK
  <2>5. Same(p)
    <3>1. toClient'[p] = Append(Append(<<>>, Buffer(s_target)), Mapping(s_pad_map'))
      BY <2>3
    <3>2. <<>> \in Seq(Messages)
      OBVIOUS
    <3> DEFINE b == Buffer(s_target)
               m == Mapping(s_pad_map')
               e == <<>>
    <3>3. /\ b \in Messages /\ m \in Messages /\ b.type \notin {"START", "STOP"} /\ m.type \notin {"START", "STOP"}
          /\ e \in Seq(Messages) /\ toClient'[p] = Append(Append(e, b), m) /\ toClient[p] = e
      BY <1>d, <2>1, <2>4, <3>1, <3>2
    <3> HIDE DEF b, m, e
    <3>4. /\ Append(e, b) \in Seq(Messages)
          /\ NoStop(Append(e, b)) <=> NoStop(e)
          /\ Ends(Append(e, b)) <=> Ends(e)
          /\ Alternates(Append(e, b)) <=> Alternates(e)
          /\ StopsFirst(Append(e, b)) <=> StopsFirst(e)
      BY <3>3, QuietMarks
    <3>5. /\ NoStop(Append(Append(e, b), m)) <=> NoStop(e)
          /\ Ends(Append(Append(e, b), m)) <=> Ends(e)
          /\ Alternates(Append(Append(e, b), m)) <=> Alternates(e)
          /\ StopsFirst(Append(Append(e, b), m)) <=> StopsFirst(e)
      BY <3>3, <3>4, QuietMarks
    <3> QED
      BY <3>3, <3>5
  <2>6. \A c \in s_players : Same(c)
    BY <1>0, <1>3, <1>d, <2>3, <2>4
  <2>7. Same(Host)
    BY <1>0, <1>2, <2>3, <2>5, <2>6
  <2>8. HostPlays => HostPlays'
    BY <1>c, <1>e, <2>1, <2>2, <2>7
  <2>9. \A c \in s_players : Good(c)' /\ (Plays(c)' => Plays(c))
    <3>1. \A c \in s_players : gui'[c] = gui[c] /\ m_is_running'[c] = m_is_running[c] /\ c \in s_players'
      BY <1>0, <2>1, <2>3
    <3> QED
      BY <1>1, <2>2, <2>6, <3>1
  <2>10. Good(p)' /\ ~Plays(p)'
    <3>1. ~GuiPlays(p)' /\ Alternating(gui[p], "start", "stop")'
      BY <2>1, <2>3, GuiEmpty DEF GuiPlays
    <3>2. ~Ends(toClient[p])' /\ Alternates(toClient[p])'
      BY <2>1, <2>5, EmptyMarks
    <3>3. ~Plays(p)'
      BY <3>1, <3>2 DEF Plays
    <3> QED
      BY <2>3, <3>1, <3>2, <3>3
  <2> QED
    BY <1>0, <1>b, <2>1, <2>8, <2>9, <2>10
<1>10. ASSUME NEW p \in Players, Leaves(p), p # Host \/ current_game[p] = s_game
       PROVE  Alternate' /\ HostKnows'
  <2>1. /\ s_players' = s_players \ {p} /\ p \in s_players
        /\ UNCHANGED <<s_async_queue, gui, m_is_running, startable>> /\ (s_running' => s_running)
        /\ \A c \in Players \ s_players : toClient'[c] = toClient[c]
        /\ toClient'[p] = <<>>
    BY <1>10 DEF Leaves
  <2>2. ASSUME NEW c \in s_players' PROVE Same(c)
    <3> DEFINE m == Mapping(s_pad_map')
               d == Disable
               q == toClient[c]
    <3>1. /\ c \in s_players /\ c # p /\ c \in Players /\ m \in Messages /\ d \in Messages
          /\ toClient'[c] = Append(q, m) \/ toClient'[c] = Append(Append(q, d), m)
      BY <1>10, <2>2, Left
    <3>2. q \in Seq(Messages) /\ m.type \notin {"START", "STOP"} /\ d.type \notin {"START", "STOP"}
      BY <1>a, <1>d, <3>1
    <3> HIDE DEF m, d
    <3>3. CASE toClient'[c] = Append(q, m)
      BY <1>3, <3>1, <3>2, <3>3
    <3>4. CASE toClient'[c] = Append(Append(q, d), m)
      <4> HIDE DEF q
      <4>1. /\ Append(q, d) \in Seq(Messages)
            /\ NoStop(Append(q, d)) <=> NoStop(q)
            /\ Ends(Append(q, d)) <=> Ends(q)
            /\ Alternates(Append(q, d)) <=> Alternates(q)
            /\ StopsFirst(Append(q, d)) <=> StopsFirst(q)
        BY <3>1, <3>2, QuietMarks
      <4>2. /\ NoStop(Append(Append(q, d), m)) <=> NoStop(q)
            /\ Ends(Append(Append(q, d), m)) <=> Ends(q)
            /\ Alternates(Append(Append(q, d), m)) <=> Alternates(q)
            /\ StopsFirst(Append(Append(q, d), m)) <=> StopsFirst(q)
        BY <3>1, <3>2, <4>1, QuietMarks
      <4> QED
        BY <3>4, <4>2 DEF q
    <3> QED
      BY <3>1, <3>3, <3>4
  <2>3. Queued' <=> Queued
    BY <2>1 DEF Queued
  <2>4. HostPlays => HostPlays'
    <3>1. CASE p # Host
      <4>1. Same(Host)
        BY <1>0, <1>2, <2>1, <2>2, <3>1
      <4> QED
        BY <1>c, <1>e, <2>1, <2>3, <4>1
    <3>2. CASE p = Host
      <4>1. ~Behind(p, s_game)
        BY <1>10, <3>2 DEF Behind, TypeOK
      <4>2. ~Queued /\ ~HasStart(toClient[Host])
        BY <2>1, <3>2, <4>1 DEF Announced, Queued
      <4>3. ~Ends(toClient[Host])
        BY <1>0, <1>a, <4>2, EndsStart
      <4>4. NoStop(toClient[Host])'
        BY <2>1, <3>2, EmptyMarks
      <4> QED
        BY <1>c, <1>e, <2>1, <4>2, <4>3, <4>4
    <3> QED
      BY <3>1, <3>2
  <2>5. \A c \in s_players' : Good(c)' /\ (Plays(c)' => Plays(c))
    BY <1>1, <2>1, <2>2, <2>3
  <2> QED
    BY <1>0, <1>b, <2>1, <2>4, <2>5
<1>11. ASSUME NEW p \in Players, Relays(p) PROVE Alternate' /\ HostKnows'
  <2> DEFINE m == Head(toServer[p])
  <2>1. /\ toServer[p] # <<>> /\ m.type = "PAD"
        /\ UNCHANGED <<s_async_queue, gui, m_is_running, startable, s_players, s_running>>
        /\ \A c \in Players : toClient'[c] = toClient[c] \/ toClient'[c] = Append(toClient[c], m)
        /\ \A c \in Players \ s_players : toClient'[c] = toClient[c]
    BY <1>0, <1>11 DEF Relays
  <2>2. m \in Messages /\ m.type \notin {"START", "STOP"}
    BY <1>a, <2>1, Tailed
  <2> HIDE DEF m
  <2>3. \A c \in s_players' : Same(c) /\ gui'[c] = gui[c] /\ (m_is_running'[c] => m_is_running[c])
    BY <1>0, <1>2, <1>3, <2>1, <2>2
  <2> QED
    BY <1>0, <1>4, <2>1, <2>3 DEF Queued
<1>12. ASSUME NEW p \in Players, HearsStop(p) PROVE Alternate' /\ HostKnows'
  <2>1. /\ UNCHANGED <<s_async_queue, gui, m_is_running, startable, s_players>> /\ s_running' = FALSE
        /\ \A c \in s_players : toClient'[c] = Append(toClient[c], Stop)
        /\ Stop \in Messages
    BY <1>0, <1>12, NewMessages DEF HearsStop
  <2>2. ASSUME NEW c \in s_players PROVE Good(c)' /\ ~Plays(c)'
    <3>1. Good(c) /\ gui'[c] = gui[c] /\ m_is_running'[c] = m_is_running[c] /\ c \in Players
      BY <1>0, <2>1
    <3>2. /\ ~NoStop(Append(toClient[c], Stop)) /\ ~Ends(Append(toClient[c], Stop))
          /\ Alternates(Append(toClient[c], Stop)) <=> Alternates(toClient[c])
          /\ StopsFirst(Append(toClient[c], Stop)) <=> StopsFirst(toClient[c])
      BY <1>a, <1>d, <2>1, <3>1, AppendedMarks
    <3>3. /\ ~NoStop(toClient[c])' /\ ~Ends(toClient[c])'
          /\ Alternates(toClient[c])' <=> Alternates(toClient[c])
          /\ StopsFirst(toClient[c])' <=> StopsFirst(toClient[c])
      BY <2>1, <3>2
    <3>4. GuiPlays(c)' <=> GuiPlays(c)
      BY <3>1 DEF GuiPlays
    <3>5. ~Plays(c)'
      BY <3>3 DEF Plays
    <3> QED
      BY <3>1, <3>3, <3>4, <3>5
  <2> QED
    BY <1>b, <2>1, <2>2
<1>13. ASSUME NEW c \in Players, GetsState(c) \/ GetsMap(c) \/ GetsSize(c) \/ GetsDisable(c)
       PROVE  Alternate' /\ HostKnows'
  <2>1. /\ c \in s_players /\ toClient[c] # <<>> /\ toClient'[c] = Tail(toClient[c])
        /\ \A d \in Players : d # c => toClient'[d] = toClient[d]
        /\ UNCHANGED <<s_players, s_running, s_async_queue>>
    BY SMTT(40), <1>13, Gets
  <2>2. Head(toClient[c]).type \notin {"START", "STOP"} /\ UNCHANGED <<gui, startable>>
    BY <1>13 DEF GetsState, GetsMap, GetsSize, GetsDisable
  <2>3. \A d \in Players : m_is_running'[d] => m_is_running[d]
    <3>1. m_is_running' = m_is_running \/ m_is_running' = [m_is_running EXCEPT ![c] = FALSE]
      BY <1>13 DEF GetsState, GetsMap, GetsSize, GetsDisable
    <3>2. m_is_running \in [Players -> BOOLEAN]
      BY DEF TypeOK
    <3> QED
      BY SMTT(40), <3>1, <3>2
  <2>4. Same(c)
    BY <1>a, <2>1, <2>2, TailedMarks
  <2>5. \A d \in s_players' : Same(d) /\ gui'[d] = gui[d] /\ (m_is_running'[d] => m_is_running[d])
    BY <1>0, <1>2, <2>1, <2>2, <2>3, <2>4
  <2> QED
    BY <1>0, <1>4, <2>1, <2>2, <2>5 DEF Queued
<1>14. ASSUME NEW c \in Players, GetsStart(c) \/ GetsStop(c) PROVE Alternate' /\ HostKnows'
  <2> DEFINE q == toClient[c]
  <2>1. /\ c \in s_players /\ q # <<>> /\ toClient'[c] = Tail(q)
        /\ \A d \in Players : d # c => toClient'[d] = toClient[d]
        /\ UNCHANGED <<s_players, s_running, s_async_queue>>
    BY <1>14, Gets
  <2>2. m_is_running' = m_is_running
    BY <1>14 DEF GetsStart, GetsStop
  <2>3. \A d \in Players : d # c => gui'[d] = gui[d]
    <3>1. gui' = [gui EXCEPT ![c] = Append(@, "start")] \/ gui' = [gui EXCEPT ![c] = Append(@, "stop")]
      BY <1>14 DEF GetsStart, GetsStop
    <3>2. gui \in [Players -> Seq({"start", "stop"})]
      BY DEF TypeOK
    <3> QED
      BY <3>1, <3>2
  <2>4. \A d \in s_players : d # c => Good(d)' /\ (Plays(d)' => Plays(d))
    <3>1. \A d \in s_players : d # c => Same(d) /\ gui'[d] = gui[d] /\ m_is_running'[d] = m_is_running[d]
      BY <1>0, <1>2, <2>1, <2>2, <2>3
    <3> QED
      BY <1>1, <2>1, <3>1 DEF Queued
  <2>5. /\ NoStop(q) <=> NoStop(Tail(q)) /\ Head(q).type # "STOP"
        /\ Ends(q) <=> Ends(Tail(q)) \/ (Head(q).type = "START" /\ NoStop(Tail(q)))
        /\ Alternates(q) <=> Alternates(Tail(q)) /\ (Head(q).type = "START" => StopsFirst(Tail(q)))
        /\ StopsFirst(q) => /\ Head(q).type # "START"
                            /\ Head(q).type = "STOP" \/ StopsFirst(Tail(q))
    BY <1>a, <2>1, TailedMarks
  <2>6. Good(c) /\ (Queued' <=> Queued) /\ gui[c] \in Seq({"start", "stop"}) /\ m_is_running'[c] = m_is_running[c]
    BY <1>0, <1>a, <2>1, <2>2 DEF Queued
  <2>7. ASSUME Good(c)', Plays(c)' => Plays(c), HostPlays => HostPlays' PROVE Alternate' /\ HostKnows'
    BY <1>0, <1>b, <2>1, <2>4, <2>7
  <2>8. c # Host => toClient'[Host] = toClient[Host]
    BY <1>0, <2>1
  <2>9. CASE GetsStart(c)
    <3>1. Head(q).type = "START" /\ gui'[c] = Append(gui[c], "start") /\ startable' = (startable /\ c # Host)
      BY <2>9 DEF GetsStart, TypeOK
    <3> HIDE DEF q
    <3>2. Ends(q) <=> Ends(Tail(q)) \/ NoStop(Tail(q))
      BY <2>5, <3>1
    <3>3. ~GuiPlays(c)
      BY <2>5, <2>6, <3>1 DEF q
    <3>4. ~HasLast(gui[c], "start", "stop") /\ (m_is_running[c] => ~Lacks(gui[c], "stop"))
      BY <3>3 DEF GuiPlays
    <3>5. /\ HasLast(gui'[c], "start", "stop") /\ Alternating(gui'[c], "start", "stop")
          /\ m_is_running[c] => Before(gui'[c], "stop", "start")
      BY <2>6, <3>1, <3>4, GuiGrown
    <3>6. Plays(c)' => Ends(q)
      BY <2>1, <3>2 DEF Plays
    <3>7. Plays(c)' => Plays(c)
      BY <3>6 DEF Plays, q
    <3>8. Good(c)'
      <4>1. Alternates(toClient[c])' /\ StopsFirst(toClient[c])'
        <5>1. Alternates(q)
          BY <2>6 DEF q
        <5> QED
          BY <2>1, <2>5, <3>1, <5>1
      <4>2. Queued' => ~Plays(c)'
        BY <2>6, <3>7
      <4>3. Alternating(gui[c], "start", "stop")' /\ (m_is_running'[c] => Before(gui[c], "stop", "start")')
        BY <2>6, <3>5
      <4> QED
        BY <4>1, <4>2, <4>3
    <3>9. HostPlays => HostPlays'
      <4>1. CASE c # Host
        BY <1>c, <1>e, <2>6, <2>8, <3>1, <4>1
      <4>2. CASE c = Host
        <5>1. HostPlays <=> Queued \/ Ends(q) \/ (NoStop(q) /\ ~startable)
          BY <1>c, <4>2 DEF q
        <5>2. HostPlays' <=> Queued' \/ Ends(Tail(q)) \/ (NoStop(Tail(q)) /\ ~startable')
          BY <1>e, <2>1, <4>2
        <5> QED
          BY <2>5, <2>6, <3>1, <3>2, <4>2, <5>1, <5>2
      <4> QED
        BY <4>1, <4>2
    <3> QED
      BY <2>7, <3>7, <3>8, <3>9
  <2>10. CASE GetsStop(c)
    <3>1. Head(q).type = "STOP" /\ gui'[c] = Append(gui[c], "stop") /\ startable' = (startable \/ c = Host)
      BY <2>10 DEF GetsStop, TypeOK
    <3> HIDE DEF q
    <3>2. (Ends(q) <=> Ends(Tail(q))) /\ ~NoStop(q) /\ (Alternates(q) <=> Alternates(Tail(q)))
      BY <2>5, <3>1
    <3>3. /\ ~HasLast(gui'[c], "start", "stop") /\ ~Lacks(gui'[c], "stop")
          /\ Alternating(gui'[c], "start", "stop") <=> Alternating(gui[c], "start", "stop")
          /\ Before(gui'[c], "stop", "start") <=> Before(gui[c], "stop", "start")
      BY <2>6, <3>1, GuiGrown
    <3>4. ~GuiPlays(c)'
      BY <3>3 DEF GuiPlays
    <3>5. Plays(c)' => Ends(q)
      BY <2>1, <3>2, <3>4 DEF Plays
    <3>6. Plays(c)' => Plays(c)
      BY <3>5 DEF Plays, q
    <3>7. Good(c)'
      <4>1. Alternates(toClient[c])'
        <5>1. Alternates(q)
          BY <2>6 DEF q
        <5> QED
          BY <2>1, <3>2, <5>1
      <4>2. Queued' => ~Plays(c)'
        BY <2>6, <3>6
      <4>3. Alternating(gui[c], "start", "stop")' /\ (m_is_running'[c] => Before(gui[c], "stop", "start")')
        BY <2>6, <3>3
      <4> QED
        BY <3>4, <4>1, <4>2, <4>3
    <3>8. HostPlays => HostPlays'
      <4>1. CASE c # Host
        BY <1>c, <1>e, <2>6, <2>8, <3>1, <4>1
      <4>2. CASE c = Host
        <5>1. HostPlays <=> Queued \/ Ends(q)
          BY <1>c, <3>2, <4>2 DEF q
        <5>2. HostPlays' <=> Queued' \/ Ends(Tail(q)) \/ (NoStop(Tail(q)) /\ ~startable')
          BY <1>e, <2>1, <4>2
        <5> QED
          BY <2>6, <3>2, <5>1, <5>2
      <4> QED
        BY <4>1, <4>2
    <3> QED
      BY <2>7, <3>6, <3>7, <3>8
  <2> QED
    BY <1>14, <2>9, <2>10
<1>15. ASSUME NEW c \in Players, StartsMachine(c) \/ StartsAgain(c) \/ StopsMachine(c)
       PROVE  Alternate' /\ HostKnows'
  <2>1. /\ gui[c] # <<>> /\ gui' = [gui EXCEPT ![c] = Tail(@)]
        /\ UNCHANGED <<s_async_queue, startable, s_players, s_running, toClient>>
    BY <1>15 DEF StartsMachine, StartsAgain, StopsMachine
  <2>2. gui'[c] = Tail(gui[c]) /\ \A d \in Players : d # c => gui'[d] = gui[d]
    BY <2>1 DEF TypeOK
  <2>3. \A d \in Players : d # c => m_is_running'[d] = m_is_running[d]
    <3>1. \/ m_is_running' = m_is_running \/ m_is_running' = [m_is_running EXCEPT ![c] = FALSE]
          \/ m_is_running' = [m_is_running EXCEPT ![c] = TRUE]
      BY <1>15 DEF StartsMachine, StartsAgain, StopsMachine
    <3>2. m_is_running \in [Players -> BOOLEAN]
      BY DEF TypeOK
    <3> QED
      BY <3>1, <3>2
  <2>4. \A d \in s_players : d # c => Good(d)' /\ (Plays(d)' => Plays(d))
    <3>1. \A d \in s_players : d # c => Same(d) /\ gui'[d] = gui[d] /\ m_is_running'[d] = m_is_running[d]
      BY <1>0, <1>2, <2>1, <2>2, <2>3
    <3> QED
      BY <1>1, <2>1, <3>1 DEF Queued
  <2>5. (HostPlays' <=> HostPlays) /\ (Queued' <=> Queued) /\ Same(c)
    BY <1>2, <1>c, <1>e, <2>1 DEF Queued
  <2>6. c \in s_players => Good(c)' /\ (Plays(c)' => Plays(c))
    <3> SUFFICES ASSUME c \in s_players PROVE Good(c)' /\ (Plays(c)' => Plays(c))
      OBVIOUS
    <3>1. Good(c) /\ gui[c] \in Seq({"start", "stop"}) /\ gui[c] # <<>>
      BY <1>0, <1>a, <2>1
    <3>2. /\ Head(gui[c]) = "start" => /\ HasLast(gui[c], "start", "stop") <=>
                                            HasLast(gui'[c], "start", "stop") \/ Lacks(gui'[c], "stop")
                                       /\ Alternating(gui[c], "start", "stop") => Before(gui'[c], "stop", "start")
                                       /\ ~Before(gui[c], "stop", "start")
          /\ Head(gui[c]) = "stop" => /\ HasLast(gui[c], "start", "stop") <=> HasLast(gui'[c], "start", "stop")
                                      /\ ~Lacks(gui[c], "stop")
          /\ Alternating(gui[c], "start", "stop") => Alternating(gui'[c], "start", "stop")
      BY <2>2, <3>1, GuiShrunk
    <3>3. ASSUME GuiPlays(c)' => GuiPlays(c), m_is_running'[c] => Before(gui'[c], "stop", "start")
          PROVE  Good(c)' /\ (Plays(c)' => Plays(c))
      <4>1. Plays(c)' => Plays(c)
        BY <2>5, <3>3 DEF Plays
      <4> QED
        BY <2>5, <3>1, <3>2, <3>3, <4>1
    <3>4. CASE StartsMachine(c)
      <4>1. Head(gui[c]) = "start" /\ ~m_is_running[c]
        BY <3>4 DEF StartsMachine
      <4>2. GuiPlays(c)' => GuiPlays(c)
        BY <3>2, <4>1 DEF GuiPlays
      <4> QED
        BY <3>1, <3>2, <3>3, <4>1, <4>2
    <3>5. CASE StartsAgain(c)
      BY <3>1, <3>2, <3>5 DEF StartsAgain
    <3>6. CASE StopsMachine(c)
      <4>1. Head(gui[c]) = "stop" /\ m_is_running'[c] = FALSE
        BY <3>6 DEF StopsMachine, TypeOK
      <4>2. GuiPlays(c)' => GuiPlays(c)
        BY <3>2, <4>1 DEF GuiPlays
      <4> QED
        BY <3>3, <4>1, <4>2
    <3> QED
      BY <1>15, <3>4, <3>5, <3>6
  <2> QED
    BY <1>0, <1>b, <2>1, <2>4, <2>5, <2>6
<1>16. ASSUME NEW c \in Players, Loses(c) PROVE Alternate' /\ HostKnows'
  <2>1. UNCHANGED <<s_async_queue, startable, s_players, s_running, toClient, gui>>
    BY <1>16 DEF Loses
  <2>2. \A d \in Players : m_is_running'[d] => m_is_running[d]
    BY <1>16 DEF Loses, TypeOK
  <2>3. \A d \in s_players' : Same(d) /\ gui'[d] = gui[d] /\ (m_is_running'[d] => m_is_running[d])
    BY <1>0, <1>2, <2>1, <2>2
  <2> QED
    BY <1>4, <2>1, <2>3 DEF Queued
<1>17. ASSUME UNCHANGED <<s_async_queue, startable, s_players, s_running, toClient, gui, m_is_running>>
       PROVE  Alternate' /\ HostKnows'
  <2>1. \A d \in s_players' : Same(d) /\ gui'[d] = gui[d] /\ (m_is_running'[d] => m_is_running[d])
    BY <1>0, <1>2, <1>17
  <2> QED
    BY <1>4, <1>17, <2>1 DEF Queued
<1>18. ASSUME NEW c \in Players,
              \/ Ignores(c) \/ HearsStart(c) \/ Disables(c, "net") \/ Disables(c, "gui") \/ Quits(c)
              \/ (\E s \in Pads : Polls(c, s)) \/ Takes(c) \/ TakesNothing(c) \/ TurnsOff(c)
       PROVE  UNCHANGED <<s_async_queue, startable, s_players, s_running, toClient, gui, m_is_running>>
  BY <1>18 DEF Ignores, HearsStart, Disables, Quits, Polls, Takes, TakesNothing, TurnsOff
<1>19. CASE UNCHANGED vars
  BY <1>17, <1>19 DEF vars, server, channels, runState
<1> QED
  BY <1>5, <1>6, <1>7, <1>8, <1>9, <1>10, <1>11, <1>12, <1>13, <1>14, <1>15, <1>16, <1>17, <1>18, <1>19, Steps
-----------------------------------------------------------------------------
(* Mappings                                                                *)

\* A client that has read the queue and had mapping cur before has mapping map.
Delivers(q, cur, map) ==
  \/ \E i \in DOMAIN q : /\ q[i].type = "MAPPING" /\ q[i].map = map
                         /\ \A j \in DOMAIN q : i < j => q[j].type # "MAPPING"
  \/ cur = map /\ \A j \in DOMAIN q : q[j].type # "MAPPING"

LEMMA DeliversGrown ==
  ASSUME NEW q \in Seq(Messages), NEW m \in Messages, NEW cur, NEW map
  PROVE  /\ m.type # "MAPPING" => (Delivers(Append(q, m), cur, map) <=> Delivers(q, cur, map))
         /\ m = Mapping(map) => Delivers(Append(q, m), cur, map)
<1> DEFINE a == Append(q, m)
           n == Len(q)
<1>1. /\ DOMAIN a = 1 .. n + 1 /\ DOMAIN q = 1 .. n /\ n \in Nat
      /\ \A i \in 1 .. n : a[i] = q[i]
      /\ a[n + 1] = m
  BY Appended, SeqTypes
<1> HIDE DEF a, n
<1>2. /\ n + 1 \in 1 .. n + 1 /\ 1 .. n + 1 = (1 .. n) \cup {n + 1} /\ n + 1 \notin 1 .. n
      /\ \A i \in 1 .. n : i < n + 1
      /\ \A j \in 1 .. n + 1 : ~(n + 1 < j)
  BY <1>1
<1>3. ASSUME m.type # "MAPPING", Delivers(q, cur, map) PROVE Delivers(a, cur, map)
  BY <1>1, <1>2, <1>3 DEF Delivers
<1>4. ASSUME m.type # "MAPPING", Delivers(a, cur, map) PROVE Delivers(q, cur, map)
  BY <1>1, <1>2, <1>4 DEF Delivers
<1>5. ASSUME m = Mapping(map) PROVE Delivers(a, cur, map)
  BY <1>1, <1>2, <1>5 DEF Delivers, Mapping
<1> QED
  BY <1>3, <1>4, <1>5 DEF a

LEMMA DeliversShrunk ==
  ASSUME NEW q \in Seq(Messages), q # <<>>, NEW cur, NEW map, Delivers(q, cur, map)
  PROVE  Delivers(Tail(q), IF Head(q).type = "MAPPING" THEN Head(q).map ELSE cur, map)
<1> DEFINE n == Len(q)
           t == Tail(q)
<1>1. /\ n \in Nat /\ n # 0 /\ DOMAIN q = 1 .. n /\ DOMAIN t = 1 .. n - 1
      /\ Head(q) = q[1] /\ \A i \in 1 .. n - 1 : t[i] = q[i + 1]
  BY Tailed
<1> HIDE DEF n, t
<1>2. /\ 1 \in DOMAIN q
      /\ \A i \in DOMAIN t : i + 1 \in DOMAIN q /\ t[i] = q[i + 1] /\ 1 < i + 1
      /\ \A i, j \in DOMAIN t : i < j => i + 1 < j + 1
      /\ \A i \in DOMAIN q : i = 1 \/ \E k \in DOMAIN t : i = k + 1
  <2>1. \A i \in 1 .. n : i = 1 \/ (i - 1 \in 1 .. n - 1 /\ i = (i - 1) + 1)
    BY <1>1
  <2>2. /\ 1 \in 1 .. n
        /\ \A i \in 1 .. n - 1 : i + 1 \in 1 .. n /\ 1 < i + 1
        /\ \A i, j \in 1 .. n - 1 : i < j => i + 1 < j + 1
    BY <1>1
  <2> QED
    BY <1>1, <2>1, <2>2
<1> DEFINE cur1 == IF Head(q).type = "MAPPING" THEN Head(q).map ELSE cur
<1>3. ASSUME NEW i \in DOMAIN q, q[i].type = "MAPPING", q[i].map = map,
             \A j \in DOMAIN q : i < j => q[j].type # "MAPPING"
      PROVE  Delivers(t, cur1, map)
  <2>1. CASE i = 1
    <3>1. \A j \in DOMAIN t : t[j].type # "MAPPING"
      BY <1>2, <1>3, <2>1
    <3>2. cur1 = map
      BY <1>1, <1>3, <2>1
    <3> QED
      BY <3>1, <3>2 DEF Delivers
  <2>2. ASSUME NEW k \in DOMAIN t, i = k + 1 PROVE Delivers(t, cur1, map)
    <3>1. t[k].type = "MAPPING" /\ t[k].map = map
      BY <1>2, <1>3, <2>2
    <3>2. \A j \in DOMAIN t : k < j => t[j].type # "MAPPING"
      BY <1>2, <1>3, <2>2
    <3> QED
      BY <3>1, <3>2 DEF Delivers
  <2> QED
    BY <1>2, <2>1, <2>2
<1>4. ASSUME cur = map, \A j \in DOMAIN q : q[j].type # "MAPPING" PROVE Delivers(t, cur1, map)
  <2>1. \A j \in DOMAIN t : t[j].type # "MAPPING"
    BY <1>2, <1>4
  <2>2. cur1 = map
    BY <1>1, <1>2, <1>4
  <2> QED
    BY <2>1, <2>2 DEF Delivers
<1> QED
  BY <1>3, <1>4 DEF Delivers, t

LEMMA Maps1 ==
  \A c : MapArrives(c) <=> Delivers(toClient[c], m_pad_map[c], s_pad_map)
BY DEF MapArrives, Delivers

\* Nobody is thrown out during a game, and who leaves has no pad.
LEMMA LeavesRunning ==
  ASSUME TypeOK, TypeOK', KindsOK, Members, Answered, NEW p \in Players, s_running',
         \/ Leaves(p) /\ p # Host
         \/ Leaves(p) /\ toServer[p] # <<>> /\ Head(toServer[p]).type = "PAD"
            /\ current_game[p] = s_game /\ s_pad_map[Head(toServer[p]).pad] # p
  PROVE  /\ p # Host /\ s_running /\ p \in s_players
         /\ s_pad_map' = s_pad_map /\ \A i \in Pads : s_pad_map[i] # p
         /\ \A c \in s_players' : toClient'[c] = Append(toClient[c], Mapping(s_pad_map))
<1>1. s_running /\ Leaves(p) /\ p \in s_players
  BY DEF Leaves
<1>2. ASSUME toServer[p] # <<>>, Head(toServer[p]).type = "PAD", current_game[p] = s_game,
             s_pad_map[Head(toServer[p]).pad] # p
      PROVE  FALSE
  <2>1. 1 \in DOMAIN toServer[p] /\ Head(toServer[p]) = toServer[p][1]
    <3>1. toServer[p] \in Seq(Messages)
      BY DEF TypeOK
    <3>2. Len(toServer[p]) \in Nat \ {0} /\ DOMAIN toServer[p] = 1 .. Len(toServer[p])
          /\ Head(toServer[p]) = toServer[p][1]
      BY <1>2, <3>1, Tailed
    <3> QED
      BY <3>2
  <2> QED
    BY <1>1, <1>2, <2>1 DEF Answered, Answers
<1>3. p # Host
  BY <1>2
<1>4. \A i \in Pads : s_pad_map[i] # p
  BY <1>1, <1>3 DEF Leaves
<1>5. s_pad_map' = s_pad_map
  <2>1. s_pad_map' = [i \in Pads |-> IF s_pad_map[i] = p THEN Nobody ELSE s_pad_map[i]]
    BY <1>1 DEF Leaves
  <2>2. s_pad_map \in PadMaps
    BY DEF TypeOK
  <2> QED
    BY <1>4, <2>1, <2>2 DEF PadMaps
<1>6. \A c \in s_players' : toClient'[c] = Append(toClient[c], Mapping(s_pad_map))
  BY <1>1, <1>5, Left
<1> QED
  BY <1>1, <1>3, <1>4, <1>5, <1>6

\* The clients get the server's mapping, and it has no gaps during a game.
LEMMA MappedNext ==
  ASSUME TypeOK, TypeOK', KindsOK, Members, HostKnows, Answered, Mapped, [Next]_vars
  PROVE  Mapped'
<1> DEFINE Good(c) == Delivers(toClient[c], m_pad_map[c], s_pad_map)
           Plugged == \A c \in Players : ports[c] = UpdateDevices(m_pad_map[c], c)
           Filled == s_running => NoGaps(s_pad_map)
<1>0. /\ \A c \in s_players : Good(c)
      /\ Plugged /\ Filled
      /\ s_players \subseteq Players /\ s_players' \subseteq Players /\ Host \in Players
  BY Maps1, NetPlayAssumption DEF Mapped, TypeOK
<1>a. /\ s_async_queue \in Seq(Messages)
      /\ \A c \in Players : toClient[c] \in Seq(Messages) /\ toServer[c] \in Seq(Messages)
  BY DEF TypeOK
<1>b. ASSUME \A c \in s_players' : Good(c)', Plugged', Filled' PROVE Mapped'
  <2>1. \A c \in s_players' : MapArrives(c)'
    BY <1>b DEF MapArrives, Delivers
  <2> QED
    BY <1>b, <2>1 DEF Mapped
<1>d. /\ \A n : Buffer(n).type # "MAPPING"
      /\ Disable.type # "MAPPING" /\ Stop.type # "MAPPING"
  BY DEF Buffer, Disable, Stop
<1>e. ASSUME UNCHANGED <<ports, m_pad_map>> PROVE Plugged'
  BY <1>0, <1>e
<1>f. ASSUME s_running' => s_running, s_pad_map' = s_pad_map PROVE Filled'
  BY <1>0, <1>f
<1>1. ASSUME NEW c \in s_players, NEW m \in Messages, m.type # "MAPPING", toClient'[c] = Append(toClient[c], m),
             UNCHANGED <<m_pad_map, s_pad_map>>
      PROVE  Good(c)'
  <2>1. Delivers(Append(toClient[c], m), m_pad_map[c], s_pad_map)
    BY <1>0, <1>1, <1>a, DeliversGrown
  <2> QED
    BY <1>1, <2>1
<1>2. ASSUME NEW c \in Players, NEW q \in Seq(Messages), Mapping(s_pad_map') \in Messages,
             toClient'[c] = Append(q, Mapping(s_pad_map'))
      PROVE  Good(c)'
  BY <1>2, DeliversGrown
<1>3. ASSUME NEW c \in s_players, toClient'[c] = toClient[c], m_pad_map'[c] = m_pad_map[c], s_pad_map' = s_pad_map
      PROVE  Good(c)'
  BY <1>0, <1>3
<1> HIDE DEF Good, Plugged, Filled
<1>4. CASE Starts
  <2>1. UNCHANGED <<s_players, s_pad_map, toClient, m_pad_map, ports>> /\ NoGaps(s_pad_map)
    BY <1>4 DEF Starts
  <2>2. Filled'
    BY <2>1 DEF Filled
  <2> QED
    BY <1>3, <1>b, <1>e, <2>1, <2>2
<1>5. CASE Sends
  <2>1. /\ s_async_queue # <<>>
        /\ UNCHANGED <<s_players, s_pad_map, m_pad_map, ports, s_running>>
        /\ \A c \in s_players : toClient'[c] = Append(toClient[c], Head(s_async_queue))
    BY <1>0, <1>5 DEF Sends
  <2>2. Head(s_async_queue) \in Messages /\ Head(s_async_queue).type # "MAPPING"
    <3>1. /\ Head(s_async_queue) = s_async_queue[1] /\ Head(s_async_queue) \in Messages
          /\ DOMAIN s_async_queue = 1 .. Len(s_async_queue) /\ Len(s_async_queue) \in Nat \ {0}
      BY <1>a, <2>1, Tailed
    <3>2. 1 \in DOMAIN s_async_queue
      BY <3>1
    <3> QED
      BY <3>1, <3>2 DEF KindsOK
  <2> QED
    BY <1>1, <1>b, <1>e, <1>f, <2>1, <2>2
<1>6. ASSUME NEW map \in PadMaps, Assigns(map) PROVE Mapped'
  <2>1. /\ UNCHANGED <<s_players, m_pad_map, ports, s_running>> /\ s_pad_map' = map
        /\ \A c \in s_players : toClient'[c] = Append(toClient[c], Mapping(map))
        /\ Mapping(map) \in Messages
    BY <1>0, <1>6, NewMessages DEF Assigns
  <2>2. ~s_running
    BY <1>6, Idle DEF Assigns, HostKnows
  <2>3. \A c \in s_players' : Good(c)'
    BY <1>0, <1>2, <1>a, <2>1
  <2> QED
    BY <1>b, <1>e, <2>1, <2>2, <2>3 DEF Filled
<1>7. ASSUME NEW p \in Players, Joins(p) PROVE Mapped'
  <2>1. /\ UNCHANGED <<m_pad_map, ports, s_running>> /\ ~s_running /\ s_players' = s_players \cup {p}
        /\ p \notin s_players /\ Mapping(s_pad_map') \in Messages /\ Buffer(s_target) \in Messages
        /\ \A c \in s_players : toClient'[c] = Append(toClient[c], Mapping(s_pad_map'))
        /\ toClient'[p] = <<Buffer(s_target), Mapping(s_pad_map')>>
    <3>1. /\ UNCHANGED <<m_pad_map, ports, s_running>> /\ ~s_running /\ s_players' = s_players \cup {p}
          /\ p \notin s_players
          /\ \A c \in Players : toClient'[c] = IF c = p THEN <<Buffer(s_target), Mapping(s_pad_map')>>
               ELSE IF c \in s_players THEN Append(toClient[c], Mapping(s_pad_map')) ELSE toClient[c]
      BY <1>7 DEF Joins
    <3>2. Mapping(s_pad_map') \in Messages /\ Buffer(s_target) \in Messages
      BY NewMessages DEF TypeOK
    <3> QED
      BY <1>0, <3>1, <3>2
  <2>2. toClient'[p] = Append(<<Buffer(s_target)>>, Mapping(s_pad_map')) /\ <<Buffer(s_target)>> \in Seq(Messages)
    BY <2>1
  <2>3. \A c \in s_players' : Good(c)'
    BY <1>0, <1>2, <1>a, <2>1, <2>2
  <2> QED
    BY <1>b, <1>e, <2>1, <2>3 DEF Filled
<1>8. ASSUME NEW p \in Players,
             \/ Leaves(p) /\ p # Host
             \/ Leaves(p) /\ toServer[p] # <<>> /\ Head(toServer[p]).type = "PAD"
                /\ current_game[p] = s_game /\ s_pad_map[Head(toServer[p]).pad] # p
      PROVE  Mapped'
  <2>1. UNCHANGED <<m_pad_map, ports>> /\ Leaves(p)
    BY <1>8 DEF Leaves
  <2>2. Filled'
    BY <1>0, <1>8, LeavesRunning DEF Filled
  <2>3. ASSUME NEW c \in s_players' PROVE Good(c)'
    <3>1. /\ c \in s_players /\ c \in Players /\ Mapping(s_pad_map') \in Messages /\ Disable \in Messages
          /\ \/ toClient'[c] = Append(toClient[c], Mapping(s_pad_map'))
             \/ toClient'[c] = Append(Append(toClient[c], Disable), Mapping(s_pad_map'))
      BY <2>1, <2>3, Left
    <3>2. toClient[c] \in Seq(Messages) /\ Append(toClient[c], Disable) \in Seq(Messages)
      BY <1>a, <3>1, Appended
    <3> QED
      BY <1>2, <3>1, <3>2
  <2> QED
    BY <1>b, <1>e, <2>1, <2>2, <2>3
<1>9. ASSUME NEW p \in Players, Relays(p) PROVE Mapped'
  <2>1. /\ toServer[p] # <<>> /\ Head(toServer[p]).type = "PAD"
        /\ UNCHANGED <<s_players, s_pad_map, m_pad_map, ports, s_running>>
        /\ \A c \in s_players : toClient'[c] = toClient[c] \/ toClient'[c] = Append(toClient[c], Head(toServer[p]))
    BY <1>0, <1>9 DEF Relays
  <2>2. Head(toServer[p]) \in Messages /\ Head(toServer[p]).type # "MAPPING"
    BY <1>a, <2>1, Tailed
  <2>3. \A c \in s_players' : Good(c)'
    BY <1>0, <1>1, <1>3, <2>1, <2>2
  <2> QED
    BY <1>b, <1>e, <1>f, <2>1, <2>3
<1>10. ASSUME NEW p \in Players, HearsStop(p) PROVE Mapped'
  <2>1. /\ UNCHANGED <<s_players, s_pad_map, m_pad_map, ports>> /\ s_running' = FALSE
        /\ \A c \in s_players : toClient'[c] = Append(toClient[c], Stop)
        /\ Stop \in Messages
    BY <1>0, <1>10, NewMessages DEF HearsStop
  <2>2. \A c \in s_players' : Good(c)'
    BY <1>1, <1>d, <2>1
  <2> QED
    BY <1>b, <1>e, <1>f, <2>1, <2>2
<1>11. ASSUME NEW c \in Players,
              \/ GetsState(c) \/ GetsMap(c) \/ GetsSize(c) \/ GetsStart(c) \/ GetsStop(c) \/ GetsDisable(c)
       PROVE  Mapped'
  <2>1. /\ c \in s_players /\ toClient[c] # <<>> /\ toClient[c] \in Seq(Messages)
        /\ toClient'[c] = Tail(toClient[c])
        /\ \A d \in Players : d # c => toClient'[d] = toClient[d]
        /\ UNCHANGED <<s_players, s_pad_map, s_running>>
    BY SMTT(40), <1>11, Gets
  <2> DEFINE h == Head(toClient[c])
  <2>2. \/ h.type # "MAPPING" /\ UNCHANGED <<m_pad_map, ports>>
        \/ /\ h.type = "MAPPING" /\ m_pad_map' = [m_pad_map EXCEPT ![c] = h.map]
           /\ ports' = [ports EXCEPT ![c] = UpdateDevices(h.map, c)]
    BY <1>11 DEF GetsState, GetsMap, GetsSize, GetsStart, GetsStop, GetsDisable
  <2> HIDE DEF h
  <2>3. m_pad_map \in [Players -> PadMaps] /\ ports \in [Players -> SUBSET Pads]
    BY DEF TypeOK
  <2>4. /\ m_pad_map'[c] = IF h.type = "MAPPING" THEN h.map ELSE m_pad_map[c]
        /\ \A d \in Players : d # c => m_pad_map'[d] = m_pad_map[d]
    BY <2>2, <2>3
  <2>5. Plugged'
    BY <1>0, <2>2, <2>3 DEF Plugged
  <2>6. Delivers(Tail(toClient[c]), IF h.type = "MAPPING" THEN h.map ELSE m_pad_map[c], s_pad_map)
    BY <1>0, <2>1, DeliversShrunk DEF Good, h
  <2>7. Good(c)'
    BY <2>1, <2>4, <2>6 DEF Good
  <2>8. \A d \in s_players' : Good(d)'
    BY <1>0, <1>3, <2>1, <2>4, <2>7
  <2> QED
    BY <1>b, <1>f, <2>1, <2>5, <2>8
<1>12. ASSUME NEW c \in Players, StartsMachine(c) PROVE Mapped'
  <2>1. UNCHANGED <<s_players, s_pad_map, s_running, toClient, m_pad_map>>
        /\ ports' = [ports EXCEPT ![c] = UpdateDevices(m_pad_map[c], c)]
    BY <1>12 DEF StartsMachine
  <2>2. Plugged'
    BY <1>0, <2>1 DEF Plugged, TypeOK
  <2> QED
    BY <1>3, <1>b, <1>f, <2>1, <2>2
<1>13. ASSUME UNCHANGED <<s_players, s_pad_map, s_running, toClient, m_pad_map, ports>>
       PROVE  Mapped'
  BY <1>3, <1>13, <1>b, <1>e, <1>f
<1>14. ASSUME NEW c \in Players,
              \/ Ignores(c) \/ HearsStart(c) \/ Disables(c, "net") \/ Disables(c, "gui") \/ Quits(c)
              \/ (\E s \in Pads : Polls(c, s)) \/ Takes(c) \/ TakesNothing(c) \/ TurnsOff(c)
              \/ StartsAgain(c) \/ StopsMachine(c) \/ Loses(c)
       PROVE  UNCHANGED <<s_players, s_pad_map, s_running, toClient, m_pad_map, ports>>
  BY <1>14 DEF Ignores, HearsStart, Disables, Quits, Polls, Takes, TakesNothing, TurnsOff,
               StartsAgain, StopsMachine, Loses
<1>15. ASSUME NEW n \in Targets, Adjusts(n)
       PROVE  UNCHANGED <<s_players, s_pad_map, s_running, toClient, m_pad_map, ports>>
  BY <1>15 DEF Adjusts
<1>16. CASE UNCHANGED vars
  BY <1>13, <1>16 DEF vars, server, channels, settings
<1> QED
  BY <1>4, <1>5, <1>6, <1>7, <1>8, <1>9, <1>10, <1>11, <1>12, <1>13, <1>14, <1>15, <1>16, Steps
-----------------------------------------------------------------------------
(* Answers on the way to the server                                        *)

\* What a step does to the channel of a member to the server.
LEMMA ServerChannel ==
  ASSUME TypeOK, TypeOK', Members, [Next]_vars, NEW c \in s_players, c \in s_players'
  PROVE  /\ c \in Players /\ toServer[c] \in Seq(Messages)
         /\ \/ toServer'[c] = toServer[c] /\ current_game'[c] = current_game[c]
            \/ /\ Ignores(c) \/ Relays(c) \/ HearsStop(c)
               /\ toServer[c] # <<>> /\ toServer'[c] = Tail(toServer[c]) /\ Head(toServer[c]) \in Messages
               /\ Head(toServer[c]).type # "START" /\ current_game'[c] = current_game[c]
            \/ /\ HearsStart(c)
               /\ toServer[c] # <<>> /\ toServer'[c] = Tail(toServer[c]) /\ Head(toServer[c]) \in Messages
               /\ Head(toServer[c]).type = "START" /\ current_game'[c] = Head(toServer[c]).game
            \/ Quits(c) /\ toServer'[c] = Append(toServer[c], Stop) /\ current_game'[c] = current_game[c]
            \/ /\ StartsMachine(c) \/ StartsAgain(c)
               /\ toServer'[c] = Append(toServer[c], Start(m_current_game[c]))
               /\ Start(m_current_game[c]) \in Messages
               /\ current_game'[c] = current_game[c]
            \/ \E s \in Pads : \E i \in LocalPadToInGamePad(c, s) :
                 /\ Polls(c, s) /\ toServer'[c] = toServer[c] \o AddedMsgs(c, i, Missing(c, s, i))
                 /\ current_game'[c] = current_game[c]
<1> DEFINE Same == toServer'[c] = toServer[c] /\ current_game'[c] = current_game[c]
<1>0. /\ c \in Players /\ toServer \in [Players -> Seq(Messages)] /\ link[c] = "up"
      /\ current_game \in [Players -> 0 .. MaxGames] /\ toServer'[c] \in Seq(Messages)
  BY DEF TypeOK, Members
<1>a. toServer[c] \in Seq(Messages)
  BY <1>0
<1>1. CASE UNCHANGED <<toServer, current_game>>
  BY <1>0, <1>1, <1>a
<1>2. \/ Starts \/ Sends \/ (\E map \in PadMaps : Assigns(map)) \/ (\E n \in Targets : Adjusts(n)) \/ UNCHANGED vars
      => UNCHANGED <<toServer, current_game>>
  BY DEF Starts, Sends, Assigns, Adjusts, vars, server, channels
<1>3. ASSUME NEW p \in Players, Joins(p) PROVE Same
  <2>1. p # c /\ toServer' = [toServer EXCEPT ![p] = <<>>] /\ current_game' = current_game
    BY <1>3 DEF Joins
  <2> QED
    BY <1>0, <2>1
<1>4. ASSUME NEW p \in Players, Leaves(p) PROVE Same
  <2>1. p # c /\ toServer' = [toServer EXCEPT ![p] = <<>>] /\ current_game' = current_game
    BY <1>4 DEF Leaves
  <2> QED
    BY <1>0, <2>1
<1>5. ASSUME NEW p \in Players, Ignores(p) \/ Relays(p) \/ HearsStop(p)
      PROVE  \/ Same
             \/ /\ p = c /\ toServer[c] # <<>> /\ toServer'[c] = Tail(toServer[c]) /\ Head(toServer[c]) \in Messages
                /\ Head(toServer[c]).type # "START" /\ current_game'[c] = current_game[c]
  <2>1. /\ toServer[p] # <<>> /\ Head(toServer[p]).type # "START"
        /\ toServer' = [toServer EXCEPT ![p] = Tail(@)] /\ current_game' = current_game
    BY <1>5 DEF Ignores, Relays, HearsStop
  <2>2. Head(toServer[p]) \in Messages
    <3>1. toServer[p] \in Seq(Messages)
      BY <1>0
    <3> QED
      BY <2>1, <3>1, Tailed
  <2> QED
    BY <1>0, <2>1, <2>2
<1>6. ASSUME NEW p \in Players, HearsStart(p)
      PROVE  \/ Same
             \/ /\ p = c /\ toServer[c] # <<>> /\ toServer'[c] = Tail(toServer[c]) /\ Head(toServer[c]) \in Messages
                /\ Head(toServer[c]).type = "START" /\ current_game'[c] = Head(toServer[c]).game
  <2>1. /\ toServer[p] # <<>> /\ Head(toServer[p]).type = "START"
        /\ toServer' = [toServer EXCEPT ![p] = Tail(@)]
        /\ current_game' = [current_game EXCEPT ![p] = Head(toServer[p]).game]
    BY <1>6 DEF HearsStart
  <2>2. Head(toServer[p]) \in Messages
    <3>1. toServer[p] \in Seq(Messages)
      BY <1>0
    <3> QED
      BY SMTT(40), <2>1, <3>1, Tailed
  <2> QED
    BY <1>0, <2>1, <2>2
<1>7. ASSUME NEW d \in Players,
             \/ GetsState(d) \/ GetsMap(d) \/ GetsSize(d) \/ GetsStart(d) \/ GetsStop(d) \/ GetsDisable(d)
             \/ Loses(d) \/ Disables(d, "net") \/ Disables(d, "gui") \/ StopsMachine(d)
             \/ Takes(d) \/ TakesNothing(d) \/ TurnsOff(d)
      PROVE  UNCHANGED <<toServer, current_game>>
  BY <1>7 DEF GetsState, GetsMap, GetsSize, GetsStart, GetsStop, GetsDisable, Loses, Disables, StopsMachine,
              Takes, TakesNothing, TurnsOff
<1>8. ASSUME NEW d \in Players, StartsMachine(d) \/ StartsAgain(d)
      PROVE  \/ Same
             \/ /\ d = c /\ toServer'[c] = Append(toServer[c], Start(m_current_game[c]))
                /\ current_game'[c] = current_game[c]
  <2>1. /\ \/ toServer' = toServer
           \/ toServer' = [toServer EXCEPT ![d] = Append(@, Start(m_current_game[d]))]
        /\ current_game' = current_game
    BY <1>8 DEF StartsMachine, StartsAgain
  <2> QED
    BY <1>0, <2>1
<1>9. ASSUME toServer'[c] = Append(toServer[c], Start(m_current_game[c])) PROVE Start(m_current_game[c]) \in Messages
  <2> DEFINE m == Start(m_current_game[c])
             n == Len(toServer[c]) + 1
  <2>1. toServer[c] \in Seq(Messages \cup {m}) /\ m \in Messages \cup {m}
    BY <1>a
  <2> HIDE DEF m
  <2>2. n \in DOMAIN toServer'[c] /\ toServer'[c][n] = m
    <3>1. DOMAIN Append(toServer[c], m) = 1 .. n /\ Append(toServer[c], m)[n] = m
      BY <2>1, Appended
    <3>2. n \in 1 .. n
      BY <1>a
    <3> QED
      BY <1>9, <3>1, <3>2 DEF m
  <2> QED
    BY <1>0, <2>2, SeqTypes DEF m
<1>10. ASSUME NEW d \in Players, Quits(d)
       PROVE  Same \/ (d = c /\ toServer'[c] = Append(toServer[c], Stop) /\ current_game'[c] = current_game[c])
  <2>1. /\ toServer' = toServer \/ toServer' = [toServer EXCEPT ![d] = Append(@, Stop)]
        /\ current_game' = current_game
    BY <1>10 DEF Quits
  <2> QED
    BY <1>0, <2>1
<1>11. ASSUME NEW d \in Players, NEW s \in Pads, Polls(d, s)
       PROVE  \/ Same
              \/ \E i \in LocalPadToInGamePad(c, s) :
                   /\ Polls(c, s) /\ toServer'[c] = toServer[c] \o AddedMsgs(c, i, Missing(c, s, i))
                   /\ current_game'[c] = current_game[c]
  <2>1. /\ \/ toServer' = toServer
           \/ \E i \in LocalPadToInGamePad(d, s) :
                toServer' = [toServer EXCEPT ![d] = @ \o AddedMsgs(d, i, Missing(d, s, i))]
        /\ current_game' = current_game
    BY <1>11 DEF Polls
  <2>2. CASE d # c
    BY <1>0, <2>1, <2>2
  <2>3. CASE d = c
    <3>1. CASE toServer' = toServer
      BY <2>1, <3>1
    <3>2. ASSUME NEW i \in LocalPadToInGamePad(d, s),
                 toServer' = [toServer EXCEPT ![d] = @ \o AddedMsgs(d, i, Missing(d, s, i))]
          PROVE  toServer'[c] = toServer[c] \o AddedMsgs(c, i, Missing(c, s, i))
      BY <1>0, <2>3, <3>2
    <3> QED
      BY <1>11, <2>1, <2>3, <3>1, <3>2
  <2> QED
    BY <2>2, <2>3
<1> QED
  BY <1>0, <1>1, <1>2, <1>3, <1>4, <1>5, <1>6, <1>7, <1>8, <1>9, <1>10, <1>11, <1>a, Steps

\* An answer that has been given stays given.
LEMMA StillSent ==
  ASSUME TypeOK, TypeOK', KindsOK, Members, Answered, [Next]_vars, s_running, s_game' = s_game,
         NEW c \in s_players, c \in s_players', HasSent(c)
  PROVE  HasSent(c)'
<1> DEFINE q == toServer[c]
<1>1. Answers(c) /\ c \in Players /\ q \in Seq(Messages)
  BY DEF Answered, TypeOK
<1>2. CASE UNCHANGED <<toServer[c], current_game[c]>>
  BY <1>2 DEF HasSent
<1>3. ASSUME NEW m \in Messages, toServer'[c] = Append(q, m), current_game'[c] = current_game[c] PROVE HasSent(c)'
  <2>1. In(Append(q, m)) = In(q) \cup {m}
    BY <1>1, Contents
  <2> QED
    BY <1>3, <2>1 DEF HasSent
<1>4. ASSUME NEW r \in Seq(Messages), toServer'[c] = q \o r, current_game'[c] = current_game[c] PROVE HasSent(c)'
  <2>1. In(q \o r) = In(q) \cup In(r)
    BY <1>1, Contents
  <2> QED
    BY <1>4, <2>1 DEF HasSent
<1>5. q # <<>> => In(q) = In(Tail(q)) \cup {Head(q)} /\ Head(q) = q[1] /\ 1 \in DOMAIN q
  <2>1. q # <<>> => In(q) = In(Tail(q)) \cup {Head(q)} /\ Head(q) = q[1] /\ DOMAIN q = 1 .. Len(q) /\ Len(q) \in Nat \ {0}
    BY <1>1, Contents, Tailed
  <2>2. \A n \in Nat \ {0} : 1 \in 1 .. n
    OBVIOUS
  <2> HIDE DEF q
  <2> QED
    BY <2>1, <2>2
<1>6. ASSUME q # <<>>, toServer'[c] = Tail(q), Head(q).type # "START", current_game'[c] = current_game[c]
      PROVE  HasSent(c)'
  BY <1>5, <1>6 DEF HasSent, StartOf
<1>7. ASSUME q # <<>>, toServer'[c] = Tail(q), Head(q).type = "START", current_game'[c] = Head(q).game
      PROVE  HasSent(c)'
  <2>1. CASE Head(q).game = s_game
    BY <1>7, <2>1 DEF HasSent
  <2>2. CASE Head(q).game # s_game
    <3>1. current_game[c] # s_game
      BY <1>1, <1>5, <1>7, <2>2 DEF Answers
    <3>2. PICK m \in In(q) : StartOf(m, s_game)
      BY <3>1 DEF HasSent
    <3>3. m \in In(Tail(q))
      BY <1>5, <1>7, <2>2, <3>2 DEF StartOf
    <3> QED
      BY <1>7, <3>2, <3>3 DEF HasSent
  <2> QED
    BY <2>1, <2>2
<1>8. \A s \in Pads : Polls(c, s) => \A i \in Pads : AddedMsgs(c, i, Missing(c, s, i)) \in Seq(Messages)
  BY <1>1, AddedTypes DEF Polls
<1>9. \A s \in Pads : LocalPadToInGamePad(c, s) \subseteq Pads
  BY DEF LocalPadToInGamePad
<1> HIDE DEF q
<1>10. \/ toServer'[c] = toServer[c] /\ current_game'[c] = current_game[c]
       \/ q # <<>> /\ toServer'[c] = Tail(q) /\ Head(q).type # "START" /\ current_game'[c] = current_game[c]
       \/ q # <<>> /\ toServer'[c] = Tail(q) /\ Head(q).type = "START" /\ current_game'[c] = Head(q).game
       \/ \E m \in Messages : toServer'[c] = Append(q, m) /\ current_game'[c] = current_game[c]
       \/ \E r \in Seq(Messages) : toServer'[c] = q \o r /\ current_game'[c] = current_game[c]
  BY ZenonT(90), <1>8, <1>9, ServerChannel, NewMessages DEF q
<1> QED
  BY <1>2, <1>3, <1>4, <1>6, <1>7, <1>10

\* A client that is told has the announcement before him.
LEMMA ToldIs ==
  ASSUME NEW q \in Seq(Messages), NEW cur, NEW g, NEW map, NEW p, Tells(q, cur, g, map, p)
  PROVE  HasStart(q)
<1>1. PICK j \in DOMAIN q : q[j].type = "START"
  BY DEF Tells, StartOf
<1> QED
  BY <1>1 DEF HasStart, Has, Types

\* What belongs to the game may follow.
LEMMA TellsGrown ==
  ASSUME NEW q \in Seq(Messages), NEW m \in Messages, NEW cur, NEW g, NEW map, NEW p
  PROVE  /\ Tells(q, cur, g, map, p) /\ Belongs(m, g, map, p) => Tells(Append(q, m), cur, g, map, p)
         /\ Delivers(q, cur, map) /\ StartOf(m, g) => Tells(Append(q, m), cur, g, map, p)
<1> DEFINE a == Append(q, m)
           n == Len(q)
<1>1. /\ DOMAIN a = 1 .. n + 1 /\ DOMAIN q = 1 .. n /\ n \in Nat
      /\ \A i \in 1 .. n : a[i] = q[i]
      /\ a[n + 1] = m
  BY Appended, SeqTypes
<1> HIDE DEF a, n
<1>2. /\ n + 1 \in DOMAIN a /\ DOMAIN a = DOMAIN q \cup {n + 1}
      /\ \A i \in DOMAIN q : i < n + 1 /\ ~(n + 1 < i) /\ a[i] = q[i]
      /\ ~(n + 1 < n + 1)
  BY <1>1
<1>3. ASSUME NEW j \in DOMAIN q,
             \/ \E i \in DOMAIN q : /\ i < j /\ q[i].type = "MAPPING" /\ q[i].map = map
                                    /\ \A k \in DOMAIN q : i < k /\ k < j => q[k].type # "MAPPING"
             \/ cur = map /\ \A k \in DOMAIN q : k < j => q[k].type # "MAPPING"
      PROVE  \/ \E i \in DOMAIN a : /\ i < j /\ a[i].type = "MAPPING" /\ a[i].map = map
                                    /\ \A k \in DOMAIN a : i < k /\ k < j => a[k].type # "MAPPING"
             \/ cur = map /\ \A k \in DOMAIN a : k < j => a[k].type # "MAPPING"
  BY <1>2, <1>3
<1>4. ASSUME Tells(q, cur, g, map, p), Belongs(m, g, map, p) PROVE Tells(a, cur, g, map, p)
  <2>1. PICK j \in DOMAIN q :
          /\ StartOf(q[j], g)
          /\ \A k \in DOMAIN q : j < k => Belongs(q[k], g, map, p)
          /\ \/ \E i \in DOMAIN q : /\ i < j /\ q[i].type = "MAPPING" /\ q[i].map = map
                                    /\ \A k \in DOMAIN q : i < k /\ k < j => q[k].type # "MAPPING"
             \/ cur = map /\ \A k \in DOMAIN q : k < j => q[k].type # "MAPPING"
    BY <1>4 DEF Tells
  <2>2. j \in DOMAIN a /\ StartOf(a[j], g)
    BY <1>2, <2>1
  <2>3. \A k \in DOMAIN a : j < k => Belongs(a[k], g, map, p)
    BY <1>1, <1>2, <1>4, <2>1
  <2> QED
    BY <1>3, <2>1, <2>2, <2>3 DEF Tells
<1>5. ASSUME Delivers(q, cur, map), StartOf(m, g) PROVE Tells(a, cur, g, map, p)
  <2> DEFINE j == n + 1
  <2>1. j \in DOMAIN a /\ StartOf(a[j], g) /\ \A k \in DOMAIN a : ~(j < k)
    BY <1>1, <1>2, <1>5
  <2>2. \A k \in DOMAIN a : k < j => k \in DOMAIN q /\ a[k] = q[k]
    BY <1>2
  <2>3. \A i \in DOMAIN q : i \in DOMAIN a /\ i < j /\ a[i] = q[i]
    BY <1>2
  <2> HIDE DEF j
  <2>4. \/ \E i \in DOMAIN a : /\ i < j /\ a[i].type = "MAPPING" /\ a[i].map = map
                               /\ \A k \in DOMAIN a : i < k /\ k < j => a[k].type # "MAPPING"
        \/ cur = map /\ \A k \in DOMAIN a : k < j => a[k].type # "MAPPING"
    <3>1. CASE cur = map /\ \A k \in DOMAIN q : q[k].type # "MAPPING"
      BY <2>2, <3>1
    <3>2. ASSUME NEW i \in DOMAIN q, q[i].type = "MAPPING", q[i].map = map,
                 \A k \in DOMAIN q : i < k => q[k].type # "MAPPING"
          PROVE  /\ i \in DOMAIN a /\ i < j /\ a[i].type = "MAPPING" /\ a[i].map = map
                 /\ \A k \in DOMAIN a : i < k /\ k < j => a[k].type # "MAPPING"
      BY <2>2, <2>3, <3>2
    <3> QED
      BY <1>5, <3>1, <3>2 DEF Delivers
  <2> QED
    BY <2>1, <2>4 DEF Tells
<1> QED
  BY <1>4, <1>5 DEF a

\* The client takes a message: it is the announcement, and the mapping has come, or it comes later.
LEMMA TellsShrunk ==
  ASSUME NEW q \in Seq(Messages), q # <<>>, NEW cur, NEW g, NEW map, NEW p, Tells(q, cur, g, map, p)
  PROVE  \/ StartOf(Head(q), g) /\ cur = map /\ \A m \in In(Tail(q)) : Belongs(m, g, map, p)
         \/ Tells(Tail(q), IF Head(q).type = "MAPPING" THEN Head(q).map ELSE cur, g, map, p)
<1> DEFINE n == Len(q)
           t == Tail(q)
           cur1 == IF Head(q).type = "MAPPING" THEN Head(q).map ELSE cur
<1>1. /\ n \in Nat /\ n # 0 /\ DOMAIN q = 1 .. n /\ DOMAIN t = 1 .. n - 1
      /\ Head(q) = q[1] /\ \A i \in 1 .. n - 1 : t[i] = q[i + 1]
  BY Tailed
<1> HIDE DEF n, t
<1>2. /\ 1 \in DOMAIN q /\ \A i \in DOMAIN q : ~(i < 1)
      /\ \A i \in DOMAIN t : i + 1 \in DOMAIN q /\ t[i] = q[i + 1] /\ 1 < i + 1
      /\ \A i, j \in DOMAIN t : i < j <=> i + 1 < j + 1
      /\ \A i \in DOMAIN q : i = 1 \/ \E k \in DOMAIN t : i = k + 1
  <2>1. \A i \in 1 .. n : i = 1 \/ (i - 1 \in 1 .. n - 1 /\ i = (i - 1) + 1)
    BY <1>1
  <2>2. /\ 1 \in 1 .. n /\ \A i \in 1 .. n : ~(i < 1)
        /\ \A i \in 1 .. n - 1 : i + 1 \in 1 .. n /\ 1 < i + 1
        /\ \A i, j \in 1 .. n - 1 : i < j <=> i + 1 < j + 1
    BY <1>1
  <2> QED
    BY <1>1, <2>1, <2>2
<1>3. PICK j \in DOMAIN q :
        /\ StartOf(q[j], g)
        /\ \A k \in DOMAIN q : j < k => Belongs(q[k], g, map, p)
        /\ \/ \E i \in DOMAIN q : /\ i < j /\ q[i].type = "MAPPING" /\ q[i].map = map
                                  /\ \A k \in DOMAIN q : i < k /\ k < j => q[k].type # "MAPPING"
           \/ cur = map /\ \A k \in DOMAIN q : k < j => q[k].type # "MAPPING"
  BY DEF Tells
<1>4. CASE j = 1
  <2>1. StartOf(Head(q), g) /\ cur = map
    BY <1>1, <1>2, <1>3, <1>4
  <2>2. \A k \in DOMAIN t : Belongs(t[k], g, map, p)
    BY <1>2, <1>3, <1>4
  <2> QED
    BY <2>1, <2>2 DEF In, t
<1>5. ASSUME NEW h \in DOMAIN t, j = h + 1 PROVE Tells(t, cur1, g, map, p)
  <2>1. StartOf(t[h], g) /\ \A k \in DOMAIN t : h < k => Belongs(t[k], g, map, p)
    BY <1>2, <1>3, <1>5
  <2>2. ASSUME NEW i \in DOMAIN q, i < j, q[i].type = "MAPPING", q[i].map = map,
               \A k \in DOMAIN q : i < k /\ k < j => q[k].type # "MAPPING"
        PROVE  \/ \E e \in DOMAIN t : /\ e < h /\ t[e].type = "MAPPING" /\ t[e].map = map
                                      /\ \A k \in DOMAIN t : e < k /\ k < h => t[k].type # "MAPPING"
               \/ cur1 = map /\ \A k \in DOMAIN t : k < h => t[k].type # "MAPPING"
    <3>1. CASE i = 1
      <4>1. cur1 = map
        BY <1>1, <2>2, <3>1
      <4>2. \A k \in DOMAIN t : k < h => t[k].type # "MAPPING"
        BY <1>2, <1>5, <2>2, <3>1
      <4> QED
        BY <4>1, <4>2
    <3>2. ASSUME NEW e \in DOMAIN t, i = e + 1
          PROVE  /\ e < h /\ t[e].type = "MAPPING" /\ t[e].map = map
                 /\ \A k \in DOMAIN t : e < k /\ k < h => t[k].type # "MAPPING"
      BY <1>2, <1>5, <2>2, <3>2
    <3> QED
      BY <1>2, <3>1, <3>2
  <2>3. ASSUME cur = map, \A k \in DOMAIN q : k < j => q[k].type # "MAPPING"
        PROVE  cur1 = map /\ \A k \in DOMAIN t : k < h => t[k].type # "MAPPING"
    <3>1. \A k \in DOMAIN t : k < h => t[k].type # "MAPPING"
      BY <1>2, <1>5, <2>3
    <3>2. 1 < j
      BY <1>2, <1>5
    <3>3. cur1 = map
      BY <1>1, <1>2, <2>3, <3>2
    <3> QED
      BY <3>1, <3>3
  <2> HIDE DEF cur1
  <2>4. \/ \E e \in DOMAIN t : /\ e < h /\ t[e].type = "MAPPING" /\ t[e].map = map
                               /\ \A k \in DOMAIN t : e < k /\ k < h => t[k].type # "MAPPING"
        \/ cur1 = map /\ \A k \in DOMAIN t : k < h => t[k].type # "MAPPING"
    BY <1>3, <2>2, <2>3
  <2> QED
    BY <2>1, <2>4 DEF Tells
<1> QED
  BY <1>2, <1>4, <1>5 DEF t, cur1

\* A client whose machine plays the server's game is in it.
LEMMA PlaysInGame ==
  ASSUME TypeOK, Announced, Joining, s_running, NEW c \in s_players, session[c] = s_game
  PROVE  InGame(c) /\ ~HasStart(toClient[c]) /\ ~HasStart(s_async_queue)
<1>1. ~Behind(c, s_game)
  BY DEF Behind, TypeOK
<1>2. ~HasStart(s_async_queue) /\ ~HasStart(toClient[c])
  BY <1>1 DEF Announced
<1>3. ~Told(c)
  BY <1>2, ToldIs DEF Told, TypeOK
<1> QED
  BY <1>2, <1>3 DEF Joining

\* A machine that plays and has not been overtaken is in the game, and its GUI has done its part.
LEMMA Settled ==
  ASSUME TypeOK, Announced, Joining, StartsOnce, s_running, NEW c \in s_players, InStep(c), session[c] = s_game
  PROVE  /\ InGame(c) /\ gui[c] = <<>> /\ m_is_running[c] /\ m_pad_map[c] = s_pad_map
         /\ m_current_game[c] = s_game /\ HasSent(c) /\ c \in Players
<1>1. InGame(c) /\ c \in Players /\ gui[c] \in Seq({"start", "stop"})
  BY PlaysInGame DEF TypeOK
<1>2. Lacks(gui[c], "start")
  BY <1>1 DEF StartsOnce, InGame
<1>3. m_is_running[c] /\ Lacks(gui[c], "stop")
  BY <1>1, <1>2 DEF InGame, GuiPlays, HasLast, Lacks
<1>4. gui[c] = <<>>
  <2>1. \A i \in DOMAIN gui[c] : gui[c][i] \in {"start", "stop"}
    BY <1>1, SeqTypes
  <2>2. DOMAIN gui[c] = {}
    BY <1>2, <1>3, <2>1 DEF Lacks
  <2>3. /\ Len(gui[c]) \in Nat /\ DOMAIN gui[c] = 1 .. Len(gui[c])
        /\ gui[c] = <<>> <=> Len(gui[c]) = 0
    BY <1>1, SeqTypes
  <2>4. \A n \in Nat : 1 .. n = {} => n = 0
    OBVIOUS
  <2> QED
    BY <2>2, <2>3, <2>4
<1> QED
  BY <1>1, <1>3, <1>4 DEF InGame
-----------------------------------------------------------------------------
(* Joining the game                                                        *)

\* A client in the game stays in it.
LEMMA Kept ==
  ASSUME NEW c, InGame(c), UNCHANGED <<s_game, s_pad_map, m_current_game[c], m_pad_map[c], session[c]>>,
         gui'[c] = gui[c], m_is_running'[c] = m_is_running[c], HasSent(c) => HasSent(c)',
         \A m \in In(toClient'[c]) : m \in In(toClient[c]) \/ Belongs(m, s_game, s_pad_map, c)
  PROVE  InGame(c)'
<1>1. GuiPlays(c)'
  BY DEF InGame, GuiPlays
<1>2. /\ gui'[c] = <<>> => session'[c] = s_game'
      /\ session'[c] = s_game' => HasSent(c)'
      /\ m_current_game'[c] = s_game' /\ m_pad_map'[c] = s_pad_map'
  BY DEF InGame
<1>3. \A m \in In(toClient'[c]) : Belongs(m, s_game, s_pad_map, c)
  BY DEF InGame
<1>4. \A m \in In(toClient'[c]) : Belongs(m, s_game', s_pad_map', c)
  BY <1>3
<1> QED
  BY <1>1, <1>2, <1>4 DEF InGame

\* While the game runs, every client joins it or is in it.
LEMMA JoiningNext ==
  ASSUME TypeOK, TypeOK', KindsOK, Members, Numbers, Announced, Alternate, HostKnows, Mapped, Joining,
         Answered, [Next]_vars
  PROVE  Joining'
<1> DEFINE Queued == HasStart(s_async_queue)
           Fit(c) == Queued \/ Told(c) \/ InGame(c)
<1>0. /\ s_running => \A c \in s_players : Fit(c)
      /\ s_players \subseteq Players /\ s_players' \subseteq Players
  BY DEF Joining, TypeOK
<1>a. /\ s_async_queue \in Seq(Messages) /\ s_game \in Nat
      /\ \A c \in Players : /\ toClient[c] \in Seq(Messages) /\ toServer[c] \in Seq(Messages)
                            /\ gui[c] \in Seq({"start", "stop"}) /\ m_is_running[c] \in BOOLEAN
  BY DEF TypeOK
<1>b. ASSUME s_running' => \A c \in s_players' : Fit(c)' PROVE Joining'
  BY <1>b DEF Joining
<1> HIDE DEF Queued
<1>1. ASSUME NEW c \in s_players, c \in s_players', s_running,
             UNCHANGED <<s_game, s_pad_map, m_current_game[c], m_pad_map[c], session[c]>>,
             Queued' <=> Queued,
             toClient'[c] = toClient[c], gui'[c] = gui[c], m_is_running'[c] = m_is_running[c]
      PROVE  Fit(c)'
  <2>1. HasSent(c) => HasSent(c)'
    BY <1>1, StillSent
  <2>2. InGame(c) => InGame(c)'
    BY <1>1, <2>1, Kept
  <2>3. Told(c) => Told(c)'
    BY <1>1 DEF Told
  <2> QED
    BY <1>0, <1>1, <2>2, <2>3
<1>2. ASSUME s_running' => s_running,
             UNCHANGED <<s_players, s_game, s_pad_map, s_async_queue, toClient, m_current_game, m_pad_map,
                         session, gui>>,
             \A c \in s_players : m_is_running'[c] = m_is_running[c]
      PROVE  Joining'
  <2>1. ASSUME NEW c \in s_players, s_running PROVE Fit(c)'
    BY <1>1, <1>2, <2>1 DEF Queued
  <2> QED
    BY <1>2, <1>b, <2>1
<1>3. CASE Starts
  <2>1. Queued'
    <3>1. Buffer(s_target) \in Messages /\ s_game' \in 1 .. MaxGames
      BY <1>3, NewMessages, NetPlayAssumption DEF TypeOK, Starts
    <3>2. Append(s_async_queue, Buffer(s_target)) \in Seq(Messages) /\ Start(s_game') \in Messages
          /\ Start(s_game').type = "START"
      BY <1>a, <3>1, Appended, NewMessages
    <3> QED
      BY <1>3, <3>2, AppendedMarks DEF Queued, Starts
  <2> QED
    BY <1>b, <2>1
<1>4. ASSUME NEW map \in PadMaps, Assigns(map) PROVE Joining'
  <2>1. ~s_running
    BY <1>4, Idle DEF Assigns, HostKnows
  <2> QED
    BY <1>4, <1>b, <2>1 DEF Assigns
<1>5. ASSUME NEW n \in Targets, Adjusts(n) PROVE Joining'
  <2>1. /\ s_async_queue = <<>> /\ \A c \in Players : toClient[c] = <<>>
        /\ UNCHANGED <<s_players, s_running, s_game, s_pad_map, m_current_game, m_pad_map, session, toClient,
                       gui, m_is_running>>
    BY <1>5 DEF Adjusts, Arrived
  <2>2. ASSUME NEW c \in s_players, s_running PROVE Fit(c)'
    <3>1. InGame(c)
      <4>1. toClient[c] = <<>> /\ ~Queued
        BY <1>0, <2>1, <2>2, EmptyMarks DEF Queued
      <4>2. ~Told(c)
        BY <4>1 DEF Told, Tells
      <4> QED
        BY <1>0, <2>2, <4>1, <4>2
    <3>2. HasSent(c) => HasSent(c)'
      BY <2>1, <2>2, StillSent
    <3> QED
      BY <2>1, <2>2, <3>1, <3>2, Kept
  <2> QED
    BY <1>b, <2>1, <2>2
<1>6. CASE Sends
  <2> DEFINE q == s_async_queue
             h == Head(q)
  <2>1. /\ q # <<>> /\ s_async_queue' = Tail(q)
        /\ UNCHANGED <<s_players, s_running, s_game, s_pad_map, m_current_game, m_pad_map, session,
                       gui, m_is_running>>
        /\ \A c \in s_players : toClient'[c] = Append(toClient[c], h)
    BY <1>0, <1>6 DEF Sends
  <2>2. h \in Messages /\ h.type \in {"BUFFER", "START"} /\ h = q[1] /\ 1 \in DOMAIN q
    <3>1. h = q[1] /\ h \in Messages /\ DOMAIN q = 1 .. Len(q) /\ Len(q) \in Nat \ {0}
      BY <1>a, <2>1, Tailed
    <3>2. 1 \in DOMAIN q
      BY <3>1
    <3> QED
      BY <3>1, <3>2 DEF KindsOK
  <2>3. Queued <=> Queued' \/ h.type = "START"
    BY <1>a, <2>1, TailedMarks DEF Queued
  <2>4. h.type = "START" => StartOf(h, s_game)
    BY <2>2 DEF Numbers, StartOf
  <2> HIDE DEF h, q
  <2>5. ASSUME NEW c \in s_players, s_running PROVE Fit(c)'
    <3>1. c \in Players /\ toClient[c] \in Seq(Messages) /\ toClient'[c] = Append(toClient[c], h)
      BY <1>0, <1>a, <2>1
    <3>2. CASE h.type = "START"
      <4>1. Delivers(toClient[c], m_pad_map[c], s_pad_map)
        BY <2>5, Maps1 DEF Mapped
      <4>2. Tells(toClient'[c], m_pad_map[c], s_game, s_pad_map, c)
        BY <2>2, <2>4, <3>1, <3>2, <4>1, TellsGrown
      <4>3. Told(c)'
        BY <2>1, <4>2 DEF Told
      <4> QED
        BY <4>3
    <3>3. CASE h.type = "BUFFER" /\ ~Queued
      <4>1. Belongs(h, s_game, s_pad_map, c)
        BY <3>3 DEF Belongs
      <4>2. CASE InGame(c)
        <5>1. In(toClient'[c]) = In(toClient[c]) \cup {h}
          BY <2>2, <3>1, Contents
        <5>2. HasSent(c) => HasSent(c)'
          BY <2>1, <2>5, StillSent
        <5>3. \A m \in In(toClient'[c]) : m \in In(toClient[c]) \/ Belongs(m, s_game, s_pad_map, c)
          BY <4>1, <5>1
        <5> QED
          BY <2>1, <4>2, <5>2, <5>3, Kept
      <4>3. CASE Told(c)
        <5>1. Tells(toClient'[c], m_pad_map[c], s_game, s_pad_map, c)
          BY <2>2, <3>1, <4>1, <4>3, TellsGrown DEF Told
        <5>2. Told(c)'
          BY <2>1, <5>1 DEF Told
        <5> QED
          BY <5>2
      <4> QED
        BY <1>0, <2>5, <3>3, <4>2, <4>3
    <3>4. Queued' => Fit(c)'
      OBVIOUS
    <3> QED
      BY <2>2, <2>3, <3>2, <3>3, <3>4
  <2> QED
    BY <1>b, <2>1, <2>5
<1>7. ASSUME NEW p \in Players, Joins(p) PROVE Joining'
  BY <1>7, <1>b DEF Joins
<1>8. ASSUME NEW p \in Players,
             \/ Leaves(p) /\ p # Host
             \/ Leaves(p) /\ toServer[p] # <<>> /\ Head(toServer[p]).type = "PAD"
                /\ current_game[p] = s_game /\ s_pad_map[Head(toServer[p]).pad] # p
      PROVE  Joining'
  <2> SUFFICES ASSUME s_running', NEW c \in s_players' PROVE Fit(c)'
    BY <1>b
  <2>1. /\ s_running /\ s_pad_map' = s_pad_map
        /\ toClient'[c] = Append(toClient[c], Mapping(s_pad_map))
    BY <1>8, LeavesRunning
  <2>2. c \in s_players /\ c \in Players /\ Mapping(s_pad_map) \in Messages
    BY <1>8, <2>1, Left
  <2>3. UNCHANGED <<s_game, m_current_game, m_pad_map, session, gui, m_is_running, s_async_queue>>
    BY <1>8 DEF Leaves
  <2>4. Belongs(Mapping(s_pad_map), s_game, s_pad_map, c)
    BY DEF Mapping, Belongs
  <2>5. CASE InGame(c)
    <3>1. In(toClient'[c]) = In(toClient[c]) \cup {Mapping(s_pad_map)}
      BY <1>a, <2>1, <2>2, Contents
    <3>2. HasSent(c) => HasSent(c)'
      BY <2>1, <2>2, <2>3, StillSent
    <3>3. \A m \in In(toClient'[c]) : m \in In(toClient[c]) \/ Belongs(m, s_game, s_pad_map, c)
      BY <2>4, <3>1
    <3>4. InGame(c)'
      BY <2>1, <2>3, <2>5, <3>2, <3>3, Kept
    <3> QED
      BY <3>4
  <2>6. CASE Told(c)
    <3>1. Tells(toClient'[c], m_pad_map[c], s_game, s_pad_map, c)
      BY <1>a, <2>1, <2>2, <2>4, <2>6, TellsGrown DEF Told
    <3>2. Told(c)'
      BY <2>1, <2>3, <3>1 DEF Told
    <3> QED
      BY <3>2
  <2>7. CASE Queued
    BY <2>3, <2>7 DEF Queued
  <2> QED
    BY <1>0, <2>1, <2>2, <2>5, <2>6, <2>7
<1>9. ASSUME NEW p \in Players, Relays(p) PROVE Joining'
  <2> DEFINE m == Head(toServer[p])
  <2>1. /\ p \in s_players /\ toServer[p] # <<>> /\ m.type = "PAD" /\ current_game[p] = s_game /\ s_pad_map[m.pad] = p
        /\ UNCHANGED <<s_players, s_running, s_game, s_pad_map, s_async_queue, m_current_game, m_pad_map, session,
                       gui, m_is_running>>
        /\ \A c \in s_players : toClient'[c] = IF c # p THEN Append(toClient[c], m) ELSE toClient[c]
    BY <1>0, <1>9 DEF Relays
  <2>2. m \in Messages /\ m = toServer[p][1] /\ 1 \in DOMAIN toServer[p] /\ m \in In(toServer[p])
    <3>1. m = toServer[p][1] /\ m \in Messages /\ DOMAIN toServer[p] = 1 .. Len(toServer[p]) /\ Len(toServer[p]) \in Nat \ {0}
      BY <1>a, <2>1, Tailed
    <3>2. 1 \in DOMAIN toServer[p]
      BY <3>1
    <3> QED
      BY <3>1, <3>2 DEF In
  <2>3. ASSUME NEW c \in s_players, s_running PROVE Fit(c)'
    <3>1. m.state[1] = s_game
      BY <2>1, <2>2, <2>3 DEF Answered, Answers
    <3>2. ~Queued
      <4>1. ~Behind(p, s_game)
        BY <2>1 DEF Behind, TypeOK
      <4> QED
        BY <2>1, <4>1 DEF Announced, Queued
    <3>3. CASE c = p
      <4>1. /\ toClient'[c] = toClient[c] /\ (Queued' <=> Queued)
        BY <2>1, <2>3, <3>3 DEF Queued
      <4> QED
        BY <1>1, <2>1, <2>3, <4>1
    <3>4. CASE c # p
      <4>1. Belongs(m, s_game, s_pad_map, c) /\ toClient'[c] = Append(toClient[c], m)
        BY <2>1, <2>3, <3>1, <3>4 DEF Belongs
      <4>2. toClient[c] \in Seq(Messages)
        BY <1>0, <1>a, <2>3
      <4> HIDE DEF m
      <4>3. CASE InGame(c)
        <5>1. In(toClient'[c]) = In(toClient[c]) \cup {m}
          BY <2>2, <4>1, <4>2, Contents
        <5>2. HasSent(c) => HasSent(c)'
          BY <2>1, <2>3, StillSent
        <5>3. \A e \in In(toClient'[c]) : e \in In(toClient[c]) \/ Belongs(e, s_game, s_pad_map, c)
          BY <4>1, <5>1
        <5> QED
          BY <2>1, <4>3, <5>2, <5>3, Kept
      <4>4. CASE Told(c)
        <5>1. Tells(toClient'[c], m_pad_map[c], s_game, s_pad_map, c)
          BY <2>2, <4>1, <4>2, <4>4, TellsGrown DEF Told
        <5>2. Told(c)'
          BY <2>1, <5>1 DEF Told
        <5> QED
          BY <5>2
      <4> QED
        BY <1>0, <2>3, <3>2, <4>3, <4>4
    <3> QED
      BY <3>3, <3>4
  <2> QED
    BY <1>b, <2>1, <2>3
<1>10. ASSUME NEW p \in Players, HearsStop(p) PROVE Joining'
  BY <1>10, <1>b DEF HearsStop
<1>11. ASSUME NEW c \in Players,
              \/ GetsState(c) \/ GetsMap(c) \/ GetsSize(c) \/ GetsStart(c) \/ GetsStop(c) \/ GetsDisable(c)
       PROVE  Joining'
  <2> DEFINE q == toClient[c]
             h == Head(q)
  <2>1. /\ c \in s_players /\ q # <<>> /\ q \in Seq(Messages) /\ h \in Messages
        /\ toClient'[c] = Tail(q) /\ \A d \in Players : d # c => toClient'[d] = toClient[d]
        /\ UNCHANGED <<s_players, s_pad_map, s_game, s_running, s_async_queue, session>>
    BY <1>11, Gets
  <2>2. /\ \A d \in Players : d # c => /\ m_current_game'[d] = m_current_game[d] /\ m_pad_map'[d] = m_pad_map[d]
                                       /\ gui'[d] = gui[d] /\ m_is_running'[d] = m_is_running[d]
    <3>1. /\ \/ m_current_game' = m_current_game
             \/ m_current_game' = [m_current_game EXCEPT ![c] = h.game]
          /\ \/ m_pad_map' = m_pad_map
             \/ m_pad_map' = [m_pad_map EXCEPT ![c] = h.map]
          /\ \/ gui' = gui
             \/ gui' = [gui EXCEPT ![c] = Append(@, "start")]
             \/ gui' = [gui EXCEPT ![c] = Append(@, "stop")]
          /\ \/ m_is_running' = m_is_running
             \/ m_is_running' = [m_is_running EXCEPT ![c] = FALSE]
      BY <1>11 DEF GetsState, GetsMap, GetsSize, GetsStart, GetsStop, GetsDisable
    <3>2. /\ m_current_game \in [Players -> 0 .. MaxGames] /\ m_pad_map \in [Players -> PadMaps]
          /\ gui \in [Players -> Seq({"start", "stop"})] /\ m_is_running \in [Players -> BOOLEAN]
      BY DEF TypeOK
    <3> HIDE DEF h
    <3> QED
      BY SMTT(40), <3>1, <3>2
  <2>3. \A d \in s_players : s_running /\ d # c => Fit(d)'
    BY <1>0, <1>1, <2>1, <2>2 DEF Queued
  <2>4. ASSUME s_running PROVE Fit(c)'
    <3>1. CASE Queued
      BY <2>1, <3>1 DEF Queued
    <3>2. CASE InGame(c)
      <4>1. h \in In(q) /\ In(Tail(q)) \subseteq In(q)
        BY <2>1, Contents
      <4>2. h.type \in {"BUFFER", "MAPPING", "PAD"} /\ (h.type = "MAPPING" => h.map = s_pad_map)
            /\ m_pad_map[c] = s_pad_map
        BY SMTT(40), <3>2, <4>1 DEF InGame, Belongs
      <4>3. UNCHANGED <<m_current_game, gui, m_is_running>>
        BY SMTT(40), <1>11, <4>2 DEF GetsState, GetsMap, GetsSize, GetsStart, GetsStop, GetsDisable
      <4>4. m_pad_map'[c] = m_pad_map[c]
        <5>1. m_pad_map' = m_pad_map \/ (h.type = "MAPPING" /\ m_pad_map' = [m_pad_map EXCEPT ![c] = h.map])
          BY <1>11 DEF GetsState, GetsMap, GetsSize, GetsStart, GetsStop, GetsDisable
        <5>2. m_pad_map \in [Players -> PadMaps]
          BY DEF TypeOK
        <5> HIDE DEF h
        <5> QED
          BY <4>2, <5>1, <5>2
      <4>5. HasSent(c) => HasSent(c)'
        BY <2>1, <2>4, StillSent
      <4>6. \A m \in In(toClient'[c]) : m \in In(toClient[c])
        BY <2>1, <4>1
      <4> HIDE DEF h, q
      <4>7. InGame(c)'
        BY <2>1, <3>2, <4>3, <4>4, <4>5, <4>6, Kept
      <4> QED
        BY <4>7
    <3>3. CASE Told(c)
      <4>1. \/ StartOf(h, s_game) /\ m_pad_map[c] = s_pad_map /\ \A m \in In(Tail(q)) : Belongs(m, s_game, s_pad_map, c)
            \/ Tells(Tail(q), IF h.type = "MAPPING" THEN h.map ELSE m_pad_map[c], s_game, s_pad_map, c)
        BY <2>1, <3>3, TellsShrunk DEF Told
      <4>2. CASE Tells(Tail(q), IF h.type = "MAPPING" THEN h.map ELSE m_pad_map[c], s_game, s_pad_map, c)
        <5>1. m_pad_map'[c] = IF h.type = "MAPPING" THEN h.map ELSE m_pad_map[c]
          <6>1. \/ h.type # "MAPPING" /\ m_pad_map' = m_pad_map
                \/ h.type = "MAPPING" /\ m_pad_map' = [m_pad_map EXCEPT ![c] = h.map]
            BY <1>11 DEF GetsState, GetsMap, GetsSize, GetsStart, GetsStop, GetsDisable
          <6>2. m_pad_map \in [Players -> PadMaps]
            BY DEF TypeOK
          <6> HIDE DEF h
          <6> QED
            BY <6>1, <6>2
        <5> HIDE DEF h, q
        <5>2. Told(c)'
          BY <2>1, <4>2, <5>1 DEF Told
        <5> QED
          BY <5>2
      <4>3. CASE StartOf(h, s_game) /\ m_pad_map[c] = s_pad_map /\ \A m \in In(Tail(q)) : Belongs(m, s_game, s_pad_map, c)
        <5>1. h.type = "START" /\ h.game = s_game
          BY <4>3 DEF StartOf
        <5>2. GetsStart(c)
          BY <1>11, <5>1 DEF GetsState, GetsMap, GetsSize, GetsStart, GetsStop, GetsDisable
        <5>3. /\ m_current_game'[c] = s_game /\ gui'[c] = Append(gui[c], "start") /\ m_pad_map'[c] = m_pad_map[c]
          BY <5>1, <5>2 DEF GetsStart, TypeOK
        <5>5. HasLast(gui'[c], "start", "stop") /\ gui'[c] # <<>>
          <6>1. gui[c] \in Seq({"start", "stop"})
            BY <1>a
          <6>2. HasLast(Append(gui[c], "start"), "start", "stop")
            BY <6>1, GuiGrown
          <6> QED
            BY <5>3, <6>1, <6>2
        <5>6. session'[c] # s_game'
          <6>1. HasStart(q)
            BY <2>1, <5>1, TailedMarks
          <6>2. session[c] < s_game
            BY <2>1, <6>1 DEF Announced, Behind
          <6>3. session[c] \in Nat
            BY DEF TypeOK
          <6> QED
            BY <1>a, <2>1, <6>2, <6>3
        <5>7. \A m \in In(toClient'[c]) : Belongs(m, s_game', s_pad_map', c)
          BY <2>1, <4>3
        <5>8. GuiPlays(c)'
          BY <5>5 DEF GuiPlays
        <5>9. m_current_game'[c] = s_game' /\ m_pad_map'[c] = s_pad_map'
          BY <2>1, <4>3, <5>3
        <5>10. InGame(c)'
          BY <5>5, <5>6, <5>7, <5>8, <5>9 DEF InGame
        <5> QED
          BY <5>10
      <4> QED
        BY <4>1, <4>2, <4>3
    <3> QED
      BY <1>0, <2>1, <2>4, <3>1, <3>2, <3>3
  <2> QED
    BY <1>b, <2>1, <2>3, <2>4
<1>12. ASSUME NEW c \in Players, StartsMachine(c) PROVE Joining'
  <2>1. /\ gui[c] # <<>> /\ Head(gui[c]) = "start" /\ ~m_is_running[c] /\ gui'[c] = Tail(gui[c])
        /\ m_is_running'[c] = TRUE /\ session'[c] = m_current_game[c]
        /\ \A d \in Players : d # c => /\ gui'[d] = gui[d] /\ m_is_running'[d] = m_is_running[d]
                                       /\ session'[d] = session[d]
        /\ UNCHANGED <<s_players, s_running, s_game, s_pad_map, s_async_queue, toClient, m_current_game, m_pad_map,
                       current_game>>
    <3>1. /\ gui' = [gui EXCEPT ![c] = Tail(@)] /\ m_is_running' = [m_is_running EXCEPT ![c] = TRUE]
          /\ session' = [session EXCEPT ![c] = m_current_game[c]]
      BY <1>12 DEF StartsMachine
    <3>2. /\ gui \in [Players -> Seq({"start", "stop"})] /\ m_is_running \in [Players -> BOOLEAN]
          /\ session \in [Players -> 0 .. MaxGames]
      BY DEF TypeOK
    <3>3. /\ gui[c] # <<>> /\ Head(gui[c]) = "start" /\ ~m_is_running[c]
          /\ UNCHANGED <<s_players, s_running, s_game, s_pad_map, s_async_queue, toClient, m_current_game, m_pad_map,
                         current_game>>
      BY <1>12 DEF StartsMachine
    <3> QED
      BY <3>1, <3>2, <3>3
  <2>2. \A d \in s_players : s_running /\ d # c => Fit(d)'
    BY <1>0, <1>1, <2>1 DEF Queued
  <2>3. ASSUME c \in s_players, InGame(c) PROVE InGame(c)'
    <3>1. HasLast(gui[c], "start", "stop") <=> HasLast(gui'[c], "start", "stop") \/ Lacks(gui'[c], "stop")
      BY <1>a, <2>1, GuiShrunk
    <3>2. GuiPlays(c)'
      BY <2>1, <2>3, <3>1 DEF InGame, GuiPlays
    <3>3. HasSent(c)'
      <4>1. toServer'[c] = Append(toServer[c], Start(s_game)) /\ Start(s_game) \in Messages
        <5>1. link[c] = "up" /\ m_current_game[c] = s_game
          BY <2>3 DEF Members, InGame
        <5>2. toServer' = [toServer EXCEPT ![c] = Append(@, Start(s_game))] /\ toServer \in [Players -> Seq(Messages)]
          BY <1>12, <5>1 DEF StartsMachine, TypeOK
        <5>3. s_game \in 1 .. MaxGames
          <6>1. 1 \in DOMAIN gui[c] /\ gui[c][1] = "start"
            <7>1. Len(gui[c]) \in Nat \ {0} /\ DOMAIN gui[c] = 1 .. Len(gui[c]) /\ Head(gui[c]) = gui[c][1]
              BY <1>a, <2>1, Tailed
            <7>2. 1 \in DOMAIN gui[c]
              BY <7>1
            <7> QED
              BY <2>1, <7>1, <7>2
          <6>2. m_current_game[c] # 0
            BY <6>1 DEF KindsOK
          <6> QED
            BY <5>1, <6>2 DEF TypeOK
        <5> QED
          BY <5>2, <5>3, NewMessages
      <4>2. Start(s_game) \in In(toServer'[c])
        BY <1>a, <4>1, Contents
      <4> QED
        BY <2>1, <4>2 DEF HasSent, StartOf, Start
    <3>4. /\ m_current_game'[c] = s_game' /\ m_pad_map'[c] = s_pad_map' /\ session'[c] = s_game'
          /\ In(toClient'[c]) = In(toClient[c])
      BY <2>1, <2>3 DEF InGame
    <3>5. \A m \in In(toClient'[c]) : Belongs(m, s_game', s_pad_map', c)
      BY <2>1, <2>3, <3>4 DEF InGame
    <3> QED
      BY <3>2, <3>3, <3>4, <3>5 DEF InGame
  <2>4. Told(c) => Told(c)'
    BY <2>1 DEF Told
  <2> QED
    BY <1>0, <1>b, <2>1, <2>2, <2>3, <2>4 DEF Queued
<1>13. ASSUME NEW c \in Players, StopsMachine(c) PROVE Joining'
  <2>1. /\ gui[c] # <<>> /\ Head(gui[c]) = "stop" /\ gui'[c] = Tail(gui[c])
        /\ \A d \in Players : d # c => gui'[d] = gui[d] /\ m_is_running'[d] = m_is_running[d]
        /\ UNCHANGED <<s_players, s_running, s_game, s_pad_map, s_async_queue, toClient, m_current_game, m_pad_map,
                       session, current_game, toServer>>
    <3>1. gui' = [gui EXCEPT ![c] = Tail(@)] /\ m_is_running' = [m_is_running EXCEPT ![c] = FALSE]
      BY <1>13 DEF StopsMachine
    <3>2. gui \in [Players -> Seq({"start", "stop"})] /\ m_is_running \in [Players -> BOOLEAN]
      BY DEF TypeOK
    <3>3. /\ gui[c] # <<>> /\ Head(gui[c]) = "stop"
          /\ UNCHANGED <<s_players, s_running, s_game, s_pad_map, s_async_queue, toClient, m_current_game, m_pad_map,
                         session, current_game, toServer>>
      BY <1>13 DEF StopsMachine
    <3> QED
      BY <3>1, <3>2, <3>3
  <2>2. \A d \in s_players : s_running /\ d # c => Fit(d)'
    BY <1>0, <1>1, <2>1 DEF Queued
  <2>3. ASSUME c \in s_players, InGame(c) PROVE InGame(c)'
    <3>1. (HasLast(gui[c], "start", "stop") <=> HasLast(gui'[c], "start", "stop")) /\ ~Lacks(gui[c], "stop")
      BY <1>a, <2>1, GuiShrunk
    <3>2. HasLast(gui'[c], "start", "stop")
      BY <2>3, <3>1 DEF InGame, GuiPlays
    <3>3. GuiPlays(c)' /\ gui'[c] # <<>>
      BY <3>2, GuiEmpty DEF GuiPlays
    <3>4. HasSent(c)' <=> HasSent(c)
      BY <2>1 DEF HasSent
    <3>5. /\ m_current_game'[c] = s_game' /\ m_pad_map'[c] = s_pad_map'
          /\ session'[c] = s_game' => HasSent(c)'
          /\ In(toClient'[c]) = In(toClient[c])
      BY <2>1, <2>3, <3>4 DEF InGame
    <3>6. \A m \in In(toClient'[c]) : Belongs(m, s_game', s_pad_map', c)
      BY <2>1, <2>3, <3>5 DEF InGame
    <3> QED
      BY <3>3, <3>5, <3>6 DEF InGame
  <2>4. Told(c) => Told(c)'
    BY <2>1 DEF Told
  <2> QED
    BY <1>0, <1>b, <2>1, <2>2, <2>3, <2>4 DEF Queued
<1>14. ASSUME NEW c \in Players, StartsAgain(c) PROVE Joining'
  <2>1. /\ gui[c] # <<>> /\ Head(gui[c]) = "start" /\ m_is_running[c]
        /\ \A d \in Players : d # c => gui'[d] = gui[d]
        /\ UNCHANGED <<s_players, s_running, s_game, s_pad_map, s_async_queue, toClient, m_current_game, m_pad_map,
                       session, m_is_running>>
    BY <1>14 DEF StartsAgain, TypeOK
  <2>2. c \notin s_players
    <3>1. ~Before(gui[c], "stop", "start")
      BY <1>a, <2>1, GuiShrunk
    <3> QED
      BY <2>1, <3>1 DEF Alternate
  <2>3. \A d \in s_players : s_running => Fit(d)'
    BY <1>0, <1>1, <2>1, <2>2 DEF Queued
  <2> QED
    BY <1>b, <2>1, <2>3
<1>15. ASSUME NEW c \in Players, Loses(c) PROVE Joining'
  <2>1. /\ UNCHANGED <<s_players, s_running, s_game, s_pad_map, s_async_queue, toClient, m_current_game, m_pad_map,
                       session, gui>>
        /\ m_is_running' = [m_is_running EXCEPT ![c] = FALSE] /\ c \notin s_players
    BY <1>15 DEF Loses, Members
  <2>2. \A d \in s_players : m_is_running'[d] = m_is_running[d]
    BY <1>0, <2>1 DEF TypeOK
  <2> QED
    BY <1>2, <2>1, <2>2
<1>16. ASSUME UNCHANGED <<s_players, s_running, s_game, s_pad_map, s_async_queue, toClient, m_current_game, m_pad_map,
                         session, gui, m_is_running>>
       PROVE  Joining'
  BY <1>2, <1>16
<1>17. ASSUME NEW c \in Players,
              \/ Ignores(c) \/ HearsStart(c) \/ Disables(c, "net") \/ Disables(c, "gui") \/ Quits(c)
              \/ (\E s \in Pads : Polls(c, s)) \/ Takes(c) \/ TakesNothing(c) \/ TurnsOff(c)
       PROVE  UNCHANGED <<s_players, s_running, s_game, s_pad_map, s_async_queue, toClient, m_current_game, m_pad_map,
                          session, gui, m_is_running>>
  BY <1>17 DEF Ignores, HearsStart, Disables, Quits, Polls, Takes, TakesNothing, TurnsOff
<1>18. CASE UNCHANGED vars
  BY <1>16, <1>18 DEF vars, server, channels, settings, machine, runState
<1> QED
  BY <1>3, <1>4, <1>5, <1>6, <1>7, <1>8, <1>9, <1>10, <1>11, <1>12, <1>13, <1>14, <1>15, <1>16, <1>17, <1>18, Steps
-----------------------------------------------------------------------------
(* States on the way                                                       *)

\* What a step during a game does to the channel to a member.
LEMMA ClientChannel ==
  ASSUME TypeOK, TypeOK', KindsOK, Members, Answered, [Next]_vars, s_running, s_running',
         NEW c \in s_players, c \in s_players'
  PROVE  /\ c \in Players /\ toClient[c] \in Seq(Messages)
         /\ \/ toClient'[c] = toClient[c]
            \/ /\ GetsState(c) \/ GetsMap(c) \/ GetsSize(c) \/ GetsStart(c) \/ GetsStop(c) \/ GetsDisable(c)
               /\ toClient[c] # <<>> /\ toClient'[c] = Tail(toClient[c]) /\ Head(toClient[c]) \in Messages
            \/ \E m \in Messages :
                 /\ toClient'[c] = Append(toClient[c], m)
                 /\ \/ m.type = "MAPPING" \/ m.type = "BUFFER"
                    \/ m.type = "START" /\ HasStart(s_async_queue)
                    \/ \E p \in s_players \ {c} : Relays(p) /\ m = Head(toServer[p])
<1> DEFINE Result == \/ toClient'[c] = toClient[c]
                     \/ /\ GetsState(c) \/ GetsMap(c) \/ GetsSize(c) \/ GetsStart(c) \/ GetsStop(c) \/ GetsDisable(c)
                        /\ toClient[c] # <<>> /\ toClient'[c] = Tail(toClient[c]) /\ Head(toClient[c]) \in Messages
                     \/ \E m \in Messages :
                          /\ toClient'[c] = Append(toClient[c], m)
                          /\ \/ m.type = "MAPPING" \/ m.type = "BUFFER"
                             \/ m.type = "START" /\ HasStart(s_async_queue)
                             \/ \E p \in s_players \ {c} : Relays(p) /\ m = Head(toServer[p])
<1>0. c \in Players /\ toClient[c] \in Seq(Messages) /\ s_players \subseteq Players
  BY DEF TypeOK
<1>1. ASSUME toClient' = toClient PROVE Result
  BY <1>1
<1>2. ASSUME Sends PROVE Result
  <2>1. s_async_queue # <<>> /\ toClient'[c] = Append(toClient[c], Head(s_async_queue)) /\ s_async_queue \in Seq(Messages)
    BY <1>0, <1>2 DEF Sends, TypeOK
  <2>2. Head(s_async_queue) \in Messages /\ Head(s_async_queue).type \in {"BUFFER", "START"}
    <3>1. /\ Head(s_async_queue) = s_async_queue[1] /\ Head(s_async_queue) \in Messages
          /\ DOMAIN s_async_queue = 1 .. Len(s_async_queue) /\ Len(s_async_queue) \in Nat \ {0}
      BY <2>1, Tailed
    <3>2. 1 \in DOMAIN s_async_queue
      BY <3>1
    <3> QED
      BY <3>1, <3>2 DEF KindsOK
  <2>3. Head(s_async_queue).type = "START" => HasStart(s_async_queue)
    BY <2>1, TailedMarks
  <2> QED
    BY <2>1, <2>2, <2>3
<1>3. ASSUME NEW map \in PadMaps, Assigns(map) PROVE Result
  <2>1. toClient'[c] = Append(toClient[c], Mapping(map)) /\ Mapping(map) \in Messages /\ Mapping(map).type = "MAPPING"
    BY <1>0, <1>3, NewMessages DEF Assigns
  <2> QED
    BY <2>1
<1>4. ASSUME NEW p \in Players, Joins(p) PROVE FALSE
  BY <1>4 DEF Joins
<1>5. ASSUME NEW p \in Players,
             \/ Leaves(p) /\ p # Host
             \/ Leaves(p) /\ toServer[p] # <<>> /\ Head(toServer[p]).type = "PAD"
                /\ current_game[p] = s_game /\ s_pad_map[Head(toServer[p]).pad] # p
      PROVE  Result
  <2>1. toClient'[c] = Append(toClient[c], Mapping(s_pad_map))
    BY <1>5, LeavesRunning
  <2>2. Mapping(s_pad_map) \in Messages /\ Mapping(s_pad_map).type = "MAPPING"
    BY NewMessages DEF TypeOK
  <2> QED
    BY <2>1, <2>2
<1>6. ASSUME NEW p \in Players, Relays(p) PROVE Result
  <2>1. /\ p \in s_players /\ toServer[p] # <<>> /\ toServer[p] \in Seq(Messages)
        /\ toClient'[c] = IF c # p THEN Append(toClient[c], Head(toServer[p])) ELSE toClient[c]
    BY <1>0, <1>6 DEF Relays, TypeOK
  <2>2. Head(toServer[p]) \in Messages
    BY <2>1, Tailed
  <2> QED
    BY <1>6, <2>1, <2>2
<1>7. ASSUME NEW p \in Players, HearsStop(p) PROVE FALSE
  BY <1>7 DEF HearsStop
<1>8. ASSUME NEW d \in Players,
             GetsState(d) \/ GetsMap(d) \/ GetsSize(d) \/ GetsStart(d) \/ GetsStop(d) \/ GetsDisable(d)
      PROVE  Result
  BY <1>0, <1>8, Gets
<1>9. ASSUME NEW d \in Players,
             \/ Ignores(d) \/ HearsStart(d) \/ Loses(d) \/ Disables(d, "net") \/ Disables(d, "gui")
             \/ StartsMachine(d) \/ StartsAgain(d) \/ StopsMachine(d) \/ Quits(d)
             \/ (\E s \in Pads : Polls(d, s)) \/ Takes(d) \/ TakesNothing(d) \/ TurnsOff(d)
      PROVE  toClient' = toClient
  BY <1>9 DEF Ignores, HearsStart, Loses, Disables, StartsMachine, StartsAgain, StopsMachine, Quits, Polls,
              Takes, TakesNothing, TurnsOff
<1>10. Starts \/ (\E n \in Targets : Adjusts(n)) \/ UNCHANGED vars => toClient' = toClient
  BY DEF Starts, Adjusts, vars, channels
<1> QED
  BY <1>0, <1>1, <1>2, <1>3, <1>4, <1>5, <1>6, <1>7, <1>8, <1>9, <1>10, Steps

\* What goes on during a game starts none and leaves the players, the mapping and the number alone,
\* but for players without a pad who leave.
LEMMA GoesOn ==
  ASSUME TypeOK, TypeOK', KindsOK, Members, HostKnows, Answered, [Next]_vars, s_running', ~Starts
  PROVE  /\ s_running /\ s_game' = s_game /\ s_pad_map' = s_pad_map /\ s_players' \subseteq s_players
<1>1. ASSUME NEW map \in PadMaps, Assigns(map) PROVE FALSE
  BY <1>1, Idle DEF Assigns, HostKnows
<1>2. ASSUME NEW p \in Players, Joins(p) PROVE FALSE
  BY <1>2 DEF Joins
<1>3. ASSUME NEW p \in Players,
             \/ Leaves(p) /\ p # Host
             \/ Leaves(p) /\ toServer[p] # <<>> /\ Head(toServer[p]).type = "PAD"
                /\ current_game[p] = s_game /\ s_pad_map[Head(toServer[p]).pad] # p
      PROVE  /\ s_running /\ s_game' = s_game /\ s_pad_map' = s_pad_map /\ s_players' \subseteq s_players
  <2>1. s_running /\ s_pad_map' = s_pad_map
    BY <1>3, LeavesRunning
  <2>2. s_game' = s_game /\ s_players' \subseteq s_players
    BY <1>3 DEF Leaves
  <2> QED
    BY <2>1, <2>2
<1>4. ASSUME NEW p \in Players, HearsStop(p) PROVE FALSE
  BY <1>4 DEF HearsStop
<1>5. ASSUME NEW d \in Players,
             GetsState(d) \/ GetsMap(d) \/ GetsSize(d) \/ GetsStart(d) \/ GetsStop(d) \/ GetsDisable(d)
      PROVE  UNCHANGED <<s_running, s_game, s_pad_map, s_players>>
  BY <1>5, Gets
<1>6. ASSUME NEW d \in Players,
             \/ Ignores(d) \/ Relays(d) \/ HearsStart(d) \/ Loses(d) \/ Disables(d, "net") \/ Disables(d, "gui")
             \/ StartsMachine(d) \/ StartsAgain(d) \/ StopsMachine(d) \/ Quits(d)
             \/ (\E s \in Pads : Polls(d, s)) \/ Takes(d) \/ TakesNothing(d) \/ TurnsOff(d)
      PROVE  UNCHANGED <<s_running, s_game, s_pad_map, s_players>>
  BY <1>6 DEF Ignores, Relays, HearsStart, Loses, Disables, StartsMachine, StartsAgain, StopsMachine, Quits, Polls,
              Takes, TakesNothing, TurnsOff
<1>7. Sends \/ (\E n \in Targets : Adjusts(n)) \/ UNCHANGED vars => UNCHANGED <<s_running, s_game, s_pad_map, s_players>>
  BY DEF Sends, Adjusts, vars, server
<1> QED
  BY <1>1, <1>2, <1>3, <1>4, <1>5, <1>6, <1>7, Steps

\* A queue of states of p's pads and of answers, to a server that has heard cur: the states of game g
\* are separated from those of other games by the answer.
Ordered(q, cur, g, map, p) ==
  \A j \in DOMAIN q :
    /\ q[j].type = "PAD" /\ q[j].state[1] = g =>
         map[q[j].pad] = p /\ (cur = g \/ \E i \in DOMAIN q : i < j /\ StartOf(q[i], g))
    /\ (q[j].type = "PAD" /\ q[j].state[1] # g) \/ (q[j].type = "START" /\ q[j].game # g) =>
         cur # g /\ \A i \in DOMAIN q : i < j => ~StartOf(q[i], g)

LEMMA AnswersOrdered ==
  \A p : Answers(p) <=> Ordered(toServer[p], current_game[p], s_game, s_pad_map, p)
BY DEF Answers, Ordered

LEMMA OrderedGrown ==
  ASSUME NEW q \in Seq(Messages), NEW r \in Seq(Messages), NEW cur, NEW g, NEW map, NEW p,
         Ordered(q, cur, g, map, p),
         \A m \in In(r) :
           /\ m.type = "PAD" /\ m.state[1] = g => map[m.pad] = p /\ (cur = g \/ \E x \in In(q) : StartOf(x, g))
           /\ (m.type = "PAD" /\ m.state[1] # g) \/ (m.type = "START" /\ m.game # g) =>
                cur # g /\ \A x \in In(q) \cup In(r) : ~StartOf(x, g)
  PROVE  Ordered(q \o r, cur, g, map, p)
<1> DEFINE a == q \o r
           n == Len(q)
           l == Len(r)
<1>1. /\ n \in Nat /\ l \in Nat /\ DOMAIN q = 1 .. n /\ DOMAIN r = 1 .. l /\ DOMAIN a = 1 .. n + l
      /\ \A j \in 1 .. n : a[j] = q[j]
      /\ \A j \in 1 .. l : a[n + j] = r[j]
  BY Joined, SeqTypes
<1> HIDE DEF a, n, l
<1>2. \A j \in 1 .. n + l : j \in 1 .. n \/ (j - n \in 1 .. l /\ n + (j - n) = j /\ \A i \in 1 .. n : i < j)
  BY <1>1
<1>3. \A j \in 1 .. n : j \in 1 .. n + l
  BY <1>1
<1>4. \A j \in 1 .. n + l : \A k \in 1 .. n : j < k => j \in 1 .. n
  BY <1>1
<1>5. ASSUME NEW j \in DOMAIN a, a[j].type = "PAD" /\ a[j].state[1] = g
      PROVE  map[a[j].pad] = p /\ (cur = g \/ \E i \in DOMAIN a : i < j /\ StartOf(a[i], g))
  <2>1. CASE j \in 1 .. n
    <3>1. map[q[j].pad] = p /\ (cur = g \/ \E i \in DOMAIN q : i < j /\ StartOf(q[i], g))
      BY <1>1, <1>5, <2>1 DEF Ordered
    <3> QED
      BY <1>1, <1>3, <2>1, <3>1
  <2>2. CASE j \notin 1 .. n
    <3>1. j - n \in 1 .. l /\ n + (j - n) = j /\ \A i \in 1 .. n : i < j
      BY <1>1, <1>2, <2>2
    <3>2. a[j] = r[j - n] /\ r[j - n] \in In(r)
      BY <1>1, <3>1 DEF In
    <3>3. map[a[j].pad] = p /\ (cur = g \/ \E x \in In(q) : StartOf(x, g))
      BY <1>5, <3>2
    <3>4. ASSUME NEW x \in In(q), StartOf(x, g) PROVE \E i \in DOMAIN a : i < j /\ StartOf(a[i], g)
      <4>1. PICK i \in 1 .. n : x = q[i]
        BY <1>1 DEF In
      <4> QED
        BY <1>1, <1>3, <3>1, <3>4, <4>1
    <3> QED
      BY <3>3, <3>4
  <2> QED
    BY <2>1, <2>2
<1>6. ASSUME NEW j \in DOMAIN a, (a[j].type = "PAD" /\ a[j].state[1] # g) \/ (a[j].type = "START" /\ a[j].game # g)
      PROVE  cur # g /\ \A i \in DOMAIN a : i < j => ~StartOf(a[i], g)
  <2>1. CASE j \in 1 .. n
    <3>1. cur # g /\ \A i \in DOMAIN q : i < j => ~StartOf(q[i], g)
      BY <1>1, <1>6, <2>1 DEF Ordered
    <3> QED
      BY <1>1, <1>4, <2>1, <3>1
  <2>2. CASE j \notin 1 .. n
    <3>1. j - n \in 1 .. l /\ n + (j - n) = j
      BY <1>1, <1>2, <2>2
    <3>2. a[j] = r[j - n] /\ r[j - n] \in In(r)
      BY <1>1, <3>1 DEF In
    <3>3. cur # g /\ \A x \in In(q) \cup In(r) : ~StartOf(x, g)
      BY <1>6, <3>2
    <3>4. ASSUME NEW i \in DOMAIN a PROVE a[i] \in In(q) \cup In(r)
      <4>1. CASE i \in 1 .. n
        BY <1>1, <4>1 DEF In
      <4>2. CASE i \notin 1 .. n
        <5>1. i - n \in 1 .. l /\ n + (i - n) = i
          BY <1>1, <1>2, <4>2
        <5>2. a[i] = r[i - n]
          BY <1>1, <5>1
        <5> QED
          BY <1>1, <5>1, <5>2 DEF In
      <4> QED
        BY <4>1, <4>2
    <3> QED
      BY <3>3, <3>4
  <2> QED
    BY <2>1, <2>2
<1> QED
  BY <1>5, <1>6 DEF Ordered, a

LEMMA OrderedShrunk ==
  ASSUME NEW q \in Seq(Messages), q # <<>>, NEW cur, NEW g, NEW map, NEW p, Ordered(q, cur, g, map, p)
  PROVE  Ordered(Tail(q), IF Head(q).type = "START" THEN Head(q).game ELSE cur, g, map, p)
<1> DEFINE n == Len(q)
           t == Tail(q)
           cur1 == IF Head(q).type = "START" THEN Head(q).game ELSE cur
<1>1. /\ n \in Nat /\ n # 0 /\ DOMAIN q = 1 .. n /\ DOMAIN t = 1 .. n - 1
      /\ Head(q) = q[1] /\ \A i \in 1 .. n - 1 : t[i] = q[i + 1]
  BY Tailed
<1> HIDE DEF n, t
<1>2. /\ 1 \in DOMAIN q
      /\ \A i \in DOMAIN t : i + 1 \in DOMAIN q /\ t[i] = q[i + 1] /\ 1 < i + 1
      /\ \A i, j \in DOMAIN t : i < j <=> i + 1 < j + 1
      /\ \A i \in DOMAIN q : i = 1 \/ \E k \in DOMAIN t : i = k + 1
  <2>1. \A i \in 1 .. n : i = 1 \/ (i - 1 \in 1 .. n - 1 /\ i = (i - 1) + 1)
    BY <1>1
  <2>2. /\ 1 \in 1 .. n
        /\ \A i \in 1 .. n - 1 : i + 1 \in 1 .. n /\ 1 < i + 1
        /\ \A i, j \in 1 .. n - 1 : i < j <=> i + 1 < j + 1
    BY <1>1
  <2> QED
    BY <1>1, <2>1, <2>2
<1>3. q[1] = Head(q) /\ (StartOf(Head(q), g) => cur1 = g) /\ (cur1 = g => cur = g \/ StartOf(Head(q), g))
  BY <1>1 DEF StartOf
<1>4. cur = g => cur1 = g
  BY <1>2, <1>3 DEF Ordered
<1> HIDE DEF cur1
<1>5. ASSUME NEW j \in DOMAIN t, t[j].type = "PAD" /\ t[j].state[1] = g
      PROVE  map[t[j].pad] = p /\ (cur1 = g \/ \E i \in DOMAIN t : i < j /\ StartOf(t[i], g))
  <2>1. map[t[j].pad] = p /\ (cur = g \/ \E i \in DOMAIN q : i < j + 1 /\ StartOf(q[i], g))
    BY <1>2, <1>5 DEF Ordered
  <2>2. ASSUME NEW i \in DOMAIN q, i < j + 1, StartOf(q[i], g)
        PROVE  cur1 = g \/ \E k \in DOMAIN t : k < j /\ StartOf(t[k], g)
    <3>1. CASE i = 1
      BY <1>3, <2>2, <3>1
    <3>2. ASSUME NEW k \in DOMAIN t, i = k + 1 PROVE k < j /\ StartOf(t[k], g)
      BY <1>2, <2>2, <3>2
    <3> QED
      BY <1>2, <3>1, <3>2
  <2> QED
    BY <1>4, <2>1, <2>2
<1>6. ASSUME NEW j \in DOMAIN t, (t[j].type = "PAD" /\ t[j].state[1] # g) \/ (t[j].type = "START" /\ t[j].game # g)
      PROVE  cur1 # g /\ \A i \in DOMAIN t : i < j => ~StartOf(t[i], g)
  <2>1. cur # g /\ \A i \in DOMAIN q : i < j + 1 => ~StartOf(q[i], g)
    BY <1>2, <1>6 DEF Ordered
  <2>2. ~StartOf(Head(q), g)
    BY <1>2, <1>3, <2>1
  <2>3. \A i \in DOMAIN t : i < j => ~StartOf(t[i], g)
    BY <1>2, <2>1
  <2> QED
    BY <1>3, <2>1, <2>2, <2>3
<1> QED
  BY <1>5, <1>6 DEF Ordered, t, cur1

\* What a step during a game does to the machine of a client.
LEMMA MachineOf ==
  ASSUME TypeOK, TypeOK', [Next]_vars, s_running', NEW c \in Players
  PROVE  \/ /\ m_pad_buffer'[c] = m_pad_buffer[c] /\ pushed'[c] = pushed[c] /\ polled'[c] = polled[c]
            /\ slot'[c] = slot[c] /\ session'[c] = session[c] /\ cpu'[c] \in {cpu[c], "off"}
         \/ GetsState(c) \/ StartsMachine(c) \/ (\E s \in Pads : Polls(c, s)) \/ Takes(c) \/ TakesNothing(c)
<1> DEFINE Same == /\ m_pad_buffer'[c] = m_pad_buffer[c] /\ pushed'[c] = pushed[c] /\ polled'[c] = polled[c]
                   /\ slot'[c] = slot[c] /\ session'[c] = session[c] /\ cpu'[c] \in {cpu[c], "off"}
<1>0. /\ m_pad_buffer \in [Players -> [Pads -> Seq(PadStates)]] /\ pushed \in [Players -> [Pads -> Nat]]
      /\ polled \in [Players -> Nat] /\ slot \in [Players -> Pads] /\ session \in [Players -> 0 .. MaxGames]
      /\ cpu \in [Players -> {"off", "guest", "take"}]
  BY DEF TypeOK
<1>1. ASSUME UNCHANGED <<m_pad_buffer, pushed, polled, slot, session, cpu>> PROVE Same
  BY <1>1
<1>2. Starts \/ Sends \/ (\E map \in PadMaps : Assigns(map)) \/ (\E n \in Targets : Adjusts(n)) \/ UNCHANGED vars
      => UNCHANGED <<m_pad_buffer, pushed, polled, slot, session, cpu>>
  BY DEF Starts, Sends, Assigns, Adjusts, vars, machine
<1>3. ASSUME NEW p \in Players, Joins(p) PROVE FALSE
  BY <1>3 DEF Joins
<1>4. ASSUME NEW p \in Players, Leaves(p) \/ Ignores(p) \/ Relays(p) \/ HearsStart(p) \/ HearsStop(p)
      PROVE  UNCHANGED <<m_pad_buffer, pushed, polled, slot, session, cpu>>
  BY <1>4 DEF Leaves, Ignores, Relays, HearsStart, HearsStop
<1>5. ASSUME NEW d \in Players,
             \/ GetsMap(d) \/ GetsSize(d) \/ GetsStart(d) \/ GetsStop(d) \/ GetsDisable(d)
             \/ Loses(d) \/ Disables(d, "net") \/ Disables(d, "gui") \/ StartsAgain(d) \/ StopsMachine(d) \/ Quits(d)
      PROVE  UNCHANGED <<m_pad_buffer, pushed, polled, slot, session, cpu>>
  BY <1>5 DEF GetsMap, GetsSize, GetsStart, GetsStop, GetsDisable, Loses, Disables, StartsAgain, StopsMachine, Quits
<1>6. ASSUME NEW d \in Players, GetsState(d), d # c PROVE Same
  <2>1. /\ m_pad_buffer' = [m_pad_buffer EXCEPT ![d][Head(toClient[d]).pad] = Append(@, Head(toClient[d]).state)]
        /\ UNCHANGED <<pushed, polled, slot, session, cpu>>
    BY <1>6 DEF GetsState
  <2> QED
    BY <1>0, <1>6, <2>1
<1>7. ASSUME NEW d \in Players, StartsMachine(d), d # c PROVE Same
  <2>1. /\ m_pad_buffer' = [m_pad_buffer EXCEPT ![d] = Empty] /\ pushed' = [pushed EXCEPT ![d] = Zero]
        /\ polled' = [polled EXCEPT ![d] = 0] /\ slot' = [slot EXCEPT ![d] = 0]
        /\ session' = [session EXCEPT ![d] = m_current_game[d]] /\ cpu' = [cpu EXCEPT ![d] = "guest"]
    BY <1>7 DEF StartsMachine
  <2> QED
    BY <1>0, <1>7, <2>1
<1>8. ASSUME NEW d \in Players, NEW s \in Pads, Polls(d, s), d # c PROVE Same
  <2>1. /\ m_pad_buffer' = [m_pad_buffer EXCEPT ![d] = [i \in Pads |-> @[i] \o Added(d, i, Missing(d, s, i))]]
        /\ pushed' = [pushed EXCEPT ![d] = [i \in Pads |-> @[i] + Missing(d, s, i)]]
        /\ slot' = [slot EXCEPT ![d] = s] /\ cpu' = [cpu EXCEPT ![d] = "take"] /\ UNCHANGED <<polled, session>>
    BY <1>8 DEF Polls
  <2> QED
    BY <1>0, <1>8, <2>1
<1>9. ASSUME NEW d \in Players, Takes(d) \/ TakesNothing(d), d # c PROVE Same
  <2>1. /\ \/ m_pad_buffer' = m_pad_buffer
           \/ m_pad_buffer' = [m_pad_buffer EXCEPT ![d][slot[d]] = Tail(@)]
        /\ cpu' = [cpu EXCEPT ![d] = "guest"]
        /\ \/ slot' = [slot EXCEPT ![d] = 0] /\ polled' = [polled EXCEPT ![d] = @ + 1]
           \/ slot' = [slot EXCEPT ![d] = @ + 1] /\ polled' = polled
        /\ UNCHANGED <<pushed, session>>
    BY <1>9 DEF Takes, TakesNothing
  <2> QED
    BY <1>0, <1>9, <2>1
<1>10. ASSUME NEW d \in Players, TurnsOff(d) PROVE Same
  <2>1. cpu' = [cpu EXCEPT ![d] = "off"] /\ UNCHANGED <<m_pad_buffer, pushed, polled, slot, session>>
    BY <1>10 DEF TurnsOff
  <2> QED
    BY <1>0, <2>1
<1> QED
  BY <1>1, <1>2, <1>3, <1>4, <1>5, <1>6, <1>7, <1>8, <1>9, <1>10, Steps

\* Who has answered plays the game.
LEMMA SentNext ==
  ASSUME TypeOK, TypeOK', KindsOK, Members, Announced, Alternate, HostKnows, Joining, Answered, [Next]_vars,
         s_running', ~Starts, NEW p \in s_players', HasSent(p)'
  PROVE  session'[p] = s_game'
<1> DEFINE q == toServer[p]
           g == s_game
<1>1. /\ s_running /\ s_game' = g /\ p \in s_players /\ p \in Players /\ q \in Seq(Messages)
      /\ gui[p] \in Seq({"start", "stop"}) /\ session \in [Players -> 0 .. MaxGames]
  BY GoesOn DEF TypeOK
<1>2. ~StartsAgain(p)
  <2> SUFFICES ASSUME StartsAgain(p) PROVE FALSE
    OBVIOUS
  <2>1. gui[p] # <<>> /\ Head(gui[p]) = "start" /\ m_is_running[p]
    BY DEF StartsAgain
  <2>2. ~Before(gui[p], "stop", "start")
    BY <1>1, <2>1, GuiShrunk
  <2> QED
    BY <1>1, <2>1, <2>2 DEF Alternate
<1>3. HasSent(p) \/ (StartsMachine(p) /\ m_current_game[p] = g)
  <2>1. HasSent(p)' <=> current_game'[p] = g \/ \E m \in In(toServer'[p]) : StartOf(m, g)
    BY <1>1 DEF HasSent
  <2>2. HasSent(p) <=> current_game[p] = g \/ \E m \in In(q) : StartOf(m, g)
    BY DEF HasSent
  <2> HIDE DEF q, g
  <2>3. CASE toServer'[p] = q /\ current_game'[p] = current_game[p]
    BY <2>1, <2>2, <2>3
  <2>4. ASSUME q # <<>>, toServer'[p] = Tail(q),
               \/ current_game'[p] = current_game[p]
               \/ Head(q).type = "START" /\ current_game'[p] = Head(q).game
        PROVE  HasSent(p)
    <3>1. In(q) = In(Tail(q)) \cup {Head(q)}
      BY <1>1, <2>4, Contents
    <3> QED
      BY <2>1, <2>2, <2>4, <3>1 DEF StartOf
  <2>5. ASSUME NEW m \in Messages, toServer'[p] = Append(q, m), current_game'[p] = current_game[p]
        PROVE  HasSent(p) \/ StartOf(m, g)
    <3>1. In(Append(q, m)) = In(q) \cup {m}
      BY <1>1, Contents
    <3> QED
      BY <2>1, <2>2, <2>5, <3>1
  <2>6. CASE Quits(p) /\ toServer'[p] = Append(q, Stop) /\ current_game'[p] = current_game[p]
    <3>1. Stop \in Messages /\ ~StartOf(Stop, g)
      BY NewMessages DEF StartOf
    <3> QED
      BY <2>5, <2>6, <3>1
  <2>7. CASE /\ StartsMachine(p) /\ toServer'[p] = Append(q, Start(m_current_game[p]))
             /\ Start(m_current_game[p]) \in Messages /\ current_game'[p] = current_game[p]
    <3>1. StartOf(Start(m_current_game[p]), g) => m_current_game[p] = g
      BY DEF StartOf, Start
    <3> QED
      BY <2>5, <2>7, <3>1
  <2>8. ASSUME NEW s \in Pads, NEW i \in LocalPadToInGamePad(p, s), Polls(p, s),
               toServer'[p] = q \o AddedMsgs(p, i, Missing(p, s, i)), current_game'[p] = current_game[p]
        PROVE  HasSent(p)
    <3> DEFINE r == AddedMsgs(p, i, Missing(p, s, i))
    <3>1. i \in Pads /\ cpu[p] = "guest"
      BY <2>8 DEF LocalPadToInGamePad, Polls
    <3>2. r \in Seq(Messages)
      BY <1>1, <3>1, AddedTypes
    <3>3. \A m \in In(r) : ~StartOf(m, g)
      BY DEF In, AddedMsgs, StartOf
    <3> HIDE DEF r
    <3>4. In(q \o r) = In(q) \cup In(r)
      BY <1>1, <3>2, Contents
    <3>5. toServer'[p] = q \o r
      BY <2>8 DEF r
    <3> QED
      BY <2>1, <2>2, <2>8, <3>3, <3>4, <3>5
  <2>9. \/ toServer'[p] = q /\ current_game'[p] = current_game[p]
        \/ /\ q # <<>> /\ toServer'[p] = Tail(q)
           /\ \/ current_game'[p] = current_game[p]
              \/ Head(q).type = "START" /\ current_game'[p] = Head(q).game
        \/ Quits(p) /\ toServer'[p] = Append(q, Stop) /\ current_game'[p] = current_game[p]
        \/ /\ StartsMachine(p) /\ toServer'[p] = Append(q, Start(m_current_game[p]))
           /\ Start(m_current_game[p]) \in Messages /\ current_game'[p] = current_game[p]
        \/ \E s \in Pads : \E i \in LocalPadToInGamePad(p, s) :
             /\ Polls(p, s) /\ toServer'[p] = q \o AddedMsgs(p, i, Missing(p, s, i))
             /\ current_game'[p] = current_game[p]
    BY <1>1, <1>2, ServerChannel DEF q
  <2> QED
    BY <2>3, <2>4, <2>6, <2>7, <2>8, <2>9
<1>4. HasSent(p) => session[p] = g
  BY <1>1 DEF Answered
<1>5. CASE StartsMachine(p)
  <2>1. session'[p] = m_current_game[p]
    BY <1>1, <1>5 DEF StartsMachine
  <2>2. session[p] = g => m_current_game[p] = g
    BY <1>1, PlaysInGame DEF InGame
  <2> QED
    BY <1>1, <1>3, <1>4, <2>1, <2>2
<1>6. CASE ~StartsMachine(p)
  <2>1. session'[p] = session[p]
    <3>1. (\E s \in Pads : Polls(p, s)) \/ GetsState(p) \/ Takes(p) \/ TakesNothing(p) => session' = session
      BY DEF Polls, GetsState, Takes, TakesNothing
    <3> QED
      BY <1>1, <1>6, <3>1, MachineOf
  <2> QED
    BY <1>1, <1>3, <1>4, <1>6, <2>1
<1> QED
  BY <1>5, <1>6

\* The server can tell by the answers what belongs to its game.
LEMMA AnsweredNext ==
  ASSUME TypeOK, TypeOK', KindsOK, Members, Numbers, Announced, Alternate, HostKnows, Joining, Answered, [Next]_vars
  PROVE  Answered'
<1>1. CASE Starts
  <2> SUFFICES ASSUME NEW p \in s_players PROVE Answers(p)' /\ ~HasSent(p)'
    BY <1>1 DEF Starts, Answered
  <2>1. s_game' = s_game + 1 /\ UNCHANGED <<toServer, current_game>> /\ s_game \in Nat /\ p \in Players
    BY <1>1 DEF Starts, TypeOK
  <2>2. current_game[p] # s_game + 1
    <3>1. current_game[p] \in Nat /\ current_game[p] <= s_game
      BY <2>1 DEF Numbers, TypeOK
    <3> QED
      BY <2>1, <3>1
  <2>3. ASSUME NEW j \in DOMAIN toServer[p]
        PROVE  ~(toServer[p][j].type = "PAD" /\ toServer[p][j].state[1] = s_game + 1) /\ ~StartOf(toServer[p][j], s_game + 1)
    <3>1. toServer[p][j] \in Messages /\ NoLater(toServer[p][j], s_game)
      <4>1. toServer[p] \in Seq(Messages)
        BY <2>1 DEF TypeOK
      <4> QED
        BY <2>1, <4>1, SeqTypes DEF Numbers, UpTo, In
    <3> DEFINE m == toServer[p][j]
    <3>2. m \in Messages /\ NoLater(m, s_game)
      BY <3>1
    <3> HIDE DEF m
    <3>3. (m.type = "PAD" => m.state[1] \in Nat) /\ (m.type = "START" => m.game \in Nat)
      BY <3>2, MessageTypes
    <3>4. ~(m.type = "PAD" /\ m.state[1] = s_game + 1) /\ ~(m.type = "START" /\ m.game = s_game + 1)
      BY <2>1, <3>2, <3>3 DEF NoLater
    <3> QED
      BY <3>4 DEF m, StartOf
  <2>4. Answers(p)'
    BY <2>1, <2>2, <2>3 DEF Answers
  <2>5. ~HasSent(p)'
    BY <2>1, <2>2, <2>3 DEF HasSent, In
  <2> QED
    BY <2>4, <2>5
<1>2. CASE ~Starts
  <2> SUFFICES ASSUME s_running', NEW p \in s_players' PROVE Ordered(toServer[p], current_game[p], s_game, s_pad_map, p)'
    <3>1. s_running' => \A p \in s_players' : Answers(p)'
      BY DEF Answers, Ordered
    <3>2. \A p \in s_players' : s_running' /\ HasSent(p)' => session'[p] = s_game'
      BY <1>2, SentNext
    <3> QED
      BY <3>1, <3>2 DEF Answered
  <2> DEFINE q == toServer[p]
             g == s_game
             map == s_pad_map
             cur == current_game[p]
  <2>1. s_running /\ s_game' = g /\ s_pad_map' = map /\ p \in s_players
    BY <1>2, GoesOn
  <2>2. q \in Seq(Messages) /\ p \in Players /\ Ordered(q, cur, g, map, p)
    BY <2>1, AnswersOrdered DEF Answered, TypeOK
  <2> HIDE DEF g, map, cur
  <2>3. ASSUME NEW r \in Seq(Messages), toServer'[p] = q \o r, current_game'[p] = cur,
               \A m \in In(r) :
                 /\ m.type = "PAD" /\ m.state[1] = g => map[m.pad] = p /\ (cur = g \/ \E x \in In(q) : StartOf(x, g))
                 /\ (m.type = "PAD" /\ m.state[1] # g) \/ (m.type = "START" /\ m.game # g) =>
                      cur # g /\ \A x \in In(q) \cup In(r) : ~StartOf(x, g)
        PROVE  Ordered(toServer[p], current_game[p], s_game, s_pad_map, p)'
    <3>1. Ordered(q \o r, cur, g, map, p)
      BY <2>2, <2>3, OrderedGrown
    <3> QED
      BY <2>1, <2>3, <3>1
  <2>4. ASSUME q # <<>>, toServer'[p] = Tail(q), current_game'[p] = IF Head(q).type = "START" THEN Head(q).game ELSE cur
        PROVE  Ordered(toServer[p], current_game[p], s_game, s_pad_map, p)'
    <3>1. Ordered(Tail(q), IF Head(q).type = "START" THEN Head(q).game ELSE cur, g, map, p)
      BY <2>2, <2>4, OrderedShrunk
    <3> QED
      BY <2>1, <2>4, <3>1
  <2>5. CASE toServer'[p] = q /\ current_game'[p] = cur
    BY <2>1, <2>2, <2>5
  <2>6. ASSUME NEW m \in Messages, toServer'[p] = Append(q, m), current_game'[p] = cur,
               m.type # "PAD",
               m.type = "START" /\ m.game # g => cur # g /\ \A x \in In(q) : ~StartOf(x, g)
        PROVE  Ordered(toServer[p], current_game[p], s_game, s_pad_map, p)'
    <3>1. <<m>> \in Seq(Messages) /\ q \o <<m>> = Append(q, m) /\ In(<<m>>) = {m}
      <4>1. q \o <<m>> = Append(q, m)
        BY <2>2, Appended
      <4>2. <<m>> \in Seq(Messages) /\ In(<<m>>) = {m}
        BY DEF In
      <4> QED
        BY <4>1, <4>2
    <3> QED
      BY <2>3, <2>6, <3>1 DEF StartOf
  <2>7. CASE Quits(p) /\ toServer'[p] = Append(q, Stop) /\ current_game'[p] = cur
    <3>1. Stop \in Messages /\ Stop.type = "STOP"
      BY NewMessages
    <3> QED
      BY <2>6, <2>7, <3>1
  <2>8. CASE /\ StartsMachine(p) \/ StartsAgain(p)
             /\ toServer'[p] = Append(q, Start(m_current_game[p])) /\ Start(m_current_game[p]) \in Messages
             /\ current_game'[p] = cur
    <3> DEFINE m == Start(m_current_game[p])
    <3>1. m.type = "START" /\ m.game = m_current_game[p]
      BY DEF Start
    <3>2. ASSUME m_current_game[p] # g PROVE cur # g /\ \A x \in In(q) : ~StartOf(x, g)
      <4>1. ~InGame(p)
        BY <3>2 DEF InGame, g
      <4>2. HasStart(s_async_queue) \/ Told(p)
        BY <2>1, <4>1 DEF Joining
      <4>3. Told(p) => HasStart(toClient[p])
        BY <2>2, ToldIs DEF Told, TypeOK
      <4>4. Behind(p, s_game)
        BY <2>1, <4>2, <4>3 DEF Announced
      <4>5. current_game[p] \in Nat /\ s_game \in Nat
        BY <2>2 DEF TypeOK
      <4> QED
        BY <4>4, <4>5 DEF Behind, g, cur
    <3> HIDE DEF m
    <3>3. m \in Messages /\ toServer'[p] = Append(q, m) /\ current_game'[p] = cur
      BY <2>8 DEF m
    <3> QED
      BY <2>6, <3>1, <3>2, <3>3
  <2>9. ASSUME NEW s \in Pads, NEW i \in LocalPadToInGamePad(p, s), Polls(p, s),
               toServer'[p] = q \o AddedMsgs(p, i, Missing(p, s, i)), current_game'[p] = cur
        PROVE  Ordered(toServer[p], current_game[p], s_game, s_pad_map, p)'
    <3>1. cpu[p] = "guest" /\ i \in Pads
      BY <2>9 DEF Polls, LocalPadToInGamePad
    <3> DEFINE r == AddedMsgs(p, i, Missing(p, s, i))
    <3>2. r \in Seq(Messages)
      BY <2>2, <3>1, AddedTypes
    <3>3. \A m \in In(r) : m.type = "PAD" /\ m.state[1] = session[p] /\ m.pad = i
      BY DEF In, AddedMsgs
    <3> HIDE DEF r
    <3>7. \A m \in In(r) :
                 /\ m.type = "PAD" /\ m.state[1] = g => map[m.pad] = p /\ (cur = g \/ \E x \in In(q) : StartOf(x, g))
                 /\ (m.type = "PAD" /\ m.state[1] # g) \/ (m.type = "START" /\ m.game # g) =>
                      cur # g /\ \A x \in In(q) \cup In(r) : ~StartOf(x, g)
      <4>1. CASE session[p] = g
        <5>1. InGame(p)
          BY <2>1, <4>1, PlaysInGame DEF g
        <5>2. map[i] = p
          BY <2>9, <5>1 DEF LocalPadToInGamePad, InGame, map
        <5>3. cur = g \/ \E x \in In(q) : StartOf(x, g)
          BY <4>1, <5>1 DEF InGame, HasSent, g, cur
        <5> QED
          BY <3>3, <4>1, <5>2, <5>3
      <4>2. CASE session[p] # g
        <5>1. ~HasSent(p)
          BY <2>1, <4>2 DEF Answered, g
        <5>2. cur # g /\ \A x \in In(q) : ~StartOf(x, g)
          BY <5>1 DEF HasSent, g, cur
        <5>3. \A x \in In(r) : ~StartOf(x, g)
          BY <3>3 DEF StartOf
        <5> QED
          BY <3>3, <4>2, <5>2, <5>3
      <4> QED
        BY <4>1, <4>2
    <3>8. toServer'[p] = q \o r
      BY <2>9 DEF r
    <3> QED
      BY <2>3, <2>9, <3>2, <3>7, <3>8
  <2>10. /\ \/ toServer'[p] = q /\ current_game'[p] = cur
            \/ /\ q # <<>> /\ toServer'[p] = Tail(q)
               /\ current_game'[p] = IF Head(q).type = "START" THEN Head(q).game ELSE cur
            \/ Quits(p) /\ toServer'[p] = Append(q, Stop) /\ current_game'[p] = cur
            \/ /\ StartsMachine(p) \/ StartsAgain(p)
               /\ toServer'[p] = Append(q, Start(m_current_game[p])) /\ Start(m_current_game[p]) \in Messages
               /\ current_game'[p] = cur
            \/ \E s \in Pads : \E i \in LocalPadToInGamePad(p, s) :
                 /\ Polls(p, s) /\ toServer'[p] = q \o AddedMsgs(p, i, Missing(p, s, i))
                 /\ current_game'[p] = cur
    BY <2>1, ServerChannel DEF cur
  <2> QED
    BY <2>4, <2>5, <2>7, <2>8, <2>9, <2>10
<1> QED
  BY <1>1, <1>2
-----------------------------------------------------------------------------
(* The GUI starts a game once                                              *)

LEMMA OnceSigns ==
  ASSUME NEW S, NEW q \in Seq(S), NEW m \in S, NEW a
  PROVE  /\ Once(q, a) /\ (m = a => Lacks(q, a)) => Once(Append(q, m), a)
         /\ Lacks(q, a) /\ m # a => Lacks(Append(q, m), a)
         /\ q # <<>> /\ Once(q, a) => Once(Tail(q), a)
         /\ q # <<>> /\ Lacks(q, a) => Lacks(Tail(q), a)
         /\ q # <<>> /\ Once(q, a) /\ Head(q) = a => Lacks(Tail(q), a)
         /\ Lacks(q, a) => Once(q, a)
<1>1. /\ Len(q) \in Nat /\ DOMAIN q = 1 .. Len(q) /\ DOMAIN Append(q, m) = 1 .. Len(q) + 1
      /\ \A i \in 1 .. Len(q) : Append(q, m)[i] = q[i]
      /\ Append(q, m)[Len(q) + 1] = m
      /\ 1 .. Len(q) + 1 = (1 .. Len(q)) \cup {Len(q) + 1}
  BY SeqTypes
<1>2. Once(q, a) /\ (m = a => Lacks(q, a)) => Once(Append(q, m), a)
  BY <1>1 DEF Once, Lacks
<1>3. Lacks(q, a) /\ m # a => Lacks(Append(q, m), a)
  BY <1>1 DEF Lacks
<1>4. ASSUME q # <<>>
      PROVE  /\ Head(q) = q[1] /\ 1 \in DOMAIN q
             /\ \A i \in DOMAIN Tail(q) : i + 1 \in DOMAIN q /\ Tail(q)[i] = q[i + 1] /\ i + 1 # 1
             /\ \A i, k \in DOMAIN Tail(q) : i + 1 = k + 1 => i = k
  <2>1. /\ Len(q) \in Nat /\ Len(q) # 0 /\ DOMAIN Tail(q) = 1 .. Len(q) - 1
        /\ Head(q) = q[1] /\ \A i \in 1 .. Len(q) - 1 : Tail(q)[i] = q[i + 1]
    BY <1>4, Tailed
  <2>2. \A n \in Nat : n # 0 => /\ 1 \in 1 .. n
                                /\ \A i \in 1 .. n - 1 : i + 1 \in 1 .. n /\ i + 1 # 1
                                /\ \A i, k \in 1 .. n - 1 : i + 1 = k + 1 => i = k
    OBVIOUS
  <2> QED
    BY <1>1, <2>1, <2>2
<1>5. q # <<>> /\ Once(q, a) => Once(Tail(q), a)
  BY <1>4 DEF Once
<1>6. q # <<>> /\ Lacks(q, a) => Lacks(Tail(q), a)
  BY <1>4 DEF Lacks
<1>7. q # <<>> /\ Once(q, a) /\ Head(q) = a => Lacks(Tail(q), a)
  BY <1>4 DEF Once, Lacks
<1>8. Lacks(q, a) => Once(q, a)
  BY DEF Once, Lacks
<1> QED
  BY <1>2, <1>3, <1>5, <1>6, <1>7, <1>8

\* What a step does to what a client's GUI has been asked for.
LEMMA GuiOf ==
  ASSUME TypeOK, [Next]_vars, NEW d \in Players
  PROVE  \/ /\ gui'[d] = gui[d] /\ session'[d] = session[d] /\ m_current_game'[d] = m_current_game[d]
         \/ GetsStart(d) \/ GetsStop(d) \/ StartsMachine(d) \/ StartsAgain(d) \/ StopsMachine(d)
<1> DEFINE Same == gui'[d] = gui[d] /\ session'[d] = session[d] /\ m_current_game'[d] = m_current_game[d]
<1>0. /\ gui \in [Players -> Seq({"start", "stop"})] /\ session \in [Players -> 0 .. MaxGames]
      /\ m_current_game \in [Players -> 0 .. MaxGames]
  BY DEF TypeOK
<1>1. ASSUME UNCHANGED <<gui, session, m_current_game>> PROVE Same
  BY <1>1
<1>2. ASSUME NEW p \in Players, Joins(p) \/ Leaves(p) \/ Ignores(p) \/ Relays(p) \/ HearsStart(p) \/ HearsStop(p)
      PROVE  UNCHANGED <<gui, session, m_current_game>>
  BY ZenonT(90), <1>2 DEF Joins, Leaves, Ignores, Relays, HearsStart, HearsStop
<1>3. ASSUME NEW e \in Players,
             \/ GetsState(e) \/ GetsMap(e) \/ GetsSize(e) \/ GetsDisable(e) \/ Loses(e)
             \/ Disables(e, "net") \/ Disables(e, "gui")
             \/ Quits(e) \/ (\E s \in Pads : Polls(e, s)) \/ Takes(e) \/ TakesNothing(e) \/ TurnsOff(e)
      PROVE  UNCHANGED <<gui, session, m_current_game>>
  BY <1>3 DEF GetsState, GetsMap, GetsSize, GetsDisable, Loses, Disables, Quits, Polls, Takes, TakesNothing, TurnsOff
<1>4. ASSUME NEW e \in Players, GetsStart(e) \/ GetsStop(e) \/ StartsAgain(e) \/ StopsMachine(e), e # d PROVE Same
  <2>1. /\ \E q : gui' = [gui EXCEPT ![e] = q]
        /\ session' = session
        /\ m_current_game' = m_current_game \/ \E g : m_current_game' = [m_current_game EXCEPT ![e] = g]
    <3>1. CASE GetsStart(e)
      BY <3>1 DEF GetsStart
    <3>2. CASE GetsStop(e)
      BY <3>2 DEF GetsStop
    <3>3. CASE StartsAgain(e)
      BY <3>3 DEF StartsAgain
    <3>4. CASE StopsMachine(e)
      BY <3>4 DEF StopsMachine
    <3> QED
      BY <1>4, <3>1, <3>2, <3>3, <3>4
  <2> QED
    BY <1>0, <1>4, <2>1
<1>5. ASSUME NEW e \in Players, StartsMachine(e), e # d PROVE Same
  <2>1. /\ gui' = [gui EXCEPT ![e] = Tail(@)] /\ session' = [session EXCEPT ![e] = m_current_game[e]]
        /\ m_current_game' = m_current_game
    BY <1>5 DEF StartsMachine
  <2> QED
    BY <1>0, <1>5, <2>1
<1>6. \/ Starts \/ (\E map \in PadMaps : Assigns(map)) \/ (\E n \in Targets : Adjusts(n)) \/ Sends \/ UNCHANGED vars
      => UNCHANGED <<gui, session, m_current_game>>
  BY DEF Starts, Assigns, Adjusts, Sends, vars, runState, settings, machine
<1> QED
  BY <1>1, <1>2, <1>3, <1>4, <1>5, <1>6, Steps

\* The game's number changes with its start only, and a machine that has been overtaken remains so.
LEMMA StaysInStep ==
  ASSUME TypeOK, [Next]_vars, NEW c, InStep(c)', s_game' = s_game
  PROVE  InStep(c)
BY Overtakes DEF InStep

LEMMA GameNumber ==
  ASSUME TypeOK, TypeOK', Members, [Next]_vars
  PROVE  /\ Starts \/ s_game' = s_game
         /\ \A c \in s_players' : c \in s_players \/ Joins(c)
<1>1. \A p \in Players :
        /\ Joins(p) => s_game' = s_game /\ s_players' = s_players \cup {p}
        /\ Leaves(p) => s_game' = s_game /\ s_players' = s_players \ {p}
        /\ Ignores(p) \/ Relays(p) \/ HearsStart(p) \/ HearsStop(p) => s_game' = s_game /\ s_players' = s_players
  BY ZenonT(90) DEF Joins, Leaves, Ignores, Relays, HearsStart, HearsStop
<1>2. ASSUME NEW d \in Players,
             \/ GetsState(d) \/ GetsMap(d) \/ GetsSize(d) \/ GetsStart(d) \/ GetsStop(d) \/ GetsDisable(d)
             \/ Loses(d) \/ Disables(d, "net") \/ Disables(d, "gui") \/ StartsMachine(d) \/ StartsAgain(d)
             \/ StopsMachine(d) \/ Quits(d) \/ (\E s \in Pads : Polls(d, s)) \/ Takes(d) \/ TakesNothing(d) \/ TurnsOff(d)
      PROVE  s_game' = s_game /\ s_players' = s_players
  BY <1>2 DEF GetsState, GetsMap, GetsSize, GetsStart, GetsStop, GetsDisable, Loses, Disables, StartsMachine,
              StartsAgain, StopsMachine, Quits, Polls, Takes, TakesNothing, TurnsOff
<1>3. /\ (\E map \in PadMaps : Assigns(map)) \/ (\E n \in Targets : Adjusts(n)) \/ Sends \/ UNCHANGED vars
         => s_game' = s_game /\ s_players' = s_players
      /\ Starts => s_players' = s_players
  BY DEF Assigns, Adjusts, Sends, Starts, vars, server
<1> QED
  BY <1>1, <1>2, <1>3, Steps

\* A GUI that has not been asked in vain is asked once, and starts the machine once.
LEMMA StartsOnceNext ==
  ASSUME TypeOK, TypeOK', Members, Numbers, Announced, StartsOnce, [Next]_vars
  PROVE  StartsOnce'
<1> SUFFICES ASSUME NEW c \in s_players', m_current_game'[c] = s_game', InStep(c)'
             PROVE  Once(gui'[c], "start") /\ (session'[c] = s_game' => Lacks(gui'[c], "start"))
  BY DEF StartsOnce
<1>0. /\ c \in Players /\ gui[c] \in Seq({"start", "stop"}) /\ m_current_game[c] \in Nat /\ session[c] \in Nat
      /\ s_game \in Nat /\ m_current_game[c] <= s_game /\ "start" # "stop"
      /\ gui \in [Players -> Seq({"start", "stop"})]
  BY DEF TypeOK, Numbers
<1>1. CASE Starts
  <2>1. s_game' = s_game + 1 /\ m_current_game' = m_current_game
    BY <1>1 DEF Starts
  <2> QED
    BY <1>0, <2>1
<1>2. CASE Joins(c)
  <2>1. gui'[c] = <<>>
    BY <1>2 DEF Joins
  <2> QED
    BY <2>1 DEF Once, Lacks
<1>3. CASE ~Starts /\ ~Joins(c)
  <2>1. s_game' = s_game /\ c \in s_players /\ InStep(c)
    BY <1>3, GameNumber, StaysInStep
  <2>2. m_current_game[c] = s_game =>
          Once(gui[c], "start") /\ (session[c] = s_game => Lacks(gui[c], "start"))
    BY <2>1 DEF StartsOnce
  <2>3. CASE gui'[c] = gui[c] /\ session'[c] = session[c] /\ m_current_game'[c] = m_current_game[c]
    BY <2>1, <2>2, <2>3
  <2>4. CASE GetsStart(c)
    <3>1. /\ toClient[c] # <<>> /\ Head(toClient[c]).type = "START" /\ toClient[c] \in Seq(Messages)
          /\ m_current_game'[c] = Head(toClient[c]).game /\ gui'[c] = Append(gui[c], "start") /\ session' = session
          /\ Has(gui[c], "start") => <<c, Head(toClient[c]).game>> \in overtaken'
      BY <1>0, <2>4 DEF GetsStart, TypeOK
    <3>2. ~Has(gui[c], "start")
      BY <3>1 DEF InStep
    <3>3. Lacks(gui[c], "start")
      BY <3>2 DEF Has, Lacks
    <3>4. HasStart(toClient[c])
      BY <3>1, TailedMarks
    <3>5. session[c] < s_game
      BY <2>1, <3>4 DEF Announced, Behind
    <3>6. Once(gui'[c], "start")
      BY <1>0, <3>1, <3>3, OnceSigns
    <3> QED
      BY <1>0, <2>1, <3>1, <3>5, <3>6
  <2>5. CASE GetsStop(c)
    <3>1. gui'[c] = Append(gui[c], "stop") /\ session'[c] = session[c] /\ m_current_game'[c] = m_current_game[c]
      BY <1>0, <2>5 DEF GetsStop
    <3> QED
      BY <1>0, <2>1, <2>2, <3>1, OnceSigns
  <2>6. CASE StartsMachine(c)
    <3>1. gui[c] # <<>> /\ Head(gui[c]) = "start" /\ gui'[c] = Tail(gui[c]) /\ m_current_game'[c] = m_current_game[c]
      BY <1>0, <2>6 DEF StartsMachine
    <3>2. Once(Tail(gui[c]), "start") /\ Lacks(Tail(gui[c]), "start")
      BY <1>0, <2>1, <2>2, <3>1, OnceSigns
    <3> QED
      BY <3>1, <3>2
  <2>7. CASE StartsAgain(c) \/ StopsMachine(c)
    <3>1. gui[c] # <<>> /\ gui'[c] = Tail(gui[c]) /\ m_current_game'[c] = m_current_game[c] /\ session'[c] = session[c]
      BY <1>0, <2>7 DEF StartsAgain, StopsMachine
    <3> QED
      BY <1>0, <2>1, <2>2, <3>1, OnceSigns
  <2> QED
    BY <1>0, <2>3, <2>4, <2>5, <2>6, <2>7, GuiOf
<1> QED
  BY <1>1, <1>2, <1>3
-----------------------------------------------------------------------------
(* The states that one client has given and another has not taken          *)

\* A message that is no state of the pad comes or goes.
LEMMA CarriesQuiet ==
  ASSUME NEW q \in Seq(Messages), NEW r, NEW i, NEW g, NEW x \in Nat, NEW y \in Nat, Carries(q, i, g, x, y),
         \/ r = q
         \/ q # <<>> /\ r = Tail(q) /\ ~StateAt(Head(q), i, g)
         \/ \E m \in Messages : r = Append(q, m) /\ ~StateAt(m, i, g)
  PROVE  Carries(r, i, g, x, y)
<1>1. CASE q # <<>> /\ r = Tail(q) /\ ~StateAt(Head(q), i, g)
  BY <1>1, CarriesTail
<1>2. ASSUME NEW m \in Messages, r = Append(q, m), ~StateAt(m, i, g) PROVE Carries(r, i, g, x, y)
  <2>1. q \o <<m>> = Append(q, m) /\ <<m>> \in Seq(Messages)
    BY Appended
  <2>2. \A j \in 1 .. Len(<<m>>) : ~StateAt(<<m>>[j], i, g)
    BY <1>2
  <2>3. Carries(q \o <<m>>, i, g, x, y)
    BY <2>1, <2>2, CarriesOther
  <2> QED
    BY <1>2, <2>1, <2>3
<1> QED
  BY <1>1, <1>2

\* The next state comes.
LEMMA CarriesNext ==
  ASSUME NEW q \in Seq(Messages), NEW m \in Messages, NEW i, NEW g, NEW x \in Nat, NEW y \in Nat, x <= y,
         Carries(q, i, g, x, y), StateAt(m, i, g), m.state[2] = y + 1
  PROVE  Carries(Append(q, m), i, g, x, y + 1)
<1>1. q \o <<m>> = Append(q, m) /\ <<m>> \in Seq(Messages) /\ Len(<<m>>) = 1
  BY Appended
<1>2. \A j \in 1 .. Len(<<m>>) : StateAt(<<m>>[j], i, g) /\ <<m>>[j].state[2] = y + j
  OBVIOUS
<1>3. Carries(q \o <<m>>, i, g, x, y + Len(<<m>>))
  BY <1>1, <1>2, CarriesJoined
<1> QED
  BY <1>1, <1>3

\* The states x + 1 to y are among those on the way to the client, those up to p among those on the way
\* to the server, and those before in his buffer, but for the first t, which he has taken.
Way(t, b, q, r, p, i, g) ==
  \E x, y \in Nat :
    /\ t <= x /\ x <= y /\ y <= p
    /\ b = Run(g, t, x) /\ Carries(q, i, g, x, y) /\ Carries(r, i, g, y, p)

LEMMA WaysAre ==
  ASSUME NEW c, NEW d
  PROVE  /\ c # d => \A i : OnItsWay(c, d, i) <=>
                       Way(Taken(c, i), Held(c, i), toClient[c], toServer[d], Given(d, i), i, s_game)
         /\ c = d => \A i : Given(d, i) \in Nat =>
                       (OnItsWay(c, d, i) <=> /\ Taken(c, i) <= Given(c, i)
                                              /\ Held(c, i) = Run(s_game, Taken(c, i), Given(c, i)))
<1>1. c # d => \A i : OnItsWay(c, d, i) <=>
                       Way(Taken(c, i), Held(c, i), toClient[c], toServer[d], Given(d, i), i, s_game)
  BY DEF OnItsWay, Way
<1>2. ASSUME c = d, NEW i, Given(d, i) \in Nat
      PROVE  OnItsWay(c, d, i) <=> /\ Taken(c, i) <= Given(c, i)
                                   /\ Held(c, i) = Run(s_game, Taken(c, i), Given(c, i))
  <2>1. Given(d, i) <= Given(d, i)
    BY <1>2
  <2> QED
    BY <1>2, <2>1 DEF OnItsWay
<1> QED
  BY <1>1, <1>2

LEMMA FlowTypes ==
  ASSUME TypeOK, NEW c \in Players, NEW i \in Pads
  PROVE  Taken(c, i) \in Nat /\ Given(c, i) \in Nat /\ Held(c, i) \in Seq(PadStates) /\ i \in Nat
<1>0. slot[c] \in Nat /\ i \in Nat
  BY DEF TypeOK, Pads
<1>1. polled[c] \in Nat /\ pushed[c][i] \in Nat /\ m_pad_buffer[c][i] \in Seq(PadStates)
  BY DEF TypeOK
<1>2. CASE session[c] = s_game
  BY <1>0, <1>1, <1>2 DEF Taken, Given, Held
<1>3. CASE session[c] # s_game
  <2>1. Taken(c, i) = 0 /\ Given(c, i) = 0 /\ Held(c, i) = <<>>
    BY <1>3 DEF Taken, Given, Held
  <2> QED
    BY <1>0, <2>1
<1> QED
  BY <1>2, <1>3

\* A machine that does not play the game has nothing of it, nor when it begins.
LEMMA NotYet ==
  ASSUME TypeOK, TypeOK', [Next]_vars, s_running', s_game' = s_game, NEW e \in Players, session[e] # s_game
  PROVE  /\ \A i \in Pads : /\ Taken(e, i) = 0 /\ Held(e, i) = <<>> /\ Given(e, i) = 0
                            /\ Taken(e, i)' = 0 /\ Held(e, i)' = <<>> /\ Given(e, i)' = 0
         /\ session'[e] = s_game => StartsMachine(e) /\ slot'[e] = 0 /\ cpu'[e] = "guest"
<1>1. CASE session'[e] # s_game
  BY <1>1 DEF Taken, Held, Given
<1>2. CASE session'[e] = s_game
  <2>1. GetsState(e) \/ (\E s \in Pads : Polls(e, s)) \/ Takes(e) \/ TakesNothing(e) => session' = session
    BY DEF GetsState, Polls, Takes, TakesNothing
  <2>2. StartsMachine(e)
    BY <1>2, <2>1, MachineOf
  <2>3. /\ m_pad_buffer' = [m_pad_buffer EXCEPT ![e] = Empty] /\ pushed' = [pushed EXCEPT ![e] = Zero]
        /\ polled' = [polled EXCEPT ![e] = 0] /\ slot' = [slot EXCEPT ![e] = 0] /\ cpu' = [cpu EXCEPT ![e] = "guest"]
    BY <2>2 DEF StartsMachine
  <2>4. m_pad_buffer'[e] = Empty /\ pushed'[e] = Zero /\ polled'[e] = 0 /\ slot'[e] = 0 /\ cpu'[e] = "guest"
    BY <2>3 DEF TypeOK
  <2>5. \A i \in Pads : i \in Nat /\ Empty[i] = <<>> /\ Zero[i] = 0
    BY DEF Pads, Empty, Zero
  <2> HIDE DEF Empty, Zero
  <2>6. \A i \in Pads : /\ Taken(e, i) = 0 /\ Held(e, i) = <<>> /\ Given(e, i) = 0
                        /\ Taken(e, i)' = 0 /\ Held(e, i)' = <<>> /\ Given(e, i)' = 0
    BY <1>2, <2>4, <2>5 DEF Taken, Held, Given
  <2> QED
    BY <2>2, <2>4, <2>6
<1> QED
  BY <1>1, <1>2

\* The ports of a machine in the game are the assigned pads.
LEMMA SettledPorts ==
  ASSUME TypeOK, Mapped, s_running, NEW c \in s_players, m_pad_map[c] = s_pad_map
  PROVE  \E n \in 0 .. NPads : /\ ports[c] = 0 .. n - 1
                               /\ \A i \in Pads : s_pad_map[i] # Nobody <=> i \in 0 .. n - 1
<1>1. s_pad_map \in PadMaps /\ c \in Players /\ NoGaps(s_pad_map) /\ ports[c] = UpdateDevices(s_pad_map, c)
  BY DEF TypeOK, Mapped
<1>2. PICK n \in 0 .. NPads : /\ UpdateDevices(s_pad_map, c) = 0 .. n - 1
                              /\ {i \in Pads : s_pad_map[i] # Nobody} = 0 .. n - 1
  BY <1>1, PortsAreAssigned
<1>3. \A i \in Pads : s_pad_map[i] # Nobody <=> i \in 0 .. n - 1
  BY <1>2
<1> QED
  BY <1>1, <1>2, <1>3

\* They stay during the game.
LEMMA PortsStay ==
  ASSUME TypeOK, TypeOK', Members, Mapped, [Next]_vars, NEW c \in s_players, InGame(c), gui[c] = <<>>
  PROVE  ports'[c] = ports[c]
<1>0. c \in Players /\ ports \in [Players -> SUBSET Pads] /\ toClient[c] \in Seq(Messages)
      /\ ports[c] = UpdateDevices(m_pad_map[c], c)
  BY DEF TypeOK, Mapped
<1>1. ASSUME NEW p \in Players,
             Joins(p) \/ Leaves(p) \/ Ignores(p) \/ Relays(p) \/ HearsStart(p) \/ HearsStop(p)
      PROVE  ports' = ports
  BY SMTT(40), <1>1 DEF Joins, Leaves, Ignores, Relays, HearsStart, HearsStop
<1>2. ASSUME NEW d \in Players,
             \/ GetsState(d) \/ GetsSize(d) \/ GetsStart(d) \/ GetsStop(d) \/ GetsDisable(d)
             \/ Loses(d) \/ Disables(d, "net") \/ Disables(d, "gui") \/ StartsAgain(d)
             \/ StopsMachine(d) \/ Quits(d) \/ (\E s \in Pads : Polls(d, s)) \/ Takes(d) \/ TakesNothing(d) \/ TurnsOff(d)
      PROVE  ports' = ports
  BY <1>2 DEF GetsState, GetsSize, GetsStart, GetsStop, GetsDisable, Loses, Disables, StartsAgain,
              StopsMachine, Quits, Polls, Takes, TakesNothing, TurnsOff
<1>3. Starts \/ Sends \/ (\E map \in PadMaps : Assigns(map)) \/ (\E n \in Targets : Adjusts(n)) \/ UNCHANGED vars
      => ports' = ports
  BY DEF Starts, Sends, Assigns, Adjusts, vars, settings
<1>4. ASSUME NEW d \in Players, GetsMap(d) PROVE ports'[c] = ports[c]
  <2>1. /\ toClient[d] # <<>> /\ Head(toClient[d]).type = "MAPPING"
        /\ ports' = [ports EXCEPT ![d] = UpdateDevices(Head(toClient[d]).map, d)]
    BY <1>4 DEF GetsMap
  <2>2. CASE d # c
    BY <1>0, <2>1, <2>2
  <2>3. CASE d = c
    <3>1. Head(toClient[c]).map = m_pad_map[c]
      BY <1>0, <2>1, <2>3, Contents DEF InGame, Belongs
    <3> QED
      BY <1>0, <2>1, <2>3, <3>1
  <2> QED
    BY <2>2, <2>3
<1>5. ASSUME NEW d \in Players, StartsMachine(d) PROVE ports'[c] = ports[c]
  <2>1. gui[d] # <<>> /\ ports' = [ports EXCEPT ![d] = UpdateDevices(m_pad_map[d], d)]
    BY <1>5 DEF StartsMachine
  <2> QED
    BY <1>0, <2>1
<1> QED
  BY <1>1, <1>2, <1>3, <1>4, <1>5, Steps

\* What a poll adds to the states of a pad.
LEMMA AddedRun ==
  ASSUME NEW c, NEW i, NEW p \in Nat, NEW k \in Nat, pushed[c][i] = p
  PROVE  Added(c, i, k) = Run(session[c], p, p + k)
<1>1. (p + k) - p = k
  OBVIOUS
<1> QED
  BY <1>1 DEF Added, Run

\* What each step of a machine in the game does to its buffer and its numbers.
LEMMA PollsPort ==
  ASSUME TypeOK, KindsOK, NEW c \in Players, NEW s \in Pads, Polls(c, s), session[c] = s_game,
         NEW n \in Nat, ports[c] = 0 .. n - 1, slot[c] # 0 => slot[c] \in ports[c]
  PROVE  /\ slot'[c] = slot[c] /\ slot[c] \in ports[c]
         /\ \A i \in Pads : LET more == Missing(c, s, i) IN
              /\ more \in Nat /\ Taken(c, i)' = Taken(c, i) /\ Given(c, i)' = Given(c, i) + more
              /\ Held(c, i)' = Held(c, i) \o Run(s_game, Given(c, i), Given(c, i) + more)
         /\ \A i : i \notin LocalPadToInGamePad(c, s) => Missing(c, s, i) = 0
<1>1. /\ s \in ports[c] /\ s >= slot[c] /\ \A t \in ports[c] : t >= slot[c] => s <= t
      /\ slot' = [slot EXCEPT ![c] = s] /\ UNCHANGED <<polled, session, s_game>> /\ cpu[c] = "guest"
      /\ m_pad_buffer' = [m_pad_buffer EXCEPT ![c] = [i \in Pads |-> @[i] \o Added(c, i, Missing(c, s, i))]]
      /\ pushed' = [pushed EXCEPT ![c] = [i \in Pads |-> @[i] + Missing(c, s, i)]]
  BY DEF Polls
<1>2. /\ slot \in [Players -> Pads] /\ m_pad_buffer \in [Players -> [Pads -> Seq(PadStates)]]
      /\ pushed \in [Players -> [Pads -> Nat]]
  BY DEF TypeOK
<1>3. slot[c] \in Int /\ s \in Int
  BY <1>2 DEF Pads
<1>4. slot[c] \in ports[c]
  <2>1. 0 \in ports[c]
    BY <1>1
  <2> QED
    BY <2>1
<1>5. s = slot[c]
  <2>1. s <= slot[c] /\ s >= slot[c]
    BY <1>1, <1>3, <1>4
  <2> QED
    BY <1>3, <2>1
<1>6. \A i \in Pads : Missing(c, s, i) \in Nat /\ pushed[c][i] \in Nat
  BY <1>1, <1>2, AddedTypes
<1>7. \A i : i \notin LocalPadToInGamePad(c, s) => Missing(c, s, i) = 0
  BY DEF Missing
<1> HIDE DEF Missing, Added
<1>8. slot'[c] = slot[c]
  BY <1>1, <1>2, <1>5
<1>9. \A i \in Pads : /\ m_pad_buffer'[c][i] = m_pad_buffer[c][i] \o Added(c, i, Missing(c, s, i))
                      /\ pushed'[c][i] = pushed[c][i] + Missing(c, s, i)
  BY <1>1, <1>2
<1>10. ASSUME NEW i \in Pads
       PROVE  LET more == Missing(c, s, i) IN
              /\ more \in Nat /\ Taken(c, i)' = Taken(c, i) /\ Given(c, i)' = Given(c, i) + more
              /\ Held(c, i)' = Held(c, i) \o Run(s_game, Given(c, i), Given(c, i) + more)
  <2> DEFINE more == Missing(c, s, i)
  <2>1. more \in Nat /\ pushed[c][i] \in Nat
    BY <1>6
  <2>2. Added(c, i, more) = Run(session[c], pushed[c][i], pushed[c][i] + more)
    <3> HIDE DEF more
    <3> QED
      BY <2>1, AddedRun
  <2>3. session'[c] = s_game' /\ s_game' = s_game /\ polled' = polled
    BY <1>1
  <2> QED
    BY <1>8, <1>9, <2>1, <2>2, <2>3 DEF Taken, Given, Held
<1> QED
  BY <1>4, <1>7, <1>8, <1>10

LEMMA TakesState ==
  ASSUME TypeOK, NEW c \in Players, Takes(c), session[c] = s_game,
         NEW n \in Nat, ports[c] = 0 .. n - 1, slot[c] \in ports[c]
  PROVE  /\ Held(c, slot[c]) # <<>>
         /\ \A i \in Pads : Held(c, i)' = IF i = slot[c] THEN Tail(Held(c, i)) ELSE Held(c, i)
         /\ \A i \in ports[c] : Taken(c, i)' = IF i = slot[c] THEN Taken(c, i) + 1 ELSE Taken(c, i)
         /\ slot'[c] # 0 => slot'[c] \in ports[c]
<1>1. /\ m_pad_buffer[c][slot[c]] # <<>> /\ session' = session /\ s_game' = s_game
      /\ m_pad_buffer' = [m_pad_buffer EXCEPT ![c][slot[c]] = Tail(@)]
      /\ \/ (\A t \in ports[c] : t <= slot[c]) /\ slot' = [slot EXCEPT ![c] = 0]
            /\ polled' = [polled EXCEPT ![c] = @ + 1]
         \/ (\E t \in ports[c] : t > slot[c]) /\ slot' = [slot EXCEPT ![c] = @ + 1] /\ polled' = polled
  BY DEF Takes
<1>2. /\ slot \in [Players -> Pads] /\ m_pad_buffer \in [Players -> [Pads -> Seq(PadStates)]]
      /\ polled \in [Players -> Nat]
  BY DEF TypeOK
<1>3. session'[c] = s_game'
  BY <1>1
<1>4. /\ Held(c, slot[c]) # <<>>
      /\ \A i \in Pads : Held(c, i)' = IF i = slot[c] THEN Tail(Held(c, i)) ELSE Held(c, i)
  <2>1. /\ m_pad_buffer'[c][slot[c]] = Tail(m_pad_buffer[c][slot[c]])
        /\ \A i \in Pads \ {slot[c]} : m_pad_buffer'[c][i] = m_pad_buffer[c][i]
    BY <1>1, <1>2
  <2> QED
    BY <1>1, <1>3, <2>1 DEF Held
<1>5. \/ (\A t \in ports[c] : t <= slot[c]) /\ slot'[c] = 0 /\ polled'[c] = polled[c] + 1
      \/ (\E t \in ports[c] : t > slot[c]) /\ slot'[c] = slot[c] + 1 /\ polled'[c] = polled[c]
  BY <1>1, <1>2
<1>6. slot[c] \in 0 .. n - 1 /\ polled[c] \in Nat
  BY <1>2
<1>7. slot'[c] # 0 => slot'[c] \in ports[c]
  BY <1>5, <1>6
<1>8. ASSUME NEW i \in ports[c] PROVE Taken(c, i)' = IF i = slot[c] THEN Taken(c, i) + 1 ELSE Taken(c, i)
  <2>0. /\ Taken(c, i) = polled[c] + (IF slot[c] > i THEN 1 ELSE 0)
        /\ Taken(c, i)' = polled'[c] + (IF slot'[c] > i THEN 1 ELSE 0)
    BY <1>3 DEF Taken
  <2>1. CASE (\A t \in ports[c] : t <= slot[c]) /\ slot'[c] = 0 /\ polled'[c] = polled[c] + 1
    <3>1. i <= slot[c] /\ i \in 0 .. n - 1
      BY <2>1, <1>8
    <3> QED
      BY <1>6, <2>0, <2>1, <3>1
  <2>2. CASE (\E t \in ports[c] : t > slot[c]) /\ slot'[c] = slot[c] + 1 /\ polled'[c] = polled[c]
    <3>1. i \in 0 .. n - 1
      BY <1>8
    <3> QED
      BY <1>6, <2>0, <2>2, <3>1
  <2> QED
    BY <1>5, <2>1, <2>2
<1> QED
  BY <1>4, <1>7, <1>8
-----------------------------------------------------------------------------
(* The flow of the states                                                  *)

\* A machine that plays and has not been overtaken neither starts again nor polls in vain.
LEMMA SettledSteps ==
  ASSUME IInv, TypeOK', [Next]_vars, s_running', ~Starts
  PROVE  /\ s_running /\ s_game' = s_game /\ s_pad_map' = s_pad_map
         /\ s_players' \subseteq s_players /\ s_players \subseteq Players
         /\ \A c \in s_players : InStep(c)' => InStep(c)
         /\ \A c \in s_players : Answers(c) /\ link[c] = "up"
         /\ \A c, d \in s_players : \A i \in Pads :
              InStep(c) /\ InStep(d) /\ s_pad_map[i] = d => OnItsWay(c, d, i)
         /\ \A c \in s_players : InStep(c) /\ session[c] = s_game =>
              /\ InGame(c) /\ m_pad_map[c] = s_pad_map
              /\ ~StartsMachine(c) /\ ~StartsAgain(c) /\ ~TakesNothing(c)
              /\ slot[c] # 0 \/ cpu[c] = "take" => slot[c] \in ports[c]
              /\ ports'[c] = ports[c]
              /\ \E n \in Nat : /\ ports[c] = 0 .. n - 1
                                /\ \A i \in Pads : s_pad_map[i] # Nobody <=> i \in 0 .. n - 1
<1>0. /\ TypeOK /\ KindsOK /\ Members /\ Announced /\ HostKnows /\ Mapped /\ Joining /\ Answered
      /\ StartsOnce /\ Flow
  BY DEF IInv
<1>1. /\ s_running /\ s_game' = s_game /\ s_pad_map' = s_pad_map
      /\ s_players' \subseteq s_players /\ s_players \subseteq Players
  BY <1>0, GoesOn DEF TypeOK
<1>2. \A c \in s_players : InStep(c)' => InStep(c)
  BY <1>0, <1>1, StaysInStep
<1>3. \A c \in s_players : Answers(c) /\ link[c] = "up"
  BY <1>0, <1>1 DEF Answered, Members
<1>4. \A c, d \in s_players : \A i \in Pads :
        InStep(c) /\ InStep(d) /\ s_pad_map[i] = d => OnItsWay(c, d, i)
  BY <1>0, <1>1 DEF Flow
<1>5. ASSUME NEW c \in s_players, InStep(c), session[c] = s_game
      PROVE  /\ InGame(c) /\ m_pad_map[c] = s_pad_map
             /\ ~StartsMachine(c) /\ ~StartsAgain(c) /\ ~TakesNothing(c)
             /\ slot[c] # 0 \/ cpu[c] = "take" => slot[c] \in ports[c]
             /\ ports'[c] = ports[c]
             /\ \E n \in Nat : /\ ports[c] = 0 .. n - 1
                               /\ \A i \in Pads : s_pad_map[i] # Nobody <=> i \in 0 .. n - 1
  <2>1. InGame(c) /\ gui[c] = <<>> /\ m_is_running[c] /\ m_pad_map[c] = s_pad_map
    BY <1>0, <1>1, <1>5, Settled
  <2>2. ~StartsMachine(c) /\ ~StartsAgain(c) /\ ~TakesNothing(c)
    BY <2>1 DEF StartsMachine, StartsAgain, TakesNothing
  <2>3. slot[c] # 0 \/ cpu[c] = "take" => slot[c] \in ports[c]
    BY <1>0, <1>1, <1>5 DEF Flow
  <2>4. ports'[c] = ports[c]
    BY <1>0, <2>1, PortsStay
  <2>5. PICK n \in 0 .. NPads : /\ ports[c] = 0 .. n - 1
                                /\ \A i \in Pads : s_pad_map[i] # Nobody <=> i \in 0 .. n - 1
    BY <1>0, <1>1, <2>1, SettledPorts
  <2>6. n \in Nat
    BY NetPlayAssumption
  <2> QED
    BY <2>1, <2>2, <2>3, <2>4, <2>5, <2>6
<1> QED
  BY <1>1, <1>2, <1>3, <1>4, <1>5

\* The port that is polled next has a pad.
LEMMA SlotNext ==
  ASSUME IInv, TypeOK', [Next]_vars, s_running', ~Starts,
         NEW c \in s_players', InStep(c)', session'[c] = s_game', slot'[c] # 0 \/ cpu'[c] = "take"
  PROVE  slot'[c] \in ports'[c]
<1>0. TypeOK /\ KindsOK
  BY DEF IInv
<1>1. c \in s_players /\ c \in Players /\ InStep(c) /\ s_game' = s_game
  BY SettledSteps
<1>2. session[c] = s_game
  BY <1>0, <1>1, NotYet
<1>3. /\ ~StartsMachine(c) /\ ~TakesNothing(c) /\ ports'[c] = ports[c]
      /\ slot[c] # 0 \/ cpu[c] = "take" => slot[c] \in ports[c]
      /\ \E n \in Nat : ports[c] = 0 .. n - 1
  BY <1>1, <1>2, SettledSteps
<1>4. PICK n \in Nat : ports[c] = 0 .. n - 1
  BY <1>3
<1>5. CASE slot'[c] = slot[c] /\ cpu'[c] \in {cpu[c], "off"}
  BY <1>3, <1>5
<1>6. ASSUME GetsState(c) PROVE slot'[c] = slot[c] /\ cpu'[c] \in {cpu[c], "off"}
  BY <1>6 DEF GetsState
<1>7. ASSUME NEW s \in Pads, Polls(c, s) PROVE slot'[c] \in ports[c]
  <2>1. slot'[c] = slot[c] /\ slot[c] \in ports[c]
    BY <1>0, <1>1, <1>2, <1>3, <1>4, <1>7, PollsPort
  <2> QED
    BY <2>1
<1>8. ASSUME Takes(c) PROVE slot'[c] \in ports[c]
  <2>1. cpu[c] = "take" /\ cpu'[c] = "guest"
    BY <1>0, <1>1, <1>8 DEF Takes, TypeOK
  <2>2. slot'[c] # 0 => slot'[c] \in ports[c]
    BY <1>0, <1>1, <1>2, <1>3, <1>4, <1>8, <2>1, TakesState
  <2> QED
    BY <2>1, <2>2
<1> QED
  BY <1>0, <1>1, <1>3, <1>5, <1>6, <1>7, <1>8, MachineOf

\* A machine takes the states of its own pads in the order in which it has made them.
LEMMA OwnWay ==
  ASSUME IInv, TypeOK', [Next]_vars, s_running', ~Starts,
         NEW c \in s_players', InStep(c)', NEW i \in Pads, s_pad_map'[i] = c
  PROVE  OnItsWay(c, c, i)'
<1> DEFINE t == Taken(c, i)
           p == Given(c, i)
           b == Held(c, i)
           g == s_game
<1>0. TypeOK /\ KindsOK
  BY DEF IInv
<1>1. /\ c \in s_players /\ c \in Players /\ InStep(c) /\ s_game' = g /\ s_pad_map[i] = c
      /\ OnItsWay(c, c, i)
  BY SettledSteps
<1>2. p \in Nat /\ t \in Nat /\ b \in Seq(PadStates)
  BY <1>0, <1>1, FlowTypes
<1>3. t <= p /\ b = Run(g, t, p)
  BY <1>1, <1>2, WaysAre
<1>4. ASSUME Taken(c, i)' <= Given(c, i)', Held(c, i)' = Run(g, Taken(c, i)', Given(c, i)')
      PROVE  OnItsWay(c, c, i)'
  <2>1. Given(c, i)' \in Nat
    <3>1. pushed'[c][i] \in Nat
      BY <1>1 DEF TypeOK
    <3> QED
      BY <3>1 DEF Given
  <2>2. Given(c, i)' <= Given(c, i)'
    BY <2>1
  <2> QED
    BY <1>1, <1>4, <2>1, <2>2 DEF OnItsWay
<1>5. CASE session[c] # g
  <2>1. Taken(c, i)' = 0 /\ Held(c, i)' = <<>> /\ Given(c, i)' = 0
    BY <1>0, <1>1, <1>5, NotYet
  <2>2. Run(g, 0, 0) = <<>>
    BY Runs
  <2> QED
    BY <1>4, <2>1, <2>2
<1>6. CASE session[c] = g
  <2>0. /\ ~StartsMachine(c) /\ ~TakesNothing(c) /\ InGame(c)
        /\ slot[c] # 0 \/ cpu[c] = "take" => slot[c] \in ports[c]
        /\ \E n \in Nat : ports[c] = 0 .. n - 1 /\ \A k \in Pads : s_pad_map[k] # Nobody <=> k \in 0 .. n - 1
    BY <1>1, <1>6, SettledSteps
  <2>1. PICK n \in Nat : ports[c] = 0 .. n - 1 /\ \A k \in Pads : s_pad_map[k] # Nobody <=> k \in 0 .. n - 1
    BY <2>0
  <2>2. i \in ports[c]
    <3>1. c # Nobody
      BY <1>1, NetPlayAssumption DEF Nobody
    <3> QED
      BY <1>1, <2>1, <3>1
  <2>3. ASSUME m_pad_buffer'[c][i] = m_pad_buffer[c][i], pushed'[c] = pushed[c], polled'[c] = polled[c],
               slot'[c] = slot[c], session'[c] = session[c]
        PROVE  OnItsWay(c, c, i)'
    <3>1. Taken(c, i)' = t /\ Given(c, i)' = p /\ Held(c, i)' = b
      BY <1>1, <2>3 DEF Taken, Given, Held
    <3> QED
      BY <1>3, <1>4, <3>1
  <2>4. ASSUME GetsState(c) PROVE OnItsWay(c, c, i)'
    <3> DEFINE m == Head(toClient[c])
    <3>1. /\ toClient[c] # <<>> /\ m.type = "PAD" /\ UNCHANGED <<pushed, polled, slot, session>>
          /\ m_pad_buffer' = [m_pad_buffer EXCEPT ![c][m.pad] = Append(@, m.state)]
      BY <2>4 DEF GetsState
    <3>2. m \in In(toClient[c])
      BY <1>0, <1>1, <3>1, Contents DEF TypeOK
    <3>3. m.pad # i
      BY <1>1, <2>0, <3>1, <3>2 DEF InGame, Belongs
    <3>4. m_pad_buffer \in [Players -> [Pads -> Seq(PadStates)]]
      BY <1>0 DEF TypeOK
    <3> HIDE DEF m
    <3>5. m_pad_buffer'[c][i] = m_pad_buffer[c][i]
      BY <1>1, <3>1, <3>3, <3>4
    <3> QED
      BY <2>3, <3>1, <3>5
  <2>5. ASSUME NEW s \in Pads, Polls(c, s) PROVE OnItsWay(c, c, i)'
    <3> DEFINE more == Missing(c, s, i)
               z == p + more
    <3>1. /\ more \in Nat /\ Taken(c, i)' = t /\ Given(c, i)' = z
          /\ Held(c, i)' = b \o Run(g, p, z)
      BY <1>0, <1>1, <1>6, <2>0, <2>1, <2>5, PollsPort
    <3> HIDE DEF more
    <3>2. z \in Nat /\ p <= z /\ t <= z
      BY <1>2, <1>3, <3>1
    <3> HIDE DEF z, p, t, b, g
    <3>3. Run(g, t, p) \o Run(g, p, z) = Run(g, t, z)
      BY <1>2, <1>3, <3>2, RunJoined
    <3> QED
      BY <1>3, <1>4, <3>1, <3>2, <3>3
  <2>6. ASSUME Takes(c) PROVE OnItsWay(c, c, i)'
    <3>1. cpu[c] = "take" /\ slot[c] \in ports[c] /\ UNCHANGED <<pushed, session, s_game>>
      BY <2>0, <2>6 DEF Takes
    <3>2. /\ b # <<>> \/ slot[c] # i
          /\ Held(c, i)' = IF i = slot[c] THEN Tail(b) ELSE b
          /\ Taken(c, i)' = IF i = slot[c] THEN t + 1 ELSE t
      BY <1>0, <1>1, <1>6, <2>1, <2>2, <2>6, <3>1, TakesState
    <3>3. Given(c, i)' = p
      BY <3>1 DEF Given
    <3> HIDE DEF g, p, t, b
    <3>4. CASE slot[c] = i
      <4>1. t + 1 <= p /\ Tail(b) = Run(g, t + 1, p)
        BY <1>2, <1>3, <3>2, <3>4, RunShrunk
      <4> QED
        BY <1>4, <3>2, <3>3, <3>4, <4>1
    <3>5. CASE slot[c] # i
      BY <1>3, <1>4, <3>2, <3>3, <3>5
    <3> QED
      BY <3>4, <3>5
  <2> QED
    BY <1>0, <1>1, <2>0, <2>3, <2>4, <2>5, <2>6, MachineOf
<1> QED
  BY <1>5, <1>6
-----------------------------------------------------------------------------
(* The flow from one machine to another                                    *)

\* Other messages come or go.
LEMMA WayQuiet ==
  ASSUME NEW t \in Nat, NEW b, NEW q \in Seq(Messages), NEW r \in Seq(Messages), NEW p \in Nat, NEW i, NEW g,
         Way(t, b, q, r, p, i, g), NEW q1, NEW r1,
         \/ q1 = q
         \/ q # <<>> /\ q1 = Tail(q) /\ ~StateAt(Head(q), i, g)
         \/ \E m \in Messages : q1 = Append(q, m) /\ ~StateAt(m, i, g),
         \/ r1 = r
         \/ r # <<>> /\ r1 = Tail(r) /\ ~StateAt(Head(r), i, g)
         \/ \E m \in Messages : r1 = Append(r, m) /\ ~StateAt(m, i, g)
  PROVE  Way(t, b, q1, r1, p, i, g)
<1>1. PICK x \in Nat, y \in Nat : /\ t <= x /\ x <= y /\ y <= p
                                  /\ b = Run(g, t, x) /\ Carries(q, i, g, x, y) /\ Carries(r, i, g, y, p)
  BY DEF Way
<1>2. Carries(q1, i, g, x, y)
  BY <1>1, CarriesQuiet
<1>3. Carries(r1, i, g, y, p)
  BY <1>1, CarriesQuiet
<1> QED
  BY <1>1, <1>2, <1>3 DEF Way

\* The server relays a message of the owner.
LEMMA WayRelayed ==
  ASSUME NEW t \in Nat, NEW b, NEW q \in Seq(Messages), NEW r \in Seq(Messages), NEW p \in Nat, NEW i, NEW g,
         Way(t, b, q, r, p, i, g), r # <<>>
  PROVE  Way(t, b, Append(q, Head(r)), Tail(r), p, i, g)
<1> DEFINE m == Head(r)
<1>1. PICK x \in Nat, y \in Nat : /\ t <= x /\ x <= y /\ y <= p
                                  /\ b = Run(g, t, x) /\ Carries(q, i, g, x, y) /\ Carries(r, i, g, y, p)
  BY DEF Way
<1>2. m \in Messages
  BY Tailed
<1>3. IF StateAt(m, i, g) THEN y < p /\ m.state = <<g, y + 1>> /\ Carries(Tail(r), i, g, y + 1, p)
                          ELSE Carries(Tail(r), i, g, y, p)
  BY <1>1, CarriesTail
<1> HIDE DEF m
<1>4. CASE StateAt(m, i, g)
  <2>1. m.state[2] = y + 1
    BY <1>3, <1>4
  <2>2. Carries(Append(q, m), i, g, x, y + 1)
    BY <1>1, <1>2, <1>4, <2>1, CarriesNext
  <2>3. y + 1 \in Nat /\ x <= y + 1 /\ y + 1 <= p /\ Carries(Tail(r), i, g, y + 1, p)
    BY <1>1, <1>3, <1>4
  <2> QED
    BY <1>1, <2>2, <2>3 DEF Way, m
<1>5. CASE ~StateAt(m, i, g)
  <2>1. Carries(Append(q, m), i, g, x, y)
    BY <1>1, <1>2, <1>5, CarriesQuiet
  <2> QED
    BY <1>1, <1>3, <1>5, <2>1 DEF Way, m
<1> QED
  BY <1>4, <1>5

\* The client gets a state.
LEMMA WayReceived ==
  ASSUME NEW t \in Nat, NEW b, NEW q \in Seq(Messages), NEW r \in Seq(Messages), NEW p \in Nat, NEW i, NEW g,
         Way(t, b, q, r, p, i, g), q # <<>>, StateAt(Head(q), i, g)
  PROVE  Way(t, Append(b, Head(q).state), Tail(q), r, p, i, g)
<1>1. PICK x \in Nat, y \in Nat : /\ t <= x /\ x <= y /\ y <= p
                                  /\ b = Run(g, t, x) /\ Carries(q, i, g, x, y) /\ Carries(r, i, g, y, p)
  BY DEF Way
<1>2. x < y /\ Head(q).state = <<g, x + 1>> /\ Carries(Tail(q), i, g, x + 1, y)
  BY <1>1, CarriesTail
<1>3. x + 1 \in Nat /\ t <= x + 1 /\ x + 1 <= y
  BY <1>1, <1>2
<1>4. Append(b, Head(q).state) = Run(g, t, x + 1)
  <2>1. Append(Run(g, t, x), <<g, x + 1>>) = Run(g, t, x + 1)
    BY ZenonT(90), <1>1, Runs
  <2> QED
    BY <1>1, <1>2, <2>1
<1> QED
  BY <1>1, <1>2, <1>3, <1>4 DEF Way

\* The owner sends states.
LEMMA WayPolled ==
  ASSUME NEW t \in Nat, NEW b, NEW q \in Seq(Messages), NEW r \in Seq(Messages), NEW p \in Nat, NEW i, NEW g,
         Way(t, b, q, r, p, i, g), NEW a \in Seq(Messages)
  PROVE  /\ (\A j \in 1 .. Len(a) : StateAt(a[j], i, g) /\ a[j].state[2] = p + j) =>
              Way(t, b, q, r \o a, p + Len(a), i, g)
         /\ (\A j \in 1 .. Len(a) : ~StateAt(a[j], i, g)) => Way(t, b, q, r \o a, p, i, g)
<1>1. PICK x \in Nat, y \in Nat : /\ t <= x /\ x <= y /\ y <= p
                                  /\ b = Run(g, t, x) /\ Carries(q, i, g, x, y) /\ Carries(r, i, g, y, p)
  BY DEF Way
<1>2. ASSUME \A j \in 1 .. Len(a) : StateAt(a[j], i, g) /\ a[j].state[2] = p + j
      PROVE  Way(t, b, q, r \o a, p + Len(a), i, g)
  <2>1. Carries(r \o a, i, g, y, p + Len(a))
    BY <1>1, <1>2, CarriesJoined
  <2>2. Len(a) \in Nat /\ y <= p + Len(a)
    BY <1>1
  <2> QED
    BY <1>1, <2>1, <2>2 DEF Way
<1>3. ASSUME \A j \in 1 .. Len(a) : ~StateAt(a[j], i, g) PROVE Way(t, b, q, r \o a, p, i, g)
  <2>1. Carries(r \o a, i, g, y, p)
    BY <1>1, <1>3, CarriesOther
  <2> QED
    BY <1>1, <2>1 DEF Way
<1> QED
  BY <1>2, <1>3

\* The other machine takes a state.
LEMMA WayTaken ==
  ASSUME NEW t \in Nat, NEW b, NEW q, NEW r, NEW p \in Nat, NEW i, NEW g,
         Way(t, b, q, r, p, i, g), b # <<>>
  PROVE  Way(t + 1, Tail(b), q, r, p, i, g)
<1>1. PICK x \in Nat, y \in Nat : /\ t <= x /\ x <= y /\ y <= p
                                  /\ b = Run(g, t, x) /\ Carries(q, i, g, x, y) /\ Carries(r, i, g, y, p)
  BY DEF Way
<1>2. t + 1 <= x /\ Tail(b) = Run(g, t + 1, x)
  BY <1>1, RunShrunk
<1> QED
  BY <1>1, <1>2 DEF Way

\* A machine takes the states of the pads of the others in the order in which they have made them.
LEMMA OtherWay ==
  ASSUME IInv, TypeOK', [Next]_vars, s_running', ~Starts, NEW c \in s_players', NEW d \in s_players',
         c # d, InStep(c)', InStep(d)', NEW i \in Pads, s_pad_map'[i] = d
  PROVE  OnItsWay(c, d, i)'
<1> DEFINE t == Taken(c, i)
           b == Held(c, i)
           q == toClient[c]
           r == toServer[d]
           p == Given(d, i)
           g == s_game
           Result == Way(Taken(c, i)', Held(c, i)', toClient'[c], toServer'[d], Given(d, i)', i, g)
           Rest == UNCHANGED <<Taken(c, i), Held(c, i), Given(d, i)>>
<1>0. TypeOK /\ KindsOK /\ Members /\ Answered
  BY DEF IInv
<1>1. /\ c \in s_players /\ d \in s_players /\ c \in Players /\ d \in Players /\ s_running
      /\ s_game' = g /\ s_pad_map[i] = d /\ OnItsWay(c, d, i) /\ InStep(c) /\ InStep(d)
      /\ link[d] = "up" /\ Answers(d)
  BY SettledSteps
<1>2. session[c] = g =>
        /\ ~StartsMachine(c) /\ ~TakesNothing(c) /\ InGame(c) /\ m_pad_map[c] = s_pad_map
        /\ slot[c] # 0 \/ cpu[c] = "take" => slot[c] \in ports[c]
        /\ \E n \in Nat : ports[c] = 0 .. n - 1 /\ \A k \in Pads : s_pad_map[k] # Nobody <=> k \in 0 .. n - 1
  BY <1>1, SettledSteps
<1>3. session[d] = g =>
        /\ ~StartsMachine(d) /\ ~TakesNothing(d)
        /\ slot[d] # 0 \/ cpu[d] = "take" => slot[d] \in ports[d]
        /\ \E n \in Nat : ports[d] = 0 .. n - 1
  BY <1>1, SettledSteps
<1>4. d # Nobody
  BY <1>1, NetPlayAssumption DEF Nobody
<1>5. /\ t \in Nat /\ p \in Nat /\ b \in Seq(PadStates)
      /\ q \in Seq(Messages) /\ r \in Seq(Messages)
  BY <1>0, <1>1, FlowTypes DEF TypeOK
<1>6. Way(t, b, q, r, p, i, g)
  BY <1>1, WaysAre
<1>7. ASSUME Result PROVE OnItsWay(c, d, i)'
  BY <1>1, <1>7 DEF OnItsWay, Way
<1>8. ASSUME Rest, NEW q1, NEW r1, toClient'[c] = q1, toServer'[d] = r1, Way(t, b, q1, r1, p, i, g) PROVE Result
  BY <1>8
<1>a. ASSUME session[c] = g => ~GetsState(c) /\ ~Takes(c) /\ \A s \in Pads : ~Polls(c, s)
      PROVE  UNCHANGED <<Taken(c, i), Held(c, i)>>
  <2>1. CASE session[c] # g
    BY <1>0, <1>1, <2>1, NotYet
  <2>2. CASE session[c] = g
    <3>1. /\ m_pad_buffer'[c] = m_pad_buffer[c] /\ polled'[c] = polled[c] /\ slot'[c] = slot[c]
          /\ session'[c] = session[c]
      BY <1>0, <1>1, <1>2, <1>a, <2>2, MachineOf
    <3> QED
      BY <1>1, <3>1 DEF Taken, Held
  <2> QED
    BY <2>1, <2>2
<1>b. ASSUME session[d] = g => \A s \in Pads : ~Polls(d, s)
      PROVE  UNCHANGED Given(d, i)
  <2>1. CASE session[d] # g
    BY <1>0, <1>1, <2>1, NotYet
  <2>2. CASE session[d] = g
    <3>1. GetsState(d) \/ Takes(d) => UNCHANGED <<pushed, session>>
      BY DEF GetsState, Takes
    <3>2. pushed'[d] = pushed[d] /\ session'[d] = session[d]
      BY <1>0, <1>1, <1>3, <1>b, <2>2, <3>1, MachineOf
    <3> QED
      BY <1>1, <3>2 DEF Given
  <2> QED
    BY <2>1, <2>2
<1>9. ASSUME NEW e \in Players, Relays(e) PROVE Result
  <2> DEFINE m == Head(toServer[e])
  <2>1. /\ toServer[e] # <<>> /\ s_pad_map[m.pad] = e
        /\ UNCHANGED <<m_pad_buffer, pushed, polled, slot, session>>
        /\ toClient' = [f \in Players |-> IF f \in s_players \ {e} THEN Append(toClient[f], m) ELSE toClient[f]]
        /\ toServer' = [toServer EXCEPT ![e] = Tail(@)]
    BY <1>9 DEF Relays
  <2>2. toServer \in [Players -> Seq(Messages)]
    BY <1>0 DEF TypeOK
  <2>3. m \in Messages
    BY <2>1, <2>2, Tailed
  <2>a. Rest
    BY <1>1, <2>1 DEF Taken, Held, Given
  <2> HIDE DEF m
  <2>4. CASE e = d
    <3>1. toClient'[c] = Append(q, m) /\ toServer'[d] = Tail(r)
      BY <1>1, <2>1, <2>2, <2>4
    <3>2. Way(t, b, Append(q, m), Tail(r), p, i, g)
      BY <1>5, <1>6, <2>1, <2>4, WayRelayed DEF m
    <3> QED
      BY <1>8, <2>a, <3>1, <3>2
  <2>5. CASE e = c
    <3>1. toClient'[c] = q /\ toServer'[d] = r
      BY <1>1, <2>1, <2>2, <2>5
    <3> QED
      BY <1>6, <1>8, <2>a, <3>1
  <2>6. CASE e # c /\ e # d
    <3>1. toClient'[c] = Append(q, m) /\ toServer'[d] = r
      BY <1>1, <2>1, <2>2, <2>6
    <3>2. ~StateAt(m, i, g)
      BY <1>1, <2>1, <2>6 DEF StateAt
    <3>3. Way(t, b, Append(q, m), r, p, i, g)
      BY <1>5, <1>6, <2>3, <3>2, WayQuiet
    <3> QED
      BY <1>8, <2>a, <3>1, <3>3
  <2> QED
    BY <2>4, <2>5, <2>6
<1>10. ASSUME NEW e \in Players, GetsState(e) PROVE Result
  <2> DEFINE m == Head(toClient[e])
  <2>1. /\ toClient[e] # <<>> /\ m.type = "PAD" /\ UNCHANGED <<toServer, pushed, polled, slot, session>>
        /\ toClient' = [toClient EXCEPT ![e] = Tail(@)]
        /\ m_pad_buffer' = [m_pad_buffer EXCEPT ![e][m.pad] = Append(@, m.state)]
        /\ m.state[1] # session[e] => <<e, m.state[1]>> \in overtaken'
    BY <1>10 DEF GetsState
  <2>2. toClient \in [Players -> Seq(Messages)] /\ m_pad_buffer \in [Players -> [Pads -> Seq(PadStates)]]
    BY <1>0 DEF TypeOK
  <2>a. Taken(c, i)' = t /\ Given(d, i)' = p
    BY <1>1, <2>1 DEF Taken, Given
  <2>3. CASE e # c
    <3>1. toClient'[c] = q /\ toServer'[d] = r /\ m_pad_buffer'[c] = m_pad_buffer[c]
      <4> HIDE DEF m
      <4> QED
        BY <1>1, <2>1, <2>2, <2>3
    <3>2. Rest
      BY <1>1, <2>1, <2>a, <3>1 DEF Held
    <3> QED
      BY <1>6, <1>8, <3>1, <3>2
  <2>4. CASE e = c
    <3>3. toClient'[c] = Tail(q) /\ toServer'[d] = r
      BY <1>1, <2>1, <2>2, <2>4
    <3>4. CASE session[c] = g /\ m.pad = i
      <4>0. m \in In(q)
        BY <1>5, <2>1, <2>4, Contents
      <4>1. StateAt(Head(q), i, g)
        BY <1>2, <2>1, <2>4, <3>4, <4>0 DEF StateAt, InGame, Belongs
      <4>2. Way(t, Append(b, Head(q).state), Tail(q), r, p, i, g)
        BY <1>5, <1>6, <2>1, <2>4, <4>1, WayReceived
      <4>3. Held(c, i)' = Append(b, m.state)
        <5>1. m_pad_buffer'[c][i] = Append(m_pad_buffer[c][i], m.state)
          <6> HIDE DEF m
          <6> QED
            BY <1>1, <2>1, <2>2, <2>4, <3>4
        <5> QED
          BY <1>1, <2>1, <3>4, <5>1 DEF Held
      <4> QED
        BY <2>4, <2>a, <3>3, <4>2, <4>3
    <3>5. CASE session[c] # g \/ m.pad # i
      <4>1. ~StateAt(Head(q), i, g)
        BY <1>1, <2>1, <2>4, <3>5 DEF StateAt, InStep
      <4>2. Way(t, b, Tail(q), r, p, i, g)
        BY <1>5, <1>6, <2>1, <2>4, <4>1, WayQuiet
      <4>3. Held(c, i)' = b
        <5>1. m.pad # i => m_pad_buffer'[c][i] = m_pad_buffer[c][i]
          <6> HIDE DEF m
          <6> QED
            BY <1>1, <2>1, <2>2, <2>4
        <5> QED
          BY <1>1, <2>1, <3>5, <5>1 DEF Held
      <4> QED
        BY <2>a, <3>3, <4>2, <4>3
    <3> QED
      BY <3>4, <3>5
  <2> QED
    BY <2>3, <2>4
<1>11. ASSUME NEW e \in Players, NEW s \in Pads, Polls(e, s) PROVE Result
  <2>0. /\ toClient' = toClient /\ UNCHANGED <<polled, session>> /\ cpu[e] = "guest"
        /\ \/ LocalPadToInGamePad(e, s) = {} /\ toServer' = toServer
           \/ \E j \in LocalPadToInGamePad(e, s) :
                toServer' = IF link[e] = "up"
                            THEN [toServer EXCEPT ![e] = @ \o AddedMsgs(e, j, Missing(e, s, j))] ELSE toServer
        /\ pushed' = [pushed EXCEPT ![e] = [k \in Pads |-> @[k] + Missing(e, s, k)]]
        /\ slot' = [slot EXCEPT ![e] = s]
        /\ m_pad_buffer' = [m_pad_buffer EXCEPT ![e] = [k \in Pads |-> @[k] \o Added(e, k, Missing(e, s, k))]]
    BY <1>11 DEF Polls
  <2>1. /\ toServer \in [Players -> Seq(Messages)] /\ pushed \in [Players -> [Pads -> Nat]]
        /\ slot \in [Players -> Pads] /\ m_pad_buffer \in [Players -> [Pads -> Seq(PadStates)]]
    BY <1>0 DEF TypeOK
  <2>2. \A f \in Players \ {e} : UNCHANGED <<toServer[f], pushed[f], slot[f], m_pad_buffer[f]>>
    <3> HIDE DEF Missing, Added, AddedMsgs
    <3> QED
      BY <2>0, <2>1
  <2>3. e # c => UNCHANGED <<Taken(c, i), Held(c, i)>>
    BY <1>1, <2>0, <2>2 DEF Taken, Held
  <2>4. e # d => UNCHANGED Given(d, i) /\ toServer'[d] = r
    BY <1>1, <2>0, <2>2 DEF Given
  <2>5. CASE e \notin {c, d}
    BY <1>6, <1>8, <2>0, <2>3, <2>4, <2>5
  <2>6. CASE e = c
    <3>1. UNCHANGED <<Taken(c, i), Held(c, i)>>
      <4>1. CASE session[c] # g
        BY <1>a, <4>1
      <4>2. CASE session[c] = g
        <5>1. i \notin LocalPadToInGamePad(c, s)
          BY <1>1, <1>2, <4>2 DEF LocalPadToInGamePad
        <5>2. PICK n \in Nat : ports[c] = 0 .. n - 1
          BY <1>2, <4>2
        <5> DEFINE x == Given(c, i)
        <5>3. /\ Missing(c, s, i) = 0 /\ Taken(c, i)' = t
              /\ Held(c, i)' = b \o Run(g, x, x + Missing(c, s, i))
          BY <1>0, <1>1, <1>2, <1>11, <2>6, <4>2, <5>1, <5>2, PollsPort
        <5>4. x \in Nat
          BY <1>0, <1>1, FlowTypes
        <5> HIDE DEF x
        <5>5. x + 0 = x /\ Run(g, x, x) = <<>>
          BY <5>4, Runs
        <5>6. b \o <<>> = b
          BY <1>5
        <5> QED
          BY <5>3, <5>5, <5>6
      <4> QED
        BY <4>1, <4>2
    <3> QED
      BY <1>1, <1>6, <1>8, <2>0, <2>4, <2>6, <3>1
  <2>7. CASE e = d
    <3>1. \A k \in Pads : k \in Nat
      BY DEF Pads
    <3>2. toClient'[c] = q /\ UNCHANGED <<Taken(c, i), Held(c, i)>>
      BY <1>1, <2>0, <2>3, <2>7
    <3>3. i \notin LocalPadToInGamePad(d, s) => Given(d, i)' = p
      <4>1. CASE session[d] # g
        BY <1>b, <4>1
      <4>2. CASE session[d] = g
        <5>1. PICK n \in Nat : ports[d] = 0 .. n - 1
          BY <1>3, <4>2
        <5>2. /\ i \notin LocalPadToInGamePad(d, s) => Missing(d, s, i) = 0
              /\ Given(d, i)' = p + Missing(d, s, i)
          BY <1>0, <1>1, <1>3, <1>11, <2>7, <4>2, <5>1, PollsPort
        <5> QED
          BY <1>5, <5>2
      <4> QED
        BY <4>1, <4>2
    <3>4. CASE LocalPadToInGamePad(d, s) = {} /\ toServer' = toServer
      BY <1>6, <1>8, <3>2, <3>3, <3>4
    <3>5. ASSUME NEW j \in LocalPadToInGamePad(d, s),
                 toServer' = [toServer EXCEPT ![d] = @ \o AddedMsgs(d, j, Missing(d, s, j))]
          PROVE  Result
      <4> DEFINE k == Missing(d, s, j)
                 a == AddedMsgs(d, j, k)
      <4>1. j \in Pads
        BY DEF LocalPadToInGamePad
      <4>2. k \in Nat /\ a \in Seq(Messages) /\ Len(a) = k
        <5>1. cpu[d] # "off"
          BY <2>0, <2>7
        <5> QED
          BY <1>0, <1>1, <4>1, <5>1, AddedTypes
      <4>4. \A h \in 1 .. k : /\ a[h].type = "PAD" /\ a[h].pad = j
                              /\ a[h].state[1] = session[d] /\ a[h].state[2] = pushed[d][j] + h
        BY DEF AddedMsgs
      <4> HIDE DEF k, a
      <4>5. toServer'[d] = r \o a
        BY <1>1, <2>1, <3>5 DEF k, a
      <4>6. CASE session[d] = g /\ j = i
        <5>1. PICK n \in Nat : ports[d] = 0 .. n - 1
          BY <1>3, <4>6
        <5>2. Given(d, i)' = p + k
          BY <1>0, <1>1, <1>3, <1>11, <2>7, <4>6, <5>1, PollsPort DEF k
        <5>3. pushed[d][j] = p
          BY <4>6 DEF Given
        <5>4. \A h \in 1 .. Len(a) : StateAt(a[h], i, g) /\ a[h].state[2] = p + h
          BY <4>2, <4>4, <4>6, <5>3 DEF StateAt
        <5>5. Way(t, b, q, r \o a, p + Len(a), i, g)
          BY <1>5, <1>6, <4>2, <5>4, WayPolled
        <5> QED
          BY <3>2, <4>2, <4>5, <5>2, <5>5
      <4>7. CASE session[d] # g \/ j # i
        <5>1. \A h \in 1 .. Len(a) : ~StateAt(a[h], i, g)
          BY <4>2, <4>4, <4>7 DEF StateAt
        <5>2. Way(t, b, q, r \o a, p, i, g)
          BY <1>5, <1>6, <4>2, <5>1, WayPolled
        <5>3. Given(d, i)' = p
          <6>1. CASE session[d] # g
            BY <1>b, <6>1
          <6>2. CASE j # i
            <7>1. i \notin LocalPadToInGamePad(d, s)
              BY <6>2, OnePad
            <7> QED
              BY <3>3, <7>1
          <6> QED
            BY <4>7, <6>1, <6>2
        <5> QED
          BY <3>2, <4>5, <5>2, <5>3
      <4> QED
        BY <4>6, <4>7
    <3> QED
      BY <1>1, <2>0, <2>7, <3>4, <3>5
  <2> QED
    BY <2>5, <2>6, <2>7
<1>12. ASSUME NEW e \in Players, Takes(e) PROVE Result
  <2>1. cpu[e] = "take" /\ UNCHANGED <<toClient, toServer, pushed, session>>
    BY <1>12 DEF Takes
  <2>2. Given(d, i)' = p
    BY <1>1, <2>1 DEF Given
  <2>3. CASE e # c
    <3>1. /\ m_pad_buffer' = [m_pad_buffer EXCEPT ![e][slot[e]] = Tail(@)]
          /\ \/ slot' = [slot EXCEPT ![e] = 0] /\ polled' = [polled EXCEPT ![e] = @ + 1]
             \/ slot' = [slot EXCEPT ![e] = @ + 1] /\ polled' = polled
      BY <1>12 DEF Takes
    <3>2. /\ slot \in [Players -> Pads] /\ m_pad_buffer \in [Players -> [Pads -> Seq(PadStates)]]
          /\ polled \in [Players -> Nat]
      BY <1>0 DEF TypeOK
    <3>3. UNCHANGED <<m_pad_buffer[c], slot[c], polled[c]>>
      BY <1>1, <2>3, <3>1, <3>2
    <3>4. Rest
      BY <1>1, <2>1, <2>2, <3>3 DEF Taken, Held
    <3> QED
      BY <1>6, <1>8, <2>1, <3>4
  <2>4. CASE e = c /\ session[c] # g
    <3>1. Rest
      BY <1>a, <2>2, <2>4
    <3> QED
      BY <1>6, <1>8, <2>1, <3>1
  <2>5. CASE e = c /\ session[c] = g
    <3>1. PICK n \in Nat : ports[c] = 0 .. n - 1 /\ \A k \in Pads : s_pad_map[k] # Nobody <=> k \in 0 .. n - 1
      BY <1>2, <2>5
    <3>2. i \in ports[c] /\ slot[c] \in ports[c]
      BY <1>1, <1>2, <1>4, <2>1, <2>5, <3>1
    <3>3. /\ b # <<>> \/ slot[c] # i
          /\ Held(c, i)' = IF i = slot[c] THEN Tail(b) ELSE b
          /\ Taken(c, i)' = IF i = slot[c] THEN t + 1 ELSE t
      BY <1>0, <1>1, <1>12, <2>5, <3>1, <3>2, TakesState
    <3>4. CASE slot[c] = i
      <4>1. Way(t + 1, Tail(b), q, r, p, i, g)
        BY <1>5, <1>6, <3>3, <3>4, WayTaken
      <4> QED
        BY <2>1, <2>2, <3>3, <3>4, <4>1
    <3>5. CASE slot[c] # i
      BY <1>6, <2>1, <2>2, <3>3, <3>5
    <3> QED
      BY <3>4, <3>5
  <2> QED
    BY <2>3, <2>4, <2>5
<1>13. CASE /\ \A e \in Players : ~Relays(e) /\ ~GetsState(e) /\ ~Takes(e)
            /\ \A e \in Players : \A s \in Pads : ~Polls(e, s)
  <2>1. Rest
    <3>1. UNCHANGED <<Taken(c, i), Held(c, i)>>
      BY <1>1, <1>13, <1>a
    <3>2. UNCHANGED Given(d, i)
      BY <1>1, <1>13, <1>b
    <3> QED
      BY <3>1, <3>2
  <2>2. \/ toClient'[c] = q
        \/ q # <<>> /\ toClient'[c] = Tail(q) /\ ~StateAt(Head(q), i, g)
        \/ \E m \in Messages : toClient'[c] = Append(q, m) /\ ~StateAt(m, i, g)
    <3>1. \/ toClient'[c] = q
          \/ /\ GetsMap(c) \/ GetsSize(c) \/ GetsStart(c) \/ GetsStop(c) \/ GetsDisable(c)
             /\ q # <<>> /\ toClient'[c] = Tail(q)
          \/ \E m \in Messages : /\ toClient'[c] = Append(q, m)
                                 /\ m.type = "MAPPING" \/ m.type = "BUFFER" \/ m.type = "START"
      <4>1. s_players \subseteq Players
        BY <1>0 DEF TypeOK
      <4> QED
        BY <1>0, <1>1, <1>13, <4>1, ClientChannel
    <3>2. ASSUME GetsMap(c) \/ GetsSize(c) \/ GetsStart(c) \/ GetsStop(c) \/ GetsDisable(c)
          PROVE  ~StateAt(Head(q), i, g)
      BY <3>2 DEF GetsMap, GetsSize, GetsStart, GetsStop, GetsDisable, StateAt
    <3> QED
      BY <3>1, <3>2 DEF StateAt
  <2>3. \/ toServer'[d] = r
        \/ r # <<>> /\ toServer'[d] = Tail(r) /\ ~StateAt(Head(r), i, g)
        \/ \E m \in Messages : toServer'[d] = Append(r, m) /\ ~StateAt(m, i, g)
    <3>1. \/ toServer'[d] = r
          \/ Ignores(d) /\ r # <<>> /\ toServer'[d] = Tail(r)
          \/ HearsStart(d) /\ r # <<>> /\ toServer'[d] = Tail(r)
          \/ toServer'[d] = Append(r, Stop)
          \/ toServer'[d] = Append(r, Start(m_current_game[d])) /\ Start(m_current_game[d]) \in Messages
      <4>1. ~HearsStop(d)
        BY DEF HearsStop
      <4> QED
        BY <1>0, <1>1, <1>13, <4>1, ServerChannel
    <3>2. ASSUME Ignores(d) PROVE ~StateAt(Head(r), i, g)
      <4>1. r # <<>> /\ current_game[d] # g
        BY <3>2 DEF Ignores
      <4>2. 1 \in DOMAIN r /\ Head(r) = r[1] /\ DOMAIN r \subseteq Nat \ {0}
        BY <1>5, <4>1, Tailed
      <4>3. ~ \E j \in DOMAIN r : j < 1
        BY <4>2
      <4> QED
        BY <1>1, <4>1, <4>2, <4>3 DEF Answers, StateAt
    <3>3. ASSUME HearsStart(d) PROVE ~StateAt(Head(r), i, g)
      BY <3>3 DEF HearsStart, StateAt
    <3>4. Stop \in Messages /\ ~StateAt(Stop, i, g) /\ ~StateAt(Start(m_current_game[d]), i, g)
      BY NewMessages DEF StateAt, Start
    <3> QED
      BY <3>1, <3>2, <3>3, <3>4
  <2>4. Way(t, b, toClient'[c], toServer'[d], p, i, g)
    <3> DEFINE q1 == toClient'[c]
               r1 == toServer'[d]
    <3>1. /\ \/ q1 = q
             \/ q # <<>> /\ q1 = Tail(q) /\ ~StateAt(Head(q), i, g)
             \/ \E m \in Messages : q1 = Append(q, m) /\ ~StateAt(m, i, g)
          /\ \/ r1 = r
             \/ r # <<>> /\ r1 = Tail(r) /\ ~StateAt(Head(r), i, g)
             \/ \E m \in Messages : r1 = Append(r, m) /\ ~StateAt(m, i, g)
      BY <2>2, <2>3
    <3> HIDE DEF q1, r1, q, r
    <3>2. Way(t, b, q1, r1, p, i, g)
      BY <1>5, <1>6, <3>1, WayQuiet
    <3> QED
      BY <3>2 DEF q1, r1
  <2> QED
    BY <1>7, <1>8, <2>1, <2>4
<1> QED
  BY <1>7, <1>9, <1>10, <1>11, <1>12, <1>13
-----------------------------------------------------------------------------
(* The states flow                                                         *)

LEMMA FlowNext ==
  ASSUME IInv, TypeOK', [Next]_vars
  PROVE  Flow'
<1> SUFFICES ASSUME s_running', NEW c \in s_players', InStep(c)'
             PROVE  /\ session'[c] = s_game' /\ (slot'[c] # 0 \/ cpu'[c] = "take") => slot'[c] \in ports'[c]
                    /\ \A i \in Pads : \A d \in s_players' :
                         InStep(d)' /\ s_pad_map'[i] = d => OnItsWay(c, d, i)'
  BY DEF Flow
<1>0. TypeOK /\ Numbers
  BY DEF IInv
<1>1. CASE Starts
  <2>1. s_game' = s_game + 1 /\ UNCHANGED <<session, toClient, toServer>> /\ s_game \in Nat
    BY <1>0, <1>1 DEF Starts, TypeOK
  <2>2. \A e \in Players : session'[e] # s_game'
    <3>1. \A e \in Players : session[e] <= s_game /\ session[e] \in Nat
      BY <1>0 DEF Numbers, TypeOK
    <3> QED
      BY <2>1, <3>1
  <2>3. ASSUME NEW i \in Pads, NEW d \in s_players' PROVE OnItsWay(c, d, i)'
    <3> DEFINE g == s_game'
               q == toClient'[c]
               r == toServer'[d]
    <3>1. c \in Players /\ d \in Players /\ q \in Seq(Messages) /\ r \in Seq(Messages)
      BY DEF TypeOK
    <3>2. UpTo(q, s_game) /\ UpTo(r, s_game)
      BY <1>0, <2>1, <3>1 DEF Numbers
    <3>3. Taken(c, i)' = 0 /\ Held(c, i)' = <<>> /\ Given(d, i)' = 0
      BY <2>2, <3>1 DEF Taken, Held, Given
    <3>4. g = s_game + 1
      BY <2>1
    <3> HIDE DEF g, q, r
    <3>5. ASSUME NEW a \in Seq(Messages), UpTo(a, s_game) PROVE Carries(a, i, g, 0, 0)
      <4>1. ASSUME NEW j \in DOMAIN a PROVE ~StateAt(a[j], i, g)
        <5> DEFINE m == a[j]
        <5>1. m \in Messages /\ NoLater(m, s_game)
          BY <3>5, <4>1, SeqTypes DEF UpTo, In
        <5> HIDE DEF m
        <5>2. m.type = "PAD" => m.state[1] \in Nat /\ m.state[1] <= s_game
          BY <5>1, MessageTypes DEF NoLater
        <5>3. ~StateAt(m, i, g)
          BY <2>1, <3>4, <5>2 DEF StateAt
        <5> QED
          BY <5>3 DEF m
      <4> QED
        BY <4>1, CarriesNone
    <3>6. Carries(q, i, g, 0, 0) /\ Carries(r, i, g, 0, 0)
      BY <3>1, <3>2, <3>5
    <3>7. Run(g, 0, 0) = <<>>
      BY Runs
    <3> QED
      BY <3>3, <3>6, <3>7 DEF OnItsWay, g, q, r
  <2>4. c \in Players
    BY DEF TypeOK
  <2> QED
    BY <2>2, <2>3, <2>4
<1>2. CASE ~Starts
  <2>1. session'[c] = s_game' /\ (slot'[c] # 0 \/ cpu'[c] = "take") => slot'[c] \in ports'[c]
    BY <1>2, SlotNext
  <2>2. ASSUME NEW i \in Pads, NEW d \in s_players', InStep(d)', s_pad_map'[i] = d PROVE OnItsWay(c, d, i)'
    <3>1. CASE c = d
      BY <1>2, <2>2, <3>1, OwnWay
    <3>2. CASE c # d
      BY <1>2, <2>2, <3>2, OtherWay
    <3> QED
      BY <3>1, <3>2
  <2> QED
    BY <2>1, <2>2
<1> QED
  BY <1>1, <1>2

-----------------------------------------------------------------------------
(* The theorems                                                            *)

LEMMA FirstInvariant ==
  ASSUME Init
  PROVE  IInv
<1>1. TypeOK /\ KindsOK
  BY TypesFirst
<1>2. Members /\ Numbers
  <2>1. 0 \in Int /\ 0 <= 0
    OBVIOUS
  <2>2. \A c \in Players : In(toClient[c]) = {} /\ In(toServer[c]) = {}
    BY DEF Init, In
  <2>3. Members
    BY DEF Init, Members, NoMap
  <2> QED
    BY <2>1, <2>2, <2>3 DEF Init, Numbers, UpTo
<1>3. ~HasStart(s_async_queue)
  BY EmptyMarks DEF Init
<1>4. s_players = {} /\ ~s_running
  BY DEF Init
<1>5. Announced /\ Alternate /\ HostKnows /\ Joining /\ Answered /\ StartsOnce /\ Flow
  BY <1>3, <1>4 DEF Announced, Alternate, HostKnows, Joining, Answered, StartsOnce, Flow
<1>6. \A c \in Players : UpdateDevices(NoMap, c) = {}
  <2> SUFFICES ASSUME NEW c \in Players PROVE UpdateDevices(NoMap, c) = {}
    OBVIOUS
  <2>1. c # Nobody
    BY NetPlayAssumption DEF Nobody
  <2>2. {i \in Pads : NoMap[i] = c} = {} /\ {k \in Pads : NoMap[k] \notin {c, Nobody}} = {}
    BY <2>1 DEF NoMap
  <2>3. Cardinality({}) = 0 /\ 0 .. 0 - 1 = {}
    BY FS_EmptySet
  <2> QED
    BY <2>2, <2>3 DEF UpdateDevices
<1>7. Mapped
  BY <1>4, <1>6 DEF Init, Mapped
<1> QED
  BY <1>1, <1>2, <1>5, <1>7 DEF IInv

LEMMA NextInvariant ==
  ASSUME IInv, [Next]_vars
  PROVE  IInv'
<1>1. TypeOK' /\ KindsOK'
  BY TypesNext DEF IInv
<1>2. Members' /\ Numbers' /\ Announced'
  BY <1>1, MembersNext, NumbersNext, AnnouncedNext DEF IInv
<1>3. Alternate' /\ HostKnows'
  BY <1>1, AlternateNext DEF IInv
<1>4. Mapped' /\ Joining'
  BY <1>1, MappedNext, JoiningNext DEF IInv
<1>5. Answered' /\ StartsOnce'
  BY <1>1, AnsweredNext, StartsOnceNext DEF IInv
<1>6. Flow'
  BY <1>1, FlowNext
<1> QED
  BY <1>1, <1>2, <1>3, <1>4, <1>5, <1>6 DEF IInv

\* A machine polls a port that has a pad, and the buffer holds the states that its owner has given next.
LEMMA TakesInStep ==
  ASSUME IInv
  PROVE  Lockstep
<1> SUFFICES ASSUME s_running, NEW c \in s_players, Playing(c), cpu[c] = "take", m_pad_buffer[c][slot[c]] # <<>>,
                    InStep(c), InStep(s_pad_map[slot[c]])
             PROVE  Head(m_pad_buffer[c][slot[c]]) = <<s_game, polled[c] + 1>>
  BY DEF Lockstep
<1> DEFINE i == slot[c]
           t == Taken(c, i)
<1>0. TypeOK /\ Members /\ Announced /\ Mapped /\ Joining /\ StartsOnce /\ Flow
  BY DEF IInv
<1>1. session[c] = s_game /\ c \in Players /\ slot \in [Players -> Pads] /\ polled[c] \in Nat
  BY <1>0 DEF Playing, TypeOK
<1>2. m_pad_map[c] = s_pad_map
  BY <1>0, <1>1, Settled
<1>3. i \in ports[c] /\ i \in Pads
  BY <1>0, <1>1 DEF Flow
<1>4. PICK n \in 0 .. NPads : ports[c] = 0 .. n - 1 /\ \A k \in Pads : s_pad_map[k] # Nobody <=> k \in 0 .. n - 1
  BY <1>0, <1>2, SettledPorts
<1>5. s_pad_map[i] \in s_players
  BY <1>0, <1>3, <1>4 DEF Members
<1>6. OnItsWay(c, s_pad_map[i], i)
  BY <1>0, <1>3, <1>5 DEF Flow
<1>7. PICK x \in Nat : t <= x /\ m_pad_buffer[c][i] = Run(s_game, t, x)
  BY <1>1, <1>6 DEF OnItsWay, Held
<1>8. t = polled[c] /\ t \in Nat
  <2>1. i \in Int
    BY <1>3 DEF Pads
  <2> QED
    BY <1>1, <2>1 DEF Taken
<1>9. Head(Run(s_game, t, x)) = <<s_game, t + 1>>
  <2>1. Run(s_game, t, x) # <<>>
    BY <1>7
  <2> HIDE DEF t
  <2> QED
    BY <1>7, <1>8, <2>1, RunShrunk
<1> QED
  BY <1>7, <1>8, <1>9

\* What is on its way is one run of states.
LEMMA NothingLost ==
  ASSUME IInv
  PROVE  NoInputLost
<1> SUFFICES ASSUME s_running, NEW c \in s_players, NEW d \in s_players, NEW i \in Pads,
                    Playing(c), Playing(d), InStep(c), InStep(d), s_pad_map[i] = d, c # d
             PROVE  LET taken == polled[c] + (IF slot[c] > i THEN 1 ELSE 0) IN
                    m_pad_buffer[c][i] \o StatesOf(i, toClient[c]) \o StatesOf(i, toServer[d])
                    = [k \in 1 .. pushed[d][i] - taken |-> <<s_game, taken + k>>]
  BY ZenonT(90) DEF NoInputLost
<1> DEFINE t == Taken(c, i)
           p == pushed[d][i]
           g == s_game
<1>0. session[c] = g /\ session[d] = g
  BY DEF Playing
<1>1. /\ c \in Players /\ d \in Players /\ toClient[c] \in Seq(Messages) /\ toServer[d] \in Seq(Messages)
      /\ p \in Nat /\ g \in Nat
  BY DEF IInv, TypeOK
<1>2. t \in Nat /\ t = polled[c] + (IF slot[c] > i THEN 1 ELSE 0)
  BY <1>0, <1>1, FlowTypes DEF IInv, Taken
<1>3. OnItsWay(c, d, i)
  BY DEF IInv, Flow
<1>4. PICK x \in Nat, y \in Nat : /\ t <= x /\ x <= y /\ y <= p
                                  /\ m_pad_buffer[c][i] = Run(g, t, x)
                                  /\ Carries(toClient[c], i, g, x, y) /\ Carries(toServer[d], i, g, y, p)
  BY <1>0, <1>3 DEF OnItsWay, Held, Given
<1>5. StatesOf(i, toClient[c]) = Run(g, x, y)
  BY <1>1, <1>4, StatesAre
<1>6. StatesOf(i, toServer[d]) = Run(g, y, p)
  BY <1>1, <1>4, StatesAre
<1> HIDE DEF t, p, g
<1>7. t \in Nat /\ p \in Nat /\ t <= x /\ x <= y /\ y <= p /\ t <= y
  BY <1>1, <1>2, <1>4
<1>8. Run(g, t, x) \o Run(g, x, y) = Run(g, t, y)
  BY <1>7, RunJoined
<1>9. Run(g, t, y) \o Run(g, y, p) = Run(g, t, p)
  BY <1>7, RunJoined
<1>10. Run(g, t, p) = [k \in 1 .. p - t |-> <<g, t + k>>]
  BY DEF Run
<1>11. m_pad_buffer[c][i] \o StatesOf(i, toClient[c]) \o StatesOf(i, toServer[d])
       = [k \in 1 .. p - t |-> <<g, t + k>>]
  BY <1>4, <1>5, <1>6, <1>8, <1>9, <1>10
<1> QED
  BY <1>2, <1>11 DEF p, g

\* The inductive invariant, for every order in which the server, the network threads, the GUIs and the
\* machines act (NetPlayServer.cpp and NetPlayClient.cpp); a client whom messages of a game have
\* overtaken is excepted in StartsOnce and Flow.
THEOREM Invariant == Spec => []IInv
<1>1. Init => IInv
  BY FirstInvariant
<1>2. IInv /\ [Next]_vars => IInv'
  BY NextInvariant
<1> QED
  BY <1>1, <1>2, PTL DEF Spec

\* The machines take the same states (GetNetPads() in NetPlayClient.cpp, OnData() in NetPlayServer.cpp).
THEOREM PlayersInLockstep == Spec => []Lockstep
<1>1. IInv => Lockstep
  BY TakesInStep
<1> QED
  BY <1>1, Invariant, PTL

\* No state is lost, doubled or overtaken on its way (OnData() in NetPlayClient.cpp and NetPlayServer.cpp).
THEOREM InputsArrive == Spec => []NoInputLost
<1>1. IInv => NoInputLost
  BY NothingLost
<1> QED
  BY <1>1, Invariant, PTL

=============================================================================
