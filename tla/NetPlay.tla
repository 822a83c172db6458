------------------------------ MODULE NetPlay ------------------------------
(***************************************************************************)
(* A game played over the network (Core/NetPlayClient.cpp,                 *)
(* Core/NetPlayServer.cpp): every player runs the whole machine, and the   *)
(* machines stay equal because each poll of a controller takes the next    *)
(* state from a buffer that its owner fills and the server relays.         *)
(*                                                                         *)
(* A client has three threads: the network thread, the GUI, to which the   *)
(* network thread posts what it may not do itself, and the CPU thread of   *)
(* the machine.  The server has a network thread and the host's GUI.       *)
(* ENet's reliable channels deliver in order until the connection is lost; *)
(* a client's m_async_queue is part of its channel to the server.          *)
(*                                                                         *)
(* Left out: chat, pings, names, game choice, SRAM, Wiimotes, movies, the  *)
(* comparison of time bases, and how a connection is brought about.        *)
(***************************************************************************)
EXTENDS Integers, Sequences, FiniteSets

CONSTANTS
  Players,       \* player ids; the host's own client has 1
  NPads,         \* controllers of the machine
  Maps,          \* what the host may assign in the dialog
  Targets,       \* buffer sizes the host may choose
  MaxGames, MaxPolls,   \* bounds: games, and polls of all ports in each game
  Leavers, Stoppers     \* whose connection may break, who may stop his machine

Host == 1
Nobody == -1
Pads == 0 .. NPads - 1
PadMaps == [Pads -> Players \cup {Nobody}]

ASSUME NetPlayAssumption ==
  /\ Players \subseteq Nat \ {0} /\ Host \in Players
  /\ NPads \in 1 .. 4
  /\ Maps \subseteq PadMaps
  /\ Targets \subseteq Nat /\ Targets # {}
  /\ MaxGames \in Nat /\ MaxPolls \in [1 .. MaxGames -> Nat]
  /\ Leavers \subseteq Players \ {Host} /\ Stoppers \subseteq Players

VARIABLES
  s_players,             \* the server's m_players
  s_pad_map, s_target,   \* its m_pad_map and m_target_buffer_size
  s_game, s_running,     \* its m_current_game and m_is_running
  s_async_queue,
  current_game,          \* Client::current_game
  startable,             \* the host's buttons are enabled
  toServer, toClient,    \* channels
  link,                  \* a client's connection: "none", "up", "lost"
  m_current_game, m_is_running, m_pad_map, m_target_buffer_size, m_pad_buffer,
  netplay_client,        \* the pointer is set
  disabling,             \* threads in NetPlay_Disable()
  gui,                   \* events posted to the GUI
  ports,                 \* ports with a controller
  cpu, slot,             \* where the CPU thread is, and the port it polls next
  stopping,              \* the machine has been told to stop
  session, pushed, polled,  \* the game it plays, states pushed for each pad, polls of all ports
  overtaken              \* history: <<c, g>> if something of game g came to c before c's GUI had
                         \* done what came before it

server == <<s_players, s_pad_map, s_target, s_game, s_running, s_async_queue, current_game>>
channels == <<toServer, toClient, link>>
settings == <<m_current_game, m_pad_map, m_target_buffer_size, ports>>
runState == <<m_is_running, netplay_client, disabling, gui>>
machine == <<cpu, slot, stopping, session, pushed, polled>>
vars == <<server, startable, channels, settings, runState, m_pad_buffer, machine, overtaken>>

\* A controller state is the how-manieth of which game it is.
PadStates == (1 .. MaxGames) \X Nat
PadMsgs == [type : {"PAD"}, pad : Pads, state : PadStates]
Messages == PadMsgs
  \cup [type : {"START"}, game : 1 .. MaxGames]
  \cup [type : {"STOP", "DISABLE"}]
  \cup [type : {"BUFFER"}, size : Targets]
  \cup [type : {"MAPPING"}, map : PadMaps]

TypeOK ==
  /\ s_players \subseteq Players /\ s_pad_map \in PadMaps /\ s_target \in Targets
  /\ s_game \in 0 .. MaxGames /\ s_running \in BOOLEAN /\ startable \in BOOLEAN
  /\ s_async_queue \in Seq(Messages)
  /\ current_game \in [Players -> 0 .. MaxGames]
  /\ toServer \in [Players -> Seq(Messages)] /\ toClient \in [Players -> Seq(Messages)]
  /\ link \in [Players -> {"none", "up", "lost"}]
  /\ m_current_game \in [Players -> 0 .. MaxGames]
  /\ m_is_running \in [Players -> BOOLEAN] /\ netplay_client \in [Players -> BOOLEAN]
  /\ m_pad_map \in [Players -> PadMaps]
  /\ m_target_buffer_size \in [Players -> Targets]
  /\ m_pad_buffer \in [Players -> [Pads -> Seq(PadStates)]]
  /\ disabling \in [Players -> SUBSET {"net", "gui"}]
  /\ gui \in [Players -> Seq({"start", "stop"})]
  /\ ports \in [Players -> SUBSET Pads]
  /\ cpu \in [Players -> {"off", "guest", "take"}]
  /\ slot \in [Players -> Pads] /\ stopping \in [Players -> BOOLEAN]
  /\ session \in [Players -> 0 .. MaxGames]
  /\ pushed \in [Players -> [Pads -> Nat]] /\ polled \in [Players -> Nat]
  /\ overtaken \subseteq Players \X (0 .. MaxGames)

NoMap == [i \in Pads |-> Nobody]
Empty == [i \in Pads |-> <<>>]
Zero == [i \in Pads |-> 0]

Init ==
  /\ s_players = {} /\ s_pad_map = NoMap /\ s_target \in Targets /\ (\A n \in Targets : s_target <= n)
  /\ s_game = 0 /\ s_running = FALSE /\ s_async_queue = <<>>
  /\ current_game = [c \in Players |-> 0] /\ startable = TRUE
  /\ toServer = [c \in Players |-> <<>>] /\ toClient = toServer
  /\ link = [c \in Players |-> "none"]
  /\ m_current_game = [c \in Players |-> 0] /\ m_is_running = [c \in Players |-> FALSE]
  /\ m_pad_map = [c \in Players |-> NoMap] /\ m_target_buffer_size = [c \in Players |-> s_target]
  /\ m_pad_buffer = [c \in Players |-> Empty]
  /\ netplay_client = [c \in Players |-> FALSE] /\ disabling = [c \in Players |-> {}]
  /\ gui = [c \in Players |-> <<>>] /\ ports = [c \in Players |-> {}]
  /\ cpu = [c \in Players |-> "off"] /\ slot = [c \in Players |-> 0]
  /\ stopping = [c \in Players |-> FALSE] /\ session = [c \in Players |-> 0]
  /\ pushed = [c \in Players |-> Zero] /\ polled = [c \in Players |-> 0] /\ overtaken = {}

-----------------------------------------------------------------------------
(* Pads and ports *)

\* The pad of the game that is the local pad in this port, if there is one.
LocalPadToInGamePad(c, port) ==
  {i \in Pads : /\ m_pad_map[c][i] = c
                /\ Cardinality({j \in 0 .. i - 1 : m_pad_map[c][j] = c}) = port}

\* The local pads come first, then those of the others, with holes for unassigned ones.
UpdateDevices(map, c) ==
  LET own == Cardinality({i \in Pads : map[i] = c}) IN
  (0 .. own - 1) \cup
  {own + Cardinality({j \in 0 .. i - 1 : map[j] # c}) : i \in {k \in Pads : map[k] \notin {c, Nobody}}}

NoGaps(map) == \A i, j \in Pads : i < j /\ map[j] # Nobody => map[i] # Nobody

-----------------------------------------------------------------------------
(* The server *)

Mapping(map) == [type |-> "MAPPING", map |-> map]
Buffer(n) == [type |-> "BUFFER", size |-> n]
Start(g) == [type |-> "START", game |-> g]
Stop == [type |-> "STOP"]
Disable == [type |-> "DISABLE"]

\* The channels to the clients after those in `to' have been sent the messages.
SendToClients(to, msgs) == [c \in Players |-> IF c \in to THEN toClient[c] \o msgs ELSE toClient[c]]

\* A bound: players join, and the host changes settings, when the last change has arrived.
Arrived == s_async_queue = <<>> /\ \A c \in Players : toClient[c] = <<>>

\* Connections and disconnections exclude StartGame() (m_crit.game), and none is made during a
\* game.  A new client gets the first free id, and the first free pad.
OnConnect(p) ==
  /\ p \notin s_players /\ \A q \in Players : q < p => q \in s_players
  /\ ~s_running /\ Arrived /\ s_game < MaxGames
  /\ link[p] = "none" /\ cpu[p] = "off" /\ gui[p] = <<>> /\ disabling[p] = {}
  /\ s_players' = s_players \cup {p}
  /\ s_pad_map' = [i \in Pads |->
       IF s_pad_map[i] = Nobody /\ \A j \in Pads : j < i => s_pad_map[j] # Nobody
       THEN p ELSE s_pad_map[i]]
  /\ toClient' = [SendToClients(s_players, <<Mapping(s_pad_map')>>) EXCEPT
                    ![p] = <<Buffer(s_target), Mapping(s_pad_map')>>]
  /\ toServer' = [toServer EXCEPT ![p] = <<>>]
  /\ link' = [link EXCEPT ![p] = "up"]
  /\ m_is_running' = [m_is_running EXCEPT ![p] = FALSE]
  /\ m_pad_buffer' = [m_pad_buffer EXCEPT ![p] = Empty]
  /\ UNCHANGED <<s_target, s_game, s_running, s_async_queue, current_game, startable, overtaken,
                 settings, netplay_client, disabling, gui, machine>>

OnDisconnect_TellsTheHost(p) ==
  LET inGame == s_running /\ p # Host /\ \E i \in Pads : s_pad_map[i] = p
      others == s_players \ {p}
      told == [c \in Players |-> IF inGame /\ c = Host THEN <<Disable>> ELSE <<>>] IN
  /\ s_players' = others
  /\ s_running' = (s_running /\ ~inGame)
  /\ s_pad_map' = [i \in Pads |-> IF s_pad_map[i] = p THEN Nobody ELSE s_pad_map[i]]
  /\ toClient' = [c \in Players |->
       IF c = p THEN <<>>
       ELSE IF c \in others THEN toClient[c] \o told[c] \o <<Mapping(s_pad_map')>>
       ELSE toClient[c]]
  /\ toServer' = [toServer EXCEPT ![p] = <<>>]
  /\ link' = [link EXCEPT ![p] = "lost"]
  /\ UNCHANGED <<s_target, s_game, s_async_queue, current_game>>

\* The others are told to go on without NetPlay if a player leaves during the game, but not
\* the host's client.
OnDisconnect(p) ==
  LET inGame == s_running /\ p # Host /\ \E i \in Pads : s_pad_map[i] = p
      others == s_players \ {p}
      told == [c \in Players |-> IF inGame /\ c # Host THEN <<Disable>> ELSE <<>>] IN
  /\ s_players' = others
  /\ s_running' = (s_running /\ ~inGame)
  /\ s_pad_map' = [i \in Pads |-> IF s_pad_map[i] = p THEN Nobody ELSE s_pad_map[i]]
  /\ toClient' = [c \in Players |->
       IF c = p THEN <<>>
       ELSE IF c \in others THEN toClient[c] \o told[c] \o <<Mapping(s_pad_map')>>
       ELSE toClient[c]]
  /\ toServer' = [toServer EXCEPT ![p] = <<>>]
  /\ link' = [link EXCEPT ![p] = "lost"]
  /\ UNCHANGED <<s_target, s_game, s_async_queue, current_game>>

\* The connection breaks, the player closes the window, or the host kicks him.
Disconnect(p) ==
  /\ p \in s_players \cap Leavers
  /\ OnDisconnect(p)
  /\ UNCHANGED <<startable, overtaken, settings, runState, m_pad_buffer, machine>>

SetPadMapping(map) ==
  /\ s_pad_map' = map
  /\ toClient' = SendToClients(s_players, <<Mapping(map)>>)
  /\ UNCHANGED <<s_players, s_target, s_game, s_running, s_async_queue, current_game, startable,
                 overtaken, toServer, link, settings, runState, m_pad_buffer, machine>>

AdjustPadBufferSize(n) ==
  /\ s_target' = n
  /\ s_async_queue' = Append(s_async_queue, Buffer(n))
  /\ UNCHANGED <<s_players, s_pad_map, s_game, s_running, current_game, startable, overtaken,
                 channels, settings, runState, m_pad_buffer, machine>>

StartGame ==
  /\ s_game' = s_game + 1
  /\ s_async_queue' = s_async_queue \o <<Buffer(s_target), Start(s_game')>>
  /\ s_running' = TRUE
  /\ UNCHANGED <<s_players, s_pad_map, s_target, current_game, startable, overtaken, channels,
                 settings, runState, m_pad_buffer, machine>>

\* The buttons are disabled when the host's own client is told of the game, and enabled
\* when it is told of the end.  The host does not press a second time meanwhile.
HostIsIdle ==
  /\ startable /\ Host \in s_players
  /\ \A g \in 1 .. MaxGames :
       /\ \A i \in DOMAIN s_async_queue : s_async_queue[i] # Start(g)
       /\ \A i \in DOMAIN toClient[Host] : toClient[Host][i] # Start(g)

\* The host starts a game only when no unassigned pad precedes an assigned one, and enlarges
\* the buffer, which may be done at any time, only during a game (a bound).
HostGUI ==
  \/ HostIsIdle /\ s_game < MaxGames /\ s_players = Players /\ NoGaps(s_pad_map) /\ StartGame
  \/ HostIsIdle /\ Arrived /\ \E map \in Maps :
       (\A i \in Pads : map[i] \in s_players \cup {Nobody}) /\ map # s_pad_map /\ SetPadMapping(map)
  \/ Arrived /\ s_running /\ \E n \in Targets : n > s_target /\ AdjustPadBufferSize(n)

SendAsyncToClients ==
  /\ s_async_queue # <<>>
  /\ toClient' = SendToClients(s_players, <<Head(s_async_queue)>>)
  /\ s_async_queue' = Tail(s_async_queue)
  /\ UNCHANGED <<s_players, s_pad_map, s_target, s_game, s_running, current_game, startable,
                 overtaken, toServer, link, settings, runState, m_pad_buffer, machine>>

OnPadData_NoGameCheck(p, msg) ==
  \/ /\ s_pad_map[msg.pad] # p
     /\ OnDisconnect(p)
  \/ /\ s_pad_map[msg.pad] = p
     /\ toClient' = SendToClients(s_players \ {p}, <<msg>>)
     /\ toServer' = [toServer EXCEPT ![p] = Tail(@)]
     /\ UNCHANGED <<s_players, s_pad_map, s_running, link>>

\* The host's client is skipped, as it is in OnDisconnect().
OnPadData_NotToHost(p, msg) ==
  /\ current_game[p] = s_game => s_pad_map[msg.pad] = p
  /\ toClient' = IF current_game[p] = s_game
                 THEN SendToClients(s_players \ {p, Host}, <<msg>>) ELSE toClient
  /\ toServer' = [toServer EXCEPT ![p] = Tail(@)]
  /\ UNCHANGED <<s_players, s_pad_map, s_running, link>>

\* Data of the last game is ignored; data for somebody else's pad costs the connection.
OnPadData(p, msg) ==
  \/ /\ current_game[p] # s_game
     /\ UNCHANGED <<s_players, s_pad_map, s_running, toClient, link>>
     /\ toServer' = [toServer EXCEPT ![p] = Tail(@)]
  \/ /\ current_game[p] = s_game /\ s_pad_map[msg.pad] # p
     /\ OnDisconnect(p)
  \/ /\ current_game[p] = s_game /\ s_pad_map[msg.pad] = p
     /\ toClient' = SendToClients(s_players \ {p}, <<msg>>)
     /\ toServer' = [toServer EXCEPT ![p] = Tail(@)]
     /\ UNCHANGED <<s_players, s_pad_map, s_running, link>>

OnData(p) ==
  /\ p \in s_players /\ toServer[p] # <<>>
  /\ LET msg == Head(toServer[p]) IN
     \/ msg.type = "PAD" /\ OnPadData(p, msg) /\ UNCHANGED current_game
     \/ /\ msg.type = "START"
        /\ current_game' = [current_game EXCEPT ![p] = msg.game]
        /\ toServer' = [toServer EXCEPT ![p] = Tail(@)]
        /\ UNCHANGED <<s_players, s_pad_map, s_running, toClient, link>>
     \/ /\ msg.type = "STOP"
        /\ toClient' = SendToClients(s_players, <<Stop>>)
        /\ s_running' = FALSE
        /\ toServer' = [toServer EXCEPT ![p] = Tail(@)]
        /\ UNCHANGED <<s_players, s_pad_map, current_game, link>>
  /\ UNCHANGED <<s_target, s_game, s_async_queue, startable, overtaken, settings, runState,
                 m_pad_buffer, machine>>

-----------------------------------------------------------------------------
(* A client: network thread and GUI *)

\* What the network thread does with a message.
Receive(c, msg) ==
  \/ /\ msg.type = "PAD"
     /\ m_pad_buffer' = [m_pad_buffer EXCEPT ![c][msg.pad] = Append(@, msg.state)]
     /\ UNCHANGED <<startable, settings, runState>>
  \/ /\ msg.type = "MAPPING"
     /\ m_pad_map' = [m_pad_map EXCEPT ![c] = msg.map]
     /\ ports' = [ports EXCEPT ![c] = UpdateDevices(msg.map, c)]
     /\ UNCHANGED <<startable, m_current_game, m_target_buffer_size, runState, m_pad_buffer>>
  \/ /\ msg.type = "BUFFER"
     /\ m_target_buffer_size' = [m_target_buffer_size EXCEPT ![c] = msg.size]
     /\ UNCHANGED <<startable, m_current_game, m_pad_map, ports, runState, m_pad_buffer>>
  \/ /\ msg.type = "START"
     /\ m_current_game' = [m_current_game EXCEPT ![c] = msg.game]
     /\ gui' = [gui EXCEPT ![c] = Append(@, "start")]
     /\ startable' = (startable /\ c # Host)
     /\ UNCHANGED <<m_pad_map, m_target_buffer_size, ports, m_is_running, netplay_client,
                    disabling, m_pad_buffer>>
  \/ /\ msg.type = "STOP"
     /\ gui' = [gui EXCEPT ![c] = Append(@, "stop")]
     /\ startable' = (startable \/ c = Host)
     /\ UNCHANGED <<settings, m_is_running, netplay_client, disabling, m_pad_buffer>>
  \/ /\ msg.type = "DISABLE"
     /\ m_is_running' = [m_is_running EXCEPT ![c] = FALSE]
     /\ disabling' = [disabling EXCEPT ![c] = @ \cup {"net"}]
     /\ UNCHANGED <<startable, settings, netplay_client, gui, m_pad_buffer>>

\* The games for which a message comes too early: a state of a game that the machine has not been
\* started for; a start while another is unanswered; the end of a game that has not begun.
Early(c, msg) ==
  CASE msg.type = "PAD" /\ session[c] # msg.state[1] -> {msg.state[1]}
    [] msg.type = "START" /\ (\E i \in DOMAIN gui[c] : gui[c][i] = "start") -> {msg.game}
    [] msg.type = "DISABLE" /\ session[c] # s_game /\ ~s_running -> {s_game}
    [] OTHER -> {}

ClientOnData(c) ==
  /\ link[c] = "up" /\ "net" \notin disabling[c] /\ toClient[c] # <<>>
  /\ Receive(c, Head(toClient[c]))
  /\ toClient' = [toClient EXCEPT ![c] = Tail(@)]
  /\ overtaken' = overtaken \cup ({c} \X Early(c, Head(toClient[c])))
  /\ UNCHANGED <<server, toServer, link, machine>>

LostConnection_StillRunning(c) ==
  /\ link[c] = "lost" /\ "net" \notin disabling[c]
  /\ link' = [link EXCEPT ![c] = "none"]
  /\ disabling' = [disabling EXCEPT ![c] = @ \cup {"net"}]
  /\ overtaken' = overtaken \cup ({c} \X (IF session[c] # s_game THEN {s_game} ELSE {}))
  /\ UNCHANGED <<server, startable, toServer, toClient, settings, m_is_running, netplay_client,
                 gui, m_pad_buffer, machine>>

LostConnection(c) ==
  /\ link[c] = "lost" /\ "net" \notin disabling[c]
  /\ link' = [link EXCEPT ![c] = "none"]
  /\ m_is_running' = [m_is_running EXCEPT ![c] = FALSE]
  /\ disabling' = [disabling EXCEPT ![c] = @ \cup {"net"}]
  /\ overtaken' = overtaken \cup ({c} \X (IF session[c] # s_game THEN {s_game} ELSE {}))
  /\ UNCHANGED <<server, startable, toServer, toClient, settings, netplay_client, gui,
                 m_pad_buffer, machine>>

\* The CPU thread holds crit_netplay_client while it waits for a pad.
NetPlay_Disable(c, thread) ==
  /\ thread \in disabling[c] /\ cpu[c] # "take"
  /\ netplay_client' = [netplay_client EXCEPT ![c] = FALSE]
  /\ disabling' = [disabling EXCEPT ![c] = @ \ {thread}]
  /\ stopping' = [stopping EXCEPT ![c] = @ \/ (thread = "gui" /\ cpu[c] # "off")]
  /\ UNCHANGED <<server, startable, overtaken, channels, settings, m_is_running, gui,
                 m_pad_buffer, cpu, slot, session, pushed, polled>>

Send(c, msgs) ==
  toServer' = IF link[c] = "up" THEN [toServer EXCEPT ![c] = @ \o msgs] ELSE toServer

\* NetPlayClient::StartGame().  A machine that has been stopped is off by now.
StartMachine(c) ==
  /\ gui[c] # <<>> /\ Head(gui[c]) = "start" /\ "gui" \notin disabling[c]
  /\ m_is_running[c] \/ cpu[c] = "off"
  /\ gui' = [gui EXCEPT ![c] = Tail(@)]
  /\ Send(c, <<Start(m_current_game[c])>>)
  /\ IF m_is_running[c]
     THEN UNCHANGED <<m_is_running, netplay_client, m_pad_buffer, machine, ports>>
     ELSE /\ m_is_running' = [m_is_running EXCEPT ![c] = TRUE]
          /\ netplay_client' = [netplay_client EXCEPT ![c] = TRUE]
          /\ m_pad_buffer' = [m_pad_buffer EXCEPT ![c] = Empty]
          /\ ports' = [ports EXCEPT ![c] = UpdateDevices(m_pad_map[c], c)]
          /\ cpu' = [cpu EXCEPT ![c] = "guest"]
          /\ slot' = [slot EXCEPT ![c] = 0]
          /\ stopping' = [stopping EXCEPT ![c] = FALSE]
          /\ session' = [session EXCEPT ![c] = m_current_game[c]]
          /\ pushed' = [pushed EXCEPT ![c] = Zero]
          /\ polled' = [polled EXCEPT ![c] = 0]
  /\ UNCHANGED <<server, startable, overtaken, toClient, link, m_current_game, m_pad_map,
                 m_target_buffer_size, disabling>>

\* NetPlayClient::StopGame(); the rest is NetPlay_Disable().
StopMachine(c) ==
  /\ gui[c] # <<>> /\ Head(gui[c]) = "stop" /\ "gui" \notin disabling[c]
  /\ gui' = [gui EXCEPT ![c] = Tail(@)]
  /\ m_is_running' = [m_is_running EXCEPT ![c] = FALSE]
  /\ disabling' = [disabling EXCEPT ![c] = IF m_is_running[c] THEN @ \cup {"gui"} ELSE @]
  /\ UNCHANGED <<server, startable, overtaken, channels, settings, netplay_client, m_pad_buffer,
                 machine>>

\* The user stops his machine: DoStop() calls NetPlayClient::Stop(), which asks the server
\* if a pad is mapped to him.  A bound: the last game goes on.
UserStop(c) ==
  /\ c \in Stoppers /\ session[c] < MaxGames
  /\ cpu[c] # "off" /\ ~stopping[c] /\ "gui" \notin disabling[c]
  /\ stopping' = [stopping EXCEPT ![c] = TRUE]
  /\ IF m_is_running[c] /\ \E i \in Pads : m_pad_map[c][i] = c
     THEN Send(c, <<Stop>>) ELSE UNCHANGED toServer
  /\ UNCHANGED <<server, startable, overtaken, toClient, link, settings, runState, m_pad_buffer,
                 cpu, slot, session, pushed, polled>>

-----------------------------------------------------------------------------
(* A client: the CPU thread *)

\* The guest polls the next port.  With the lock, GetNetPads() first fills the buffer of the
\* local pad in this port and sends each state; the loop does not wait for anybody.
NetPlay_GetInput(c) ==
  /\ cpu[c] = "guest" /\ ~stopping[c] /\ netplay_client[c] /\ polled[c] < MaxPolls[session[c]]
  /\ \E s \in ports[c] :
       /\ s >= slot[c] /\ \A t \in ports[c] : t >= slot[c] => s <= t
       /\ slot' = [slot EXCEPT ![c] = s]
       /\ LET own == LocalPadToInGamePad(c, s)
              missing(i) == IF i \in own /\ Len(m_pad_buffer[c][i]) <= m_target_buffer_size[c]
                            THEN m_target_buffer_size[c] + 1 - Len(m_pad_buffer[c][i]) ELSE 0
              states(i) == [k \in 1 .. missing(i) |-> <<session[c], pushed[c][i] + k>>] IN
          /\ m_pad_buffer' = [m_pad_buffer EXCEPT ![c] = [i \in Pads |-> @[i] \o states(i)]]
          /\ pushed' = [pushed EXCEPT ![c] = [i \in Pads |-> @[i] + missing(i)]]
          /\ IF own = {} THEN UNCHANGED toServer
             ELSE LET i == CHOOSE j \in own : TRUE IN
                  Send(c, [k \in 1 .. missing(i) |->
                             [type |-> "PAD", pad |-> i, state |-> states(i)[k]]])
  /\ cpu' = [cpu EXCEPT ![c] = "take"]
  /\ UNCHANGED <<server, startable, overtaken, toClient, link, settings, runState, stopping,
                 session, polled>>

\* GetNetPads() returns, and the guest goes on to the next port, or the next poll.
Return(c) ==
  LET last == \A t \in ports[c] : t <= slot[c] IN
  /\ cpu' = [cpu EXCEPT ![c] = "guest"]
  /\ slot' = [slot EXCEPT ![c] = IF last THEN 0 ELSE @ + 1]
  /\ polled' = [polled EXCEPT ![c] = IF last THEN @ + 1 ELSE @]

Pop(c) ==
  /\ cpu[c] = "take" /\ m_pad_buffer[c][slot[c]] # <<>>
  /\ m_pad_buffer' = [m_pad_buffer EXCEPT ![c][slot[c]] = Tail(@)]
  /\ Return(c)
  /\ UNCHANGED <<server, startable, overtaken, channels, settings, runState, stopping, session,
                 pushed>>

GiveUp(c) ==
  /\ cpu[c] = "take" /\ m_pad_buffer[c][slot[c]] = <<>> /\ ~m_is_running[c]
  /\ Return(c)
  /\ UNCHANGED <<server, startable, overtaken, channels, settings, runState, m_pad_buffer,
                 stopping, session, pushed>>

PowerOff(c) ==
  /\ cpu[c] = "guest" /\ stopping[c]
  /\ cpu' = [cpu EXCEPT ![c] = "off"]
  /\ stopping' = [stopping EXCEPT ![c] = FALSE]
  /\ UNCHANGED <<server, startable, overtaken, channels, settings, runState, m_pad_buffer, slot,
                 session, pushed, polled>>

-----------------------------------------------------------------------------
Network(c) == ClientOnData(c) \/ LostConnection(c) \/ NetPlay_Disable(c, "net")
Gui(c) == StartMachine(c) \/ StopMachine(c) \/ NetPlay_Disable(c, "gui")
Cpu(c) == NetPlay_GetInput(c) \/ Pop(c) \/ GiveUp(c) \/ PowerOff(c)

Next ==
  \/ HostGUI \/ SendAsyncToClients
  \/ \E c \in Players :
       \/ OnConnect(c) \/ Disconnect(c) \/ OnData(c)
       \/ Network(c) \/ Gui(c) \/ UserStop(c) \/ Cpu(c)

Spec == Init /\ [][Next]_vars

\* Threads run and the network delivers; what the users do is up to them.
FairSpec ==
  /\ Spec
  /\ WF_vars(SendAsyncToClients \/ \E p \in Players : OnData(p))
  /\ \A c \in Players : WF_vars(Network(c) \/ Gui(c) \/ Cpu(c))

-----------------------------------------------------------------------------
(* Properties *)

InStep(c) == <<c, s_game>> \notin overtaken
Playing(c) == c \in s_players /\ session[c] = s_game /\ m_is_running[c]

\* Every machine takes the same states: the n-th poll of a port takes the n-th state that the
\* owner of the pad gave in this game, on each machine that is part of the game
\* (NetPlayClient.cpp:851, NetPlayServer.cpp:475).
Lockstep ==
  s_running => \A c \in s_players :
    /\ Playing(c) /\ cpu[c] = "take" /\ m_pad_buffer[c][slot[c]] # <<>>
    /\ InStep(c) /\ InStep(s_pad_map[slot[c]])
    => Head(m_pad_buffer[c][slot[c]]) = <<s_game, polled[c] + 1>>

\* The states of pad i among the messages.
StatesOf(i, messages) ==
  LET own[n \in 0 .. Len(messages)] ==
        IF n = 0 THEN <<>>
        ELSE IF /\ messages[n].type = "PAD" /\ messages[n].pad = i
                /\ messages[n].state[1] = s_game
             THEN Append(own[n - 1], messages[n].state)
        ELSE own[n - 1]
  IN  own[Len(messages)]

\* No state is lost, doubled or overtaken between the owner of a pad and another machine of the
\* same game: what the one has given and the other has not taken is on its way, in order
\* (NetPlayClient.cpp:476, NetPlayServer.cpp:475).
NoInputLost ==
  s_running => \A c, d \in s_players, i \in Pads :
    Playing(c) /\ Playing(d) /\ InStep(c) /\ InStep(d) /\ s_pad_map[i] = d /\ c # d =>
      LET taken == polled[c] + (IF slot[c] > i THEN 1 ELSE 0)
          coming == m_pad_buffer[c][i] \o StatesOf(i, toClient[c]) \o StatesOf(i, toServer[d])
      IN  coming = [k \in 1 .. pushed[d][i] - taken |-> <<s_game, taken + k>>]

\* A machine that waits for a pad goes on: the state arrives, or it is told that the game is
\* over; unless it, or a player who is still there, was overtaken and may have lost a state.  The
\* host's machine waits on if a player has left, until the user stops it (NetPlayServer.cpp:353,
\* NetPlayClient.cpp:911).
PollReturns ==
  \A c \in Players :
    cpu[c] = "take" ~>
      \/ cpu[c] # "take"
      \/ \E d \in s_players \cup {c} : <<d, session[c]>> \in overtaken
      \/ c = Host /\ s_players # Players

\* When a player with a pad has left, the machines of the others get rid of NetPlay,
\* also those that wait for the pad while they hold the lock that takes
\* (NetPlayServer.cpp:345, NetPlayClient.cpp:551 and 1200), but for those that were told of it
\* before their GUI had begun the game.
PlaysAlone ==
  s_game > 0 /\ ~s_running ~>
    s_running \/ \A c \in Players \ {Host} : ~netplay_client[c] \/ ~InStep(c)
=============================================================================
