------------------------------- MODULE Robots -------------------------------
(* The two programs of src/unittest/t_asio that drive the engine against    *)
(* each other: t_asio_client.cpp connects robots to t_asio_server.cpp, and  *)
(* each runs a loop around server_base::update() and answers packets with   *)
(* server_base::send().  Between them TCP keeps messages or breaks; packets *)
(* wait in msg_queue_, in any order.  All messages of one kind are alike,   *)
(* so that a wire and a queue are numbers of them.                          *)
EXTENDS Integers, FiniteSets

CONSTANTS Ports,     \* ports a user may enter
          MaxRobots, \* bound: robots a user asks for
          MaxCount   \* bound: packets counted between two reports

ASSUME RobotConstants == Ports \subseteq Nat /\ MaxRobots \in Nat /\ MaxCount \in Nat

Robot == 1..MaxRobots
Side  == {"client", "server"}
Msgid == {"connected", "closeed", "message"}

VARIABLES e_client,  \* "asking", "connecting", "looping", "ended"
          e_server,  \* "asking", "looping", "ended"
          e_port,    \* of each side: what was entered
          e_robots,  \* robot_count
          e_link,    \* of each robot: "none", "connected", "failed", "broken"
          e_ends,    \* of each robot: the sides that have a session for it
          e_told,    \* of each robot: the sides that were given "closeed"
          e_wire,    \* of each robot: messages on their way to each side
          e_queue,   \* of each side and robot: packets in msg_queue_ by msgid
          e_count    \* of each side: count
e_programs == <<e_client, e_server, e_port, e_robots>>
e_links == <<e_link, e_ends, e_told>>
e_vars == <<e_programs, e_links, e_wire, e_queue, e_count>>

RobotsInit == /\ e_client = "asking" /\ e_server = "asking" /\ e_port = [x \in Side |-> 0] /\ e_robots = 0
              /\ e_link = [c \in Robot |-> "none"]
              /\ e_ends = [c \in Robot |-> {}] /\ e_told = [c \in Robot |-> {}]
              /\ e_wire = [c \in Robot |-> [x \in Side |-> 0]]
              /\ e_queue = [x \in Side |-> [c \in Robot |-> [m \in Msgid |-> 0]]]
              /\ e_count = [x \in Side |-> 0]

Other(x) == IF x = "client" THEN "server" ELSE "client"
Gets(x, c, m) == [e_queue EXCEPT ![x][c][m] = @ + 1]

(* The client asks for a port and a number of robots, and connects them one after the other. *)
ClientAsks == /\ e_client = "asking"
              /\ \E p \in Ports, n \in 0..MaxRobots :
                   /\ e_port' = [e_port EXCEPT !.client = p] /\ e_robots' = n
                   /\ e_client' = IF p < 8889 \/ n = 0 THEN "ended" ELSE "connecting"
              /\ UNCHANGED <<e_server, e_links, e_wire, e_queue, e_count>>
Served == e_server = "looping" /\ e_port.server = e_port.client
NextRobot == CHOOSE c \in Robot : e_link[c] = "none" /\ \A d \in 1..(c - 1) : e_link[d] # "none"
Undone == \E c \in 1..e_robots : e_link[c] = "none"
RobotConnects == /\ e_client = "connecting" /\ Undone /\ Served
                 /\ e_link' = [e_link EXCEPT ![NextRobot] = "connected"]
                 /\ e_ends' = [e_ends EXCEPT ![NextRobot] = {"client"}]
                 /\ e_queue' = Gets("client", NextRobot, "connected")
                 /\ UNCHANGED <<e_programs, e_told, e_wire, e_count>>
(* A connect that fails closes the socket, if it has opened it; connect()'s result is not looked at. *)
RobotFails == /\ e_client = "connecting" /\ Undone
              /\ e_link' = [e_link EXCEPT ![NextRobot] = "failed"]
              /\ \/ UNCHANGED <<e_told, e_queue>>
                 \/ /\ e_told' = [e_told EXCEPT ![NextRobot] = {"client"}]
                    /\ e_queue' = Gets("client", NextRobot, "closeed")
              /\ UNCHANGED <<e_programs, e_ends, e_wire, e_count>>
ClientLoops == /\ e_client = "connecting" /\ ~Undone /\ e_client' = "looping"
               /\ UNCHANGED <<e_server, e_port, e_robots, e_links, e_wire, e_queue, e_count>>

(* The server asks for a port, and goes into its loop whatever listen() says. *)
ServerAsks == /\ e_server = "asking"
              /\ \E p \in Ports : /\ e_port' = [e_port EXCEPT !.server = p]
                                  /\ e_server' = IF p < 8889 THEN "ended" ELSE "looping"
              /\ UNCHANGED <<e_client, e_robots, e_links, e_wire, e_queue, e_count>>

-----------------------------------------------------------------------------
(* The engine and the network, as the programs see them.  A link breaks at any time, also before the *)
(* server accepts it, which it may do all the same; what is on its way then may or may not arrive,   *)
(* and each end notices on its own.                                                                  *)
ServerAccepts(c) == /\ e_link[c] \in {"connected", "broken"} /\ "server" \notin e_ends[c]
                    /\ e_ends' = [e_ends EXCEPT ![c] = @ \cup {"server"}]
                    /\ e_queue' = Gets("server", c, "connected")
                    /\ UNCHANGED <<e_programs, e_link, e_told, e_wire, e_count>>
Arrives(x, c) == /\ x \in e_ends[c] /\ e_wire[c][x] > 0
                 /\ e_wire' = [e_wire EXCEPT ![c][x] = @ - 1]
                 /\ e_queue' = Gets(x, c, "message")
                 /\ UNCHANGED <<e_programs, e_links, e_count>>
LinkBreaks(c) == /\ e_link[c] = "connected"
                 /\ e_link' = [e_link EXCEPT ![c] = "broken"]
                 /\ UNCHANGED <<e_programs, e_ends, e_told, e_wire, e_queue, e_count>>
EndTold(x, c) == /\ e_link[c] = "broken" /\ x \in e_ends[c] \ e_told[c]
                 /\ e_told' = [e_told EXCEPT ![c] = @ \cup {x}]
                 /\ e_queue' = Gets(x, c, "closeed")
                 /\ UNCHANGED <<e_programs, e_link, e_ends, e_wire, e_count>>

-----------------------------------------------------------------------------
(* The dispatchers: the client answers msgid 1 and 1001, and counts the latter; the server *)
(* answers and counts every packet, also connected and closeed.                            *)
OnlyMessages(x, m) == m = "message"
EveryPacket(x, m) == x = "server" \/ m \in {"connected", "message"}
Answers(x, m) == EveryPacket(x, m)
Counts(x, m)  == x = "server" \/ m = "message"
Loops(x) == IF x = "client" THEN e_client = "looping" ELSE e_server = "looping"
(* What is sent on a broken link, or on a session that is closed, goes nowhere. *)
Dispatch(x, c, m) ==
  /\ Loops(x) /\ e_queue[x][c][m] > 0 /\ e_count[x] < MaxCount
  /\ e_queue' = [e_queue EXCEPT ![x][c][m] = @ - 1]
  /\ e_count' = [e_count EXCEPT ![x] = IF Counts(x, m) THEN @ + 1 ELSE @]
  /\ e_wire' = IF Answers(x, m) /\ e_link[c] = "connected"
               THEN [e_wire EXCEPT ![c][Other(x)] = @ + 1] ELSE e_wire
  /\ UNCHANGED <<e_programs, e_links>>
(* Every ten seconds the loop prints count and begins anew. *)
Report(x) == /\ Loops(x) /\ e_count' = [e_count EXCEPT ![x] = 0]
             /\ UNCHANGED <<e_programs, e_links, e_wire, e_queue>>

RobotsNext == \/ ClientAsks \/ RobotConnects \/ RobotFails \/ ClientLoops \/ ServerAsks
              \/ \E c \in Robot : ServerAccepts(c) \/ LinkBreaks(c)
              \/ \E x \in Side : Report(x) \/ \E c \in Robot : Arrives(x, c) \/ EndTold(x, c) \/ \E m \in Msgid : Dispatch(x, c, m)

-----------------------------------------------------------------------------
(* Each end of a connection starts one message, its answer to "connected", and   *)
(* every message is answered by one: while a robot is connected, exactly as many *)
(* messages go round as ends know of it, so that its traffic neither dries up    *)
(* nor grows.  When it breaks, whatever is on its way, no more than those are    *)
(* left, and each program is told once at most.                                  *)
GoingRound(c) == e_wire[c].client + e_wire[c].server + e_queue.client[c]["message"] + e_queue.server[c]["message"]
                 + e_queue.client[c]["connected"] + e_queue.server[c]["connected"]
TrafficConstant ==
  \A c \in Robot :
    /\ CASE e_link[c] = "connected" -> GoingRound(c) = Cardinality(e_ends[c])
         [] e_link[c] = "broken"    -> GoingRound(c) <= Cardinality(e_ends[c])
         [] OTHER                   -> GoingRound(c) = 0
    /\ \A x \in Side : e_queue[x][c]["closeed"] <= (IF x \in e_told[c] THEN 1 ELSE 0)
=============================================================================
