------------------------------ MODULE GameServer ------------------------------
(***************************************************************************)
(* The treasure hunt server and its clients (src/server/RagobotServer,     *)
(* src/server/RagobotClient).  Each client steers one robot: its clicks go *)
(* over a socket to a ConnectionHandler thread, which sends them to the    *)
(* robot's mote; the tags the robot reads come back through the MoteIF     *)
(* thread, which looks the handler up in chList and prints a line to its   *)
(* client.  Threads of the server: the ConnectionListener, one handler per *)
(* client, the MoteIF receiver.  Threads of a client: the one that builds  *)
(* and serves the user interface, and ClientComm.                          *)
(***************************************************************************)
EXTENDS Integers, Sequences

CONSTANTS Clients,            \* client programs; each connects at most once
          NoClient,           \* the null entry of chList
          MAX_NUM_RAGOBOTS,   \* slots of chList, one per robot
          MAX_NUM_TAGS,       \* MAX_NUM_HINTS and MAX_NUM_TREASURES
          MaxTags,            \* bound: tags the robots read
          MaxClicks           \* bound: clicks of all clients

ASSUME ServerAssumption ==
  /\ NoClient \notin Clients
  /\ MAX_NUM_RAGOBOTS \in Nat \ {0}
  /\ MAX_NUM_TAGS \in Nat /\ MaxTags \in Nat /\ MaxClicks \in Nat

Slots == 0..(MAX_NUM_RAGOBOTS - 1)
Kinds == {"hint", "treasure"}        \* RfidMsg.type is 0 for a hint

VARIABLES
  ui,        \* the client's window: "building", "up", "exited"
  hints,     \* entries of hintList in use
  treasures, \* entries of treasureList in use
  clicks,    \* clicks sent so far, by all clients: they number the clicks
  session,   \* the server's view of a client
  ragobotId, \* ConnectionHandler.ragobotId, once the handler exists
  listener,  \* ConnectionListener.run: step, socket, i
  chList,    \* slot -> client whose ConnectionHandler it refers to
  backlog,   \* connections accept() has yet to return
  toServer,  \* clicks in the socket, oldest first
  toClient,  \* lines in the socket, oldest first
  receiver,  \* ConnectionListener.receiveRfidMessage in the MoteIF thread
  tags,      \* tags read so far
  lastMove   \* last MoveMsg sent to each robot

serverVars == <<session, ragobotId, listener, chList, backlog>>
vars == <<ui, hints, treasures, clicks, session, ragobotId, listener, chList,
          backlog, toServer, toClient, receiver, tags, lastMove>>

NoMove == [from |-> NoClient, click |-> 0]
Sessions == {"none", "backlog", "accepted", "alive", "dead", "turned"}

Accepting == [pc |-> "accept", socket |-> NoClient, i |-> 0]
Waiting == [pc |-> "idle", kind |-> "hint", robot |-> 0]

Init ==
  /\ ui = [c \in Clients |-> "building"]
  /\ hints = [c \in Clients |-> 0]
  /\ treasures = [c \in Clients |-> 0]
  /\ clicks = 0
  /\ session = [c \in Clients |-> "none"]
  /\ ragobotId = [c \in Clients |-> 0]
  /\ listener = Accepting
  /\ chList = [i \in Slots |-> NoClient]
  /\ backlog = <<>>
  /\ toServer = [c \in Clients |-> <<>>]
  /\ toClient = [c \in Clients |-> <<>>]
  /\ receiver = Waiting
  /\ tags = 0
  /\ lastMove = [i \in Slots |-> NoMove]

Running(c) == ui[c] \in {"building", "up"}

-----------------------------------------------------------------------------
(* The client.  RagobotClient's main runs the constructor of ClientUI on    *)
(* the event thread; at first it has just started ClientComm's thread,      *)
(* before the two lists are allocated; out is null until Connect.           *)

\* The end of ClientUI's constructor, and setVisible: the lists exist, and the event
\* thread is free for clicks and the refresh timer.
AllocateLists(c) ==
  /\ ui[c] = "building"
  /\ ui' = [ui EXCEPT ![c] = "up"]
  /\ UNCHANGED <<hints, treasures, clicks, serverVars, toServer, toClient,
                 receiver, tags, lastMove>>

\* ClientComm.run: the socket to the server is open.
Connect(c) ==
  /\ Running(c) /\ session[c] = "none"
  /\ session' = [session EXCEPT ![c] = "backlog"]
  /\ backlog' = Append(backlog, c)
  /\ UNCHANGED <<ui, hints, treasures, clicks, ragobotId, listener, chList,
                 toServer, toClient, receiver, tags, lastMove>>

\* processMouseEvent and ClientComm.send; before Connect, out is null and the
\* click is lost.
Click(c) ==
  /\ ui[c] = "up" /\ session[c] # "none" /\ clicks < MaxClicks
  /\ clicks' = clicks + 1
  /\ toServer' = [toServer EXCEPT ![c] = Append(@, clicks')]
  /\ UNCHANGED <<ui, hints, treasures, serverVars, toClient, receiver, tags,
                 lastMove>>

\* System.exit: the lines in the socket are lost.
Exit(c) == /\ ui' = [ui EXCEPT ![c] = "exited"]
           /\ toClient' = [toClient EXCEPT ![c] = <<>>]

\* parseMessage, registerHint, registerTreasure: the first null entry is
\* filled.  Lists that do not exist yet, or have no null entry, throw, and the
\* client exits.
ReadLine(c) ==
  /\ Running(c) /\ toClient[c] # <<>>
  /\ LET found == IF Head(toClient[c]).line = "hint" THEN hints ELSE treasures
         full  == found[c] = MAX_NUM_TAGS
         added == [found EXCEPT ![c] = @ + 1]
     IN IF ui[c] = "building" \/ full
        THEN Exit(c) /\ UNCHANGED <<hints, treasures>>
        ELSE /\ toClient' = [toClient EXCEPT ![c] = Tail(@)]
             /\ UNCHANGED ui
             /\ IF Head(toClient[c]).line = "hint"
                THEN hints' = added /\ UNCHANGED treasures
                ELSE treasures' = added /\ UNCHANGED hints
  /\ UNCHANGED <<clicks, serverVars, toServer, receiver, tags, lastMove>>

\* actionPerformed: the loops that draw a list run up to its first null entry,
\* and over the end of a full one.
RefreshFull(c) ==
  /\ ui[c] = "up" /\ MAX_NUM_TAGS \in {hints[c], treasures[c]}
  /\ Exit(c)
  /\ UNCHANGED <<hints, treasures, clicks, serverVars, toServer, receiver,
                 tags, lastMove>>

\* processWindowEvent: the player closes the window.
CloseWindow(c) ==
  /\ ui[c] = "up"
  /\ Exit(c)
  /\ UNCHANGED <<hints, treasures, clicks, serverVars, toServer, receiver,
                 tags, lastMove>>

-----------------------------------------------------------------------------
(* ConnectionListener.run.                                                  *)

Accept ==
  /\ listener.pc = "accept" /\ backlog # <<>>
  /\ listener' = [pc |-> "test", socket |-> Head(backlog), i |-> 0]
  /\ session' = [session EXCEPT ![Head(backlog)] = "accepted"]
  /\ backlog' = Tail(backlog)
  /\ UNCHANGED <<ui, hints, treasures, clicks, ragobotId, chList, toServer,
                 toClient, receiver, tags, lastMove>>

\* Mutant: a slot is free only if it was never used.
SlotFreeOnce(i) == chList[i] = NoClient

\* Mutant: a slot is free as soon as its client has gone.
SlotFreeEarly(i) == chList[i] \notin {c \in Clients : ui[c] # "exited"}

\* chList[i] == null || chList[i].isAlive() == false
SlotFree(i) == chList[i] \notin {c \in Clients : session[c] = "alive"}

\* One turn of the loop over the slots.  The constructor of ConnectionHandler
\* starts the handler's thread; chList[i] is assigned afterwards.
TestSlot ==
  /\ listener.pc = "test"
  /\ LET c == listener.socket IN
     \/ /\ listener.i = MAX_NUM_RAGOBOTS
        /\ session' = [session EXCEPT ![c] = "turned"]
        /\ listener' = Accepting
        /\ UNCHANGED ragobotId
     \/ /\ listener.i < MAX_NUM_RAGOBOTS /\ ~SlotFree(listener.i)
        /\ listener' = [listener EXCEPT !.i = @ + 1]
        /\ UNCHANGED <<session, ragobotId>>
     \/ /\ listener.i < MAX_NUM_RAGOBOTS /\ SlotFree(listener.i)
        /\ session' = [session EXCEPT ![c] = "alive"]
        /\ ragobotId' = [ragobotId EXCEPT ![c] = listener.i]
        /\ listener' = [listener EXCEPT !.pc = "assign"]
  /\ UNCHANGED <<ui, hints, treasures, clicks, chList, backlog, toServer,
                 toClient, receiver, tags, lastMove>>

AssignSlot ==
  /\ listener.pc = "assign"
  /\ chList' = [chList EXCEPT ![listener.i] = listener.socket]
  /\ listener' = Accepting
  /\ UNCHANGED <<ui, hints, treasures, clicks, session, ragobotId, backlog,
                 toServer, toClient, receiver, tags, lastMove>>

-----------------------------------------------------------------------------
(* ConnectionHandler.run.                                                   *)

\* readLine, parseMessage and MoteComm.sendMessage, whose send may fail
\* without notice.
ForwardMove(c) ==
  /\ session[c] = "alive" /\ toServer[c] # <<>>
  /\ toServer' = [toServer EXCEPT ![c] = Tail(@)]
  /\ lastMove' = [lastMove EXCEPT ![ragobotId[c]] =
                    [from |-> c, click |-> Head(toServer[c])]]
  /\ UNCHANGED <<ui, hints, treasures, clicks, serverVars, toClient, receiver,
                 tags>>

SendFails(c) ==
  /\ session[c] = "alive" /\ toServer[c] # <<>>
  /\ toServer' = [toServer EXCEPT ![c] = Tail(@)]
  /\ UNCHANGED <<ui, hints, treasures, clicks, serverVars, toClient, receiver,
                 tags, lastMove>>

\* Mutant: a click that cannot be sent ends the handler, too.
HandlerEndsOnFailure(c) ==
  /\ session[c] = "alive" /\ (ui[c] = "exited" \/ toServer[c] # <<>>)
  /\ session' = [session EXCEPT ![c] = "dead"]
  /\ toServer' = [toServer EXCEPT ![c] = <<>>]
  /\ UNCHANGED <<ui, hints, treasures, clicks, ragobotId, listener, chList,
                 backlog, toClient, receiver, tags, lastMove>>

\* The client is gone: readLine returns null, which parseMessage does not
\* survive, or throws, and the clicks still in the socket are lost.
HandlerEnds(c) ==
  /\ session[c] = "alive" /\ ui[c] = "exited"
  /\ session' = [session EXCEPT ![c] = "dead"]
  /\ toServer' = [toServer EXCEPT ![c] = <<>>]
  /\ UNCHANGED <<ui, hints, treasures, clicks, ragobotId, listener, chList,
                 backlog, toClient, receiver, tags, lastMove>>

-----------------------------------------------------------------------------
(* ConnectionListener.receiveRfidMessage, which reads chList up to three    *)
(* times while the listener's thread assigns it.                            *)

\* MoteComm.messageReceived.
ReceiveTag(kind, robot) ==
  /\ receiver.pc = "idle" /\ tags < MaxTags
  /\ receiver' = [pc |-> "first", kind |-> kind, robot |-> robot]
  /\ tags' = tags + 1
  /\ UNCHANGED <<ui, hints, treasures, clicks, serverVars, toServer, toClient,
                 lastMove>>

HasHandler == chList[receiver.robot] # NoClient

\* Mutant: the first test asks for a live handler, as the listener's does.
TestHintLive ==
  /\ receiver.pc = "first"
  /\ receiver' = [receiver EXCEPT !.pc =
                    IF receiver.kind = "hint" /\ ~SlotFree(receiver.robot)
                    THEN "hint" ELSE "second"]
  /\ UNCHANGED <<ui, hints, treasures, clicks, serverVars, toServer, toClient,
                 tags, lastMove>>

TestHint ==
  /\ receiver.pc = "first"
  /\ receiver' = [receiver EXCEPT !.pc =
                    IF receiver.kind = "hint" /\ HasHandler
                    THEN "hint" ELSE "second"]
  /\ UNCHANGED <<ui, hints, treasures, clicks, serverVars, toServer, toClient,
                 tags, lastMove>>

TestTreasure ==
  /\ receiver.pc = "second"
  /\ receiver' = IF HasHandler THEN [receiver EXCEPT !.pc = "treasure"]
                               ELSE Waiting
  /\ UNCHANGED <<ui, hints, treasures, clicks, serverVars, toServer, toClient,
                 tags, lastMove>>

Line == [line |-> receiver.pc, robot |-> receiver.robot]

\* out.println: nothing comes of it when the client is gone.
PrintLine ==
  /\ receiver.pc \in Kinds
  /\ LET c == chList[receiver.robot] IN
     toClient' = [toClient EXCEPT ![c] = IF Running(c) THEN Append(@, Line) ELSE @]
  /\ receiver' = Waiting
  /\ UNCHANGED <<ui, hints, treasures, clicks, serverVars, toServer, tags,
                 lastMove>>

-----------------------------------------------------------------------------
ClientStep(c) == \/ AllocateLists(c) \/ Connect(c) \/ Click(c)
                 \/ ReadLine(c) \/ RefreshFull(c) \/ CloseWindow(c)
Listen == Accept \/ TestSlot \/ AssignSlot
HandlerStep(c) == ForwardMove(c) \/ SendFails(c) \/ HandlerEnds(c)
ReceiverStep == TestHint \/ TestTreasure \/ PrintLine
Next == \/ \E c \in Clients : ClientStep(c) \/ HandlerStep(c)
        \/ Listen
        \/ \E kind \in Kinds, robot \in Slots : ReceiveTag(kind, robot)
        \/ ReceiverStep

\* The threads of the server run; the players need not do anything.
Fairness == /\ WF_vars(Listen) /\ WF_vars(ReceiverStep)
            /\ \A c \in Clients : WF_vars(HandlerStep(c))
Spec == Init /\ [][Next]_vars /\ Fairness

-----------------------------------------------------------------------------
(* Types and properties.                                                    *)

TypeOK ==
  /\ ui \in [Clients -> {"building", "up", "exited"}]
  /\ hints \in [Clients -> Nat] /\ treasures \in [Clients -> Nat]
  /\ clicks \in Nat
  /\ session \in [Clients -> Sessions]
  /\ ragobotId \in [Clients -> Slots]
  /\ listener \in [pc : {"accept", "test", "assign"},
                   socket : Clients \cup {NoClient}, i : Nat]
  /\ chList \in [Slots -> Clients \cup {NoClient}]
  /\ backlog \in Seq(Clients)
  /\ toServer \in [Clients -> Seq(Nat)]
  /\ toClient \in [Clients -> Seq([line : Kinds, robot : Slots])]
  /\ receiver \in [pc : {"idle", "first", "second"} \cup Kinds,
                   kind : Kinds, robot : Slots]
  /\ tags \in Nat
  /\ lastMove \in [Slots -> [from : Clients \cup {NoClient}, click : Nat]]

\* A robot has one player: no two live handlers send to the same mote, though
\* slots are reused as soon as a handler's thread has died
\* (ConnectionListener.java, the loop of run).
OneSteerer ==
  \A c, d \in Clients :
    session[c] = "alive" /\ session[d] = "alive"
      /\ ragobotId[c] = ragobotId[d] => c = d

\* The robot obeys its players one after another: it gets a player's clicks in
\* their order, and once it has a move of the next player the former one's
\* handler is dead, so that no click of his is still to come.
MovesInOrder ==
  [][\A i \in Slots :
       LET old == lastMove[i]  new == lastMove'[i] IN
       new # old /\ old # NoMove =>
         IF new.from = old.from THEN new.click > old.click
                                ELSE session[old.from] = "dead"]_vars

\* Whatever the receiver's repeated reads of chList see, a hint is printed as a
\* treasure only if it is the first line of its client, found when the slot
\* had never been used before (receiveRfidMessage: the type is tested together
\* with the first read only, the entry is never null again).
OnlyFirstHintIsMistaken ==
  receiver.pc = "treasure" /\ receiver.kind = "hint" =>
    LET c == chList[receiver.robot] IN
    toClient[c] = <<>> /\ hints[c] = 0 /\ treasures[c] = 0

\* A player is told of the tags of his own robot and of no other, whoever had
\* the slot when the tag was read.
LinesOfOwnRobot ==
  \A c \in Clients : \A k \in DOMAIN toClient[c] :
    toClient[c][k].robot = ragobotId[c]

\* Click k of c is in the socket.
Sent(c, k) == \E j \in DOMAIN toServer[c] : toServer[c][j] = k

\* A click of a player who stays is read by his own handler while that lives,
\* unless he was turned away: no handler ends, and none is missing, because of
\* the other players, who come, leave and get the slot before or after him.
ClicksArePassedOn ==
  \A c \in Clients, k \in 1..MaxClicks :
    Sent(c, k) ~> \/ session[c] = "alive" /\ ~Sent(c, k)
                  \/ session[c] = "turned"
                  \/ ui[c] = "exited"

\* Nobody is turned away while a robot is free: whoever is the next to be
\* accepted when some slot has no live handler gets one, although chList keeps
\* the handlers that have died (the loop of ConnectionListener.run).
FreeRobotIsGiven ==
  \A c \in Clients :
    (/\ listener.pc = "accept" /\ backlog # <<>> /\ Head(backlog) = c
     /\ \E i \in Slots : \A d \in Clients :
             ragobotId[d] = i => session[d] # "alive")
    ~> session[c] = "alive"

=============================================================================
