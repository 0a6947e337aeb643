--------------------------- MODULE GameServerProofs ---------------------------
(***************************************************************************)
(* Proofs about GameServer, for any number of clients, robots, tags and    *)
(* clicks: types, one player per robot, the order of the moves of a robot, *)
(* whom a tag is told, and which hint is taken for a treasure.             *)
(***************************************************************************)
EXTENDS GameServer, TLAPS

\* The invariant speaks of the server's threads and slots (ServerInv), of the
\* lines that come back to the players (LineInv) and of the clicks that go out
\* (ClickInv).

Handled(c) == session[c] \in {"alive", "dead"}   \* a handler was made for c

\* Whoever is in the backlog is in it once, and nobody else's session says so.
Queued ==
  /\ \A k \in DOMAIN backlog : session[backlog[k]] = "backlog"
  /\ \A k, l \in DOMAIN backlog : backlog[k] = backlog[l] => k = l

\* What the listener holds between two of its steps.  While it has yet to
\* assign a slot, only the new handler, which may have died, has that slot.
ListenerInv ==
  /\ listener.pc = "test" =>
       listener.socket \in Clients /\ session[listener.socket] = "accepted"
  /\ listener.pc = "assign" =>
       /\ listener.socket \in Clients /\ Handled(listener.socket)
       /\ listener.i \in Slots /\ ragobotId[listener.socket] = listener.i
       /\ \A d \in Clients :
            session[d] = "alive" /\ ragobotId[d] = listener.i
              => d = listener.socket

Entries ==
  \A i \in Slots : chList[i] # NoClient =>
    Handled(chList[i]) /\ ragobotId[chList[i]] = i

SlotOwner ==
  \A c \in Clients : session[c] = "alive" =>
    \/ chList[ragobotId[c]] = c
    \/ listener.pc = "assign" /\ listener.socket = c

ServerInv == Queued /\ ListenerInv /\ Entries /\ SlotOwner /\ OneSteerer

Told(c) == toClient[c] # <<>> \/ hints[c] # 0 \/ treasures[c] # 0

ToldHasSlot ==
  \A c \in Clients :
    Told(c) => Handled(c) /\ chList[ragobotId[c]] # NoClient

PrintsToHandler == receiver.pc \in Kinds => chList[receiver.robot] # NoClient

\* Once the first test has found no handler, nobody has been told of a tag of
\* that robot, until the receiver has finished with this one.
NobodyTold ==
  receiver.pc \in {"second", "treasure"} /\ receiver.kind = "hint" =>
    \A c \in Clients : Told(c) => ragobotId[c] # receiver.robot

LineInv == ToldHasSlot /\ PrintsToHandler /\ NobodyTold /\ LinesOfOwnRobot

InOrder(s) == \A k, l \in DOMAIN s : k < l => s[k] < s[l]

ClicksNumbered ==
  \A c \in Clients :
    InOrder(toServer[c]) /\ \A k \in DOMAIN toServer[c] : toServer[c][k] <= clicks

MovesAreOld ==
  \A i \in Slots : lastMove[i] # NoMove =>
    LET m == lastMove[i] IN
    /\ m.from \in Clients /\ Handled(m.from) /\ ragobotId[m.from] = i
    /\ m.click <= clicks
    /\ \A k \in DOMAIN toServer[m.from] : m.click < toServer[m.from][k]

ClickInv == ClicksNumbered /\ MovesAreOld

IInv == TypeOK /\ ServerInv /\ LineInv /\ ClickInv

USE ServerAssumption

-----------------------------------------------------------------------------
(* Types.                                                                   *)

\* Every state has its type: the threads of the clients, of the server and of
\* MoteComm keep the types of what they share.
LEMMA TypeInit == Init => TypeOK
<1>1. ASSUME Init PROVE 0 \in Slots
  BY SMT DEF Slots
<1>2. ASSUME Init PROVE listener \in [pc : {"accept", "test", "assign"},
                                      socket : Clients \cup {NoClient}, i : Nat]
  BY <1>2 DEF Init, Accepting
<1>3. ASSUME Init PROVE receiver \in [pc : {"idle", "first", "second"} \cup Kinds,
                                      kind : Kinds, robot : Slots]
  BY <1>1, <1>3 DEF Init, Waiting, Kinds
<1>4. ASSUME Init
      PROVE lastMove \in [Slots -> [from : Clients \cup {NoClient}, click : Nat]]
  BY <1>4 DEF Init, NoMove
<1>5. ASSUME Init
      PROVE toServer \in [Clients -> Seq(Nat)]
            /\ toClient \in [Clients -> Seq([line : Kinds, robot : Slots])]
  BY <1>5 DEF Init
<1> QED
  BY <1>1, <1>2, <1>3, <1>4, <1>5 DEF Init, TypeOK, Sessions

\* The steps of a client keep the types.
LEMMA TypeClient ==
  ASSUME TypeOK, NEW c \in Clients, ClientStep(c)
  PROVE  TypeOK'
<1>1. CASE AllocateLists(c)
  BY <1>1 DEF TypeOK, AllocateLists, serverVars
<1>2. CASE Connect(c)
  <2>1. session' \in [Clients -> Sessions]
    BY <1>2 DEF TypeOK, Connect, Sessions
  <2>2. backlog' \in Seq(Clients)
    BY <1>2 DEF TypeOK, Connect
  <2> QED
    BY <1>2, <2>1, <2>2 DEF TypeOK, Connect
<1>3. CASE Click(c)
  <2>1. clicks' \in Nat
    BY <1>3 DEF TypeOK, Click
  <2>2. toServer' \in [Clients -> Seq(Nat)]
    BY <1>3, <2>1 DEF TypeOK, Click
  <2> QED
    BY <1>3, <2>1, <2>2 DEF TypeOK, Click, serverVars
<1> DEFINE Lines == Seq([line : Kinds, robot : Slots])
<1>4. ASSUME Exit(c)
      PROVE ui' \in [Clients -> {"building", "up", "exited"}]
            /\ toClient' \in [Clients -> Lines]
  <2>1. <<>> \in Lines
    OBVIOUS
  <2>2. toClient \in [Clients -> Lines]
    BY DEF TypeOK
  <2>3. toClient' \in [Clients -> Lines]
    BY <1>4, <2>1, <2>2 DEF Exit
  <2> QED
    BY <1>4, <2>3 DEF TypeOK, Exit
<1>5. CASE ReadLine(c)
  <2>1. CASE Exit(c) /\ UNCHANGED <<hints, treasures>>
    BY <1>4, <1>5, <2>1 DEF TypeOK, ReadLine, serverVars
  <2>2. CASE /\ toClient' = [toClient EXCEPT ![c] = Tail(@)]
             /\ UNCHANGED ui
             /\ \/ hints' = [hints EXCEPT ![c] = @ + 1] /\ UNCHANGED treasures
                \/ treasures' = [treasures EXCEPT ![c] = @ + 1] /\ UNCHANGED hints
    <3>1. toClient[c] \in Lines /\ toClient[c] # <<>>
      BY <1>5 DEF TypeOK, ReadLine
    <3>2. Tail(toClient[c]) \in Lines
      BY <3>1
    <3>3. toClient' \in [Clients -> Lines]
      BY <2>2, <3>2 DEF TypeOK
    <3>4. hints' \in [Clients -> Nat] /\ treasures' \in [Clients -> Nat]
      <4>1. CASE hints' = [hints EXCEPT ![c] = @ + 1] /\ UNCHANGED treasures
        BY <4>1 DEF TypeOK
      <4>2. CASE treasures' = [treasures EXCEPT ![c] = @ + 1] /\ UNCHANGED hints
        BY <4>2 DEF TypeOK
      <4> QED
        BY <2>2, <4>1, <4>2
    <3> QED
      BY <1>5, <2>2, <3>3, <3>4 DEF TypeOK, ReadLine, serverVars
  <2> QED
    BY <1>5, <2>1, <2>2 DEF ReadLine
<1>6. CASE RefreshFull(c)
  BY <1>4, <1>6 DEF TypeOK, RefreshFull, serverVars
<1>7. CASE CloseWindow(c)
  BY <1>4, <1>7 DEF TypeOK, CloseWindow, serverVars
<1> QED
  BY <1>1, <1>2, <1>3, <1>5, <1>6, <1>7 DEF ClientStep

\* The steps of the listener keep the types.
LEMMA TypeListen ==
  ASSUME TypeOK, ListenerInv, Listen
  PROVE  TypeOK'
<1> DEFINE Listener == [pc : {"accept", "test", "assign"},
                        socket : Clients \cup {NoClient}, i : Nat]
<1>1. CASE Accept
  <2>1. Head(backlog) \in Clients /\ Tail(backlog) \in Seq(Clients)
    BY <1>1 DEF TypeOK, Accept
  <2>2. listener' \in Listener
    BY <1>1, <2>1 DEF Accept
  <2>3. session' \in [Clients -> Sessions]
    BY <1>1 DEF TypeOK, Accept, Sessions
  <2> QED
    BY <1>1, <2>1, <2>2, <2>3 DEF TypeOK, Accept
<1>2. CASE TestSlot
  <2>1. listener.socket \in Clients /\ listener.i \in Nat
    BY <1>2 DEF TestSlot, ListenerInv, TypeOK
  <2>2. listener' \in Listener
    <3>1. CASE listener' = Accepting
      BY <3>1 DEF Accepting
    <3>2. CASE listener' = [listener EXCEPT !.i = @ + 1]
      <4>1. listener \in Listener /\ listener.i + 1 \in Nat
        BY <2>1 DEF TypeOK
      <4> QED
        BY <3>2, <4>1
    <3>3. CASE listener' = [listener EXCEPT !.pc = "assign"]
      BY <3>3 DEF TypeOK
    <3> QED
      BY <1>2, <3>1, <3>2, <3>3 DEF TestSlot
  <2>3. session' \in [Clients -> Sessions]
    BY <1>2 DEF TypeOK, TestSlot, Sessions
  <2>4. ragobotId' \in [Clients -> Slots]
    <3>1. listener.i < MAX_NUM_RAGOBOTS => listener.i \in Slots
      BY <2>1 DEF Slots
    <3> QED
      BY <1>2, <3>1 DEF TypeOK, TestSlot
  <2> QED
    BY <1>2, <2>2, <2>3, <2>4 DEF TypeOK, TestSlot
<1>3. CASE AssignSlot
  <2>1. listener' \in Listener
    BY <1>3 DEF AssignSlot, Accepting
  <2>2. chList' \in [Slots -> Clients \cup {NoClient}]
    BY <1>3 DEF AssignSlot, TypeOK
  <2> QED
    BY <1>3, <2>1, <2>2 DEF TypeOK, AssignSlot
<1> QED
  BY <1>1, <1>2, <1>3 DEF Listen

\* The steps of a handler keep the types.
LEMMA TypeHandler ==
  ASSUME TypeOK, NEW c \in Clients, HandlerStep(c)
  PROVE  TypeOK'
<1>1. toServer[c] \in Seq(Nat)
  BY DEF TypeOK
<1>2. toServer[c] # <<>> => Head(toServer[c]) \in Nat /\ Tail(toServer[c]) \in Seq(Nat)
  BY <1>1
<1>3. CASE ForwardMove(c)
  <2>1. toServer' \in [Clients -> Seq(Nat)]
    BY <1>2, <1>3 DEF TypeOK, ForwardMove
  <2>2. lastMove' \in [Slots -> [from : Clients \cup {NoClient}, click : Nat]]
    BY <1>2, <1>3 DEF TypeOK, ForwardMove
  <2> QED
    BY <1>3, <2>1, <2>2 DEF TypeOK, ForwardMove, serverVars
<1>4. CASE SendFails(c)
  <2>1. toServer' \in [Clients -> Seq(Nat)]
    BY <1>2, <1>4 DEF TypeOK, SendFails
  <2> QED
    BY <1>4, <2>1 DEF TypeOK, SendFails, serverVars
<1>5. CASE HandlerEnds(c)
  <2>1. toServer' \in [Clients -> Seq(Nat)] /\ session' \in [Clients -> Sessions]
    BY <1>5 DEF TypeOK, HandlerEnds, Sessions
  <2> QED
    BY <1>5, <2>1 DEF TypeOK, HandlerEnds
<1> QED
  BY <1>3, <1>4, <1>5 DEF HandlerStep

\* The steps of the receiver keep the types.
LEMMA TypeReceiver ==
  ASSUME TypeOK, ReceiverStep \/ \E kind \in Kinds, robot \in Slots :
                                   ReceiveTag(kind, robot)
  PROVE  TypeOK'
<1> DEFINE Receiver == [pc : {"idle", "first", "second"} \cup Kinds,
                        kind : Kinds, robot : Slots]
<1>0. Waiting \in Receiver
  <2>1. 0 \in Slots
    BY SMT DEF Slots
  <2> QED
    BY <2>1 DEF Waiting, Kinds
<1>1. ASSUME NEW kind \in Kinds, NEW robot \in Slots, ReceiveTag(kind, robot)
      PROVE TypeOK'
  <2>1. receiver' \in Receiver /\ tags' \in Nat
    BY <1>1 DEF TypeOK, ReceiveTag
  <2> QED
    BY <1>1, <2>1 DEF TypeOK, ReceiveTag, serverVars
<1>2. CASE TestHint
  <2>1. receiver' \in Receiver
    BY <1>2 DEF TypeOK, TestHint, Kinds
  <2> QED
    BY <1>2, <2>1 DEF TypeOK, TestHint, serverVars
<1>3. CASE TestTreasure
  <2>1. receiver' \in Receiver
    BY <1>0, <1>3 DEF TypeOK, TestTreasure, Kinds
  <2> QED
    BY <1>3, <2>1 DEF TypeOK, TestTreasure, serverVars
<1>4. CASE PrintLine
  <2>1. Line \in [line : Kinds, robot : Slots]
    BY <1>4 DEF TypeOK, PrintLine, Line
  <2> DEFINE c == chList[receiver.robot]
  <2>2. ASSUME c \in Clients
        PROVE toClient' \in [Clients -> Seq([line : Kinds, robot : Slots])]
    <3>1. Append(toClient[c], Line) \in Seq([line : Kinds, robot : Slots])
      <4>1. toClient[c] \in Seq([line : Kinds, robot : Slots])
        BY <2>2 DEF TypeOK
      <4> QED
        BY <2>1, <4>1
    <3>2. toClient' = [toClient EXCEPT ![c] = IF Running(c) THEN Append(@, Line) ELSE @]
      BY <1>4 DEF PrintLine
    <3> HIDE DEF c
    <3> QED
      BY <3>1, <3>2 DEF TypeOK
  <2>3. ASSUME c \notin Clients
        PROVE toClient' \in [Clients -> Seq([line : Kinds, robot : Slots])]
    BY <1>4, <2>3 DEF TypeOK, PrintLine
  <2> QED
    BY <1>0, <1>4, <2>2, <2>3 DEF TypeOK, PrintLine, serverVars
<1> QED
  BY <1>1, <1>2, <1>3, <1>4 DEF ReceiverStep

-----------------------------------------------------------------------------
(* The threads of the server and the slots.                                 *)

LEMMA ServerInit == Init => ServerInv
  BY DEF Init, Accepting, ServerInv, Queued, ListenerInv, Entries, SlotOwner, OneSteerer

\* Whoever connects is in nobody's hands before.
LEMMA ServerConnect ==
  ASSUME TypeOK, ServerInv, NEW c \in Clients, Connect(c)
  PROVE  ServerInv'
<1> USE DEF Connect
<1>1. /\ session[c] = "none" /\ session' = [session EXCEPT ![c] = "backlog"]
      /\ session \in [Clients -> Sessions]
      /\ UNCHANGED <<ragobotId, listener, chList>>
  BY DEF TypeOK
<1>2. /\ \A d \in Clients : Handled(d) => Handled(d)' /\ d # c
      /\ \A d \in Clients : session'[d] = "alive" => session[d] = "alive"
      /\ \A d \in Clients : d # c => session'[d] = session[d]
      /\ session'[c] = "backlog"
  BY <1>1 DEF Handled
<1>3. Queued'
  <2>1. /\ backlog \in Seq(Clients) /\ backlog' = Append(backlog, c)
        /\ \A k \in DOMAIN backlog : backlog[k] \in Clients
    BY DEF TypeOK
  <2>2. \A k \in DOMAIN backlog' :
          (k \in DOMAIN backlog /\ backlog'[k] = backlog[k])
            \/ (k = Len(backlog) + 1 /\ backlog'[k] = c)
    BY <2>1
  <2>3. \A k \in DOMAIN backlog : backlog[k] # c /\ session[backlog[k]] = "backlog"
    BY <1>1 DEF ServerInv, Queued
  <2>4. \A k \in DOMAIN backlog' : session'[backlog'[k]] = "backlog"
    BY <1>2, <2>1, <2>2, <2>3
  <2>5. \A k, l \in DOMAIN backlog' : backlog'[k] = backlog'[l] => k = l
    BY <2>2, <2>3 DEF ServerInv, Queued
  <2> QED
    BY <2>4, <2>5 DEF Queued
<1>4. ListenerInv'
  <2>1. listener.pc = "test" => listener.socket # c
    BY <1>1 DEF ServerInv, ListenerInv
  <2> QED
    BY <1>1, <1>2, <2>1 DEF ServerInv, ListenerInv
<1>5. Entries'
  BY <1>1, <1>2 DEF ServerInv, Entries, TypeOK
<1>6. SlotOwner' /\ OneSteerer'
  BY <1>1, <1>2 DEF ServerInv, SlotOwner, OneSteerer
<1> QED
  BY <1>3, <1>4, <1>5, <1>6 DEF ServerInv

\* The client that the listener accepts is the only one it takes from the
\* backlog.
LEMMA ServerAccept ==
  ASSUME TypeOK, ServerInv, Accept
  PROVE  ServerInv'
<1> DEFINE c == Head(backlog)
<1>1. /\ backlog \in Seq(Clients) /\ backlog # <<>> /\ backlog' = Tail(backlog)
      /\ session \in [Clients -> Sessions]
      /\ session' = [session EXCEPT ![c] = "accepted"]
      /\ listener.pc = "accept"
      /\ listener' = [pc |-> "test", socket |-> c, i |-> 0]
      /\ UNCHANGED <<ragobotId, chList>>
  BY DEF Accept, TypeOK
<1>2. /\ c \in Clients /\ 1 \in DOMAIN backlog /\ c = backlog[1]
      /\ \A k \in DOMAIN Tail(backlog) :
           k + 1 \in DOMAIN backlog /\ Tail(backlog)[k] = backlog[k + 1] /\ k \in Nat \ {0}
      /\ \A k \in DOMAIN backlog : backlog[k] \in Clients
  BY <1>1
<1>3. session[c] = "backlog"
  BY <1>2 DEF ServerInv, Queued
<1> HIDE DEF c
<1>4. /\ \A d \in Clients : Handled(d) => Handled(d)' /\ d # c
      /\ \A d \in Clients : session'[d] = "alive" => session[d] = "alive"
      /\ \A d \in Clients : d # c => session'[d] = session[d]
      /\ session'[c] = "accepted"
  BY <1>1, <1>2, <1>3 DEF Handled
<1>5. Queued'
  <2>1. \A k \in DOMAIN backlog : backlog[k] = c => k = 1
    BY <1>2 DEF ServerInv, Queued
  <2>2. \A k \in DOMAIN backlog' :
          backlog'[k] # c /\ session[backlog'[k]] = "backlog" /\ backlog'[k] \in Clients
    BY <1>1, <1>2, <2>1 DEF ServerInv, Queued
  <2>3. \A k \in DOMAIN backlog' : session'[backlog'[k]] = "backlog"
    BY <1>4, <2>2
  <2>4. \A k, l \in DOMAIN backlog' : backlog'[k] = backlog'[l] => k = l
    <3>1. SUFFICES ASSUME NEW k \in DOMAIN backlog', NEW l \in DOMAIN backlog',
                          backlog'[k] = backlog'[l]
                   PROVE  k = l
      OBVIOUS
    <3>2. k + 1 = l + 1 /\ k \in Nat /\ l \in Nat
      BY <1>1, <1>2, <3>1 DEF ServerInv, Queued
    <3> QED
      BY <3>2
  <2> QED
    BY <2>3, <2>4 DEF Queued
<1>6. ListenerInv'
  BY <1>1, <1>2, <1>4 DEF ListenerInv
<1>7. Entries'
  BY <1>1, <1>4 DEF ServerInv, Entries, TypeOK
<1>8. SlotOwner' /\ OneSteerer'
  BY <1>1, <1>4 DEF ServerInv, SlotOwner, OneSteerer
<1> QED
  BY <1>5, <1>6, <1>7, <1>8 DEF ServerInv

\* A handler is started only on a slot whose handler is not alive.
LEMMA ServerTestSlot ==
  ASSUME TypeOK, ServerInv, TestSlot
  PROVE  ServerInv'
<1> DEFINE c == listener.socket
<1>1. /\ listener.pc = "test" /\ c \in Clients /\ session[c] = "accepted"
      /\ listener.i \in Nat /\ session \in [Clients -> Sessions]
      /\ ragobotId \in [Clients -> Slots]
      /\ UNCHANGED <<chList, backlog>>
  BY DEF TestSlot, ServerInv, ListenerInv, TypeOK
<1>2. \A k \in DOMAIN backlog : backlog[k] # c /\ backlog[k] \in Clients
  BY <1>1 DEF ServerInv, Queued, TypeOK
<1>3. ASSUME NEW s, session' = [session EXCEPT ![c] = s] PROVE Queued'
  BY <1>1, <1>2, <1>3 DEF ServerInv, Queued
<1>4. ASSUME NEW s \in {"turned", "alive"}, session' = [session EXCEPT ![c] = s]
      PROVE /\ \A d \in Clients : d # c => session'[d] = session[d]
            /\ \A d \in Clients : Handled(d) => Handled(d)' /\ d # c
            /\ session'[c] = s
  BY <1>1, <1>4 DEF Handled
<1>5. CASE /\ session' = [session EXCEPT ![c] = "turned"]
           /\ listener' = Accepting /\ UNCHANGED ragobotId
  <2>1. Queued'
    BY <1>3, <1>5
  <2>2. /\ \A d \in Clients : d # c => session'[d] = session[d]
        /\ \A d \in Clients : Handled(d) => Handled(d)' /\ d # c
        /\ session'[c] = "turned"
    BY <1>4, <1>5
  <2>3. ListenerInv'
    BY <1>5 DEF ListenerInv, Accepting
  <2>4. Entries'
    BY <1>1, <1>5, <2>2 DEF ServerInv, Entries, TypeOK
  <2>5. SlotOwner' /\ OneSteerer'
    BY <1>1, <1>5, <2>2 DEF ServerInv, SlotOwner, OneSteerer
  <2> QED
    BY <2>1, <2>3, <2>4, <2>5 DEF ServerInv
<1>6. CASE /\ listener' = [listener EXCEPT !.i = @ + 1]
           /\ UNCHANGED <<session, ragobotId>>
  <2>1. listener'.pc = "test" /\ listener'.socket = c
    BY <1>1, <1>6 DEF TypeOK
  <2> QED
    BY <1>1, <1>6, <2>1
    DEF ServerInv, Queued, ListenerInv, Entries, SlotOwner, OneSteerer, Handled
<1>7. CASE /\ listener.i < MAX_NUM_RAGOBOTS /\ SlotFree(listener.i)
           /\ session' = [session EXCEPT ![c] = "alive"]
           /\ ragobotId' = [ragobotId EXCEPT ![c] = listener.i]
           /\ listener' = [listener EXCEPT !.pc = "assign"]
  <2> DEFINE i == listener.i
  <2>0. i \in Slots
    BY <1>1, <1>7 DEF Slots
  <2>1. Queued'
    BY <1>3, <1>7
  <2>2. /\ \A d \in Clients : d # c => session'[d] = session[d]
        /\ \A d \in Clients : Handled(d) => Handled(d)' /\ d # c
        /\ session'[c] = "alive"
    BY <1>4, <1>7
  <2>3. /\ listener'.pc = "assign" /\ listener'.socket = c /\ listener'.i = i
        /\ ragobotId'[c] = i
        /\ \A d \in Clients : d # c => ragobotId'[d] = ragobotId[d]
    BY <1>1, <1>7 DEF TypeOK
  <2>4. \A d \in Clients : session[d] = "alive" => ragobotId[d] # i
    BY <1>1, <1>7 DEF ServerInv, SlotOwner, SlotFree
  <2>5. ListenerInv'
    <3>1. Handled(c)'
      BY <2>2, <2>3 DEF Handled
    <3>2. \A d \in Clients : session'[d] = "alive" /\ ragobotId'[d] = i => d = c
      BY <2>2, <2>3, <2>4
    <3> QED
      BY <1>1, <2>0, <2>3, <3>1, <3>2 DEF ListenerInv
  <2>6. Entries'
    BY <1>1, <2>2, <2>3 DEF ServerInv, Entries, TypeOK
  <2>7. SlotOwner'
    BY <1>1, <2>2, <2>3 DEF ServerInv, SlotOwner
  <2>8. OneSteerer'
    BY <2>2, <2>3, <2>4 DEF ServerInv, OneSteerer
  <2> QED
    BY <2>1, <2>5, <2>6, <2>7, <2>8 DEF ServerInv
<1> QED
  BY <1>5, <1>6, <1>7 DEF TestSlot

\* The slot is assigned to the handler that was started for it; no other handler
\* of that slot is alive.
LEMMA ServerAssignSlot ==
  ASSUME TypeOK, ServerInv, AssignSlot
  PROVE  ServerInv'
<1> DEFINE c == listener.socket
           i == listener.i
<1>1. /\ c \in Clients /\ Handled(c) /\ i \in Slots /\ ragobotId[c] = i
      /\ \A d \in Clients : session[d] = "alive" /\ ragobotId[d] = i => d = c
      /\ listener.pc = "assign" /\ listener' = Accepting
      /\ chList \in [Slots -> Clients \cup {NoClient}]
      /\ ragobotId \in [Clients -> Slots]
      /\ chList' = [chList EXCEPT ![i] = c]
      /\ UNCHANGED <<session, ragobotId, backlog>>
  BY DEF AssignSlot, ServerInv, ListenerInv, TypeOK
<1>2. chList'[i] = c /\ \A j \in Slots : j # i => chList'[j] = chList[j]
  BY <1>1
<1> HIDE DEF c, i
<1>3. Queued' /\ OneSteerer'
  BY <1>1 DEF ServerInv, Queued, OneSteerer
<1>4. ListenerInv'
  BY <1>1 DEF ListenerInv, Accepting
<1>5. Entries'
  BY <1>1, <1>2 DEF ServerInv, Entries, Handled
<1>6. SlotOwner'
  <2>1. SUFFICES ASSUME NEW d \in Clients, session[d] = "alive"
                 PROVE  chList'[ragobotId[d]] = d
    BY <1>1 DEF SlotOwner
  <2>2. CASE ragobotId[d] = i
    BY <1>1, <1>2, <2>1, <2>2
  <2>3. CASE ragobotId[d] # i
    <3>1. d # c /\ ragobotId[d] \in Slots
      BY <1>1, <2>3
    <3>2. chList[ragobotId[d]] = d
      BY <1>1, <2>1, <3>1 DEF ServerInv, SlotOwner, c
    <3> QED
      BY <1>2, <2>3, <3>1, <3>2
  <2> QED
    BY <2>2, <2>3
<1> QED
  BY <1>3, <1>4, <1>5, <1>6 DEF ServerInv

\* A handler that dies leaves its slot as it is.
LEMMA ServerHandlerEnds ==
  ASSUME TypeOK, ServerInv, NEW c \in Clients, HandlerEnds(c)
  PROVE  ServerInv'
<1>1. /\ session[c] = "alive" /\ session \in [Clients -> Sessions]
      /\ session' = [session EXCEPT ![c] = "dead"]
      /\ UNCHANGED <<ragobotId, listener, chList, backlog>>
  BY DEF HandlerEnds, TypeOK
<1>2. /\ \A d \in Clients : Handled(d) => Handled(d)'
      /\ \A d \in Clients : session'[d] = "alive" => session[d] = "alive"
      /\ \A d \in Clients : session[d] \in {"backlog", "accepted"}
                              => session'[d] = session[d]
  BY <1>1 DEF Handled
<1>3. Queued'
  BY <1>1, <1>2 DEF ServerInv, Queued, TypeOK
<1>4. ListenerInv'
  BY <1>1, <1>2 DEF ServerInv, ListenerInv
<1>5. Entries'
  BY <1>1, <1>2 DEF ServerInv, Entries, TypeOK
<1>6. SlotOwner' /\ OneSteerer'
  BY <1>1, <1>2 DEF ServerInv, SlotOwner, OneSteerer
<1> QED
  BY <1>3, <1>4, <1>5, <1>6 DEF ServerInv

\* Nothing else writes what the listener and the handlers share.
LEMMA ServerSame ==
  ASSUME ServerInv, UNCHANGED serverVars
  PROVE  ServerInv'
  BY DEF serverVars, ServerInv, Queued, ListenerInv, Entries, SlotOwner,
         OneSteerer, Handled

-----------------------------------------------------------------------------
(* The invariant of the server over a step, and what the others rely on.    *)

LEMMA ServerStep ==
  ASSUME TypeOK, ServerInv, [Next]_vars
  PROVE  ServerInv'
<1>1. ASSUME NEW c \in Clients, ClientStep(c) \/ HandlerStep(c) PROVE ServerInv'
  <2>1. CASE Connect(c)
    BY <2>1, ServerConnect
  <2>2. CASE HandlerEnds(c)
    BY <2>2, ServerHandlerEnds
  <2>3. CASE UNCHANGED serverVars
    BY <2>3, ServerSame
  <2> QED
    BY <1>1, <2>1, <2>2, <2>3
    DEF ClientStep, HandlerStep, AllocateLists, Click, ReadLine, RefreshFull,
        CloseWindow, ForwardMove, SendFails
<1>2. CASE Listen
  BY <1>2, ServerAccept, ServerTestSlot, ServerAssignSlot DEF Listen
<1>3. ASSUME ReceiverStep \/ \E kind \in Kinds, robot \in Slots :
                                ReceiveTag(kind, robot)
      PROVE  ServerInv'
  <2>1. UNCHANGED serverVars
    BY <1>3 DEF ReceiverStep, ReceiveTag, TestHint, TestTreasure, PrintLine
  <2> QED
    BY <2>1, ServerSame
<1>4. CASE UNCHANGED vars
  BY <1>4, ServerSame DEF vars, serverVars
<1> QED
  BY <1>1, <1>2, <1>3, <1>4 DEF Next

\* A client keeps the slot of its handler, and a slot is never emptied.
SlotsKept ==
  /\ \A c \in Clients : Handled(c) => Handled(c)' /\ ragobotId'[c] = ragobotId[c]
  /\ \A i \in Slots : chList[i] # NoClient => chList'[i] # NoClient

LEMMA ServerKeeps ==
  ASSUME TypeOK, ServerInv, [Next]_vars
  PROVE  SlotsKept
<1>1. ASSUME NEW c \in Clients, Connect(c) PROVE SlotsKept
  BY <1>1 DEF Connect, TypeOK, SlotsKept, Handled
<1>2. ASSUME NEW c \in Clients, HandlerEnds(c) PROVE SlotsKept
  BY <1>2 DEF HandlerEnds, TypeOK, SlotsKept, Handled
<1>3. CASE Accept
  <2>1. Head(backlog) \in Clients /\ session[Head(backlog)] = "backlog"
    BY <1>3 DEF Accept, ServerInv, Queued, TypeOK
  <2> QED
    BY <1>3, <2>1 DEF Accept, TypeOK, SlotsKept, Handled
<1>4. CASE TestSlot
  <2>1. listener.socket \in Clients /\ session[listener.socket] = "accepted"
    BY <1>4 DEF TestSlot, ServerInv, ListenerInv
  <2> QED
    BY <1>4, <2>1 DEF TestSlot, TypeOK, SlotsKept, Handled
<1>5. CASE AssignSlot
  <2>1. listener.socket \in Clients /\ listener.socket # NoClient
    BY <1>5 DEF AssignSlot, ServerInv, ListenerInv
  <2> QED
    BY <1>5, <2>1 DEF AssignSlot, TypeOK, SlotsKept, Handled
<1>6. CASE UNCHANGED serverVars
  BY <1>6 DEF serverVars, SlotsKept, Handled
<1>7. CASE UNCHANGED vars
  BY <1>6, <1>7 DEF vars, serverVars
<1>8. ASSUME NEW c \in Clients, ClientStep(c) \/ HandlerStep(c) PROVE SlotsKept
  BY <1>1, <1>2, <1>6, <1>8
  DEF ClientStep, HandlerStep, AllocateLists, Click, ReadLine, RefreshFull,
      CloseWindow, ForwardMove, SendFails
<1>9. ASSUME ReceiverStep \/ \E kind \in Kinds, robot \in Slots :
                                ReceiveTag(kind, robot)
      PROVE  SlotsKept
  BY <1>6, <1>9 DEF ReceiverStep, ReceiveTag, TestHint, TestTreasure, PrintLine
<1> QED
  BY <1>3, <1>4, <1>5, <1>7, <1>8, <1>9 DEF Next, Listen

-----------------------------------------------------------------------------
(* The lines that the players are told.                                     *)

LEMMA LineInit == Init => LineInv
  BY DEF Init, Waiting, Kinds, LineInv, Told, ToldHasSlot, PrintsToHandler,
         NobodyTold, LinesOfOwnRobot

\* A step that tells nobody anything and is not the receiver's.
LEMMA LineSame ==
  ASSUME TypeOK, LineInv, SlotsKept,
         UNCHANGED <<toClient, hints, treasures, receiver>>
  PROVE  LineInv'
<1>1. \A c \in Clients : /\ ragobotId[c] \in Slots /\ (Told(c)' <=> Told(c))
                         /\ Told(c) => Handled(c)' /\ ragobotId'[c] = ragobotId[c]
  BY DEF TypeOK, LineInv, ToldHasSlot, SlotsKept, Told
<1>2. ToldHasSlot'
  BY <1>1 DEF LineInv, ToldHasSlot, SlotsKept
<1>3. PrintsToHandler'
  BY DEF LineInv, PrintsToHandler, SlotsKept, TypeOK
<1>4. NobodyTold'
  BY <1>1 DEF LineInv, NobodyTold
<1>5. LinesOfOwnRobot'
  <2>1. \A c \in Clients : \A k \in DOMAIN toClient[c] : toClient[c] # <<>>
    BY DEF TypeOK
  <2> QED
    BY <1>1, <2>1 DEF LineInv, LinesOfOwnRobot, Told
<1> QED
  BY <1>2, <1>3, <1>4, <1>5 DEF LineInv

\* A client that reads a line, or leaves, has been told before.
LEMMA LineRead ==
  ASSUME TypeOK, LineInv, NEW c \in Clients,
         UNCHANGED <<ragobotId, session, chList, receiver>>,
         toClient' = [toClient EXCEPT ![c] = <<>>]
           \/ (toClient[c] # <<>> /\ toClient' = [toClient EXCEPT ![c] = Tail(@)]),
         \A d \in Clients : d # c => hints'[d] = hints[d] /\ treasures'[d] = treasures[d],
         Told(c)' => Told(c)
  PROVE  LineInv'
<1>1. \A d \in Clients : Told(d)' => Told(d)
  BY DEF Told, TypeOK
<1>2. ToldHasSlot' /\ PrintsToHandler' /\ NobodyTold'
  BY <1>1 DEF LineInv, ToldHasSlot, PrintsToHandler, NobodyTold, Handled
<1>3. \A d \in Clients : \A k \in DOMAIN toClient'[d] :
        \E l \in DOMAIN toClient[d] : toClient'[d][k] = toClient[d][l]
  <2>1. SUFFICES ASSUME NEW d \in Clients, NEW k \in DOMAIN toClient'[d]
                 PROVE  \E l \in DOMAIN toClient[d] : toClient'[d][k] = toClient[d][l]
    OBVIOUS
  <2>2. CASE d # c
    BY <2>1, <2>2 DEF TypeOK
  <2>3. CASE d = c
    <3>1. toClient[c] \in Seq([line : Kinds, robot : Slots])
      BY DEF TypeOK
    <3>2. toClient[c] # <<>> /\ toClient'[c] = Tail(toClient[c])
      BY <2>1, <2>3 DEF TypeOK
    <3>3. k + 1 \in DOMAIN toClient[c] /\ toClient'[c][k] = toClient[c][k + 1]
      BY <2>1, <2>3, <3>1, <3>2
    <3> QED
      BY <2>3, <3>3
  <2> QED
    BY <2>2, <2>3
<1>4. LinesOfOwnRobot'
  BY <1>3 DEF LineInv, LinesOfOwnRobot
<1> QED
  BY <1>2, <1>4 DEF LineInv

\* The receiver: a line goes to the handler of the robot whose tag was read.
LEMMA LineReceiver ==
  ASSUME TypeOK, ServerInv, LineInv,
         ReceiverStep \/ \E kind \in Kinds, robot \in Slots : ReceiveTag(kind, robot)
  PROVE  LineInv'
<1>1. ASSUME UNCHANGED <<serverVars, hints, treasures, toClient>>
      PROVE  ToldHasSlot' /\ LinesOfOwnRobot'
  BY <1>1 DEF serverVars, LineInv, ToldHasSlot, LinesOfOwnRobot, Told, Handled
<1>2. ASSUME NEW kind \in Kinds, NEW robot \in Slots, ReceiveTag(kind, robot)
      PROVE  LineInv'
  BY <1>1, <1>2 DEF ReceiveTag, LineInv, PrintsToHandler, NobodyTold, Kinds
<1>3. CASE TestHint
  <2>1. /\ receiver'.kind = receiver.kind /\ receiver'.robot = receiver.robot
        /\ \/ receiver'.pc = "hint" /\ HasHandler
           \/ receiver'.pc = "second" /\ ~(receiver.kind = "hint" /\ HasHandler)
        /\ UNCHANGED <<serverVars, hints, treasures, toClient>>
        /\ UNCHANGED <<chList, ragobotId, session>>
    BY <1>3 DEF TestHint, TypeOK, serverVars
  <2>2. PrintsToHandler'
    BY <2>1 DEF PrintsToHandler, Kinds, HasHandler
  <2>3. NobodyTold'
    BY <2>1 DEF NobodyTold, HasHandler, LineInv, ToldHasSlot, Told
  <2> QED
    BY <1>1, <2>1, <2>2, <2>3 DEF LineInv
<1>4. CASE TestTreasure
  <2>1. /\ receiver.pc = "second"
        /\ \/ /\ receiver'.kind = receiver.kind /\ receiver'.robot = receiver.robot
              /\ receiver'.pc = "treasure" /\ HasHandler
           \/ receiver' = Waiting
        /\ UNCHANGED <<serverVars, hints, treasures, toClient>>
        /\ UNCHANGED <<chList, ragobotId, session>>
    BY <1>4 DEF TestTreasure, TypeOK, serverVars
  <2>2. PrintsToHandler'
    BY <2>1 DEF PrintsToHandler, Kinds, HasHandler, Waiting
  <2>3. NobodyTold'
    BY <2>1 DEF NobodyTold, LineInv, Told, Waiting
  <2> QED
    BY <1>1, <2>1, <2>2, <2>3 DEF LineInv
<1>5. CASE PrintLine
  <2> DEFINE c == chList[receiver.robot]
  <2>1. /\ receiver.robot \in Slots /\ c \in Clients /\ c # NoClient
        /\ Handled(c) /\ ragobotId[c] = receiver.robot
    BY <1>5 DEF PrintLine, TypeOK, LineInv, PrintsToHandler, ServerInv, Entries
  <2>2. /\ toClient' = [toClient EXCEPT ![c] = IF Running(c) THEN Append(@, Line) ELSE @]
        /\ receiver' = Waiting
        /\ UNCHANGED <<hints, treasures, session, ragobotId, chList>>
    BY <1>5 DEF PrintLine, serverVars
  <2>3. Line.robot = ragobotId[c]
    BY <2>1 DEF Line
  <2>4. toClient \in [Clients -> Seq([line : Kinds, robot : Slots])]
        /\ Line \in [line : Kinds, robot : Slots]
    BY <1>5 DEF TypeOK, PrintLine, Line
  <2>5. PrintsToHandler' /\ NobodyTold'
    BY <2>2 DEF PrintsToHandler, NobodyTold, Waiting, Kinds
  <2>6. chList[ragobotId[c]] # NoClient
    BY <2>1
  <2> HIDE DEF c
  <2>7. \A d \in Clients : d # c => toClient'[d] = toClient[d]
    BY <2>2, <2>4
  <2>8. ToldHasSlot'
    BY <2>1, <2>2, <2>6, <2>7 DEF LineInv, ToldHasSlot, Told, Handled
  <2>9. LinesOfOwnRobot'
    <3>1. \A k \in DOMAIN toClient'[c] :
            (k \in DOMAIN toClient[c] /\ toClient'[c][k] = toClient[c][k])
              \/ toClient'[c][k] = Line
      <4> DEFINE s == toClient[c]
      <4>1. s \in Seq([line : Kinds, robot : Slots])
        BY <2>1, <2>4
      <4> HIDE DEF s
      <4>2. \A k \in DOMAIN Append(s, Line) :
              (k \in DOMAIN s /\ Append(s, Line)[k] = s[k])
                \/ Append(s, Line)[k] = Line
        BY <2>4, <4>1
      <4>3. toClient'[c] = s \/ toClient'[c] = Append(s, Line)
        BY <2>1, <2>2, <2>4 DEF s
      <4> QED
        BY <4>2, <4>3 DEF s
    <3> QED
      BY <2>2, <2>3, <2>7, <3>1 DEF LineInv, LinesOfOwnRobot
  <2> QED
    BY <2>5, <2>8, <2>9 DEF LineInv
<1> QED
  BY <1>2, <1>3, <1>4, <1>5 DEF ReceiverStep

LEMMA LineStep ==
  ASSUME TypeOK, ServerInv, LineInv, [Next]_vars
  PROVE  LineInv'
<1>0. SlotsKept
  BY ServerKeeps
<1>1. CASE UNCHANGED <<toClient, hints, treasures, receiver>>
  BY <1>0, <1>1, LineSame
<1>2. ASSUME NEW c \in Clients, ClientStep(c) \/ HandlerStep(c) PROVE LineInv'
  <2>1. CASE ReadLine(c)
    <3>1. Told(c)
      BY <2>1 DEF ReadLine, Told
    <3>2. \A d \in Clients :
            d # c => hints'[d] = hints[d] /\ treasures'[d] = treasures[d]
      BY <2>1 DEF ReadLine, TypeOK
    <3> QED
      BY <2>1, <3>1, <3>2, LineRead DEF ReadLine, Exit, serverVars
  <2>2. CASE RefreshFull(c) \/ CloseWindow(c)
    <3>1. Told(c)' => Told(c)
      BY <2>2 DEF RefreshFull, CloseWindow, Exit, Told, TypeOK
    <3> QED
      BY <2>2, <3>1, LineRead DEF RefreshFull, CloseWindow, Exit, serverVars
  <2> QED
    BY <1>1, <1>2, <2>1, <2>2
    DEF ClientStep, HandlerStep, AllocateLists, Connect, Click, ForwardMove,
        SendFails, HandlerEnds
<1>3. CASE Listen
  BY <1>1, <1>3 DEF Listen, Accept, TestSlot, AssignSlot
<1>4. CASE UNCHANGED vars
  BY <1>1, <1>4 DEF vars
<1> QED
  BY <1>2, <1>3, <1>4, LineReceiver DEF Next

-----------------------------------------------------------------------------
(* The clicks on their way to the robots.                                   *)

LEMMA ClickInit == Init => ClickInv
  BY DEF Init, NoMove, ClickInv, ClicksNumbered, MovesAreOld, InOrder

\* A step that neither adds nor takes a click.
LEMMA ClickSame ==
  ASSUME TypeOK, ClickInv, SlotsKept, UNCHANGED <<clicks, toServer, lastMove>>
  PROVE  ClickInv'
<1>1. ClicksNumbered'
  BY DEF ClickInv, ClicksNumbered, InOrder
<1>2. MovesAreOld'
  BY DEF ClickInv, MovesAreOld, SlotsKept
<1> QED
  BY <1>1, <1>2 DEF ClickInv

\* A new click has the highest number.
LEMMA ClickAdded ==
  ASSUME TypeOK, ClickInv, NEW c \in Clients, Click(c)
  PROVE  ClickInv'
<1> DEFINE s == toServer[c]
<1>1. /\ s \in Seq(Nat) /\ clicks \in Nat /\ clicks' = clicks + 1
      /\ toServer' = [toServer EXCEPT ![c] = Append(s, clicks')]
      /\ UNCHANGED <<session, ragobotId, lastMove>>
      /\ toServer \in [Clients -> Seq(Nat)]
  BY DEF Click, TypeOK, serverVars
<1>2. /\ toServer'[c] = Append(s, clicks')
      /\ \A d \in Clients : d # c => toServer'[d] = toServer[d]
  BY <1>1
<1>3. /\ InOrder(s) /\ \A k \in DOMAIN s : s[k] <= clicks
  BY DEF ClickInv, ClicksNumbered
<1> HIDE DEF s
<1>4. /\ DOMAIN s = 1..Len(s) /\ Len(s) \in Nat /\ \A k \in DOMAIN s : s[k] \in Nat
      /\ DOMAIN Append(s, clicks') = 1..(Len(s) + 1)
      /\ \A k \in DOMAIN s : Append(s, clicks')[k] = s[k]
      /\ Append(s, clicks')[Len(s) + 1] = clicks'
  BY <1>1
<1>5. \A k \in DOMAIN Append(s, clicks') :
        (k \in DOMAIN s /\ Append(s, clicks')[k] = s[k])
          \/ (k = Len(s) + 1 /\ Append(s, clicks')[k] = clicks')
  BY <1>4
<1>6. \A k \in DOMAIN s : k < Len(s) + 1 /\ s[k] < clicks'
  BY <1>1, <1>3, <1>4
<1>7. InOrder(Append(s, clicks'))
  <2>1. SUFFICES ASSUME NEW k \in DOMAIN Append(s, clicks'),
                        NEW l \in DOMAIN Append(s, clicks'), k < l
                 PROVE  Append(s, clicks')[k] < Append(s, clicks')[l]
    BY DEF InOrder
  <2>2. k \in DOMAIN s
    BY <1>4, <2>1
  <2> QED
    BY <1>3, <1>5, <1>6, <2>1, <2>2 DEF InOrder
<1>8. \A k \in DOMAIN Append(s, clicks') : Append(s, clicks')[k] <= clicks'
  BY <1>1, <1>5, <1>6, <1>4
<1>9. ASSUME NEW d \in Clients, d # c
      PROVE  InOrder(toServer'[d]) /\ \A k \in DOMAIN toServer'[d] : toServer'[d][k] <= clicks'
  <2>1. toServer'[d] = toServer[d] /\ \A k \in DOMAIN toServer[d] : toServer[d][k] \in Nat
    BY <1>1, <1>2, <1>9
  <2>2. InOrder(toServer[d]) /\ \A k \in DOMAIN toServer[d] : toServer[d][k] <= clicks
    BY DEF ClickInv, ClicksNumbered
  <2> QED
    BY <1>1, <2>1, <2>2
<1>10. ClicksNumbered'
  BY <1>2, <1>7, <1>8, <1>9 DEF ClicksNumbered
<1>11. MovesAreOld'
  <2>1. SUFFICES ASSUME NEW i \in Slots, lastMove[i] # NoMove
                 PROVE  LET m == lastMove[i] IN
                        /\ m.from \in Clients /\ Handled(m.from)'
                        /\ ragobotId'[m.from] = i /\ m.click <= clicks'
                        /\ \A k \in DOMAIN toServer'[m.from] :
                             m.click < toServer'[m.from][k]
    BY <1>1 DEF MovesAreOld
  <2> DEFINE m == lastMove[i]
  <2>2. /\ m.from \in Clients /\ Handled(m.from) /\ ragobotId[m.from] = i
        /\ m.click <= clicks /\ m.click \in Nat
        /\ \A k \in DOMAIN toServer[m.from] : m.click < toServer[m.from][k]
    BY <2>1 DEF ClickInv, MovesAreOld, TypeOK
  <2> HIDE DEF m
  <2>3. m.click <= clicks' /\ m.click < clicks'
    BY <1>1, <2>2
  <2>4. \A k \in DOMAIN toServer'[m.from] : m.click < toServer'[m.from][k]
    <3>1. CASE m.from = c
      BY <1>2, <1>5, <2>2, <2>3, <3>1 DEF s
    <3>2. CASE m.from # c
      BY <1>2, <2>2, <3>2
    <3> QED
      BY <3>1, <3>2
  <2> QED
    BY <1>1, <2>2, <2>3, <2>4 DEF m, Handled
<1> QED
  BY <1>10, <1>11 DEF ClickInv

\* What is left of the clicks of a client when the first is taken.
LEMMA TailInOrder ==
  ASSUME NEW s \in Seq(Nat), s # <<>>, InOrder(s)
  PROVE  /\ Tail(s) \in Seq(Nat) /\ Head(s) \in Nat /\ InOrder(Tail(s))
         /\ 1 \in DOMAIN s /\ Head(s) = s[1]
         /\ \A k \in DOMAIN Tail(s) :
              k + 1 \in DOMAIN s /\ Tail(s)[k] = s[k + 1] /\ Head(s) < Tail(s)[k]
<1>1. /\ Tail(s) \in Seq(Nat) /\ Head(s) \in Nat /\ 1 \in DOMAIN s /\ Head(s) = s[1]
      /\ \A k \in DOMAIN Tail(s) :
           k \in Nat \ {0} /\ k + 1 \in DOMAIN s /\ Tail(s)[k] = s[k + 1]
  OBVIOUS
<1>2. \A k \in DOMAIN Tail(s) : Head(s) < Tail(s)[k]
  BY <1>1 DEF InOrder
<1>3. InOrder(Tail(s))
  BY <1>1 DEF InOrder
<1> QED
  BY <1>1, <1>2, <1>3

\* A handler takes a click and sends it or not.
LEMMA ClickTaken ==
  ASSUME TypeOK, ServerInv, ClickInv, NEW c \in Clients,
         ForwardMove(c) \/ SendFails(c)
  PROVE  ClickInv'
<1> DEFINE s == toServer[c]
           j == ragobotId[c]
<1>1. /\ s \in Seq(Nat) /\ s # <<>> /\ InOrder(s) /\ j \in Slots /\ session[c] = "alive"
      /\ \A k \in DOMAIN s : s[k] <= clicks
      /\ toServer' = [toServer EXCEPT ![c] = Tail(s)]
      /\ toServer \in [Clients -> Seq(Nat)]
      /\ UNCHANGED <<session, ragobotId, clicks>>
  BY DEF ForwardMove, SendFails, TypeOK, serverVars, ClickInv, ClicksNumbered
<1>2. /\ toServer'[c] = Tail(s)
      /\ \A d \in Clients : d # c => toServer'[d] = toServer[d]
  BY <1>1
<1>3. \/ lastMove' = [lastMove EXCEPT ![j] = [from |-> c, click |-> Head(s)]]
      \/ lastMove' = lastMove
  BY DEF ForwardMove, SendFails
<1>4. lastMove \in [Slots -> [from : Clients \cup {NoClient}, click : Nat]]
  BY DEF TypeOK
<1> HIDE DEF s, j
<1>5. /\ InOrder(Tail(s)) /\ 1 \in DOMAIN s /\ Head(s) = s[1]
      /\ \A k \in DOMAIN Tail(s) :
           k + 1 \in DOMAIN s /\ Tail(s)[k] = s[k + 1] /\ Head(s) < Tail(s)[k]
  BY <1>1, TailInOrder
<1>6. ClicksNumbered'
  BY <1>1, <1>2, <1>5 DEF ClickInv, ClicksNumbered
<1>7. MovesAreOld'
  <2>1. SUFFICES ASSUME NEW i \in Slots, lastMove'[i] # NoMove
                 PROVE  LET m == lastMove'[i] IN
                        /\ m.from \in Clients /\ Handled(m.from)
                        /\ ragobotId[m.from] = i /\ m.click <= clicks
                        /\ \A k \in DOMAIN toServer'[m.from] :
                             m.click < toServer'[m.from][k]
    BY <1>1 DEF MovesAreOld, Handled
  <2>2. CASE lastMove'[i] = [from |-> c, click |-> Head(s)] /\ i = j
    <3>1. /\ Handled(c) /\ ragobotId[c] = i /\ Head(s) <= clicks
          /\ \A k \in DOMAIN toServer'[c] : Head(s) < toServer'[c][k]
      BY <1>1, <1>2, <1>5, <2>2 DEF Handled, j
    <3> QED
      BY <2>2, <3>1
  <2>3. CASE lastMove'[i] = lastMove[i]
    <3> DEFINE m == lastMove[i]
    <3>1. /\ m.from \in Clients /\ Handled(m.from) /\ ragobotId[m.from] = i
          /\ m.click <= clicks
          /\ \A k \in DOMAIN toServer[m.from] : m.click < toServer[m.from][k]
      BY <2>1, <2>3 DEF ClickInv, MovesAreOld
    <3> HIDE DEF m
    <3>2. \A k \in DOMAIN toServer'[m.from] : m.click < toServer'[m.from][k]
      <4>1. CASE m.from = c
        BY <1>2, <1>5, <3>1, <4>1 DEF s
      <4>2. CASE m.from # c
        BY <1>2, <3>1, <4>2
      <4> QED
        BY <4>1, <4>2
    <3> QED
      BY <2>3, <3>1, <3>2 DEF m
  <2> QED
    BY <1>1, <1>3, <1>4, <2>2, <2>3
<1> QED
  BY <1>6, <1>7 DEF ClickInv

\* A handler that dies drops the clicks it has not taken.
LEMMA ClickDropped ==
  ASSUME TypeOK, ClickInv, SlotsKept, NEW c \in Clients, HandlerEnds(c)
  PROVE  ClickInv'
<1>1. /\ toServer' = [toServer EXCEPT ![c] = <<>>]
      /\ toServer \in [Clients -> Seq(Nat)] /\ UNCHANGED <<clicks, lastMove>>
  BY DEF HandlerEnds, TypeOK
<1>2. \A d \in Clients : toServer'[d] = toServer[d] \/ toServer'[d] = <<>>
  BY <1>1
<1>3. InOrder(<<>>) /\ DOMAIN <<>> = {}
  BY DEF InOrder
<1>4. ClicksNumbered'
  BY <1>1, <1>2, <1>3 DEF ClickInv, ClicksNumbered
<1>5. MovesAreOld'
  BY <1>1, <1>2, <1>3 DEF ClickInv, MovesAreOld, SlotsKept
<1> QED
  BY <1>4, <1>5 DEF ClickInv

LEMMA ClickStep ==
  ASSUME TypeOK, ServerInv, ClickInv, [Next]_vars
  PROVE  ClickInv'
<1>0. SlotsKept
  BY ServerKeeps
<1>1. CASE UNCHANGED <<clicks, toServer, lastMove>>
  BY <1>0, <1>1, ClickSame
<1>2. ASSUME NEW c \in Clients, ClientStep(c) PROVE ClickInv'
  BY <1>1, <1>2, ClickAdded
  DEF ClientStep, AllocateLists, Connect, ReadLine, RefreshFull, CloseWindow
<1>3. ASSUME NEW c \in Clients, HandlerStep(c) PROVE ClickInv'
  BY <1>0, <1>3, ClickTaken, ClickDropped DEF HandlerStep
<1>4. CASE Listen
  BY <1>1, <1>4 DEF Listen, Accept, TestSlot, AssignSlot
<1>5. ASSUME ReceiverStep \/ \E kind \in Kinds, robot \in Slots :
                                ReceiveTag(kind, robot)
      PROVE  ClickInv'
  BY <1>1, <1>5 DEF ReceiverStep, ReceiveTag, TestHint, TestTreasure, PrintLine
<1>6. CASE UNCHANGED vars
  BY <1>1, <1>6 DEF vars
<1> QED
  BY <1>2, <1>3, <1>4, <1>5, <1>6 DEF Next

-----------------------------------------------------------------------------
(* The theorems.                                                            *)

LEMMA TypeStep ==
  ASSUME TypeOK, ServerInv, [Next]_vars
  PROVE  TypeOK'
<1>1. CASE UNCHANGED vars
  BY <1>1 DEF vars, TypeOK
<1>2. ListenerInv
  BY DEF ServerInv
<1> QED
  BY <1>1, <1>2, TypeClient, TypeListen, TypeHandler, TypeReceiver DEF Next

LEMMA InvariantHolds == Spec => []IInv
<1>1. Init => IInv
  BY TypeInit, ServerInit, LineInit, ClickInit DEF IInv
<1>2. IInv /\ [Next]_vars => IInv'
  BY TypeStep, ServerStep, LineStep, ClickStep DEF IInv
<1> QED
  BY <1>1, <1>2, PTL DEF Spec

\* Every variable of the server and its clients keeps its type.
THEOREM TypeCorrect == Spec => []TypeOK
<1>1. IInv => TypeOK
  BY DEF IInv
<1> QED
  BY <1>1, InvariantHolds, PTL

\* No two live handlers send to the same robot, whenever clients come and go.
THEOREM OnePlayer == Spec => []OneSteerer
<1>1. IInv => OneSteerer
  BY DEF IInv, ServerInv
<1> QED
  BY <1>1, InvariantHolds, PTL

\* A player is told of the tags of his own robot only.
THEOREM OwnLines == Spec => []LinesOfOwnRobot
<1>1. IInv => LinesOfOwnRobot
  BY DEF IInv, LineInv
<1> QED
  BY <1>1, InvariantHolds, PTL

\* A hint that is printed as a treasure is the first line of its player.
THEOREM FirstHintOnly == Spec => []OnlyFirstHintIsMistaken
<1>1. IInv => OnlyFirstHintIsMistaken
  <2>1. SUFFICES ASSUME IInv, receiver.pc = "treasure", receiver.kind = "hint"
                 PROVE  LET c == chList[receiver.robot] IN
                        toClient[c] = <<>> /\ hints[c] = 0 /\ treasures[c] = 0
    BY DEF OnlyFirstHintIsMistaken
  <2> DEFINE c == chList[receiver.robot]
  <2>2. /\ receiver.robot \in Slots /\ c \in Clients
        /\ ragobotId[c] = receiver.robot
    BY <2>1 DEF IInv, TypeOK, LineInv, PrintsToHandler, Kinds, ServerInv, Entries
  <2>3. ~Told(c)
    BY <2>1, <2>2 DEF IInv, LineInv, NobodyTold
  <2> QED
    BY <2>3 DEF Told
<1> QED
  BY <1>1, InvariantHolds, PTL

\* A robot gets the clicks of a player in their order, and none of a former
\* player once the next one has begun.
THEOREM MovesOrdered == Spec => MovesInOrder
<1>1. IInv /\ [Next]_vars =>
        [\A i \in Slots :
           LET old == lastMove[i]  new == lastMove'[i] IN
           new # old /\ old # NoMove =>
             IF new.from = old.from THEN new.click > old.click
                                    ELSE session[old.from] = "dead"]_vars
  <2>1. SUFFICES ASSUME IInv, Next, NEW i \in Slots,
                        lastMove'[i] # lastMove[i], lastMove[i] # NoMove
                 PROVE  IF lastMove'[i].from = lastMove[i].from
                        THEN lastMove'[i].click > lastMove[i].click
                        ELSE session[lastMove[i].from] = "dead"
    OBVIOUS
  <2>2. PICK c \in Clients : ForwardMove(c)
    BY <2>1 DEF Next, ClientStep, HandlerStep, Listen, ReceiverStep, AllocateLists,
       Connect, Click, ReadLine, RefreshFull, CloseWindow, Accept, TestSlot,
       AssignSlot, SendFails, HandlerEnds, ReceiveTag, TestHint, TestTreasure,
       PrintLine
  <2>3. /\ session[c] = "alive" /\ toServer[c] # <<>> /\ toServer[c] \in Seq(Nat)
        /\ lastMove' = [lastMove EXCEPT ![ragobotId[c]] =
                          [from |-> c, click |-> Head(toServer[c])]]
        /\ lastMove \in [Slots -> [from : Clients \cup {NoClient}, click : Nat]]
    BY <2>1, <2>2 DEF ForwardMove, IInv, TypeOK
  <2>4. lastMove'[i] = [from |-> c, click |-> Head(toServer[c])] /\ ragobotId[c] = i
    BY <2>1, <2>3
  <2> DEFINE old == lastMove[i]
  <2>5. /\ old.from \in Clients /\ Handled(old.from) /\ ragobotId[old.from] = i
        /\ old.click \in Nat
        /\ \A k \in DOMAIN toServer[old.from] : old.click < toServer[old.from][k]
    BY <2>1, <2>3 DEF IInv, ClickInv, MovesAreOld
  <2>6. 1 \in DOMAIN toServer[c] /\ Head(toServer[c]) = toServer[c][1]
        /\ Head(toServer[c]) \in Nat
    BY <2>3
  <2> HIDE DEF old
  <2>7. CASE old.from = c
    BY <2>4, <2>5, <2>6, <2>7 DEF old
  <2>8. CASE old.from # c
    BY <2>1, <2>3, <2>4, <2>5, <2>8 DEF old, Handled, IInv, ServerInv, OneSteerer
  <2> QED
    BY <2>7, <2>8
<1> QED
  BY <1>1, InvariantHolds, PTL DEF Spec, MovesInOrder

=============================================================================
