-------------------------- MODULE NavigationProofs --------------------------
(***************************************************************************)
(* Proofs about Navigation for every backlog of the services, whether or   *)
(* not stopping a timer cancels an expiry that is already queued; and      *)
(* about the turns of Orientation.                                         *)
(***************************************************************************)
EXTENDS Navigation, Orientation, SequenceTheorems, TLAPS

-----------------------------------------------------------------------------
(* Queues with no task of a set, and with t as the only one of it.         *)
NoneOf(q, S) == \A i \in 1 .. Len(q) : q[i] \notin S

OneOf(q, S, t) ==
  \E k \in 1 .. Len(q) : q[k] = t /\ \A i \in 1 .. Len(q) : i # k => q[i] \notin S

LEMMA PostNone ==
  ASSUME NEW q \in Seq(Tasks), NEW t \in Tasks, NEW S
  PROVE  NoneOf(Append(q, t), S) <=> NoneOf(q, S) /\ t \notin S
<1>1. /\ Len(q) \in Nat /\ Len(Append(q, t)) = Len(q) + 1
      /\ \A i \in 1 .. Len(q) : Append(q, t)[i] = q[i]
      /\ Append(q, t)[Len(q) + 1] = t
  BY AppendProperties, LenProperties
<1>2. QED
  BY <1>1 DEF NoneOf

LEMMA PostOne ==
  ASSUME NEW q \in Seq(Tasks), NEW t \in Tasks, NEW S
  PROVE  /\ NoneOf(q, S) => OneOf(Append(q, t), S, t)
         /\ \A u : OneOf(q, S, u) /\ t \notin S => OneOf(Append(q, t), S, u)
<1>1. /\ Len(q) \in Nat /\ Len(Append(q, t)) = Len(q) + 1
      /\ \A i \in 1 .. Len(q) : Append(q, t)[i] = q[i]
      /\ Append(q, t)[Len(q) + 1] = t
  BY AppendProperties, LenProperties
<1>2. ASSUME NoneOf(q, S) PROVE OneOf(Append(q, t), S, t)
  <2>1. /\ Len(q) + 1 \in 1 .. Len(Append(q, t))
        /\ \A i \in 1 .. Len(Append(q, t)) : i # Len(q) + 1 => i \in 1 .. Len(q)
    BY <1>1
  <2>2. QED
    BY <1>1, <1>2, <2>1 DEF NoneOf, OneOf
<1>3. ASSUME NEW u, OneOf(q, S, u), t \notin S PROVE OneOf(Append(q, t), S, u)
  <2>1. PICK k \in 1 .. Len(q) : q[k] = u /\ \A i \in 1 .. Len(q) : i # k => q[i] \notin S
    BY <1>3 DEF OneOf
  <2>2. k \in 1 .. Len(Append(q, t)) /\ Append(q, t)[k] = u
    BY <1>1, <2>1
  <2>3. ASSUME NEW i \in 1 .. Len(Append(q, t)), i # k PROVE Append(q, t)[i] \notin S
    <3>1. i = Len(q) + 1 \/ i \in 1 .. Len(q)
      BY <1>1
    <3>2. QED
      BY <1>1, <1>3, <2>1, <2>3, <3>1
  <2>4. QED
    BY <2>2, <2>3 DEF OneOf
<1>4. QED
  BY <1>2, <1>3

LEMMA TakeNone ==
  ASSUME NEW q \in Seq(Tasks), q # <<>>, NEW S
  PROVE  NoneOf(q, S) <=> Head(q) \notin S /\ NoneOf(Tail(q), S)
<1>1. /\ Len(q) \in Nat \ {0} /\ Len(Tail(q)) = Len(q) - 1 /\ Head(q) = q[1]
      /\ \A i \in 1 .. Len(Tail(q)) : Tail(q)[i] = q[i + 1]
  BY HeadTailProperties, EmptySeq
<1>2. ASSUME Head(q) \notin S, NoneOf(Tail(q), S), NEW i \in 1 .. Len(q) PROVE q[i] \notin S
  <2>1. i = 1 \/ (i - 1 \in 1 .. Len(Tail(q)) /\ Tail(q)[i - 1] = q[i])
    BY <1>1
  <2>2. QED
    BY <1>1, <1>2, <2>1 DEF NoneOf
<1>3. ASSUME NoneOf(q, S) PROVE Head(q) \notin S /\ NoneOf(Tail(q), S)
  BY <1>1, <1>3 DEF NoneOf
<1>4. QED
  BY <1>2, <1>3 DEF NoneOf

LEMMA TakeOne ==
  ASSUME NEW q \in Seq(Tasks), q # <<>>, NEW S, NEW u, OneOf(q, S, u)
  PROVE  \/ Head(q) = u /\ NoneOf(Tail(q), S)
         \/ Head(q) \notin S /\ OneOf(Tail(q), S, u)
<1>1. /\ Len(q) \in Nat \ {0} /\ Len(Tail(q)) = Len(q) - 1 /\ Head(q) = q[1]
      /\ \A i \in 1 .. Len(Tail(q)) : Tail(q)[i] = q[i + 1]
  BY HeadTailProperties, EmptySeq
<1>2. PICK k \in 1 .. Len(q) : q[k] = u /\ \A i \in 1 .. Len(q) : i # k => q[i] \notin S
  BY DEF OneOf
<1>3. CASE k = 1
  BY <1>1, <1>2, <1>3 DEF NoneOf
<1>4. CASE k # 1
  <2>1. Head(q) \notin S
    BY <1>1, <1>2, <1>4
  <2>2. k - 1 \in 1 .. Len(Tail(q)) /\ Tail(q)[k - 1] = u
    BY <1>1, <1>2, <1>4
  <2>3. ASSUME NEW i \in 1 .. Len(Tail(q)), i # k - 1 PROVE Tail(q)[i] \notin S
    BY <1>1, <1>2, <2>3
  <2>4. QED
    BY <2>1, <2>2, <2>3 DEF OneOf
<1>5. QED
  BY <1>3, <1>4

LEMMA QueuedIs ==
  ASSUME NEW q, NEW t
  PROVE  Queued(q, t) <=> ~NoneOf(q, {t})
  BY DEF Queued, NoneOf

-----------------------------------------------------------------------------
(* The tasks that take a navigation on.                                    *)
Steps == Tasks \ {"tellLocation", "handleIRRanger", "handleObstacleAlarm"}

(* What a navigation waits for: a location, the end of a motion, a task    *)
(* that has been posted, or one of the timers.                             *)
TimersOff   == timer["navTimer"] = "off" /\ timer["orientTimer"] = "off"
Asked(c)    == reqs = {c} /\ motion = "idle" /\ TimersOff /\ NoneOf(queue, Steps)
Moves(m)    == reqs = {} /\ motion = m /\ TimersOff /\ NoneOf(queue, Steps)
Posted(t)   == reqs = {} /\ motion = "idle" /\ TimersOff /\ OneOf(queue, Steps, t)
Waits(id, other) ==
  /\ reqs = {} /\ motion = "idle" /\ timer[other] = "off"
  /\ \/ timer[id] = "armed" /\ NoneOf(queue, Steps)
     \/ timer[id] = "due" /\ OneOf(queue, Steps, id)

(* As long as nothing was aborted, a navigation waits for one thing only.  *)
Phase ==
  \/ navState = "IDLE" /\ orientState = "IDLE" /\ Moves("idle")
  \/ /\ navState = "NAVIGATING" /\ orientState = "IDLE"
     /\ Asked("nav") \/ Posted("handleGotLocalization")
  \/ navState = "ORIENTING" /\ orientState = "IDLE" /\ Posted("handleOriented")
  \/ /\ navState = "ORIENTING" /\ orientState = "ORIENT"
     /\ \/ Asked("orient") \/ Moves("turn") \/ Posted("signalTurnDone")
        \/ Waits("orientTimer", "navTimer")
  \/ /\ navState = "MOVING" /\ orientState = "IDLE"
     /\ \/ Moves("move") \/ Posted("signalMoveDone") \/ Posted("handleMoveDone")
        \/ Waits("navTimer", "orientTimer")
        \/ Asked("nav") \/ Posted("handleGotLocalization")
        \/ alarm = "idle" /\ Moves("idle")    \* stopped by an obstacle

(* At most one reading is on its way, and it finds the alarm raised.       *)
Reading ==
  \/ NoneOf(queue, {"handleIRRanger"})
  \/ alarm # "idle" /\ OneOf(queue, {"handleIRRanger"}, "handleIRRanger")

(* This one holds whatever has been aborted.                               *)
FirstLocation ==
  navState = "NAVIGATING" => "nav" \in reqs \/ ~NoneOf(queue, {"handleGotLocalization"})

NavInv == TypeOK /\ FirstLocation /\ Reading /\ (~aborted => Phase)

LEMMA NavInit == Init => NavInv
<1> SUFFICES ASSUME Init PROVE NavInv
  OBVIOUS
<1>1. \A S : NoneOf(queue, S)
  BY DEF Init, NoneOf
<1>2. queue \in Seq(Tasks)
  BY EmptySeq DEF Init
<1>3. TypeOK
  BY <1>2 DEF Init, TypeOK, NavStates, Timers, TimerStates
<1>4. Phase
  BY <1>1 DEF Init, Phase, Moves, TimersOff, Timers
<1>5. QED
  BY <1>1, <1>3, <1>4 DEF Init, NavInv, FirstLocation, Reading

(* Taking the task at the head of the queue.                               *)
LEMMA Taken ==
  ASSUME TypeOK, NEW t \in Tasks, Dispatch(t)
  PROVE  /\ Rest \in Seq(Tasks)
         /\ \A S : NoneOf(queue, S) <=> t \notin S /\ NoneOf(Rest, S)
         /\ \A S : \A u \in S : OneOf(queue, S, u) =>
              IF t \in S THEN u = t /\ NoneOf(Rest, S) ELSE OneOf(Rest, S, u)
<1>1. queue \in Seq(Tasks) /\ queue # <<>> /\ Head(queue) = t
  BY DEF TypeOK, Dispatch
<1>2. Rest \in Seq(Tasks)
  BY <1>1, HeadTailProperties DEF Rest
<1>3. \A S : NoneOf(queue, S) <=> t \notin S /\ NoneOf(Rest, S)
  BY <1>1, TakeNone DEF Rest
<1>4. ASSUME NEW S, NEW u \in S, OneOf(queue, S, u)
      PROVE  IF t \in S THEN u = t /\ NoneOf(Rest, S) ELSE OneOf(Rest, S, u)
  <2>1. \/ t = u /\ NoneOf(Rest, S)
        \/ t \notin S /\ OneOf(Rest, S, u)
    BY <1>1, <1>4, TakeOne DEF Rest
  <2>2. QED
    BY <1>4, <2>1
<1>5. QED
  BY <1>2, <1>3, <1>4

(* Posting a task.                                                         *)
LEMMA PostedTo ==
  ASSUME NEW q \in Seq(Tasks), NEW t \in Tasks
  PROVE  /\ Append(q, t) \in Seq(Tasks)
         /\ \A S : NoneOf(Append(q, t), S) <=> NoneOf(q, S) /\ t \notin S
         /\ \A S : NoneOf(q, S) => OneOf(Append(q, t), S, t)
         /\ \A S, u : OneOf(q, S, u) /\ t \notin S => OneOf(Append(q, t), S, u)
  BY PostNone, PostOne, AppendProperties

LEMMA TimersKept ==
  ASSUME NEW tm \in [Timers -> TimerStates], NEW id \in Timers
  PROVE  /\ TimerStart(tm, id) \in [Timers -> TimerStates]
         /\ TimerStop(tm, id) \in [Timers -> TimerStates]
         /\ AfterExpiry(tm, id, FALSE) \in [Timers -> TimerStates]
  BY DEF TimerStart, TimerStop, AfterExpiry, Timers, TimerStates

-----------------------------------------------------------------------------
(* Commands.                                                               *)
LEMMA MoveToKeeps ==
  ASSUME NavInv, MoveTo
  PROVE  NavInv'
<1>1. TypeOK'
  BY DEF NavInv, TypeOK, MoveTo, NavStates, Clients
<1>2. FirstLocation' /\ Reading'
  BY DEF NavInv, MoveTo, FirstLocation, Reading
<1>3. ASSUME ~aborted' PROVE Phase'
  BY <1>3 DEF NavInv, MoveTo, Phase, Moves, Asked, TimersOff
<1>4. QED
  BY <1>1, <1>2, <1>3 DEF NavInv

LEMMA AbortKeeps ==
  ASSUME NavInv, Abort
  PROVE  NavInv'
<1>1. TypeOK'
  BY TimersKept DEF NavInv, TypeOK, Abort, TurnOffAlarm, NavStates, Timers
<1>2. Reading'
  BY DEF NavInv, Abort, TurnOffAlarm, Reading
<1>3. QED
  BY <1>1, <1>2 DEF NavInv, Abort, FirstLocation

(* Tasks.                                                                  *)
LEMMA TellLocationKeeps ==
  ASSUME NavInv, TellLocation
  PROVE  NavInv'
<1> DEFINE told == IF "nav" \in reqs THEN Append(Rest, "handleGotLocalization") ELSE Rest
<1>1. /\ {"tellLocation", "handleGotLocalization", "handleOriented", "handleOrientFailed"}
           \subseteq Tasks
      /\ "tellLocation" \notin Steps
      /\ {"handleGotLocalization", "handleOriented", "handleOrientFailed"} \subseteq Steps
  BY DEF Tasks, Timers, Handlers, Reports, Steps
<1>2. /\ Rest \in Seq(Tasks)
      /\ \A S : NoneOf(queue, S) <=> "tellLocation" \notin S /\ NoneOf(Rest, S)
      /\ \A S : \A u \in S : OneOf(queue, S, u) =>
           IF "tellLocation" \in S THEN u = "tellLocation" /\ NoneOf(Rest, S)
                                   ELSE OneOf(Rest, S, u)
  BY <1>1, Taken DEF NavInv, TellLocation
<1>3. /\ told \in Seq(Tasks)
      /\ NoneOf(told, {"handleGotLocalization"})
           => "nav" \notin reqs /\ NoneOf(Rest, {"handleGotLocalization"})
      /\ NoneOf(Rest, {"handleIRRanger"}) => NoneOf(told, {"handleIRRanger"})
      /\ OneOf(Rest, {"handleIRRanger"}, "handleIRRanger")
           => OneOf(told, {"handleIRRanger"}, "handleIRRanger")
  BY <1>1, <1>2, PostedTo
<1>4. \/ queue' = told
      \/ \E t \in {"handleOriented", "handleOrientFailed"} : queue' = Append(told, t)
  BY DEF TellLocation
<1>5. /\ queue' \in Seq(Tasks)
      /\ NoneOf(queue', {"handleGotLocalization"})
           => "nav" \notin reqs /\ NoneOf(queue, {"handleGotLocalization"})
      /\ NoneOf(queue, {"handleIRRanger"}) => NoneOf(queue', {"handleIRRanger"})
      /\ OneOf(queue, {"handleIRRanger"}, "handleIRRanger")
           => OneOf(queue', {"handleIRRanger"}, "handleIRRanger")
  <2> HIDE DEF told
  <2>1. CASE queue' = told
    BY <1>2, <1>3, <2>1
  <2>2. ASSUME NEW t \in {"handleOriented", "handleOrientFailed"}, queue' = Append(told, t)
        PROVE  <1>5!:
    BY <1>1, <1>2, <1>3, <2>2, PostedTo
  <2>3. QED
    BY <1>4, <2>1, <2>2
<1>6. TypeOK'
  BY <1>5 DEF NavInv, TypeOK, TellLocation
<1>7. FirstLocation'
  BY <1>5 DEF NavInv, FirstLocation, TellLocation
<1>8. Reading'
  BY <1>5 DEF NavInv, Reading, TellLocation
<1>9. ASSUME ~aborted' PROVE Phase'
  <2>1. Phase /\ UNCHANGED <<navState, alarm, timer>> /\ reqs' = {}
    BY <1>9 DEF NavInv, TellLocation
  <2>2. CASE Asked("nav")
    <3>1. queue' = Append(Rest, "handleGotLocalization") /\ UNCHANGED <<orientState, motion>>
      BY <2>2 DEF Asked, TellLocation
    <3>2. OneOf(queue', Steps, "handleGotLocalization")
      BY <1>1, <1>2, <2>2, <3>1, PostedTo DEF Asked
    <3>3. Posted("handleGotLocalization")'
      BY <2>1, <2>2, <3>1, <3>2 DEF Asked, Posted, TimersOff
    <3>4. QED
      BY <2>1, <2>2, <3>1, <3>3 DEF Phase, Asked, Moves, Posted, Waits
  <2>3. CASE Asked("orient")
    <3>1. navState = "ORIENTING" /\ orientState = "ORIENT" /\ told = Rest /\ motion = "idle"
      BY <2>1, <2>3 DEF Phase, Asked, Moves, Posted, Waits
    <3>2. NoneOf(Rest, Steps)
      BY <1>1, <1>2, <2>3 DEF Asked
    <3>3. \/ /\ orientState' = "IDLE" /\ motion' = "idle"
             /\ queue' = Append(Rest, "handleOriented")
          \/ orientState' = "ORIENT" /\ motion' = "turn" /\ queue' = Rest
      BY <2>3, <3>1 DEF Asked, TellLocation
    <3>4. OneOf(Append(Rest, "handleOriented"), Steps, "handleOriented")
      BY <1>1, <1>2, <3>2, PostedTo
    <3>5. \/ (Posted("handleOriented")') /\ orientState' = "IDLE"
          \/ (Moves("turn")') /\ orientState' = "ORIENT"
      BY <2>1, <2>3, <3>2, <3>3, <3>4 DEF Asked, Posted, Moves, TimersOff
    <3>6. QED
      BY <2>1, <3>1, <3>5 DEF Phase
  <2>4. CASE reqs = {}
    <3>1. queue' = Rest /\ UNCHANGED <<orientState, motion>>
      BY <2>4 DEF TellLocation
    <3>2. /\ NoneOf(queue, Steps) => NoneOf(queue', Steps)
          /\ \A u \in Steps : OneOf(queue, Steps, u) => OneOf(queue', Steps, u)
      BY <1>1, <1>2, <3>1
    <3>3. {"signalTurnDone", "signalMoveDone", "handleMoveDone", "navTimer", "orientTimer"}
            \subseteq Steps
      BY DEF Steps, Tasks, Timers, Handlers, Reports
    <3>4. QED
      BY <1>1, <2>1, <2>4, <3>1, <3>2, <3>3
         DEF Phase, Asked, Moves, Posted, Waits, TimersOff
  <2>5. QED
    BY <2>1, <2>2, <2>3, <2>4 DEF Phase, Asked, Moves, Posted, Waits
<1>10. QED
  BY <1>6, <1>7, <1>8, <1>9 DEF NavInv

(* What taking the step t says: nothing else was waited for, the place of  *)
(* a reading in the queue stays.                                           *)
StepOf(t) ==
  /\ Rest \in Seq(Tasks)
  /\ ~NoneOf(queue, Steps)
  /\ \A u \in Steps : OneOf(queue, Steps, u) => u = t /\ NoneOf(Rest, Steps)
  /\ t # "handleGotLocalization" =>
       (NoneOf(queue, {"handleGotLocalization"}) <=> NoneOf(Rest, {"handleGotLocalization"}))
  /\ NoneOf(queue, {"handleIRRanger"}) => NoneOf(Rest, {"handleIRRanger"})
  /\ OneOf(queue, {"handleIRRanger"}, "handleIRRanger")
       => OneOf(Rest, {"handleIRRanger"}, "handleIRRanger")

LEMMA StepTaken ==
  ASSUME NavInv, NEW t \in Steps, Dispatch(t)
  PROVE  StepOf(t)
  BY Taken DEF NavInv, Steps, StepOf

LEMMA StepNames ==
  /\ Timers \cup {"handleGotLocalization", "handleMoveDone", "handleOriented",
       "handleOrientFailed", "signalMoveDone", "signalTurnDone"} \subseteq Steps
  /\ Steps \subseteq Tasks
  /\ {"tellLocation", "handleIRRanger", "handleObstacleAlarm"} \cap Steps = {}
  /\ {"tellLocation", "handleIRRanger", "handleObstacleAlarm"} \subseteq Tasks
  BY DEF Steps, Tasks, Timers, Handlers, Reports

LEMMA GotLocalizationKeeps ==
  ASSUME NavInv, HandleGotLocalization
  PROVE  NavInv'
<1>1. /\ queue' = Rest /\ StepOf("handleGotLocalization")
      /\ UNCHANGED <<motion, timer, aborted>>
  BY StepTaken, StepNames DEF HandleGotLocalization
<1>2. TypeOK'
  BY <1>1 DEF StepOf, NavInv, TypeOK, HandleGotLocalization, MoveToLocation, Orient, TurnOffAlarm,
     NavStates, Clients
<1>3. FirstLocation'
  BY DEF FirstLocation, HandleGotLocalization, MoveToLocation
<1>4. Reading'
  BY <1>1 DEF StepOf, NavInv, Reading, HandleGotLocalization, TurnOffAlarm
<1>5. ASSUME ~aborted' PROVE Phase'
  <2>1. Phase
    BY <1>1, <1>5 DEF StepOf, NavInv
  <2>2. /\ Posted("handleGotLocalization") /\ NoneOf(Rest, Steps)
        /\ navState \in {"NAVIGATING", "MOVING"} /\ orientState = "IDLE"
    BY <1>1, <2>1, StepNames DEF StepOf, Phase, Asked, Moves, Posted, Waits, Timers
  <2>3. CASE MoveToLocation
    BY <1>1, <2>2, <2>3 DEF StepOf, MoveToLocation, Orient, Phase, Posted, Asked, TimersOff
  <2>4. CASE navState' = "IDLE" /\ UNCHANGED <<orientState, reqs>>
    BY <1>1, <2>2, <2>4 DEF StepOf, Phase, Posted, Moves, TimersOff
  <2>5. QED
    BY <2>2, <2>3, <2>4 DEF HandleGotLocalization
<1>6. QED
  BY <1>2, <1>3, <1>4, <1>5 DEF NavInv

LEMMA OrientedKeeps ==
  ASSUME NavInv, HandleOriented
  PROVE  NavInv'
<1>1. /\ StepOf("handleOriented")
      /\ UNCHANGED <<orientState, reqs, timer, aborted>>
  BY StepTaken, StepNames DEF HandleOriented
<1>2. LET more == Append(Rest, "signalMoveDone")
      IN  /\ more \in Seq(Tasks)
          /\ NoneOf(more, {"handleGotLocalization"}) => NoneOf(Rest, {"handleGotLocalization"})
          /\ NoneOf(Rest, Steps) => OneOf(more, Steps, "signalMoveDone")
          /\ NoneOf(Rest, {"handleIRRanger"}) => NoneOf(more, {"handleIRRanger"})
          /\ OneOf(Rest, {"handleIRRanger"}, "handleIRRanger")
               => OneOf(more, {"handleIRRanger"}, "handleIRRanger")
  BY <1>1, PostedTo, StepNames DEF StepOf
<1>3. queue' = Rest \/ queue' = Append(Rest, "signalMoveDone")
  BY DEF HandleOriented
<1>4. TypeOK'
  BY <1>1, <1>2, <1>3 DEF StepOf, NavInv, TypeOK, HandleOriented, SetObstacleAlarm, NavStates
<1>5. FirstLocation'
  BY <1>1, <1>2, <1>3 DEF StepOf, NavInv, FirstLocation, HandleOriented
<1>6. Reading'
  <2>1. alarm # "idle" => alarm' # "idle"
    BY DEF HandleOriented, SetObstacleAlarm
  <2>2. QED
    BY <1>1, <1>2, <1>3, <2>1 DEF StepOf, NavInv, Reading
<1>7. ASSUME ~aborted' PROVE Phase'
  <2>1. Phase
    BY <1>1, <1>7 DEF StepOf, NavInv
  <2>2. /\ Posted("handleOriented") /\ NoneOf(Rest, Steps)
        /\ navState = "ORIENTING" /\ orientState = "IDLE"
    BY <1>1, <2>1, StepNames DEF StepOf, Phase, Asked, Moves, Posted, Waits, Timers
  <2>3. /\ navState' = "MOVING"
        /\ \/ motion' = "move" /\ queue' = Rest
           \/ motion' = "idle" /\ queue' = Append(Rest, "signalMoveDone")
    BY <2>2 DEF HandleOriented, Posted
  <2>4. (Moves("move")') \/ (Posted("signalMoveDone")')
    BY <1>1, <1>2, <2>2, <2>3 DEF StepOf, Posted, Moves, TimersOff
  <2>5. QED
    BY <1>1, <2>2, <2>3, <2>4 DEF StepOf, Phase
<1>8. QED
  BY <1>4, <1>5, <1>6, <1>7 DEF NavInv

(* Unless something was aborted, no turn is ever refused.                  *)
LEMMA OrientFailedKeeps ==
  ASSUME NavInv, HandleOrientFailed
  PROVE  NavInv'
<1>1. /\ queue' = Rest /\ StepOf("handleOrientFailed")
      /\ UNCHANGED <<navState, motion, alarm, timer, aborted>>
  BY StepTaken, StepNames DEF HandleOrientFailed
<1>2. TypeOK'
  BY <1>1 DEF StepOf, NavInv, TypeOK, HandleOrientFailed, Orient, Clients
<1>3. FirstLocation' /\ Reading'
  BY <1>1 DEF StepOf, NavInv, FirstLocation, Reading, HandleOrientFailed, Orient
<1>4. aborted
  <2> SUFFICES ASSUME ~aborted PROVE FALSE
    OBVIOUS
  <2>1. Phase
    BY DEF NavInv
  <2>2. QED
    BY <1>1, <2>1, StepNames DEF StepOf, Phase, Asked, Moves, Posted, Waits, Timers
<1>5. QED
  BY <1>1, <1>2, <1>3, <1>4 DEF NavInv

LEMMA MoveDoneKeeps ==
  ASSUME NavInv, HandleMoveDone
  PROVE  NavInv'
<1>1. /\ queue' = Rest /\ StepOf("handleMoveDone")
      /\ UNCHANGED <<navState, orientState, reqs, motion, alarm, aborted>>
  BY StepTaken, StepNames DEF HandleMoveDone
<1>2. TypeOK'
  BY <1>1, TimersKept DEF StepOf, NavInv, TypeOK, HandleMoveDone, Timers
<1>3. FirstLocation' /\ Reading'
  BY <1>1 DEF StepOf, NavInv, FirstLocation, Reading
<1>4. ASSUME ~aborted' PROVE Phase'
  <2>1. Phase
    BY <1>1, <1>4 DEF StepOf, NavInv
  <2>2. /\ Posted("handleMoveDone") /\ NoneOf(Rest, Steps)
        /\ navState = "MOVING" /\ orientState = "IDLE"
    BY <1>1, <2>1, StepNames DEF StepOf, Phase, Asked, Moves, Posted, Waits, Timers
  <2>3. timer'["navTimer"] = "armed" /\ timer'["orientTimer"] = "off"
    BY <2>2 DEF NavInv, TypeOK, HandleMoveDone, TimerStart, Timers, Posted, TimersOff
  <2>4. Waits("navTimer", "orientTimer")'
    BY <1>1, <2>2, <2>3 DEF StepOf, Posted, Waits
  <2>5. QED
    BY <1>1, <2>2, <2>4 DEF StepOf, Phase
<1>5. QED
  BY <1>2, <1>3, <1>4 DEF NavInv

LEMMA SignalTurnDoneKeeps ==
  ASSUME NavInv, SignalTurnDone
  PROVE  NavInv'
<1>1. /\ queue' = Rest /\ StepOf("signalTurnDone")
      /\ UNCHANGED <<navState, orientState, reqs, motion, alarm, aborted>>
  BY StepTaken, StepNames DEF SignalTurnDone
<1>2. TypeOK'
  BY <1>1, TimersKept DEF StepOf, NavInv, TypeOK, SignalTurnDone, Timers
<1>3. FirstLocation' /\ Reading'
  BY <1>1 DEF StepOf, NavInv, FirstLocation, Reading
<1>4. ASSUME ~aborted' PROVE Phase'
  <2>1. Phase
    BY <1>1, <1>4 DEF StepOf, NavInv
  <2>2. /\ Posted("signalTurnDone") /\ NoneOf(Rest, Steps)
        /\ navState = "ORIENTING" /\ orientState = "ORIENT"
    BY <1>1, <2>1, StepNames DEF StepOf, Phase, Asked, Moves, Posted, Waits, Timers
  <2>3. timer'["orientTimer"] = "armed" /\ timer'["navTimer"] = "off"
    BY <2>2 DEF NavInv, TypeOK, SignalTurnDone, TimerStart, Timers, Posted, TimersOff
  <2>4. Waits("orientTimer", "navTimer")'
    BY <1>1, <2>2, <2>3 DEF StepOf, Posted, Waits
  <2>5. QED
    BY <1>1, <2>2, <2>4 DEF StepOf, Phase
<1>5. QED
  BY <1>2, <1>3, <1>4 DEF NavInv

LEMMA SignalMoveDoneKeeps ==
  ASSUME NavInv, SignalMoveDone
  PROVE  NavInv'
<1>1. /\ queue' = Append(Rest, "handleMoveDone") /\ StepOf("signalMoveDone")
      /\ UNCHANGED <<navState, orientState, reqs, motion, alarm, timer, aborted>>
  BY StepTaken, StepNames DEF SignalMoveDone
<1>2. /\ queue' \in Seq(Tasks)
      /\ NoneOf(queue', {"handleGotLocalization"}) => NoneOf(Rest, {"handleGotLocalization"})
      /\ NoneOf(Rest, Steps) => OneOf(queue', Steps, "handleMoveDone")
      /\ NoneOf(Rest, {"handleIRRanger"}) => NoneOf(queue', {"handleIRRanger"})
      /\ OneOf(Rest, {"handleIRRanger"}, "handleIRRanger")
           => OneOf(queue', {"handleIRRanger"}, "handleIRRanger")
  BY <1>1, PostedTo, StepNames DEF StepOf
<1>3. TypeOK' /\ FirstLocation' /\ Reading'
  BY <1>1, <1>2 DEF StepOf, NavInv, TypeOK, FirstLocation, Reading
<1>4. ASSUME ~aborted' PROVE Phase'
  <2>1. Phase
    BY <1>1, <1>4 DEF StepOf, NavInv
  <2>2. /\ Posted("signalMoveDone") /\ NoneOf(Rest, Steps)
        /\ navState = "MOVING" /\ orientState = "IDLE"
    BY <1>1, <2>1, StepNames DEF StepOf, Phase, Asked, Moves, Posted, Waits, Timers
  <2>3. Posted("handleMoveDone")'
    BY <1>1, <1>2, <2>2 DEF StepOf, Posted, TimersOff
  <2>4. QED
    BY <1>1, <2>2, <2>3 DEF StepOf, Phase
<1>5. QED
  BY <1>3, <1>4 DEF NavInv

(* Taking a task that is no step leaves what is waited for as it is.       *)
LEMMA OtherTaken ==
  ASSUME NavInv, NEW t \in {"tellLocation", "handleIRRanger", "handleObstacleAlarm"},
         Dispatch(t)
  PROVE  /\ Rest \in Seq(Tasks)
         /\ NoneOf(queue, {"handleGotLocalization"}) <=> NoneOf(Rest, {"handleGotLocalization"})
         /\ NoneOf(queue, Steps) => NoneOf(Rest, Steps)
         /\ \A u \in Steps : OneOf(queue, Steps, u) => OneOf(Rest, Steps, u)
         /\ NoneOf(queue, {"handleIRRanger"}) => NoneOf(Rest, {"handleIRRanger"})
         /\ OneOf(queue, {"handleIRRanger"}, "handleIRRanger") =>
              IF t = "handleIRRanger" THEN NoneOf(Rest, {"handleIRRanger"})
                                      ELSE OneOf(Rest, {"handleIRRanger"}, "handleIRRanger")
  BY Taken, StepNames DEF NavInv

(* Nor does posting one.                                                   *)
LEMMA OtherPosted ==
  ASSUME NEW q \in Seq(Tasks),
         NEW t \in {"tellLocation", "handleIRRanger", "handleObstacleAlarm"}
  PROVE  /\ Append(q, t) \in Seq(Tasks)
         /\ NoneOf(Append(q, t), {"handleGotLocalization"}) => NoneOf(q, {"handleGotLocalization"})
         /\ NoneOf(q, Steps) => NoneOf(Append(q, t), Steps)
         /\ \A u \in Steps : OneOf(q, Steps, u) => OneOf(Append(q, t), Steps, u)
         /\ NoneOf(q, {"handleIRRanger"}) =>
              IF t = "handleIRRanger" THEN OneOf(Append(q, t), {"handleIRRanger"}, t)
                                      ELSE NoneOf(Append(q, t), {"handleIRRanger"})
         /\ OneOf(q, {"handleIRRanger"}, "handleIRRanger") /\ t # "handleIRRanger"
              => OneOf(Append(q, t), {"handleIRRanger"}, "handleIRRanger")
  BY PostedTo, StepNames

(* When the steps in the queue and the rest stay, so does the phase.       *)
LEMMA PhaseKept ==
  ASSUME Phase,
         UNCHANGED <<navState, orientState, reqs, motion, timer>>,
         alarm = "idle" => alarm' = "idle",
         NoneOf(queue, Steps) => NoneOf(queue', Steps),
         \A u \in Steps : OneOf(queue, Steps, u) => OneOf(queue', Steps, u)
  PROVE  Phase'
  BY StepNames DEF Phase, Asked, Moves, Posted, Waits, TimersOff, Timers

LEMMA ObstacleAlarmKeeps ==
  ASSUME NavInv, HandleObstacleAlarm
  PROVE  NavInv'
<1>1. /\ queue' = Rest
      /\ UNCHANGED <<navState, orientState, reqs, motion, alarm, timer, aborted>>
      /\ Dispatch("handleObstacleAlarm")
  BY DEF HandleObstacleAlarm
<1>2. TypeOK' /\ FirstLocation' /\ Reading'
  BY <1>1, OtherTaken DEF NavInv, TypeOK, FirstLocation, Reading
<1>3. ASSUME ~aborted' PROVE Phase'
  BY <1>1, <1>3, OtherTaken, PhaseKept DEF NavInv
<1>4. QED
  BY <1>2, <1>3 DEF NavInv

(* An obstacle ends a move; a location, a turn or a timer goes on.         *)
LEMMA IRRangerKeeps ==
  ASSUME NavInv, HandleIRRanger
  PROVE  NavInv'
<1>1. /\ Rest \in Seq(Tasks)
      /\ queue' = Rest \/ queue' = Append(Rest, "handleObstacleAlarm")
      /\ Dispatch("handleIRRanger") /\ UNCHANGED <<navState, reqs, aborted>>
  BY OtherTaken DEF HandleIRRanger
<1>2. /\ queue' \in Seq(Tasks)
      /\ NoneOf(queue', {"handleGotLocalization"}) => NoneOf(queue, {"handleGotLocalization"})
      /\ NoneOf(queue, Steps) => NoneOf(queue', Steps)
      /\ \A u \in Steps : OneOf(queue, Steps, u) => OneOf(queue', Steps, u)
  <2>1. /\ NoneOf(Rest, {"handleGotLocalization"}) => NoneOf(queue, {"handleGotLocalization"})
        /\ NoneOf(queue, Steps) => NoneOf(Rest, Steps)
        /\ \A u \in Steps : OneOf(queue, Steps, u) => OneOf(Rest, Steps, u)
    BY <1>1, OtherTaken
  <2>2. CASE queue' = Rest
    BY <1>1, <2>1, <2>2
  <2>3. CASE queue' = Append(Rest, "handleObstacleAlarm")
    BY <1>1, <2>1, <2>3, OtherPosted
  <2>4. QED
    BY <1>1, <2>2, <2>3
<1>3. alarm # "idle" /\ NoneOf(queue', {"handleIRRanger"})
  <2>1. ~NoneOf(queue, {"handleIRRanger"})
    BY <1>1, Taken, StepNames DEF NavInv
  <2>2. alarm # "idle" /\ NoneOf(Rest, {"handleIRRanger"})
    BY <1>1, <2>1, OtherTaken DEF NavInv, Reading
  <2>3. QED
    BY <1>1, <2>2, OtherPosted
<1>4. TypeOK'
  BY <1>2, TimersKept DEF NavInv, TypeOK, HandleIRRanger, Timers
<1>5. FirstLocation' /\ Reading'
  BY <1>1, <1>2, <1>3 DEF NavInv, FirstLocation, Reading
<1>6. ASSUME ~aborted' PROVE Phase'
  <2>1. Phase
    BY <1>1, <1>6 DEF NavInv
  <2>2. CASE UNCHANGED <<motion, orientState, timer>>
    BY <1>1, <1>2, <1>3, <2>1, <2>2, PhaseKept
  <2>3. CASE /\ navState = "MOVING" /\ alarm' = "idle" /\ motion' = "idle"
             /\ orientState' = "IDLE" /\ timer' = TimerStop(timer, "orientTimer")
    <3>1. timer'["navTimer"] = timer["navTimer"] /\ timer'["orientTimer"] = "off"
      BY <2>3 DEF NavInv, TypeOK, TimerStop, Timers
    <3>2. CASE Moves("move") \/ Moves("idle")
      BY <1>1, <1>2, <2>3, <3>1, <3>2 DEF Phase, Moves, TimersOff
    <3>3. CASE ~Moves("move") /\ ~Moves("idle")
      <4>1. \/ Posted("signalMoveDone") \/ Posted("handleMoveDone")
            \/ Waits("navTimer", "orientTimer")
            \/ Asked("nav") \/ Posted("handleGotLocalization")
        BY <2>1, <2>3, <3>3 DEF Phase
      <4>2. \/ (Posted("signalMoveDone")') \/ (Posted("handleMoveDone")')
            \/ (Waits("navTimer", "orientTimer")')
            \/ (Asked("nav")') \/ (Posted("handleGotLocalization")')
        BY <1>1, <1>2, <2>3, <3>1, <4>1, StepNames DEF Posted, Waits, Asked, TimersOff, Timers
      <4>3. QED
        BY <1>1, <2>3, <4>2 DEF Phase
    <3>4. QED
      BY <3>2, <3>3
  <2>4. QED
    BY <2>2, <2>3 DEF HandleIRRanger
<1>7. QED
  BY <1>4, <1>5, <1>6 DEF NavInv

(* Unless something was aborted, an expiry is that of a running timer.     *)
LEMMA NavTimerKeeps ==
  ASSUME NavInv, TimerFired("navTimer", "nav")
  PROVE  NavInv'
<1>1. /\ queue' = Rest /\ StepOf("navTimer")
      /\ UNCHANGED <<navState, orientState, motion, alarm, aborted>>
      /\ timer' = AfterExpiry(timer, "navTimer", FALSE)
      /\ reqs' = IF Delivered(timer, "navTimer") THEN reqs \cup {"nav"} ELSE reqs
  BY StepTaken, StepNames DEF TimerFired, Timers
<1>2. TypeOK'
  BY <1>1, TimersKept DEF StepOf, NavInv, TypeOK, Clients, Timers
<1>3. FirstLocation' /\ Reading'
  BY <1>1 DEF StepOf, NavInv, FirstLocation, Reading
<1>4. ASSUME ~aborted' PROVE Phase'
  <2>1. Phase
    BY <1>1, <1>4 DEF NavInv
  <2>2. /\ Waits("navTimer", "orientTimer") /\ timer["navTimer"] = "due" /\ NoneOf(Rest, Steps)
        /\ navState = "MOVING" /\ orientState = "IDLE"
    BY <1>1, <2>1, StepNames DEF StepOf, Phase, Asked, Moves, Posted, Waits, Timers
  <2>3. timer'["navTimer"] = "off" /\ timer'["orientTimer"] = "off" /\ reqs' = {"nav"}
    BY <1>1, <2>2 DEF NavInv, TypeOK, AfterExpiry, Delivered, Timers, Waits
  <2>4. Asked("nav")'
    BY <1>1, <2>2, <2>3 DEF Asked, Waits, TimersOff
  <2>5. QED
    BY <1>1, <2>2, <2>4 DEF Phase
<1>5. QED
  BY <1>2, <1>3, <1>4 DEF NavInv

LEMMA OrientTimerKeeps ==
  ASSUME NavInv, TimerFired("orientTimer", "orient")
  PROVE  NavInv'
<1>1. /\ queue' = Rest /\ StepOf("orientTimer")
      /\ UNCHANGED <<navState, orientState, motion, alarm, aborted>>
      /\ timer' = AfterExpiry(timer, "orientTimer", FALSE)
      /\ reqs' = IF Delivered(timer, "orientTimer") THEN reqs \cup {"orient"} ELSE reqs
  BY StepTaken, StepNames DEF TimerFired, Timers
<1>2. TypeOK'
  BY <1>1, TimersKept DEF StepOf, NavInv, TypeOK, Clients, Timers
<1>3. FirstLocation' /\ Reading'
  BY <1>1 DEF StepOf, NavInv, FirstLocation, Reading
<1>4. ASSUME ~aborted' PROVE Phase'
  <2>1. Phase
    BY <1>1, <1>4 DEF NavInv
  <2>2. /\ Waits("orientTimer", "navTimer") /\ timer["orientTimer"] = "due"
        /\ NoneOf(Rest, Steps) /\ navState = "ORIENTING" /\ orientState = "ORIENT"
    BY <1>1, <2>1, StepNames DEF StepOf, Phase, Asked, Moves, Posted, Waits, Timers
  <2>3. timer'["navTimer"] = "off" /\ timer'["orientTimer"] = "off" /\ reqs' = {"orient"}
    BY <1>1, <2>2 DEF NavInv, TypeOK, AfterExpiry, Delivered, Timers, Waits
  <2>4. Asked("orient")'
    BY <1>1, <2>2, <2>3 DEF Asked, Waits, TimersOff
  <2>5. QED
    BY <1>1, <2>2, <2>4 DEF Phase
<1>5. QED
  BY <1>2, <1>3, <1>4 DEF NavInv

-----------------------------------------------------------------------------
(* The services.                                                           *)
LEMMA LocateKeeps ==
  ASSUME NavInv, Locate
  PROVE  NavInv'
<1>1. /\ queue' = Append(queue, "tellLocation")
      /\ UNCHANGED <<navState, orientState, reqs, motion, alarm, timer, aborted>>
  BY DEF Locate
<1>2. TypeOK' /\ FirstLocation' /\ Reading'
  BY <1>1, OtherPosted DEF NavInv, TypeOK, FirstLocation, Reading
<1>3. ASSUME ~aborted' PROVE Phase'
  BY <1>1, <1>3, OtherPosted, PhaseKept DEF NavInv, TypeOK
<1>4. QED
  BY <1>2, <1>3 DEF NavInv

LEMMA ReadRangeKeeps ==
  ASSUME NavInv, ReadRange
  PROVE  NavInv'
<1>1. /\ queue' = Append(queue, "handleIRRanger")
      /\ UNCHANGED <<navState, orientState, reqs, motion, alarm, timer, aborted>>
      /\ alarm = "watching" /\ NoneOf(queue, {"handleIRRanger"})
  BY QueuedIs DEF ReadRange
<1>2. TypeOK' /\ FirstLocation' /\ Reading'
  BY <1>1, OtherPosted DEF NavInv, TypeOK, FirstLocation, Reading
<1>3. ASSUME ~aborted' PROVE Phase'
  BY <1>1, <1>3, OtherPosted, PhaseKept DEF NavInv, TypeOK
<1>4. QED
  BY <1>2, <1>3 DEF NavInv

LEMMA EndMotionKeeps ==
  ASSUME NavInv, EndMotion
  PROVE  NavInv'
<1> DEFINE t == IF motion = "move" THEN "signalMoveDone" ELSE "signalTurnDone"
<1>1. /\ queue' = Append(queue, t) /\ motion # "idle" /\ motion' = "idle"
      /\ UNCHANGED <<navState, orientState, reqs, alarm, timer, aborted>>
  BY DEF EndMotion
<1>2. t \in Tasks /\ t \in Steps /\ t \notin {"handleGotLocalization", "handleIRRanger"}
  BY StepNames
<1> HIDE DEF t
<1>3. /\ queue' \in Seq(Tasks)
      /\ NoneOf(queue', {"handleGotLocalization"}) => NoneOf(queue, {"handleGotLocalization"})
      /\ NoneOf(queue, Steps) => OneOf(queue', Steps, t)
      /\ NoneOf(queue, {"handleIRRanger"}) => NoneOf(queue', {"handleIRRanger"})
      /\ OneOf(queue, {"handleIRRanger"}, "handleIRRanger")
           => OneOf(queue', {"handleIRRanger"}, "handleIRRanger")
  BY <1>1, <1>2, PostedTo DEF NavInv, TypeOK
<1>4. TypeOK' /\ FirstLocation' /\ Reading'
  BY <1>1, <1>3 DEF NavInv, TypeOK, FirstLocation, Reading
<1>5. ASSUME ~aborted' PROVE Phase'
  <2>1. Phase
    BY <1>1, <1>5 DEF NavInv
  <2>2. \/ navState = "ORIENTING" /\ orientState = "ORIENT" /\ Moves("turn")
        \/ navState = "MOVING" /\ orientState = "IDLE" /\ Moves("move")
    BY <1>1, <2>1 DEF Phase, Asked, Moves, Posted, Waits
  <2>3. CASE navState = "ORIENTING"
    <3>1. t = "signalTurnDone"
      BY <2>2, <2>3 DEF Moves, t
    <3>2. Posted("signalTurnDone")'
      BY <1>1, <1>3, <2>2, <3>1 DEF Moves, Posted, TimersOff
    <3>3. QED
      BY <1>1, <2>2, <2>3, <3>2 DEF Phase
  <2>4. CASE navState = "MOVING"
    <3>1. t = "signalMoveDone"
      BY <2>2, <2>4 DEF Moves, t
    <3>2. Posted("signalMoveDone")'
      BY <1>1, <1>3, <2>2, <3>1 DEF Moves, Posted, TimersOff
    <3>3. QED
      BY <1>1, <2>2, <2>4, <3>2 DEF Phase
  <2>5. QED
    BY <2>2, <2>3, <2>4
<1>6. QED
  BY <1>4, <1>5 DEF NavInv

LEMMA ExpireKeeps ==
  ASSUME NavInv, NEW id \in Timers, Expire(id)
  PROVE  NavInv'
<1>1. /\ queue' = Append(queue, id) /\ timer[id] = "armed"
      /\ timer' = [timer EXCEPT ![id] = "due"]
      /\ UNCHANGED <<navState, orientState, reqs, motion, alarm, aborted>>
  BY DEF Expire
<1>2. id \in Tasks /\ id \in Steps /\ id \notin {"handleGotLocalization", "handleIRRanger"}
  BY StepNames DEF Timers
<1>3. /\ queue' \in Seq(Tasks)
      /\ NoneOf(queue', {"handleGotLocalization"}) => NoneOf(queue, {"handleGotLocalization"})
      /\ NoneOf(queue, Steps) => OneOf(queue', Steps, id)
      /\ NoneOf(queue, {"handleIRRanger"}) => NoneOf(queue', {"handleIRRanger"})
      /\ OneOf(queue, {"handleIRRanger"}, "handleIRRanger")
           => OneOf(queue', {"handleIRRanger"}, "handleIRRanger")
  BY <1>1, <1>2, PostedTo DEF NavInv, TypeOK
<1>4. timer' \in [Timers -> TimerStates]
  BY <1>1 DEF NavInv, TypeOK, TimerStates
<1>5. TypeOK' /\ FirstLocation' /\ Reading'
  BY <1>1, <1>3, <1>4 DEF NavInv, TypeOK, FirstLocation, Reading
<1>6. ASSUME ~aborted' PROVE Phase'
  <2>1. Phase
    BY <1>1, <1>6 DEF NavInv
  <2>2. timer'[id] = "due" /\ \A o \in Timers : o # id => timer'[o] = timer[o]
    BY <1>1 DEF NavInv, TypeOK
  <2>3. CASE id = "navTimer"
    <3>1. navState = "MOVING" /\ orientState = "IDLE" /\ Waits("navTimer", "orientTimer")
      BY <1>1, <2>1, <2>3 DEF Phase, Asked, Moves, Posted, Waits, TimersOff
    <3>2. Waits("navTimer", "orientTimer")'
      BY <1>1, <1>3, <2>2, <2>3, <3>1 DEF Waits, Timers
    <3>3. QED
      BY <1>1, <3>1, <3>2 DEF Phase
  <2>4. CASE id = "orientTimer"
    <3>1. navState = "ORIENTING" /\ orientState = "ORIENT" /\ Waits("orientTimer", "navTimer")
      BY <1>1, <2>1, <2>4 DEF Phase, Asked, Moves, Posted, Waits, TimersOff
    <3>2. Waits("orientTimer", "navTimer")'
      BY <1>1, <1>3, <2>2, <2>4, <3>1 DEF Waits, Timers
    <3>3. QED
      BY <1>1, <3>1, <3>2 DEF Phase
  <2>5. QED
    BY <2>3, <2>4 DEF Timers
<1>7. QED
  BY <1>5, <1>6 DEF NavInv

LEMMA NavStutter ==
  ASSUME NavInv, UNCHANGED vars
  PROVE  NavInv'
<1>1. TypeOK' /\ FirstLocation' /\ Reading'
  BY DEF NavInv, TypeOK, FirstLocation, Reading, vars
<1>2. ASSUME ~aborted' PROVE Phase'
  BY <1>2, PhaseKept DEF NavInv, vars
<1>3. QED
  BY <1>1, <1>2 DEF NavInv

LEMMA NavCorrect == Spec => []NavInv
<1>1. NavInv /\ [Next]_vars => NavInv'
  BY MoveToKeeps, AbortKeeps, TellLocationKeeps, GotLocalizationKeeps, OrientedKeeps,
     OrientFailedKeeps, MoveDoneKeeps, SignalTurnDoneKeeps, SignalMoveDoneKeeps,
     ObstacleAlarmKeeps, IRRangerKeeps, NavTimerKeeps, OrientTimerKeeps, LocateKeeps,
     ReadRangeKeeps, EndMotionKeeps, ExpireKeeps, NavStutter
     DEF Next, RunTask
<1>2. QED
  BY <1>1, NavInit, PTL DEF Spec

(* Every variable keeps its type; three states of NavigationM are never    *)
(* entered.                                                                *)
THEOREM TypeCorrect == Spec => []TypeOK
<1>1. NavInv => TypeOK
  BY DEF NavInv
<1>2. QED
  BY <1>1, NavCorrect, PTL

(* An accepted destination always has its first location on the way,       *)
(* whatever was aborted before.                                            *)
THEOREM NavigatingServed == Spec => []NavigatingIsServed
<1>1. NavInv => NavigatingIsServed
  BY QueuedIs DEF NavInv, FirstLocation, NavigatingIsServed, Coming
<1>2. QED
  BY <1>1, NavCorrect, PTL

(* The only task of a set is a queued one.                                 *)
LEMMA OneIsQueued ==
  ASSUME NEW q, NEW S, NEW t, OneOf(q, S, t)
  PROVE  Queued(q, t)
  BY DEF OneOf, Queued

(* While Orient is waited for, it has reported, or waits itself for what   *)
(* will come.                                                              *)
THEOREM OrientingServed == Spec => []OrientingIsServed
<1>1. NavInv => OrientingIsServed
  BY OneIsQueued
     DEF NavInv, Phase, Asked, Moves, Posted, Waits, OrientingIsServed, Coming
<1>2. QED
  BY <1>1, NavCorrect, PTL

(* A leg without an obstacle ends, and is followed by another look at the  *)
(* position.                                                               *)
THEOREM MovingServed == Spec => []MovingIsServed
<1>1. NavInv => MovingIsServed
  BY OneIsQueued
     DEF NavInv, Phase, Asked, Moves, Posted, Waits, MovingIsServed, Coming
<1>2. QED
  BY <1>1, NavCorrect, PTL

-----------------------------------------------------------------------------
(* The turns of OrientM, which Navigation reduces to being aligned or not: *)
(* the arithmetic of Orientation, for all headings and goals up to 360     *)
(* degrees and any errors of at most five.                                 *)

(* A heading or a goal in degrees.                                         *)
Degrees360 == {n \in Int : 0 <= n /\ n <= 360}

(* calculateTurnAngle returns the difference of the headings, up to a full *)
(* turn, and at most half a turn.                                          *)
LEMMA TurnAngle ==
  ASSUME NEW h \in Degrees360, NEW g \in Degrees360
  PROVE  /\ CalculateTurnAngle(h, g) \in Int
         /\ \/ CalculateTurnAngle(h, g) = g - h
            \/ CalculateTurnAngle(h, g) = g - h + 360
            \/ CalculateTurnAngle(h, g) = g - h - 360
         /\ Abs(CalculateTurnAngle(h, g)) <= 180
BY DEF Degrees360, CalculateTurnAngle, Abs

(* Of the headings that differ by at most five degrees, up to a full turn, *)
(* calculateTurnAngle says that they do.                                   *)
LEMMA NearIsAligned ==
  ASSUME NEW h \in Degrees360, NEW g \in Degrees360, NEW e \in Int,
         -5 <= e, e <= 5,
         \/ h = g + e \/ h = g + e + 360 \/ h = g + e - 360
  PROVE  Abs(CalculateTurnAngle(h, g)) <= 5
BY DEF Degrees360, CalculateTurnAngle, Abs

(* A turn by that angle, missing by e, ends e degrees from the goal.       *)
LEMMA TurnedNear ==
  ASSUME NEW h \in Degrees360, NEW g \in Degrees360, NEW e \in Int,
         -5 <= e, e <= 5
  PROVE  LET n == Turned(h, CalculateTurnAngle(h, g), e)
         IN  /\ n \in Degrees360
             /\ n = g + e \/ n = g + e + 360 \/ n = g + e - 360
<1> DEFINE m == h + CalculateTurnAngle(h, g) + e
<1>1. /\ m \in Int
      /\ m = g + e \/ m = g + e + 360 \/ m = g + e - 360
  BY TurnAngle DEF Degrees360
<1> HIDE DEF m
<1>2. /\ m % 360 \in Int /\ 0 <= m % 360 /\ m % 360 < 360
      /\ m \div 360 \in Int
      /\ m = 360 * (m \div 360) + (m % 360)
  BY <1>1
<1>4. m % 360 \in Degrees360
  BY <1>1, <1>2 DEF Degrees360
<1>5. m % 360 = g + e \/ m % 360 = g + e + 360 \/ m % 360 = g + e - 360
  BY <1>1, <1>2 DEF Degrees360
<1>6. QED
  BY <1>4, <1>5 DEF Turned, m

LEMMA TurnInit == OrientationInit => TurnInv
BY OrientationAssumption DEF OrientationInit, TurnInv

LEMMA TurnStep == TurnInv /\ [OrientationNext]_turnVars => TurnInv'
<1> SUFFICES ASSUME TurnInv, [OrientationNext]_turnVars
             PROVE  TurnInv'
  OBVIOUS
<1>1. heading \in Degrees360 /\ goal \in Degrees360
  BY DEF TurnInv, Degrees360
<1>2. ASSUME NEW dir \in Headings, OrientTo(dir)
      PROVE  TurnInv'
  BY <1>2, OrientationAssumption DEF OrientTo, TurnInv
<1>3. ASSUME NEW e \in Errors, Location(e)
      PROVE  TurnInv'
  <2> DEFINE angle == CalculateTurnAngle(heading, goal)
  <2>0. Abs(angle) \in Int
    BY <1>1, TurnAngle DEF Abs
  <2>1. CASE Abs(angle) > ALLOWED_VARIATION
    <3>1. e \in Int /\ -5 <= e /\ e <= 5
      BY OrientationAssumption
    <3>2. heading' = Turned(heading, angle, e) /\ goal' = goal /\ turns' = turns + 1
      BY <1>3, <2>0, <2>1 DEF Location, ALLOWED_VARIATION
    <3>3. turns = 0
      BY <2>0, <2>1 DEF TurnInv, ALLOWED_VARIATION
    <3>4. heading' \in Degrees360 /\ Abs(CalculateTurnAngle(heading', goal)) <= 5
      <4>1. /\ heading' \in Degrees360
            /\ \/ heading' = goal + e
               \/ heading' = goal + e + 360
               \/ heading' = goal + e - 360
        BY <1>1, <3>1, <3>2, TurnedNear
      <4>2. QED
        BY <1>1, <3>1, <4>1, NearIsAligned
    <3>5. CalculateTurnAngle(heading, goal)' = CalculateTurnAngle(heading', goal)
      BY <3>2 DEF CalculateTurnAngle, Abs
    <3>6. QED
      BY <1>1, <3>2, <3>3, <3>4, <3>5
         DEF TurnInv, ALLOWED_VARIATION, Degrees360, Abs
  <2>2. CASE ~(Abs(angle) > ALLOWED_VARIATION)
    BY <1>3, <2>2 DEF Location, TurnInv, CalculateTurnAngle, Abs
  <2>3. QED
    BY <2>1, <2>2
<1>4. CASE UNCHANGED turnVars
  BY <1>4 DEF turnVars, TurnInv, CalculateTurnAngle, Abs
<1>5. QED
  BY <1>2, <1>3, <1>4 DEF OrientationNext

LEMMA TurnCorrect == OrientationSpec => []TurnInv
BY TurnInit, TurnStep, PTL DEF OrientationSpec

(* The angle that OrientM turns by is the shortest one to the goal.        *)
THEOREM ShortestAngle == OrientationSpec => []AngleIsShortest
<1>1. TurnInv => AngleIsShortest
  <2> SUFFICES ASSUME TurnInv
               PROVE  AngleIsShortest
    OBVIOUS
  <2>1. heading \in Degrees360 /\ goal \in Degrees360
    BY DEF TurnInv, Degrees360
  <2>2. QED
    BY <2>1, TurnAngle DEF AngleIsShortest, LeadsTo, Degrees360
<1>2. QED
  BY <1>1, TurnCorrect, PTL

(* A goal takes one turn if turns miss by no more than five degrees.       *)
THEOREM OneTurn == OrientationSpec => []OneTurnIsEnough
<1>1. TurnInv => OneTurnIsEnough
  BY DEF TurnInv, OneTurnIsEnough
<1>2. QED
  BY <1>1, TurnCorrect, PTL
=============================================================================
