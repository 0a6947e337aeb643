------------------------ MODULE MotionControlProofs ------------------------
(***************************************************************************)
(* Proofs about MotionControl for every set of arguments and every backlog *)
(* of the clients.                                                         *)
(***************************************************************************)
EXTENDS MotionControl, SequenceTheorems, FiniteSetTheorems, FunctionTheorems, TLAPS

(* What Append and Tail do to the tasks that are queued.                   *)
LEMMA QueuedAppend ==
  ASSUME NEW q \in Seq(Tasks), NEW t \in Tasks, NEW u
  PROVE  /\ Append(q, t) \in Seq(Tasks)
         /\ Queued(Append(q, t), u) <=> (Queued(q, u) \/ t = u)
<1>1. /\ Append(q, t) \in Seq(Tasks)
      /\ Len(Append(q, t)) = Len(q) + 1
      /\ Len(q) \in Nat
      /\ \A i \in 1 .. Len(q) : Append(q, t)[i] = q[i]
      /\ Append(q, t)[Len(q) + 1] = t
  OBVIOUS
<1>2. ASSUME Queued(Append(q, t), u)
      PROVE  Queued(q, u) \/ t = u
  <2>1. PICK i \in 1 .. Len(Append(q, t)) : Append(q, t)[i] = u
    BY <1>2 DEF Queued
  <2>2. CASE i = Len(q) + 1
    BY <1>1, <2>1, <2>2
  <2>3. CASE i # Len(q) + 1
    <3>1. i \in 1 .. Len(q)
      BY <1>1, <2>1, <2>3
    <3>2. QED
      BY <1>1, <2>1, <3>1 DEF Queued
  <2>4. QED
    BY <2>2, <2>3
<1>3. ASSUME Queued(q, u) \/ t = u
      PROVE  Queued(Append(q, t), u)
  <2>1. CASE t = u
    <3>1. Len(q) + 1 \in 1 .. Len(Append(q, t))
      BY <1>1
    <3>2. QED
      BY <1>1, <2>1, <3>1 DEF Queued
  <2>2. CASE Queued(q, u)
    <3>1. PICK i \in 1 .. Len(q) : q[i] = u
      BY <2>2 DEF Queued
    <3>2. i \in 1 .. Len(Append(q, t)) /\ Append(q, t)[i] = u
      BY <1>1, <3>1
    <3>3. QED
      BY <3>2 DEF Queued
  <2>3. QED
    BY <1>3, <2>1, <2>2
<1>4. QED
  BY <1>1, <1>2, <1>3

LEMMA QueuedTail ==
  ASSUME NEW q \in Seq(Tasks), q # <<>>, NEW u
  PROVE  /\ Tail(q) \in Seq(Tasks)
         /\ Head(q) \in Tasks
         /\ Queued(q, u) <=> (Head(q) = u \/ Queued(Tail(q), u))
<1>1. /\ Tail(q) \in Seq(Tasks)
      /\ Len(q) \in Nat \ {0}
      /\ Len(Tail(q)) = Len(q) - 1
      /\ \A i \in 1 .. Len(q) - 1 : Tail(q)[i] = q[i + 1]
      /\ Head(q) = q[1]
      /\ q[1] \in Tasks
  OBVIOUS
<1>2. ASSUME Queued(q, u)
      PROVE  Head(q) = u \/ Queued(Tail(q), u)
  <2>1. PICK i \in 1 .. Len(q) : q[i] = u
    BY <1>2 DEF Queued
  <2>2. CASE i = 1
    BY <1>1, <2>1, <2>2
  <2>3. CASE i # 1
    <3>1. i - 1 \in 1 .. Len(Tail(q)) /\ (i - 1) + 1 = i
      BY <1>1, <2>1, <2>3
    <3>2. Tail(q)[i - 1] = u
      BY <1>1, <2>1, <3>1
    <3>3. QED
      BY <3>1, <3>2 DEF Queued
  <2>4. QED
    BY <2>2, <2>3
<1>3. ASSUME Head(q) = u \/ Queued(Tail(q), u)
      PROVE  Queued(q, u)
  <2>1. CASE Head(q) = u
    <3>1. 1 \in 1 .. Len(q) /\ q[1] = u
      BY <1>1, <2>1
    <3>2. QED
      BY <3>1 DEF Queued
  <2>2. CASE Queued(Tail(q), u)
    <3>1. PICK i \in 1 .. Len(Tail(q)) : Tail(q)[i] = u
      BY <2>2 DEF Queued
    <3>2. i + 1 \in 1 .. Len(q) /\ q[i + 1] = u
      BY <1>1, <3>1
    <3>3. QED
      BY <3>2 DEF Queued
  <2>3. QED
    BY <1>3, <2>1, <2>2
<1>4. QED
  BY <1>1, <1>2, <1>3

(* A task that is not queued may be posted once more; taking the only copy *)
(* of a task leaves none.                                                  *)
LEMMA OnceAppend ==
  ASSUME NEW q \in Seq(Tasks), NEW t \in Tasks, NEW u,
         AtMostOnce(q, u), t = u => ~Queued(q, u)
  PROVE  AtMostOnce(Append(q, t), u)
<1>1. /\ Len(Append(q, t)) = Len(q) + 1
      /\ Len(q) \in Nat
      /\ \A i \in 1 .. Len(q) : Append(q, t)[i] = q[i]
      /\ Append(q, t)[Len(q) + 1] = t
  OBVIOUS
<1>2. SUFFICES ASSUME NEW i \in 1 .. Len(Append(q, t)),
                      NEW j \in 1 .. Len(Append(q, t)),
                      Append(q, t)[i] = u, Append(q, t)[j] = u
               PROVE  i = j
  BY DEF AtMostOnce
<1>3. CASE t = u
  <2>1. \A k \in 1 .. Len(q) : Append(q, t)[k] # u
    BY <1>1, <1>3 DEF Queued
  <2>2. QED
    BY <1>1, <1>2, <2>1
<1>4. CASE t # u
  <2>1. i \in 1 .. Len(q) /\ j \in 1 .. Len(q)
    BY <1>1, <1>2, <1>4
  <2>2. QED
    BY <1>1, <1>2, <2>1 DEF AtMostOnce
<1>5. QED
  BY <1>3, <1>4

LEMMA OnceTail ==
  ASSUME NEW q \in Seq(Tasks), q # <<>>, NEW u, AtMostOnce(q, u)
  PROVE  /\ AtMostOnce(Tail(q), u)
         /\ Head(q) = u => ~Queued(Tail(q), u)
<1>1. /\ Len(q) \in Nat \ {0}
      /\ Len(Tail(q)) = Len(q) - 1
      /\ \A i \in 1 .. Len(q) - 1 : Tail(q)[i] = q[i + 1]
      /\ Head(q) = q[1]
  OBVIOUS
<1>2. AtMostOnce(Tail(q), u)
  <2>1. SUFFICES ASSUME NEW i \in 1 .. Len(Tail(q)), NEW j \in 1 .. Len(Tail(q)),
                        Tail(q)[i] = u, Tail(q)[j] = u
                 PROVE  i = j
    BY DEF AtMostOnce
  <2>2. i + 1 \in 1 .. Len(q) /\ j + 1 \in 1 .. Len(q)
    BY <1>1
  <2>3. q[i + 1] = u /\ q[j + 1] = u
    BY <1>1, <2>1
  <2>4. i + 1 = j + 1
    BY <2>2, <2>3 DEF AtMostOnce
  <2>5. QED
    BY <1>1, <2>4
<1>3. ASSUME Head(q) = u, Queued(Tail(q), u)
      PROVE  FALSE
  <2>1. PICK i \in 1 .. Len(Tail(q)) : Tail(q)[i] = u
    BY <1>3 DEF Queued
  <2>2. 1 \in 1 .. Len(q) /\ i + 1 \in 1 .. Len(q) /\ i + 1 # 1
    BY <1>1
  <2>3. q[1] = u /\ q[i + 1] = u
    BY <1>1, <1>3, <2>1
  <2>4. QED
    BY <2>2, <2>3 DEF AtMostOnce
<1>4. QED
  BY <1>2, <1>3

-----------------------------------------------------------------------------
(* The values that the driver puts on the wire.                            *)
LEMMA WireValues ==
  ASSUME NEW motor \in Motors, NEW dir \in Directions
  PROVE  /\ motor * 2 + dir \in 0 .. 3
         /\ (motor * 2 + dir) \div 2 = motor
         /\ (motor * 2 + dir) % 2 = dir
BY DEF Motors, Directions, NUM_MOTORS_SUPPORTED, FORWARD, BACKWARD

(* The controller's state keeps its type whatever byte arrives.            *)
LEMMA ChipReceivesType ==
  ASSUME NEW b \in WireByte, ChipReceives(b),
         frame \in Seq(WireByte),
         wheels \in [Motors -> Velocities],
         recovering \in BOOLEAN
  PROVE  /\ frame' \in Seq(WireByte)
         /\ wheels' \in [Motors -> Velocities]
         /\ recovering' \in BOOLEAN
<1>1. <<b>> \in Seq(WireByte) /\ <<>> \in Seq(WireByte) /\ Append(frame, b) \in Seq(WireByte)
  OBVIOUS
<1>2. ASSUME b # MTR_CTR_START_BYTE, NEW dir
      PROVE  Velocity(dir, b) \in Velocities
  BY <1>2 DEF Velocity, Velocities, WireByte, Speeds, MAX_SPEED, MTR_CTR_START_BYTE
<1>3. frame' \in Seq(WireByte) /\ recovering' \in BOOLEAN
  BY <1>1 DEF ChipReceives
<1>4. wheels' \in [Motors -> Velocities]
  BY <1>2 DEF ChipReceives
<1>5. QED
  BY <1>3, <1>4

-----------------------------------------------------------------------------
(* Type correctness.                                                       *)

LEMMA ParameterTypes ==
  /\ \A n \in Int : DirOf(n) \in Directions
  /\ \A dir \in Directions : Opposite(dir) \in Directions
  /\ \A degree \in Int16 : Negated(degree) \in Int16
  /\ \A motor \in Motors, dir \in Directions :
       /\ Full(motor, dir) \in
            MotorParams
       /\ ValidParams(Full(motor, dir))
  /\ 0 \in Motors /\ 1 \in Motors
BY DEF DirOf, Opposite, Negated, Int16, Full, MotorParams, ValidParams, Directions,
       Motors, Speeds, FORWARD, BACKWARD, MAX_SPEED, NUM_MOTORS_SUPPORTED

(* changeMotorParams keeps the types of what it assigns.                   *)
LEMMA ChangeMotorParamsType ==
  ASSUME NEW p \in MotorParams,
         NEW s \in DMCStates, NEW t \in Seq(WireByte),
         ChangeMotorParams(p, s, t)
  PROVE  /\ dmcState' \in DMCStates
         /\ tx' \in Seq(WireByte)
         /\ params' \in MotorParams
<1>1. Append(t, MTR_CTR_START_BYTE) \in Seq(WireByte)
  BY DEF WireByte
<1>2. QED
  BY <1>1 DEF ChangeMotorParams, DMCStates, SentStates

LEMMA QueueTypes ==
  ASSUME TypeOK
  PROVE  /\ \A t \in Tasks : Append(queue, t) \in Seq(Tasks)
         /\ queue # <<>> => Tail(queue) \in Seq(Tasks)
BY DEF TypeOK

LEMMA TypeStep ==
  ASSUME TypeOK, [Next]_vars
  PROVE  TypeOK'
<1> USE ArgumentsAssumption
<1>1. ASSUME NEW distance \in Distances, Move(distance)
      PROVE  TypeOK'
  <2>1. CASE distance = 0
    BY <1>1, <2>1, QueueTypes
       DEF TypeOK, Move, dmcVars, mcVars, Tasks, DoneTasks
  <2>2. CASE distance # 0
    <3>1. /\ ChangeMotorParams(Full(0, DirOf(distance)), dmcState, tx)
          /\ distanceToMove' = distance
          /\ mState' = "ONE_MOTOR_MF_STARTED"
          /\ timer' = TimerStart(timer, "mfTimer")
          /\ UNCHANGED <<chipVars, degreeToMove, queue, resetFor>>
      BY <1>1, <2>2 DEF Move
    <3>2. distance \in Int /\ distance \in Int8
      BY DEF Int8
    <3>3. /\ dmcState' \in DMCStates
          /\ tx' \in Seq(WireByte)
          /\ params' \in MotorParams
      <4>1. Full(0, DirOf(distance)) \in MotorParams
        BY <3>2, ParameterTypes
      <4>2. dmcState \in DMCStates /\ tx \in Seq(WireByte)
        BY DEF TypeOK
      <4>3. QED
        BY <3>1, <4>1, <4>2, ChangeMotorParamsType
    <3>4. QED
      BY <3>1, <3>3
         DEF TypeOK, chipVars, MStates, MoveStates, TimerStart, Timers, TimerStates
  <2>3. QED
    BY <2>1, <2>2
<1>2. ASSUME NEW degree \in Degrees, TurnRobot(degree)
      PROVE  TypeOK'
  <2>1. CASE degree = 0
    BY <1>2, <2>1, QueueTypes
       DEF TypeOK, TurnRobot, dmcVars, mcVars, Tasks, DoneTasks
  <2>2. CASE degree # 0
    <3>1. /\ ChangeMotorParams(Full(0, DirOf(Negated(degree))), dmcState, tx)
          /\ degreeToMove' = Negated(degree)
          /\ mState' = "ONE_MOTOR_TURNING_STARTED"
          /\ timer' = TimerStart(timer, "turnTimer")
          /\ UNCHANGED <<chipVars, distanceToMove, queue, resetFor>>
      BY <1>2, <2>2 DEF TurnRobot
    <3>2. Negated(degree) \in Int /\ Negated(degree) \in Int16
      BY ParameterTypes DEF Int16
    <3>3. /\ dmcState' \in DMCStates
          /\ tx' \in Seq(WireByte)
          /\ params' \in MotorParams
      <4>1. Full(0, DirOf(Negated(degree))) \in MotorParams
        BY <3>2, ParameterTypes
      <4>2. dmcState \in DMCStates /\ tx \in Seq(WireByte)
        BY DEF TypeOK
      <4>3. QED
        BY <3>1, <4>1, <4>2, ChangeMotorParamsType
    <3>4. QED
      BY <3>1, <3>2, <3>3
         DEF TypeOK, chipVars, MStates, TurnStates, TimerStart, Timers, TimerStates
  <2>3. QED
    BY <2>1, <2>2
<1>3. ASSUME AbortMove
      PROVE  TypeOK'
  BY <1>3 DEF AbortMove, TypeOK, dmcVars, MStates, Reasons
<1>4. ASSUME FinishReset
      PROVE  TypeOK'
  <2>1. queue' \in Seq(Tasks)
    BY <1>4, QueueTypes DEF FinishReset, ReportOf, TypeOK, Tasks, DoneTasks
  <2>2. timer' \in [Timers -> TimerStates]
    BY <1>4 DEF FinishReset, TypeOK, TimerStates
  <2>3. wheels' \in [Motors -> Velocities] /\ frame' \in Seq(WireByte)
    BY <1>4 DEF FinishReset, DmcReset, Stopped, Velocities, MAX_SPEED
  <2>4. QED
    BY <1>4, <2>1, <2>2, <2>3
       DEF FinishReset, DmcReset, TypeOK, mcVars, DMCStates, Reasons
<1>5. ASSUME MoveTimerFired
      PROVE  TypeOK'
  BY <1>5, QueueTypes
     DEF MoveTimerFired, Dispatch, AfterExpiry, TypeOK, dmcVars, MStates,
         Reasons, Timers, TimerStates
<1>6. ASSUME TurnTimerFired
      PROVE  TypeOK'
  BY <1>6, QueueTypes
     DEF TurnTimerFired, Dispatch, AfterExpiry, TypeOK, dmcVars, MStates,
         Reasons, Timers, TimerStates
<1>7. ASSUME ResetTimerFired
      PROVE  TypeOK'
  <2>1. Append(tx, MTR_CTR_START_BYTE) \in Seq(WireByte)
    BY DEF TypeOK, WireByte
  <2>2. queue' \in Seq(Tasks)
    BY <1>7, QueueTypes DEF ResetTimerFired, Dispatch
  <2>3. QED
    BY <1>7, <2>1, <2>2
       DEF ResetTimerFired, DmcTimerFired, TimerStop, TypeOK, dmcVars, chipVars,
           mcVars, DMCStates, SentStates, Timers, TimerStates
<1>8. ASSUME NEW t \in DoneTasks, SignalDone(t)
      PROVE  TypeOK'
  BY <1>8, QueueTypes DEF SignalDone, Dispatch, TypeOK, dmcVars, mcVars
<1>9. ASSUME ByteSent
      PROVE  TypeOK'
  <2>1. Head(tx) \in WireByte /\ Tail(tx) \in Seq(WireByte)
    BY <1>9 DEF ByteSent, TypeOK
  <2>2. /\ frame' \in Seq(WireByte)
        /\ wheels' \in [Motors -> Velocities]
        /\ recovering' \in BOOLEAN
    BY <1>9, <2>1, ChipReceivesType DEF ByteSent, TypeOK
  <2>3. /\ dmcState' \in DMCStates
        /\ tx' \in Seq(WireByte)
        /\ params' \in MotorParams
        /\ mState' \in MStates
    <3>1. CASE tx' = Tail(tx) /\ UNCHANGED <<dmcState, params, mState>>
      BY <2>1, <3>1 DEF TypeOK
    <3>2. CASE PutNextByte /\ UNCHANGED mState
      <4>1. MotorByte(params) \in WireByte
        <5>1. params.motorID \in Motors /\ params.dir \in Directions
          BY DEF TypeOK, MotorParams
        <5>2. params.motorID * 2 + params.dir \in 0 .. 3
          BY <5>1, WireValues
        <5>3. QED
          BY <5>2 DEF MotorByte, WireByte, Speeds, MAX_SPEED
      <4>2. MTR_CTR_DEV_TYPE \in WireByte /\ params.speed \in WireByte
        BY DEF TypeOK, MotorParams, MTR_CTR_DEV_TYPE, WireByte, Speeds, MAX_SPEED
      <4>3. tx' \in Seq(WireByte)
        <5>1. \A b \in WireByte : <<b>> \in Seq(WireByte)
          OBVIOUS
        <5>2. \E b \in WireByte : tx' = <<b>>
          BY <3>2, <4>1, <4>2 DEF PutNextByte
        <5>3. QED
          BY <5>1, <5>2
      <4>4. QED
        BY <3>2, <4>3 DEF PutNextByte, TypeOK, DMCStates, SentStates
    <3>3. CASE MotorParamsChanged
      <4>1. "IDLE" \in DMCStates /\ <<>> \in Seq(WireByte)
        BY DEF DMCStates
      <4>2. /\ distanceToMove \in Int /\ degreeToMove \in Int
        BY DEF TypeOK, Int8, Int16
      <4>3. CASE mState = "ONE_MOTOR_MF_STARTED"
        <5>1. /\ ChangeMotorParams(Full(1, DirOf(distanceToMove)), "IDLE", <<>>)
              /\ mState' = "BOTH_MOTOR_MF_STARTED"
          BY <3>3, <4>3 DEF MotorParamsChanged
        <5>2. Full(1, DirOf(distanceToMove)) \in
                MotorParams
          BY <4>2, ParameterTypes
        <5>3. QED
          BY <4>1, <5>1, <5>2, ChangeMotorParamsType DEF MStates, MoveStates
      <4>4. CASE mState = "ONE_MOTOR_TURNING_STARTED"
        <5>1. /\ ChangeMotorParams(Full(1, Opposite(DirOf(degreeToMove))), "IDLE", <<>>)
              /\ mState' = "BOTH_MOTOR_TURNING_STARTED"
          BY <3>3, <4>4 DEF MotorParamsChanged
        <5>2. Full(1, Opposite(DirOf(degreeToMove))) \in
                MotorParams
          BY <4>2, ParameterTypes
        <5>3. QED
          BY <4>1, <5>1, <5>2, ChangeMotorParamsType DEF MStates, TurnStates
      <4>5. CASE mState \notin {"ONE_MOTOR_MF_STARTED", "ONE_MOTOR_TURNING_STARTED"}
        BY <3>3, <4>1, <4>5
           DEF MotorParamsChanged, TypeOK, MStates, MoveStates, TurnStates
      <4>6. QED
        BY <4>3, <4>4, <4>5
    <3>4. CASE PutDoneIgnored /\ UNCHANGED mState
      BY <3>4 DEF PutDoneIgnored, TypeOK
    <3>5. QED
      BY <1>9, <3>1, <3>2, <3>3, <3>4 DEF ByteSent
  <2>4. early' = early
    BY <1>9 DEF ByteSent, ChipReceives
  <2>5. QED
    BY <1>9, <2>2, <2>3, <2>4 DEF ByteSent, TypeOK
<1>10. ASSUME NEW id \in MotionTimers, Expire(id)
       PROVE  TypeOK'
  <2>1. queue' \in Seq(Tasks)
    BY <1>10, QueueTypes DEF Expire, Tasks, Timers
  <2>2. QED
    BY <1>10, <2>1 DEF Expire, TypeOK, dmcVars, mcVars, TimerStates
<1>11. ASSUME ResetPeriodEnds
       PROVE  TypeOK'
  <2>1. queue' \in Seq(Tasks)
    BY <1>11, QueueTypes DEF ResetPeriodEnds, TypeOK, Tasks, Timers
  <2>2. QED
    BY <1>11, <2>1 DEF ResetPeriodEnds, TypeOK, mcVars, TimerStates
<1>12. CASE UNCHANGED vars
  BY <1>12 DEF vars, TypeOK
<1>13. QED
  BY <1>1, <1>2, <1>3, <1>4, <1>5, <1>6, <1>7, <1>8, <1>9, <1>10, <1>11, <1>12
     DEF Next, Client, RunTask

LEMMA TypeInit == Init => TypeOK
<1> SUFFICES ASSUME Init
             PROVE  TypeOK
  OBVIOUS
<1>1. params \in MotorParams
  BY DEF Init, DmcInit, MotorParams, Motors, Directions, Speeds, BACKWARD,
         MAX_SPEED, NUM_MOTORS_SUPPORTED
<1>2. wheels \in [Motors -> Velocities]
  BY DEF Init, DmcInit, Stopped, Velocities, MAX_SPEED
<1>3. distanceToMove \in Int8 /\ degreeToMove \in Int16
  BY DEF Init, Int8, Int16
<1>4. tx \in Seq(WireByte) /\ frame \in Seq(WireByte) /\ queue \in Seq(Tasks)
  BY DEF Init, DmcInit
<1>5. QED
  BY <1>1, <1>2, <1>3, <1>4
     DEF Init, DmcInit, TypeOK, DMCStates, MStates, Reasons, Timers, TimerStates

(* Every reachable state is well typed; in particular the degree stays in  *)
(* 16 bits and only the start byte of a command has its high bit set.      *)
THEOREM TypeCorrect == Spec => []TypeOK
BY TypeInit, TypeStep, PTL DEF Spec

-----------------------------------------------------------------------------
(* Control: ControlInv is inductive whether or not a stop cancels.         *)

(* The driver's expiry in the queue after a task is posted or taken.       *)
LEMMA ExpiryPosted ==
  ASSUME ControlInv, NEW t \in Tasks, t # "dmcTimer", queue' = Append(queue, t)
  PROVE  /\ Queued(queue, "dmcTimer")' <=> Queued(queue, "dmcTimer")
         /\ AtMostOnce(queue, "dmcTimer")'
<1>1. queue \in Seq(Tasks) /\ AtMostOnce(queue, "dmcTimer")
  BY DEF ControlInv, TypeOK
<1>2. Queued(Append(queue, t), "dmcTimer") <=> Queued(queue, "dmcTimer")
  BY <1>1, QueuedAppend
<1>3. AtMostOnce(Append(queue, t), "dmcTimer")
  BY <1>1, OnceAppend
<1>4. QED
  BY <1>2, <1>3

LEMMA ExpiryTaken ==
  ASSUME ControlInv, NEW t, Dispatch(t)
  PROVE  /\ AtMostOnce(queue, "dmcTimer")'
         /\ t = "dmcTimer" => Queued(queue, "dmcTimer") /\ ~Queued(queue, "dmcTimer")'
         /\ t # "dmcTimer" =>
              (Queued(queue, "dmcTimer")' <=> Queued(queue, "dmcTimer"))
<1>1. /\ queue \in Seq(Tasks) /\ AtMostOnce(queue, "dmcTimer")
      /\ queue # <<>> /\ Head(queue) = t /\ queue' = Tail(queue)
  BY DEF ControlInv, TypeOK, Dispatch
<1>2. /\ Queued(queue, "dmcTimer") <=>
           (Head(queue) = "dmcTimer" \/ Queued(Tail(queue), "dmcTimer"))
      /\ AtMostOnce(Tail(queue), "dmcTimer")
      /\ Head(queue) = "dmcTimer" => ~Queued(Tail(queue), "dmcTimer")
  BY <1>1, QueuedTail, OnceTail
<1>3. QED
  BY <1>1, <1>2

LEMMA ControlInit == Init => ControlInv
<1> SUFFICES ASSUME Init
             PROVE  ControlInv
  OBVIOUS
<1>1. TypeOK
  BY TypeInit
<1>2. ~Queued(queue, "dmcTimer") /\ AtMostOnce(queue, "dmcTimer")
  BY DEF Init, Queued, AtMostOnce
<1>3. QED
  BY <1>1, <1>2
     DEF Init, DmcInit, ControlInv, StartingIsServed, TimerOfMotion, Started,
         Running, MoveStates, TurnStates, Timers, MotionTimers

LEMMA ControlStep ==
  ASSUME ControlInv, [Next]_vars
  PROVE  ControlInv'
<1> DEFINE Pending == Queued(queue, "dmcTimer")
<1>1. TypeOK /\ TypeOK'
  BY TypeStep DEF ControlInv
<1>2. timer \in [Timers -> TimerStates]
  BY <1>1 DEF TypeOK
<1>3. ASSUME NEW distance \in Distances, Move(distance)
      PROVE  ControlInv'
  <2>1. CASE distance = 0
    <3>1. queue' = Append(queue, "signalMoveDone")
      BY <1>3, <2>1 DEF Move
    <3>2. (Pending' <=> Pending) /\ AtMostOnce(queue, "dmcTimer")'
      BY <3>1, ExpiryPosted DEF Tasks, DoneTasks
    <3>3. QED
      BY <1>1, <1>3, <2>1, <3>2
         DEF Move, ControlInv, StartingIsServed, TimerOfMotion, BetweenTasks,
             dmcVars, mcVars
  <2>2. CASE distance # 0
    <3>1. /\ mState = "IDLE" /\ mState' = "ONE_MOTOR_MF_STARTED"
          /\ resetFor = "no" /\ resetFor' = "no"
          /\ timer' = [timer EXCEPT !["mfTimer"] = "armed"]
          /\ queue' = queue /\ recovering' = recovering
      BY <1>3, <2>2 DEF Move, TimerStart, BetweenTasks, chipVars
    <3>2. dmcState \in {"IDLE", "RESETED"}
      BY <3>1 DEF ControlInv, StartingIsServed, Started, MoveStates, TurnStates,
                  BetweenTasks
    <3>3. /\ dmcState = "IDLE" => dmcState' = "START_SENT"
          /\ dmcState = "RESETED" => dmcState' = "CMD_PENDING"
      <4>1. ValidParams(Full(0, DirOf(distance)))
        BY ParameterTypes, ArgumentsAssumption DEF Int8
      <4>2. ChangeMotorParams(Full(0, DirOf(distance)), dmcState, tx)
        BY <1>3, <2>2 DEF Move
      <4>3. QED
        BY <4>1, <4>2 DEF ChangeMotorParams
    <3>4. QED
      BY <1>1, <1>2, <3>1, <3>2, <3>3
         DEF ControlInv, StartingIsServed, TimerOfMotion, BetweenTasks, Started,
             Running, MoveStates, TurnStates, SentStates, Timers, MotionTimers
  <2>3. QED
    BY <2>1, <2>2
<1>4. ASSUME NEW degree \in Degrees, TurnRobot(degree)
      PROVE  ControlInv'
  <2>1. CASE degree = 0
    <3>1. queue' = Append(queue, "signalTurnDone")
      BY <1>4, <2>1 DEF TurnRobot
    <3>2. (Pending' <=> Pending) /\ AtMostOnce(queue, "dmcTimer")'
      BY <3>1, ExpiryPosted DEF Tasks, DoneTasks
    <3>3. QED
      BY <1>1, <1>4, <2>1, <3>2
         DEF TurnRobot, ControlInv, StartingIsServed, TimerOfMotion, BetweenTasks,
             dmcVars, mcVars
  <2>2. CASE degree # 0
    <3>1. /\ mState = "IDLE" /\ mState' = "ONE_MOTOR_TURNING_STARTED"
          /\ resetFor = "no" /\ resetFor' = "no"
          /\ timer' = [timer EXCEPT !["turnTimer"] = "armed"]
          /\ queue' = queue /\ recovering' = recovering
      BY <1>4, <2>2 DEF TurnRobot, TimerStart, BetweenTasks, chipVars
    <3>2. dmcState \in {"IDLE", "RESETED"}
      BY <3>1 DEF ControlInv, StartingIsServed, Started, MoveStates, TurnStates,
                  BetweenTasks
    <3>3. /\ dmcState = "IDLE" => dmcState' = "START_SENT"
          /\ dmcState = "RESETED" => dmcState' = "CMD_PENDING"
      <4>1. Negated(degree) \in Int
        BY ParameterTypes, ArgumentsAssumption DEF Int16
      <4>2. ValidParams(Full(0, DirOf(Negated(degree))))
        BY <4>1, ParameterTypes
      <4>3. ChangeMotorParams(Full(0, DirOf(Negated(degree))), dmcState, tx)
        BY <1>4, <2>2 DEF TurnRobot
      <4>4. QED
        BY <4>2, <4>3 DEF ChangeMotorParams
    <3>4. QED
      BY <1>1, <1>2, <3>1, <3>2, <3>3
         DEF ControlInv, StartingIsServed, TimerOfMotion, BetweenTasks, Started,
             Running, MoveStates, TurnStates, SentStates, Timers, MotionTimers
  <2>3. QED
    BY <2>1, <2>2
<1>5. ASSUME AbortMove
      PROVE  ControlInv'
  BY <1>1, <1>5
     DEF AbortMove, ControlInv, StartingIsServed, TimerOfMotion, BetweenTasks,
         Started, MoveStates, TurnStates, dmcVars
<1>6. ASSUME FinishReset
      PROVE  ControlInv'
  <2>1. /\ resetFor \in {"abort", "move", "turn"} /\ resetFor' = "no"
        /\ mState = "IDLE" /\ mState' = "IDLE"
        /\ dmcState' = "RESETED" /\ recovering'
    BY <1>1, <1>6 DEF FinishReset, DmcReset, mcVars, ControlInv, TypeOK, Reasons
  <2>2. /\ timer'["dmcTimer"] = "armed"
        /\ timer'["mfTimer"] = "off" /\ timer'["turnTimer"] = "off"
    BY <1>6, <2>1
       DEF FinishReset, StoppedFor, ControlInv, Timers, MotionTimers
  <2>3. (Pending' <=> Pending) /\ AtMostOnce(queue, "dmcTimer")'
    <3>1. CASE resetFor = "abort"
      BY <1>6, <3>1 DEF FinishReset, ControlInv
    <3>2. CASE resetFor # "abort"
      <4>1. /\ queue' = Append(queue, ReportOf(resetFor))
            /\ ReportOf(resetFor) \in Tasks /\ ReportOf(resetFor) # "dmcTimer"
        BY <1>6, <3>2 DEF FinishReset, ReportOf, Tasks, DoneTasks
      <4>2. QED
        BY <4>1, ExpiryPosted
    <3>3. QED
      BY <3>1, <3>2
  <2>4. QED
    BY <1>1, <2>1, <2>2, <2>3
       DEF ControlInv, StartingIsServed, TimerOfMotion, BetweenTasks, Started,
           MoveStates, TurnStates
<1>7. ASSUME MoveTimerFired
      PROVE  ControlInv'
  <2>1. (Pending' <=> Pending) /\ AtMostOnce(queue, "dmcTimer")'
    BY <1>7, ExpiryTaken DEF MoveTimerFired
  <2>2. /\ timer'["dmcTimer"] = timer["dmcTimer"]
        /\ timer'["turnTimer"] = timer["turnTimer"]
        /\ timer'["mfTimer"] = "off" <=> timer["mfTimer"] = "off"
    BY <1>2, <1>7 DEF MoveTimerFired, AfterExpiry, Timers, MotionTimers, TimerStates
  <2>3. /\ UNCHANGED <<dmcState, recovering>> /\ resetFor = "no"
        /\ \/ mState = "MOVING_FORWARD" /\ mState' = "IDLE" /\ resetFor' = "move"
           \/ mState' = mState /\ resetFor' = "no"
    BY <1>7 DEF MoveTimerFired, Dispatch, BetweenTasks, dmcVars
  <2>4. QED
    BY <1>1, <2>1, <2>2, <2>3
       DEF ControlInv, StartingIsServed, TimerOfMotion, BetweenTasks, Started,
           Running, MoveStates, TurnStates
<1>8. ASSUME TurnTimerFired
      PROVE  ControlInv'
  <2>1. (Pending' <=> Pending) /\ AtMostOnce(queue, "dmcTimer")'
    BY <1>8, ExpiryTaken DEF TurnTimerFired
  <2>2. /\ timer'["dmcTimer"] = timer["dmcTimer"]
        /\ timer'["mfTimer"] = timer["mfTimer"]
        /\ timer'["turnTimer"] = "off" <=> timer["turnTimer"] = "off"
    BY <1>2, <1>8 DEF TurnTimerFired, AfterExpiry, Timers, MotionTimers, TimerStates
  <2>3. /\ UNCHANGED <<dmcState, recovering>> /\ resetFor = "no"
        /\ \/ mState = "TURNING" /\ mState' = "IDLE" /\ resetFor' = "turn"
           \/ mState' = mState /\ resetFor' = "no"
    BY <1>8 DEF TurnTimerFired, Dispatch, BetweenTasks, dmcVars
  <2>4. QED
    BY <1>1, <2>1, <2>2, <2>3
       DEF ControlInv, StartingIsServed, TimerOfMotion, BetweenTasks, Started,
           Running, MoveStates, TurnStates
<1>9. ASSUME ResetTimerFired
      PROVE  ControlInv'
  <2>1. Pending /\ ~Pending' /\ AtMostOnce(queue, "dmcTimer")'
    BY <1>9, ExpiryTaken DEF ResetTimerFired
  <2>2. dmcState \in {"RESETED", "CMD_PENDING"}
    BY <1>1, <2>1 DEF ControlInv
  <2>3. /\ UNCHANGED <<mState, resetFor, recovering>>
        /\ timer'["mfTimer"] = timer["mfTimer"]
        /\ timer'["turnTimer"] = timer["turnTimer"]
    BY <1>2, <1>9
       DEF ResetTimerFired, DmcTimerFired, TimerStop, mcVars, dmcVars, chipVars,
           Timers, MotionTimers
  <2>4. CASE Delivered(timer, "dmcTimer")
    <3>1. /\ timer'["dmcTimer"] = "off"
          /\ dmcState = "CMD_PENDING" => dmcState' = "START_SENT"
          /\ dmcState = "RESETED" => dmcState' = "IDLE"
      BY <1>2, <1>9, <2>4 DEF ResetTimerFired, DmcTimerFired, TimerStop, Timers
    <3>2. QED
      BY <1>1, <2>1, <2>2, <2>3, <3>1
         DEF ControlInv, StartingIsServed, TimerOfMotion, BetweenTasks, Started,
             Running, MoveStates, TurnStates, SentStates
  <2>5. CASE ~Delivered(timer, "dmcTimer")
    <3>1. UNCHANGED <<dmcState, timer>> /\ timer["dmcTimer"] # "due"
      BY <1>9, <2>5 DEF ResetTimerFired, Delivered, dmcVars
    <3>2. QED
      BY <1>1, <2>1, <2>2, <2>3, <3>1
         DEF ControlInv, StartingIsServed, TimerOfMotion, BetweenTasks
  <2>6. QED
    BY <2>4, <2>5
<1>10. ASSUME NEW t \in DoneTasks, SignalDone(t)
       PROVE  ControlInv'
  <2>1. (Pending' <=> Pending) /\ AtMostOnce(queue, "dmcTimer")'
    BY <1>10, ExpiryTaken DEF SignalDone, DoneTasks
  <2>2. QED
    BY <1>1, <1>10, <2>1
       DEF SignalDone, ControlInv, StartingIsServed, TimerOfMotion, BetweenTasks,
           dmcVars, mcVars
<1>11. ASSUME ByteSent
       PROVE  ControlInv'
  <2>1. UNCHANGED <<resetFor, timer, queue, recovering>>
    BY <1>11 DEF ByteSent, ChipReceives
  <2>2. CASE UNCHANGED <<dmcState, mState>>
    BY <1>1, <2>1, <2>2
       DEF ControlInv, StartingIsServed, TimerOfMotion, BetweenTasks
  <2>3. CASE PutNextByte /\ UNCHANGED mState
    <3>1. dmcState \in SentStates /\ dmcState' \in SentStates
      BY <2>3 DEF PutNextByte, SentStates
    <3>2. QED
      BY <1>1, <2>1, <2>3, <3>1
         DEF ControlInv, StartingIsServed, TimerOfMotion, BetweenTasks, SentStates
  <2>4. CASE dmcState = "SPEED_SENT" /\ MotorParamsChanged
    <3>1. /\ mState = "ONE_MOTOR_MF_STARTED" =>
               dmcState' = "START_SENT" /\ mState' = "BOTH_MOTOR_MF_STARTED"
          /\ mState = "ONE_MOTOR_TURNING_STARTED" =>
               dmcState' = "START_SENT" /\ mState' = "BOTH_MOTOR_TURNING_STARTED"
      <4>1. /\ ValidParams(Full(1, DirOf(distanceToMove)))
            /\ ValidParams(Full(1, Opposite(DirOf(degreeToMove))))
        <5>1. distanceToMove \in Int /\ degreeToMove \in Int
          BY <1>1 DEF TypeOK, Int8, Int16
        <5>2. QED
          BY <5>1, ParameterTypes
      <4>2. QED
        BY <2>4, <4>1 DEF MotorParamsChanged, ChangeMotorParams
    <3>2. mState \notin {"ONE_MOTOR_MF_STARTED", "ONE_MOTOR_TURNING_STARTED"} =>
            /\ dmcState' = "IDLE"
            /\ mState = "BOTH_MOTOR_MF_STARTED" => mState' = "MOVING_FORWARD"
            /\ mState = "BOTH_MOTOR_TURNING_STARTED" => mState' = "TURNING"
            /\ mState \notin Started => mState' = mState
      BY <2>4 DEF MotorParamsChanged, Started, Running, MoveStates, TurnStates
    <3>3. mState \in MStates
      BY <1>1 DEF TypeOK
    <3>4. QED
      BY <1>1, <2>1, <2>4, <3>1, <3>2, <3>3
         DEF ControlInv, StartingIsServed, TimerOfMotion, BetweenTasks, Started,
             Running, MStates, MoveStates, TurnStates, SentStates
  <2>5. QED
    BY <1>11, <2>2, <2>3, <2>4 DEF ByteSent, PutDoneIgnored
<1>12. ASSUME NEW id \in MotionTimers, Expire(id)
       PROVE  ControlInv'
  <2>1. (Pending' <=> Pending) /\ AtMostOnce(queue, "dmcTimer")'
    BY <1>12, ExpiryPosted DEF Expire, Tasks, Timers, MotionTimers
  <2>2. /\ timer'["dmcTimer"] = timer["dmcTimer"]
        /\ timer'["mfTimer"] = "off" <=> timer["mfTimer"] = "off"
        /\ timer'["turnTimer"] = "off" <=> timer["turnTimer"] = "off"
    BY <1>2, <1>12 DEF Expire, Timers, MotionTimers
  <2>3. UNCHANGED <<dmcState, recovering, mState, resetFor>>
    BY <1>12 DEF Expire, dmcVars, mcVars
  <2>4. QED
    BY <1>1, <2>1, <2>2, <2>3
       DEF ControlInv, StartingIsServed, TimerOfMotion, BetweenTasks
<1>13. ASSUME ResetPeriodEnds
       PROVE  ControlInv'
  <2>1. UNCHANGED <<dmcState, mState, resetFor>> /\ ~Pending
    BY <1>13 DEF ResetPeriodEnds, mcVars
  <2>2. CASE timer["dmcTimer"] = "armed"
    <3>1. /\ timer' = [timer EXCEPT !["dmcTimer"] = "due"]
          /\ queue' = Append(queue, "dmcTimer")
      BY <1>13, <2>2 DEF ResetPeriodEnds
    <3>2. Pending' /\ AtMostOnce(queue, "dmcTimer")'
      <4>1. /\ queue \in Seq(Tasks) /\ AtMostOnce(queue, "dmcTimer")
            /\ "dmcTimer" \in Tasks
        BY <1>1 DEF ControlInv, TypeOK, Tasks, Timers
      <4>2. /\ Queued(Append(queue, "dmcTimer"), "dmcTimer")
            /\ AtMostOnce(Append(queue, "dmcTimer"), "dmcTimer")
        BY <2>1, <4>1, QueuedAppend, OnceAppend
      <4>3. QED
        BY <3>1, <4>2
    <3>3. QED
      BY <1>1, <1>2, <2>1, <2>2, <3>1, <3>2
         DEF ControlInv, StartingIsServed, TimerOfMotion, BetweenTasks, Timers,
             MotionTimers
  <2>3. CASE timer["dmcTimer"] # "armed"
    <3>1. UNCHANGED <<timer, queue>>
      BY <1>13, <2>3 DEF ResetPeriodEnds
    <3>2. QED
      BY <1>1, <2>1, <2>3, <3>1
         DEF ControlInv, StartingIsServed, TimerOfMotion, BetweenTasks
  <2>4. QED
    BY <2>2, <2>3
<1>14. CASE UNCHANGED vars
  BY <1>1, <1>14
     DEF vars, ControlInv, StartingIsServed, TimerOfMotion, BetweenTasks
<1>15. QED
  BY <1>3, <1>4, <1>5, <1>6, <1>7, <1>8, <1>9, <1>10, <1>11, <1>12, <1>13, <1>14
     DEF Next, Client, RunTask

LEMMA ControlCorrect == Spec => []ControlInv
BY ControlInit, ControlStep, PTL DEF Spec

(* A motion that is starting always has a command in the driver, which     *)
(* refuses none: the results that MotionControlM ignores are never FAIL.   *)
THEOREM StartingServed == Spec => []StartingIsServed
<1>1. ControlInv => StartingIsServed
  BY DEF ControlInv
<1>2. QED
  BY <1>1, ControlCorrect, PTL

(* Exactly the timer of the motion in progress runs.                       *)
THEOREM OwnTimer == Spec => []TimerOfMotion
<1>1. ControlInv => TimerOfMotion
  BY DEF ControlInv
<1>2. QED
  BY <1>1, ControlCorrect, PTL

-----------------------------------------------------------------------------
(* The wire: WireInv is inductive, also with the timers of TinyOS 1.x.     *)

LEMMA OneElement ==
  \A a : Append(<<>>, a) = <<a>> /\ Len(<<a>>) = 1 /\ Head(<<a>>) = a
OBVIOUS

LEMMA TwoElements ==
  ASSUME NEW S, NEW a \in S, NEW b \in S
  PROVE  Append(<<a>>, b) = <<a, b>> /\ Len(<<a, b>>) = 2
<1>1. /\ <<a, b>> \in Seq(S) /\ Append(<<a>>, b) \in Seq(S)
      /\ Len(<<a, b>>) = 2 /\ Len(Append(<<a>>, b)) = 2
  OBVIOUS
<1>2. /\ Append(<<a>>, b)[1] = a /\ Append(<<a>>, b)[2] = b
  OBVIOUS
<1>3. <<a, b>>[1] = a /\ <<a, b>>[2] = b
  OBVIOUS
<1>4. ASSUME NEW i \in 1 .. Len(Append(<<a>>, b))
      PROVE  Append(<<a>>, b)[i] = <<a, b>>[i]
  <2>1. i = 1 \/ i = 2
    BY <1>1
  <2>2. QED
    BY <1>2, <1>3, <2>1
<1>5. Append(<<a>>, b) = <<a, b>>
  BY <1>1, <1>4, SeqEqual
<1>6. QED
  BY <1>1, <1>5

LEMMA ThreeElements ==
  ASSUME NEW S, NEW a \in S, NEW b \in S, NEW c \in S
  PROVE  /\ Append(<<a, b>>, c) = <<a, b, c>>
         /\ Len(<<a, b, c>>) = 3
         /\ <<a, b, c>>[3] = c
<1>1. /\ <<a, b, c>> \in Seq(S) /\ <<a, b>> \in Seq(S)
      /\ Append(<<a, b>>, c) \in Seq(S)
  OBVIOUS
<1>2. Len(<<a, b, c>>) = 3 /\ Len(Append(<<a, b>>, c)) = 3
  OBVIOUS
<1>3. /\ Append(<<a, b>>, c)[1] = a /\ Append(<<a, b>>, c)[2] = b
      /\ Append(<<a, b>>, c)[3] = c
  OBVIOUS
<1>4. <<a, b, c>>[1] = a /\ <<a, b, c>>[2] = b /\ <<a, b, c>>[3] = c
  OBVIOUS
<1>5. ASSUME NEW i \in 1 .. Len(Append(<<a, b>>, c))
      PROVE  Append(<<a, b>>, c)[i] = <<a, b, c>>[i]
  <2>1. i = 1 \/ i = 2 \/ i = 3
    BY <1>2
  <2>2. QED
    BY <1>3, <1>4, <2>1
<1>6. Append(<<a, b>>, c) = <<a, b, c>>
  BY <1>1, <1>2, <1>5, SeqEqual
<1>7. QED
  BY <1>2, <1>4, <1>6

LEMMA WireInit == Init => WireInv
<1> SUFFICES ASSUME Init
             PROVE  WireInv
  OBVIOUS
<1>1. FrameIntegrity
  BY DEF Init, DmcInit, FrameIntegrity, SentStates
<1>2. WheelsMatchState
  BY DEF Init, DmcInit, WheelsMatchState
<1>3. QED
  BY <1>1, <1>2 DEF Init, DmcInit, WireInv, Timers

(* The byte with which the command in progress goes on.                    *)
LEMMA ByteOfState ==
  ASSUME TypeOK, WireInv, dmcState \in SentStates
  PROVE  /\ Len(tx) >= 1
         /\ Len(tx) > 1 => early /\ recovering
         /\ dmcState = "START_SENT" => tx[Len(tx)] = MTR_CTR_START_BYTE
         /\ dmcState = "CTRID_SENT" => tx[Len(tx)] = MTR_CTR_DEV_TYPE
         /\ dmcState = "MOTORID_DIR_SENT" => tx[Len(tx)] = MotorByte(params)
         /\ dmcState = "SPEED_SENT" => tx[Len(tx)] = params.speed
         /\ recovering => early
BY DEF WireInv, FrameIntegrity, OnItsWay, SentStates

(* What the last byte does to the controller, by the state of the driver.  *)
LEMMA ByteReceived ==
  ASSUME TypeOK, WireInv, dmcState \in SentStates, ByteSent, Len(tx) = 1
  PROVE  /\ early' = early /\ recovering' = recovering
         /\ recovering => early /\ frame' = <<>> /\ wheels' = wheels
         /\ dmcState = "START_SENT" =>
              Received(<<MTR_CTR_START_BYTE>>)' /\ wheels' = wheels
         /\ dmcState = "CTRID_SENT" =>
              /\ Received(<<MTR_CTR_START_BYTE, MTR_CTR_DEV_TYPE>>)'
              /\ wheels' = wheels
         /\ dmcState = "MOTORID_DIR_SENT" =>
              /\ \/ frame' = <<MTR_CTR_START_BYTE, MTR_CTR_DEV_TYPE, MotorByte(params)>>
                 \/ early' /\ frame' = <<>>
              /\ wheels' = wheels
         /\ dmcState = "SPEED_SENT" =>
              /\ frame' = <<>>
              /\ \/ wheels' = [wheels EXCEPT ![params.motorID] =
                                 Velocity(params.dir, params.speed)]
                 \/ early' /\ wheels' = wheels
<1>1. ChipReceives(Head(tx)) /\ recovering' = recovering /\ early' = early
  BY DEF ByteSent, ChipReceives
<1>2. /\ params.motorID \in Motors /\ params.dir \in Directions
      /\ params.speed \in Nat /\ params.speed <= 127
  BY DEF TypeOK, MotorParams, Speeds, MAX_SPEED
<1>3. /\ MotorByte(params) \in 0 .. 3
      /\ MotorByte(params) \div 2 = params.motorID
      /\ MotorByte(params) % 2 = params.dir
  BY <1>2, WireValues DEF MotorByte
<1>4. MTR_CTR_START_BYTE \in Int /\ MTR_CTR_DEV_TYPE \in Int /\ MotorByte(params) \in Int
  BY <1>3 DEF MTR_CTR_START_BYTE, MTR_CTR_DEV_TYPE
<1>5. /\ Append(<<MTR_CTR_START_BYTE>>, MTR_CTR_DEV_TYPE) =
            <<MTR_CTR_START_BYTE, MTR_CTR_DEV_TYPE>>
       /\ Len(<<MTR_CTR_START_BYTE, MTR_CTR_DEV_TYPE>>) = 2
  BY <1>4, TwoElements
<1>6. /\ Append(<<MTR_CTR_START_BYTE, MTR_CTR_DEV_TYPE>>, MotorByte(params)) =
            <<MTR_CTR_START_BYTE, MTR_CTR_DEV_TYPE, MotorByte(params)>>
       /\ Len(<<MTR_CTR_START_BYTE, MTR_CTR_DEV_TYPE, MotorByte(params)>>) = 3
       /\ <<MTR_CTR_START_BYTE, MTR_CTR_DEV_TYPE, MotorByte(params)>>[3] =
            MotorByte(params)
  BY <1>4, ThreeElements
<1>7. Head(tx) = tx[Len(tx)]
  BY DEF TypeOK
<1>8. CASE recovering
  <2>1. early /\ frame = <<>>
    BY <1>8, ByteOfState DEF WireInv
  <2>2. frame' = <<>> /\ wheels' = wheels /\ early' = early /\ recovering' = recovering
    BY <1>1, <1>8, <2>1 DEF ChipReceives
  <2>3. QED
    BY <2>1, <2>2 DEF Received
<1>9. CASE ~recovering /\ dmcState = "START_SENT"
  <2>1. Head(tx) = MTR_CTR_START_BYTE
    BY <1>7, <1>9, ByteOfState
  <2>2. frame' = <<MTR_CTR_START_BYTE>> /\ wheels' = wheels
    BY <1>1, <1>9, <2>1 DEF ChipReceives
  <2>3. QED
    BY <1>1, <1>9, <2>2 DEF Received
<1>10. CASE ~recovering /\ dmcState = "CTRID_SENT"
  <2>1. Head(tx) = MTR_CTR_DEV_TYPE /\ Received(<<MTR_CTR_START_BYTE>>)
    BY <1>7, <1>10, ByteOfState DEF WireInv, FrameIntegrity
  <2>2. MTR_CTR_DEV_TYPE # MTR_CTR_START_BYTE
    BY DEF MTR_CTR_DEV_TYPE, MTR_CTR_START_BYTE
  <2>3. ChipReceives(MTR_CTR_DEV_TYPE)
    BY <1>1, <2>1
  <2>4. CASE frame = <<MTR_CTR_START_BYTE>>
    <3>1. /\ Len(frame) = 1
          /\ Append(frame, MTR_CTR_DEV_TYPE) = <<MTR_CTR_START_BYTE, MTR_CTR_DEV_TYPE>>
      BY <1>5, <2>4, OneElement
    <3>2. frame' = Append(frame, MTR_CTR_DEV_TYPE) /\ wheels' = wheels
      BY <1>10, <2>2, <2>3, <3>1 DEF ChipReceives
    <3>3. QED
      BY <1>1, <1>10, <3>1, <3>2 DEF Received
  <2>5. CASE early /\ frame = <<>>
    <3>1. Len(frame) = 0
      BY <2>5
    <3>2. frame' = frame /\ wheels' = wheels
      BY <1>10, <2>2, <2>3, <3>1 DEF ChipReceives
    <3>3. QED
      BY <1>1, <1>10, <2>5, <3>2 DEF Received
  <2>6. QED
    BY <2>1, <2>4, <2>5 DEF Received
<1>11. CASE ~recovering /\ dmcState = "MOTORID_DIR_SENT"
  <2>1. /\ Head(tx) = MotorByte(params)
        /\ Received(<<MTR_CTR_START_BYTE, MTR_CTR_DEV_TYPE>>)
    BY <1>7, <1>11, ByteOfState DEF WireInv, FrameIntegrity
  <2>2. MotorByte(params) # MTR_CTR_START_BYTE
    BY <1>3 DEF MTR_CTR_START_BYTE
  <2>3. ChipReceives(MotorByte(params))
    BY <1>1, <2>1
  <2>4. CASE frame = <<MTR_CTR_START_BYTE, MTR_CTR_DEV_TYPE>>
    <3>1. /\ Len(frame) = 2
          /\ Append(frame, MotorByte(params)) =
               <<MTR_CTR_START_BYTE, MTR_CTR_DEV_TYPE, MotorByte(params)>>
      BY <1>5, <1>6, <2>4
    <3>2. frame' = Append(frame, MotorByte(params)) /\ wheels' = wheels
      BY <1>11, <2>2, <2>3, <3>1 DEF ChipReceives
    <3>3. QED
      BY <1>1, <1>11, <3>1, <3>2
  <2>5. CASE early /\ frame = <<>>
    <3>1. Len(frame) = 0
      BY <2>5
    <3>2. frame' = frame /\ wheels' = wheels
      BY <1>11, <2>2, <2>3, <3>1 DEF ChipReceives
    <3>3. QED
      BY <1>1, <1>11, <2>5, <3>2
  <2>6. QED
    BY <2>1, <2>4, <2>5 DEF Received
<1>12. CASE ~recovering /\ dmcState = "SPEED_SENT"
  <2>1. /\ Head(tx) = params.speed
        /\ Received(<<MTR_CTR_START_BYTE, MTR_CTR_DEV_TYPE, MotorByte(params)>>)
    BY <1>7, <1>12, ByteOfState DEF WireInv, FrameIntegrity
  <2>2. params.speed # MTR_CTR_START_BYTE
    BY <1>2 DEF MTR_CTR_START_BYTE
  <2>3. ChipReceives(params.speed)
    BY <1>1, <2>1
  <2>4. CASE frame = <<MTR_CTR_START_BYTE, MTR_CTR_DEV_TYPE, MotorByte(params)>>
    <3>1. Len(frame) = 3 /\ frame[3] = MotorByte(params)
      BY <1>6, <2>4
    <3>2. /\ frame' = <<>>
          /\ wheels' = [wheels EXCEPT ![frame[3] \div 2] =
                          Velocity(frame[3] % 2, params.speed)]
      BY <1>12, <2>2, <2>3, <3>1 DEF ChipReceives
    <3>3. QED
      BY <1>1, <1>3, <1>12, <3>1, <3>2
  <2>5. CASE early /\ frame = <<>>
    <3>1. Len(frame) = 0
      BY <2>5
    <3>2. frame' = frame /\ wheels' = wheels
      BY <1>12, <2>2, <2>3, <3>1 DEF ChipReceives
    <3>3. QED
      BY <1>1, <1>12, <2>5, <3>2
  <2>6. QED
    BY <2>1, <2>4, <2>5 DEF Received
<1>13. QED
  BY <1>8, <1>9, <1>10, <1>11, <1>12 DEF SentStates

(* A byte put into the UART is the last one there.                         *)
LEMMA BytePut ==
  ASSUME NEW t \in Seq(WireByte), NEW b
  PROVE  /\ Len(Append(t, b)) >= 1
         /\ Append(t, b)[Len(Append(t, b))] = b
         /\ t = <<>> => Len(Append(t, b)) = 1
OBVIOUS

LEMMA WireStep ==
  ASSUME ControlInv, WireInv, [Next]_vars
  PROVE  WireInv'
<1>1. TypeOK /\ TypeOK' /\ ControlInv'
  BY TypeStep, ControlStep DEF ControlInv
<1>2. ASSUME NEW n \in Int, NEW m,
             mState = "IDLE", BetweenTasks,
             ChangeMotorParams(Full(0, DirOf(n)), dmcState, tx),
             m \in {"ONE_MOTOR_MF_STARTED", "ONE_MOTOR_TURNING_STARTED"},
             mState' = m, UNCHANGED <<frame, wheels, recovering, early>>,
             timer'["dmcTimer"] = timer["dmcTimer"],
             m = "ONE_MOTOR_MF_STARTED" => distanceToMove' = n,
             m = "ONE_MOTOR_TURNING_STARTED" => degreeToMove' = n
      PROVE  WireInv'
  <2>1. dmcState \in {"IDLE", "RESETED"} /\ wheels = Stopped
    BY <1>2
       DEF ControlInv, StartingIsServed, Started, MoveStates, TurnStates, WireInv,
           WheelsMatchState
  <2>2. params' = Full(0, DirOf(n))
    BY <1>2 DEF ChangeMotorParams
  <2>3. /\ frame = <<>> /\ tx \in Seq(WireByte)
        /\ ~recovering => tx = <<>>
        /\ recovering /\ dmcState = "IDLE" => early
    BY <1>1, <2>1 DEF WireInv, FrameIntegrity, SentStates, TypeOK
  <2>4. CASE dmcState = "IDLE"
    <3>1. dmcState' = "START_SENT" /\ tx' = Append(tx, MTR_CTR_START_BYTE)
      <4>1. ValidParams(Full(0, DirOf(n)))
        BY <1>2, ParameterTypes
      <4>2. QED
        BY <1>2, <2>4, <4>1 DEF ChangeMotorParams
    <3>2. OnItsWay(MTR_CTR_START_BYTE)'
      BY <1>2, <2>3, <2>4, <3>1, BytePut DEF OnItsWay
    <3>3. FrameIntegrity'
      BY <1>2, <2>3, <3>1, <3>2 DEF FrameIntegrity, SentStates
    <3>4. WheelsMatchState'
      BY <1>2, <2>1 DEF WheelsMatchState
    <3>5. QED
      BY <1>2, <2>1, <2>2, <2>3, <2>4, <3>1, <3>3, <3>4 DEF WireInv
  <2>5. CASE dmcState = "RESETED"
    <3>1. dmcState' = "CMD_PENDING" /\ tx' = tx
      BY <1>2, <2>5 DEF ChangeMotorParams
    <3>2. FrameIntegrity'
      BY <1>2, <2>3, <3>1 DEF FrameIntegrity, SentStates
    <3>3. WheelsMatchState'
      BY <1>2, <2>1 DEF WheelsMatchState
    <3>4. QED
      BY <1>2, <2>1, <2>2, <2>3, <2>5, <3>1, <3>2, <3>3 DEF WireInv
  <2>6. QED
    BY <2>1, <2>4, <2>5
<1>3. ASSUME UNCHANGED <<dmcState, params, tx, frame, wheels, recovering, early>>,
             UNCHANGED <<distanceToMove, degreeToMove>>,
             timer'["dmcTimer"] = timer["dmcTimer"],
             \/ UNCHANGED <<mState, resetFor>>
             \/ mState' = "IDLE" /\ resetFor' # "no"
      PROVE  WireInv'
  <2>1. FrameIntegrity'
    BY <1>3 DEF WireInv, FrameIntegrity, MotorByte, SentStates, OnItsWay, Received
  <2>2. WheelsMatchState'
    BY <1>3 DEF WireInv, WheelsMatchState, Turns, BetweenTasks
  <2>3. QED
    BY <1>3, <2>1, <2>2 DEF WireInv, Turns
<1>4. timer \in [Timers -> TimerStates]
  BY <1>1 DEF TypeOK
<1>5. ASSUME NEW distance \in Distances, Move(distance)
      PROVE  WireInv'
  <2>1. CASE distance = 0
    BY <1>3, <1>5, <2>1 DEF Move, dmcVars, mcVars
  <2>2. CASE distance # 0
    <3>1. distance \in Int /\ timer'["dmcTimer"] = timer["dmcTimer"]
      BY <1>4, <1>5, <2>2, ArgumentsAssumption
         DEF Move, TimerStart, Timers, MotionTimers, Int8
    <3>2. QED
      BY <1>2, <1>5, <2>2, <3>1 DEF Move, chipVars
  <2>3. QED
    BY <2>1, <2>2
<1>6. ASSUME NEW degree \in Degrees, TurnRobot(degree)
      PROVE  WireInv'
  <2>1. CASE degree = 0
    BY <1>3, <1>6, <2>1 DEF TurnRobot, dmcVars, mcVars
  <2>2. CASE degree # 0
    <3>1. Negated(degree) \in Int /\ timer'["dmcTimer"] = timer["dmcTimer"]
      BY <1>4, <1>6, <2>2, ArgumentsAssumption, ParameterTypes
         DEF TurnRobot, TimerStart, Timers, MotionTimers, Int16
    <3>2. QED
      BY <1>2, <1>6, <2>2, <3>1 DEF TurnRobot, chipVars
  <2>3. QED
    BY <2>1, <2>2
<1>7. ASSUME AbortMove
      PROVE  WireInv'
  BY <1>3, <1>7 DEF AbortMove, dmcVars
<1>8. ASSUME FinishReset
      PROVE  WireInv'
  <2>1. /\ mState' = "IDLE" /\ dmcState' = "RESETED" /\ recovering'
        /\ frame' = <<>> /\ wheels' = Stopped
    BY <1>8 DEF FinishReset, DmcReset, mcVars, ControlInv
  <2>2. timer'["dmcTimer"] = "armed"
    BY <1>8 DEF FinishReset, Timers
  <2>3. FrameIntegrity' /\ WheelsMatchState'
    BY <2>1 DEF FrameIntegrity, WheelsMatchState, SentStates
  <2>4. QED
    BY <2>1, <2>2, <2>3 DEF WireInv
<1>9. ASSUME MoveTimerFired
      PROVE  WireInv'
  <2>1. timer'["dmcTimer"] = timer["dmcTimer"]
    BY <1>4, <1>9 DEF MoveTimerFired, AfterExpiry, Timers, MotionTimers
  <2>2. QED
    BY <1>3, <1>9, <2>1 DEF MoveTimerFired, dmcVars
<1>10. ASSUME TurnTimerFired
       PROVE  WireInv'
  <2>1. timer'["dmcTimer"] = timer["dmcTimer"]
    BY <1>4, <1>10 DEF TurnTimerFired, AfterExpiry, Timers, MotionTimers
  <2>2. QED
    BY <1>3, <1>10, <2>1 DEF TurnTimerFired, dmcVars
<1>11. ASSUME ResetTimerFired
       PROVE  WireInv'
  <2>1. CASE ~Delivered(timer, "dmcTimer")
    BY <1>3, <1>11, <2>1 DEF ResetTimerFired, dmcVars, mcVars
  <2>2. CASE Delivered(timer, "dmcTimer")
    <3>1. dmcState \in {"RESETED", "CMD_PENDING"}
      BY <1>11, ExpiryTaken DEF ResetTimerFired, ControlInv
    <3>2. /\ frame = <<>> /\ wheels = Stopped /\ tx \in Seq(WireByte)
          /\ ~recovering => tx = <<>>
      BY <1>1, <3>1 DEF WireInv, FrameIntegrity, SentStates, TypeOK
    <3>3. /\ UNCHANGED <<params, frame, wheels, recovering>>
          /\ UNCHANGED <<mState, distanceToMove, degreeToMove, resetFor>>
          /\ timer'["dmcTimer"] = "off"
          /\ early' = (early \/ recovering)
      BY <1>4, <1>11, <2>2
         DEF ResetTimerFired, DmcTimerFired, TimerStop, mcVars, Timers
    <3>4. \/ dmcState' = "START_SENT" /\ tx' = Append(tx, MTR_CTR_START_BYTE)
          \/ dmcState' = "IDLE" /\ tx' = tx
      BY <1>11, <2>2 DEF ResetTimerFired, DmcTimerFired
    <3>5. FrameIntegrity'
      <4>1. CASE dmcState' = "START_SENT" /\ tx' = Append(tx, MTR_CTR_START_BYTE)
        <5>1. /\ Len(tx') >= 1 /\ tx'[Len(tx')] = MTR_CTR_START_BYTE
              /\ tx = <<>> => Len(tx') = 1
          BY <3>2, <4>1, BytePut
        <5>2. Len(tx') > 1 => early' /\ recovering'
          <6>1. tx # <<>> => recovering
            BY <3>2, Zenon
          <6>2. recovering => early' /\ recovering'
            BY <3>3, Zenon
          <6>3. Len(tx') > 1 => tx # <<>>
            BY <5>1
          <6>4. QED
            BY <6>1, <6>2, <6>3
        <5>3. OnItsWay(MTR_CTR_START_BYTE)'
          BY <5>1, <5>2 DEF OnItsWay
        <5>4. QED
          BY <3>2, <3>3, <4>1, <5>3 DEF FrameIntegrity, SentStates
      <4>2. CASE dmcState' = "IDLE" /\ tx' = tx
        BY <3>2, <3>3, <4>2 DEF FrameIntegrity, SentStates
      <4>3. QED
        BY <3>4, <4>1, <4>2
    <3>6. WheelsMatchState'
      BY <3>3 DEF WireInv, WheelsMatchState, Turns, BetweenTasks
    <3>7. QED
      BY <3>2, <3>3, <3>4, <3>5, <3>6 DEF WireInv, Turns
  <2>3. QED
    BY <2>1, <2>2
<1>12. ASSUME NEW t \in DoneTasks, SignalDone(t)
       PROVE  WireInv'
  BY <1>3, <1>12 DEF SignalDone, dmcVars, mcVars
<1>13. ASSUME NEW id \in MotionTimers, Expire(id)
       PROVE  WireInv'
  <2>1. timer'["dmcTimer"] = timer["dmcTimer"]
    BY <1>4, <1>13 DEF Expire, Timers, MotionTimers
  <2>2. QED
    BY <1>3, <1>13, <2>1 DEF Expire, dmcVars, mcVars
<1>14. ASSUME ResetPeriodEnds
       PROVE  WireInv'
  <2>1. /\ ~recovering' /\ recovering
        /\ UNCHANGED <<dmcState, params, tx, frame, wheels, early>>
        /\ UNCHANGED <<mState, distanceToMove, degreeToMove, resetFor>>
        /\ Len(tx) <= IF dmcState \in SentStates THEN 1 ELSE 0
    BY <1>14 DEF ResetPeriodEnds, mcVars
  <2>2. /\ dmcState \notin SentStates => tx = <<>>
        /\ dmcState \in SentStates => Len(tx) <= 1
    BY <1>1, <2>1 DEF TypeOK
  <2>3. FrameIntegrity'
    <3>1. \A byte : OnItsWay(byte) => Len(tx) >= 1 /\ tx[Len(tx)] = byte
      BY DEF OnItsWay
    <3>2. QED
      BY <2>1, <2>2, <3>1
         DEF WireInv, FrameIntegrity, MotorByte, SentStates, OnItsWay, Received
  <2>4. WheelsMatchState'
    BY <2>1 DEF WireInv, WheelsMatchState, Turns, BetweenTasks
  <2>5. QED
    BY <2>1, <2>3, <2>4 DEF WireInv, Turns
<1>15. ASSUME ByteSent
       PROVE  WireInv'
  <2>1. /\ UNCHANGED <<distanceToMove, degreeToMove, resetFor, timer>>
        /\ UNCHANGED <<recovering, early>>
        /\ tx # <<>> /\ tx \in Seq(WireByte) /\ Len(tx) \in Nat
    BY <1>1, <1>15 DEF ByteSent, ChipReceives, TypeOK
  <2>2. ASSUME recovering, dmcState' = dmcState, params' = params, mState' = mState,
               FrameIntegrity'
        PROVE  WireInv'
    <3>1. frame = <<>>
      BY <2>2 DEF WireInv
    <3>2. UNCHANGED <<frame, wheels>>
      BY <1>15, <2>2, <3>1 DEF ByteSent, ChipReceives
    <3>3. WheelsMatchState'
      BY <2>1, <2>2, <3>2 DEF WireInv, WheelsMatchState, Turns, BetweenTasks
    <3>4. QED
      BY <2>1, <2>2, <3>2, <3>3 DEF WireInv, Turns
  <2>3. CASE dmcState \notin SentStates
    <3>1. recovering /\ frame = <<>>
      BY <2>1, <2>3 DEF WireInv, FrameIntegrity
    <3>2. UNCHANGED <<dmcState, params, mState>>
      BY <1>15, <2>3 DEF ByteSent, PutNextByte, PutDoneIgnored, SentStates
    <3>3. frame' = frame
      BY <1>15, <3>1 DEF ByteSent, ChipReceives
    <3>4. FrameIntegrity'
      BY <2>1, <2>3, <3>1, <3>2, <3>3 DEF FrameIntegrity, SentStates
    <3>5. QED
      BY <2>2, <3>1, <3>2, <3>4
  <2>4. CASE dmcState \in SentStates /\ Len(tx) # 1
    <3>1. recovering /\ early /\ frame = <<>> /\ Len(tx) > 1
      <4>1. Len(tx) > 1
        BY <1>1, <2>1, <2>4, ByteOfState
      <4>2. QED
        BY <1>1, <2>4, <4>1, ByteOfState DEF WireInv
    <3>2. tx' = Tail(tx) /\ UNCHANGED <<dmcState, params, mState>>
      BY <1>15, <2>4 DEF ByteSent
    <3>3. frame' = frame
      BY <1>15, <3>1 DEF ByteSent, ChipReceives
    <3>4. Len(tx') >= 1 /\ tx'[Len(tx')] = tx[Len(tx)]
      BY <2>1, <3>1, <3>2
    <3>5. \A byte : OnItsWay(byte) => OnItsWay(byte)'
      BY <2>1, <3>1, <3>4 DEF OnItsWay
    <3>6. \A part : Received(part) => (frame' = part \/ (early' /\ frame' = <<>>))
      BY <2>1, <3>3 DEF Received
    <3>7. FrameIntegrity'
      <4>1. MotorByte(params)' = MotorByte(params) /\ params' = params /\ dmcState' = dmcState
        BY <3>2 DEF MotorByte
      <4>2. \A byte : OnItsWay(byte)
                 => /\ Len(tx') >= 1 /\ tx'[Len(tx')] = byte
                    /\ Len(tx') > 1 => early' /\ recovering'
        BY <2>1, <3>1, <3>4 DEF OnItsWay
      <4>3. QED
        BY <2>1, <2>4, <3>1, <3>3, <4>1, <4>2
           DEF WireInv, FrameIntegrity, SentStates, Received, OnItsWay
    <3>8. QED
      BY <2>2, <3>1, <3>2, <3>7
  <2>5. CASE dmcState \in SentStates \ {"SPEED_SENT"} /\ Len(tx) = 1
    <3>1. /\ recovering => early /\ frame' = <<>>
          /\ wheels' = wheels
          /\ dmcState = "START_SENT" => Received(<<MTR_CTR_START_BYTE>>)'
          /\ dmcState = "CTRID_SENT" =>
               Received(<<MTR_CTR_START_BYTE, MTR_CTR_DEV_TYPE>>)'
          /\ dmcState = "MOTORID_DIR_SENT" =>
               \/ frame' = <<MTR_CTR_START_BYTE, MTR_CTR_DEV_TYPE, MotorByte(params)>>
               \/ early' /\ frame' = <<>>
      BY <1>1, <1>15, <2>5, ByteReceived DEF SentStates
    <3>2. PutNextByte /\ UNCHANGED mState
      BY <1>15, <2>5 DEF ByteSent, PutDoneIgnored, SentStates
    <3>3. /\ params' = params /\ MotorByte(params)' = MotorByte(params)
          /\ dmcState' \in {"CTRID_SENT", "MOTORID_DIR_SENT", "SPEED_SENT"}
      BY <3>2 DEF PutNextByte, MotorByte
    <3>4. FrameIntegrity'
      <4>1. CASE dmcState = "START_SENT"
        <5>1. dmcState' = "CTRID_SENT" /\ tx' = <<MTR_CTR_DEV_TYPE>>
          BY <3>2, <4>1 DEF PutNextByte
        <5>2. OnItsWay(MTR_CTR_DEV_TYPE)'
          BY <5>1 DEF OnItsWay
        <5>3. QED
          BY <3>1, <4>1, <5>1, <5>2 DEF FrameIntegrity, SentStates
      <4>2. CASE dmcState = "CTRID_SENT"
        <5>1. dmcState' = "MOTORID_DIR_SENT" /\ tx' = <<MotorByte(params)>>
          BY <3>2, <4>2 DEF PutNextByte
        <5>2. OnItsWay(MotorByte(params))'
          BY <3>3, <5>1 DEF OnItsWay
        <5>3. QED
          BY <3>1, <4>2, <5>1, <5>2 DEF FrameIntegrity, SentStates
      <4>3. CASE dmcState = "MOTORID_DIR_SENT"
        <5>1. dmcState' = "SPEED_SENT" /\ tx' = <<params.speed>>
          BY <3>2, <4>3 DEF PutNextByte
        <5>2. OnItsWay(params.speed)'
          BY <3>3, <5>1 DEF OnItsWay
        <5>3. Received(<<MTR_CTR_START_BYTE, MTR_CTR_DEV_TYPE, MotorByte(params)>>)'
          BY <3>1, <3>3, <4>3 DEF Received
        <5>4. QED
          BY <5>1, <5>2, <5>3 DEF FrameIntegrity, SentStates
      <4>4. QED
        BY <2>5, <4>1, <4>2, <4>3 DEF SentStates
    <3>5. WheelsMatchState'
      BY <2>1, <3>1, <3>2 DEF WireInv, WheelsMatchState, Turns, BetweenTasks
    <3>6. timer["dmcTimer"] # "due"
      BY <2>5 DEF ControlInv, SentStates
    <3>7. QED
      BY <2>1, <3>1, <3>2, <3>3, <3>4, <3>5, <3>6 DEF WireInv, Turns
  <2>6. CASE dmcState = "SPEED_SENT" /\ Len(tx) = 1
    <3>1. /\ frame' = <<>>
          /\ recovering => early /\ wheels' = wheels
          /\ \/ wheels' = [wheels EXCEPT ![params.motorID] =
                             Velocity(params.dir, params.speed)]
             \/ early' /\ wheels' = wheels
      BY <1>1, <1>15, <2>6, ByteReceived DEF SentStates
    <3>2. MotorParamsChanged
      BY <1>15, <2>6 DEF ByteSent, PutNextByte, PutDoneIgnored, SentStates
    <3>3. timer["dmcTimer"] # "due" /\ timer'["dmcTimer"] # "due"
      BY <2>1, <2>6 DEF ControlInv
    <3>4. /\ wheels \in [Motors -> Velocities]
          /\ wheels' \in [Motors -> Velocities]
          /\ 0 \in Motors /\ 1 \in Motors
          /\ distanceToMove \in Int /\ degreeToMove \in Int
          /\ Stopped[0] = 0 /\ Stopped[1] = 0
      BY <1>1 DEF TypeOK, Motors, NUM_MOTORS_SUPPORTED, Int8, Int16, Stopped
    <3>41. /\ recovering' => frame' = <<>> /\ wheels' = Stopped
           /\ recovering' => early'
      BY <2>1, <3>1 DEF WireInv
    <3>5. CASE mState = "ONE_MOTOR_MF_STARTED"
      <4>1. /\ params = Full(0, DirOf(distanceToMove))
            /\ mState' = "BOTH_MOTOR_MF_STARTED"
            /\ ChangeMotorParams(Full(1, DirOf(distanceToMove)), "IDLE", <<>>)
        BY <3>2, <3>5 DEF WireInv, MotorParamsChanged
      <4>2. /\ params' = Full(1, DirOf(distanceToMove))
            /\ dmcState' = "START_SENT" /\ tx' = <<MTR_CTR_START_BYTE>>
        <5>1. ValidParams(Full(1, DirOf(distanceToMove)))
          BY <3>4, ParameterTypes
        <5>2. QED
          BY <4>1, <5>1, OneElement DEF ChangeMotorParams
      <4>3. Turns(0, DirOf(distanceToMove))' /\ wheels'[1] = 0
        <5>1. wheels = Stopped
          BY <3>5 DEF WireInv, WheelsMatchState
        <5>2. /\ params.motorID = 0 /\ params.speed = 127
              /\ params.dir = DirOf(distanceToMove) /\ distanceToMove' = distanceToMove
          BY <2>1, <4>1 DEF Full
        <5>3. DirOf(distanceToMove)' = DirOf(distanceToMove)
          BY <5>2 DEF DirOf
        <5>4. CASE wheels' = [wheels EXCEPT ![params.motorID] =
                                Velocity(params.dir, params.speed)]
          BY <3>4, <5>1, <5>2, <5>3, <5>4 DEF Turns
        <5>5. CASE early' /\ wheels' = wheels
          BY <3>4, <5>1, <5>5 DEF Turns
        <5>6. QED
          BY <3>1, <5>4, <5>5
      <4>4. FrameIntegrity' /\ WheelsMatchState'
        <5>1. OnItsWay(MTR_CTR_START_BYTE)'
          BY <4>2 DEF OnItsWay
        <5>2. QED
          BY <3>1, <4>1, <4>2, <5>1 DEF FrameIntegrity, WheelsMatchState, SentStates
      <4>5. QED
        BY <2>1, <3>1, <3>3, <3>41, <4>1, <4>2, <4>3, <4>4 DEF WireInv, DirOf
    <3>6. CASE mState = "ONE_MOTOR_TURNING_STARTED"
      <4>1. /\ params = Full(0, DirOf(degreeToMove))
            /\ mState' = "BOTH_MOTOR_TURNING_STARTED"
            /\ ChangeMotorParams(Full(1, Opposite(DirOf(degreeToMove))), "IDLE", <<>>)
        BY <3>2, <3>6 DEF WireInv, MotorParamsChanged
      <4>2. /\ params' = Full(1, Opposite(DirOf(degreeToMove)))
            /\ dmcState' = "START_SENT" /\ tx' = <<MTR_CTR_START_BYTE>>
        <5>1. ValidParams(Full(1, Opposite(DirOf(degreeToMove))))
          BY <3>4, ParameterTypes
        <5>2. QED
          BY <4>1, <5>1, OneElement DEF ChangeMotorParams
      <4>3. Turns(0, DirOf(degreeToMove))' /\ wheels'[1] = 0
        <5>1. wheels = Stopped
          BY <3>6 DEF WireInv, WheelsMatchState
        <5>2. /\ params.motorID = 0 /\ params.speed = 127
              /\ params.dir = DirOf(degreeToMove) /\ degreeToMove' = degreeToMove
          BY <2>1, <4>1 DEF Full
        <5>3. DirOf(degreeToMove)' = DirOf(degreeToMove)
          BY <5>2 DEF DirOf
        <5>4. CASE wheels' = [wheels EXCEPT ![params.motorID] =
                                Velocity(params.dir, params.speed)]
          BY <3>4, <5>1, <5>2, <5>3, <5>4 DEF Turns
        <5>5. CASE early' /\ wheels' = wheels
          BY <3>4, <5>1, <5>5 DEF Turns
        <5>6. QED
          BY <3>1, <5>4, <5>5
      <4>4. FrameIntegrity' /\ WheelsMatchState'
        <5>1. OnItsWay(MTR_CTR_START_BYTE)'
          BY <4>2 DEF OnItsWay
        <5>2. QED
          BY <3>1, <4>1, <4>2, <5>1 DEF FrameIntegrity, WheelsMatchState, SentStates
      <4>5. QED
        BY <2>1, <3>1, <3>3, <3>41, <4>1, <4>2, <4>3, <4>4 DEF WireInv, DirOf, Opposite
    <3>7. CASE mState \notin {"ONE_MOTOR_MF_STARTED", "ONE_MOTOR_TURNING_STARTED"}
      <4>1. dmcState' = "IDLE" /\ tx' = <<>>
        BY <3>2, <3>7 DEF MotorParamsChanged
      <4>2. FrameIntegrity'
        BY <3>1, <4>1 DEF FrameIntegrity, SentStates
      <4>3. CASE mState = "BOTH_MOTOR_MF_STARTED"
        <5>1. mState' = "MOVING_FORWARD"
          BY <3>2, <4>3 DEF MotorParamsChanged
        <5>2. Turns(0, DirOf(distanceToMove))' /\ Turns(1, DirOf(distanceToMove))'
          <6>1. /\ Turns(0, DirOf(distanceToMove)) /\ wheels[1] = 0
                /\ params.motorID = 1 /\ params.speed = 127 /\ params.dir = DirOf(distanceToMove)
            BY <4>3 DEF WireInv, Full
          <6>2. DirOf(distanceToMove)' = DirOf(distanceToMove) /\ DirOf(distanceToMove)' = DirOf(distanceToMove)
            BY <2>1 DEF DirOf, Opposite
          <6>3. CASE wheels' = [wheels EXCEPT ![params.motorID] =
                                  Velocity(params.dir, params.speed)]
            <7>1. wheels'[0] = wheels[0] /\ wheels'[1] = Velocity(DirOf(distanceToMove), 127)
              BY <3>4, <6>1, <6>3
            <7>2. QED
              BY <2>1, <6>1, <6>2, <7>1 DEF Turns
          <6>4. CASE early' /\ wheels' = wheels
            BY <2>1, <6>1, <6>2, <6>4 DEF Turns
          <6>5. QED
            BY <3>1, <6>3, <6>4
        <5>3. WheelsMatchState'
          BY <5>1, <5>2 DEF WheelsMatchState
        <5>4. QED
          BY <3>1, <3>3, <3>41, <4>1, <4>2, <5>1, <5>3 DEF WireInv
      <4>4. CASE mState = "BOTH_MOTOR_TURNING_STARTED"
        <5>1. mState' = "TURNING"
          BY <3>2, <4>4 DEF MotorParamsChanged
        <5>2. Turns(0, DirOf(degreeToMove))' /\ Turns(1, Opposite(DirOf(degreeToMove)))'
          <6>1. /\ Turns(0, DirOf(degreeToMove)) /\ wheels[1] = 0
                /\ params.motorID = 1 /\ params.speed = 127 /\ params.dir = Opposite(DirOf(degreeToMove))
            BY <4>4 DEF WireInv, Full
          <6>2. DirOf(degreeToMove)' = DirOf(degreeToMove) /\ Opposite(DirOf(degreeToMove))' = Opposite(DirOf(degreeToMove))
            BY <2>1 DEF DirOf, Opposite
          <6>3. CASE wheels' = [wheels EXCEPT ![params.motorID] =
                                  Velocity(params.dir, params.speed)]
            <7>1. wheels'[0] = wheels[0] /\ wheels'[1] = Velocity(Opposite(DirOf(degreeToMove)), 127)
              BY <3>4, <6>1, <6>3
            <7>2. QED
              BY <2>1, <6>1, <6>2, <7>1 DEF Turns
          <6>4. CASE early' /\ wheels' = wheels
            BY <2>1, <6>1, <6>2, <6>4 DEF Turns
          <6>5. QED
            BY <3>1, <6>3, <6>4
        <5>3. WheelsMatchState'
          BY <5>1, <5>2 DEF WheelsMatchState
        <5>4. QED
          BY <3>1, <3>3, <3>41, <4>1, <4>2, <5>1, <5>3 DEF WireInv
      <4>5. CASE mState \notin Started
        <5>1. mState' = "IDLE" /\ resetFor' # "no"
          <6>1. mState \notin Started /\ BetweenTasks =>
                  dmcState \in {"IDLE", "RESETED"}
            BY DEF ControlInv, StartingIsServed
          <6>2. resetFor # "no" /\ mState = "IDLE"
            BY <2>6, <4>5, <6>1 DEF BetweenTasks, ControlInv
          <6>3. QED
            BY <2>1, <3>2, <6>2 DEF MotorParamsChanged
        <5>2. WheelsMatchState'
          BY <5>1 DEF WheelsMatchState, BetweenTasks
        <5>3. QED
          BY <3>1, <3>3, <3>41, <4>1, <4>2, <5>1, <5>2 DEF WireInv
      <4>6. QED
        BY <3>7, <4>3, <4>4, <4>5
           DEF Started, Running, MoveStates, TurnStates
    <3>8. QED
      BY <3>5, <3>6, <3>7
  <2>7. QED
    BY <2>3, <2>4, <2>5, <2>6
<1>16. CASE UNCHANGED vars
  BY <1>3, <1>16 DEF vars
<1>17. QED
  BY <1>5, <1>6, <1>7, <1>8, <1>9, <1>10, <1>11, <1>12, <1>13, <1>14, <1>15, <1>16
     DEF Next, Client, RunTask

LEMMA WireCorrect == Spec => []WireInv
<1>1. Spec => []ControlInv
  BY ControlCorrect
<1>2. ControlInv /\ WireInv /\ [Next]_vars => WireInv'
  BY WireStep
<1>3. QED
  BY <1>1, <1>2, WireInit, PTL DEF Spec

(* The bytes of a command reach the controller in order and unmixed,       *)
(* whatever the client does between two of them; a command is lost only    *)
(* when it was begun by an expiry from before the last reset.  This holds  *)
(* for the timers of TinyOS 1.x as for those whose stop cancels.           *)
THEOREM FramesIntact == Spec => []FrameIntegrity
<1>1. WireInv => FrameIntegrity
  BY DEF WireInv
<1>2. QED
  BY <1>1, WireCorrect, PTL

(* The wheels turn as the state of MotionControl says, but for a wheel     *)
(* whose command was lost; whenever no motion is in progress they stand.   *)
THEOREM WheelsMatch == Spec => []WheelsMatchState
<1>1. WireInv => WheelsMatchState
  BY DEF WireInv
<1>2. QED
  BY <1>1, WireCorrect, PTL

(* The reports in the queue, in their order.                               *)

Rank(q, i) == Cardinality(ReportsUpTo(q, i))

LEMMA Ranks ==
  ASSUME NEW q, NEW i \in Nat
  PROVE  /\ IsFiniteSet(ReportsUpTo(q, i)) /\ Rank(q, i) \in Nat
         /\ Rank(q, i + 1) = IF q[i + 1] \in DoneTasks THEN Rank(q, i) + 1 ELSE Rank(q, i)
<1>1. IsFiniteSet(1 .. i)
  BY FS_Interval
<1>2. ReportsUpTo(q, i) \in SUBSET (1 .. i)
  BY DEF ReportsUpTo
<1>3. IsFiniteSet(ReportsUpTo(q, i)) /\ Rank(q, i) \in Nat
  BY <1>1, <1>2, FS_Subset, FS_CardinalityType DEF Rank
<1>4. CASE q[i + 1] \in DoneTasks
  <2>1. ReportsUpTo(q, i + 1) = ReportsUpTo(q, i) \cup {i + 1} /\ i + 1 \notin ReportsUpTo(q, i)
    BY <1>4 DEF ReportsUpTo
  <2>2. QED
    BY <1>3, <1>4, <2>1, FS_AddElement DEF Rank
<1>5. CASE q[i + 1] \notin DoneTasks
  <2>1. ReportsUpTo(q, i + 1) = ReportsUpTo(q, i)
    BY <1>5 DEF ReportsUpTo
  <2>2. QED
    BY <1>3, <1>5, <2>1 DEF Rank
<1>6. QED
  BY <1>3, <1>4, <1>5

LEMMA RankBound ==
  ASSUME NEW q, NEW n \in Nat, NEW i \in 1 .. n
  PROVE  Rank(q, i) <= Rank(q, n)
<1>1. ReportsUpTo(q, i) \in SUBSET ReportsUpTo(q, n)
  BY DEF ReportsUpTo
<1>2. IsFiniteSet(ReportsUpTo(q, n))
  BY Ranks
<1>3. QED
  BY <1>1, <1>2, FS_Subset DEF Rank

LEMMA RankZero ==
  ASSUME NEW q
  PROVE  Rank(q, 0) = 0
<1>1. ReportsUpTo(q, 0) = {}
  BY DEF ReportsUpTo
<1>2. QED
  BY <1>1, FS_EmptySet DEF Rank

(* The ranks in the tail.                                                  *)
LEMMA RankTail ==
  ASSUME NEW q \in Seq(Tasks), q # <<>>, NEW i \in 0 .. Len(q) - 1
  PROVE  Rank(q, i + 1) = IF Head(q) \in DoneTasks THEN Rank(Tail(q), i) + 1 ELSE Rank(Tail(q), i)
<1> DEFINE r == Tail(q)
           A == ReportsUpTo(r, i)
           B == {j \in 2 .. i + 1 : q[j] \in DoneTasks}
           b == [j \in A |-> j + 1]
<1>1. /\ Len(q) \in Nat \ {0} /\ Len(r) = Len(q) - 1 /\ Head(q) = q[1]
      /\ \A j \in 1 .. Len(r) : r[j] = q[j + 1]
  BY HeadTailProperties, EmptySeq
<1> HIDE DEF r
<1>2. b \in Bijection(A, B)
  <2>1. ASSUME NEW j \in A PROVE j + 1 \in B /\ j \in Int
    <3>1. j \in 1 .. i /\ j \in 1 .. Len(r) /\ r[j] \in DoneTasks
      BY <1>1 DEF ReportsUpTo
    <3>2. q[j + 1] \in DoneTasks /\ j + 1 \in 2 .. i + 1
      BY <1>1, <3>1
    <3>3. QED
      BY <3>1, <3>2
  <2>2. ASSUME NEW k \in B PROVE \E j \in A : b[j] = k
    <3>1. k - 1 \in 1 .. i /\ k - 1 \in 1 .. Len(r) /\ (k - 1) + 1 = k
      BY <1>1
    <3>2. r[k - 1] \in DoneTasks
      BY <1>1, <3>1
    <3>3. k - 1 \in A
      BY <3>1, <3>2 DEF ReportsUpTo
    <3>4. QED
      BY <3>1, <3>3
  <2>3. b \in [A -> B]
    BY <2>1
  <2>4. ASSUME NEW j \in A, NEW k \in A, b[j] = b[k] PROVE j = k
    <3>1. j + 1 = k + 1 /\ j \in Int /\ k \in Int
      BY <2>1, <2>4
    <3>2. QED
      BY <3>1
  <2> HIDE DEF b
  <2>5. QED
    BY <2>2, <2>3, <2>4 DEF Bijection, Injection, IsInjective, Surjection
<1>3. IsFiniteSet(A) /\ Cardinality(A) = Rank(r, i)
  BY Ranks DEF Rank
<1>4. IsFiniteSet(B) /\ Cardinality(B) = Rank(r, i)
  BY <1>2, <1>3, FS_Bijection DEF ExistsBijection
<1>5. CASE Head(q) \in DoneTasks
  <2>1. ReportsUpTo(q, i + 1) = B \cup {1} /\ 1 \notin B
    BY <1>1, <1>5 DEF ReportsUpTo
  <2>2. QED
    BY <1>4, <1>5, <2>1, FS_AddElement DEF Rank, r
<1>6. CASE Head(q) \notin DoneTasks
  <2>1. ReportsUpTo(q, i + 1) = B
    BY <1>1, <1>6 DEF ReportsUpTo
  <2>2. QED
    BY <1>4, <1>6, <2>1 DEF Rank, r
<1>7. QED
  BY <1>5, <1>6

(* What is owed for the queue: the sequence itself, element by element.    *)
MovesAt(q, k) == \E i \in 1 .. Len(q) : q[i] = "signalMoveDone" /\ Rank(q, i) = k
OwedAt(q, k) == IF MovesAt(q, k) THEN "move" ELSE "turn"
Kind(t) == IF t = "signalMoveDone" THEN "move" ELSE "turn"

LEMMA OwedElements ==
  ASSUME NEW q \in Seq(Tasks)
  PROVE  /\ OwedIn(q) \in Seq({"move", "turn"})
         /\ Len(OwedIn(q)) = Rank(q, Len(q)) /\ Rank(q, Len(q)) \in Nat
         /\ \A k \in 1 .. Rank(q, Len(q)) : OwedIn(q)[k] = OwedAt(q, k)
<1> DEFINE n == Rank(q, Len(q))
           s == [k \in 1 .. n |-> OwedAt(q, k)]
<1>1. OwedIn(q) = s
  BY DEF OwedIn, OwedAt, MovesAt, Rank
<1>2. n \in Nat
  BY Ranks, LenProperties
<1> HIDE DEF n
<1>3. \A k \in 1 .. n : OwedAt(q, k) \in {"move", "turn"}
  BY DEF OwedAt
<1>4. s \in Seq({"move", "turn"}) /\ Len(s) = n
  <2>1. s \in [1 .. n -> {"move", "turn"}] /\ DOMAIN s = 1 .. n
    BY <1>3
  <2> HIDE DEF s
  <2>2. s \in Seq({"move", "turn"})
    BY <1>2, <2>1
  <2>3. QED
    BY <1>2, <2>1, <2>2, LenProperties
<1>5. \A k \in 1 .. n : s[k] = OwedAt(q, k)
  OBVIOUS
<1>6. QED
  BY <1>1, <1>2, <1>4, <1>5 DEF n

(* A task is posted: a report is owed last, another task changes nothing.  *)
LEMMA OwedAppend ==
  ASSUME NEW q \in Seq(Tasks), NEW t \in Tasks
  PROVE  OwedIn(Append(q, t)) = IF t \in DoneTasks THEN Append(OwedIn(q), Kind(t)) ELSE OwedIn(q)
<1> DEFINE r == Append(q, t)
           n == Rank(q, Len(q))
<1>1. /\ r \in Seq(Tasks) /\ Len(q) \in Nat /\ Len(r) = Len(q) + 1 /\ r[Len(q) + 1] = t
      /\ \A i \in 1 .. Len(q) : r[i] = q[i]
  BY AppendProperties, LenProperties
<1> HIDE DEF r
<1>2. \A i \in 0 .. Len(q) : Rank(r, i) = Rank(q, i)
  <2>1. ASSUME NEW i \in 0 .. Len(q) PROVE ReportsUpTo(r, i) = ReportsUpTo(q, i)
    BY <1>1 DEF ReportsUpTo
  <2>2. QED
    BY <2>1 DEF Rank
<1>3. n \in Nat /\ Rank(r, Len(q)) = n
  <2>1. n \in Nat
    BY <1>1, Ranks
  <2>2. Len(q) \in 0 .. Len(q)
    BY <1>1
  <2>3. QED
    BY <1>2, <2>1, <2>2
<1>4. Rank(r, Len(r)) = IF t \in DoneTasks THEN n + 1 ELSE n
  BY <1>1, <1>3, Ranks
<1>5. ASSUME NEW k \in 1 .. n PROVE OwedAt(r, k) = OwedAt(q, k)
  <2>1. MovesAt(q, k) => MovesAt(r, k)
    BY <1>1, <1>2 DEF MovesAt
  <2>2. ASSUME MovesAt(r, k) PROVE MovesAt(q, k)
    <3>1. PICK i \in 1 .. Len(r) : r[i] = "signalMoveDone" /\ Rank(r, i) = k
      BY <2>2 DEF MovesAt
    <3>2. CASE i = Len(q) + 1
      <4>1. t \in DoneTasks /\ Rank(r, i) = n + 1
        BY <1>1, <1>4, <3>1, <3>2 DEF DoneTasks
      <4>2. QED
        BY <1>3, <3>1, <4>1
    <3>3. CASE i \in 1 .. Len(q)
      BY <1>1, <1>2, <3>1, <3>3 DEF MovesAt
    <3>4. QED
      BY <1>1, <3>2, <3>3
  <2>3. QED
    BY <2>1, <2>2 DEF OwedAt
<1>6. CASE t \notin DoneTasks
  <2>1. /\ OwedIn(r) \in Seq({"move", "turn"}) /\ OwedIn(q) \in Seq({"move", "turn"})
        /\ Len(OwedIn(r)) = n /\ Len(OwedIn(q)) = n
        /\ \A k \in 1 .. n : OwedIn(r)[k] = OwedIn(q)[k]
    BY <1>1, <1>4, <1>5, <1>6, OwedElements
  <2>2. OwedIn(r) = OwedIn(q)
    BY <2>1, SeqEqual
  <2>3. QED
    BY <1>6, <2>2 DEF r
<1>7. CASE t \in DoneTasks
  <2> DEFINE s == Append(OwedIn(q), Kind(t))
  <2>1. /\ OwedIn(q) \in Seq({"move", "turn"}) /\ Len(OwedIn(q)) = n
        /\ \A k \in 1 .. n : OwedIn(q)[k] = OwedAt(q, k)
    BY OwedElements
  <2>2. Kind(t) \in {"move", "turn"}
    BY DEF Kind
  <2>3. /\ s \in Seq({"move", "turn"}) /\ Len(s) = n + 1 /\ s[n + 1] = Kind(t)
        /\ \A k \in 1 .. n : s[k] = OwedAt(q, k)
    BY <2>1, <2>2, AppendProperties
  <2> HIDE DEF s
  <2>4. /\ OwedIn(r) \in Seq({"move", "turn"}) /\ Len(OwedIn(r)) = n + 1
        /\ \A k \in 1 .. n + 1 : OwedIn(r)[k] = OwedAt(r, k)
    BY <1>1, <1>4, <1>7, OwedElements
  <2>5. OwedAt(r, n + 1) = Kind(t)
    <3>1. t = "signalMoveDone" => MovesAt(r, n + 1)
      BY <1>1, <1>4, <1>7 DEF MovesAt
    <3>2. ASSUME MovesAt(r, n + 1) PROVE t = "signalMoveDone"
      <4>1. PICK i \in 1 .. Len(r) : r[i] = "signalMoveDone" /\ Rank(r, i) = n + 1
        BY <3>2 DEF MovesAt
      <4>2. ASSUME i \in 1 .. Len(q) PROVE FALSE
        <5>1. Rank(q, i) = n + 1
          BY <1>2, <4>1, <4>2
        <5>2. Rank(q, i) <= n
          BY <1>1, <4>2, RankBound
        <5>3. QED
          BY <1>3, <5>1, <5>2
      <4>3. QED
        BY <1>1, <4>1, <4>2
    <3>3. QED
      BY <3>1, <3>2 DEF OwedAt, Kind
  <2>6. \A k \in 1 .. n + 1 : k \in 1 .. n \/ k = n + 1
    BY <1>3
  <2>7. OwedIn(r) = s
    BY <1>5, <2>3, <2>4, <2>5, <2>6, SeqEqual
  <2>8. QED
    BY <1>7, <2>7 DEF r, s
<1>8. QED
  BY <1>6, <1>7

(* The first task is taken: if it reports, it was the first owed.          *)
LEMMA OwedTail ==
  ASSUME NEW q \in Seq(Tasks), q # <<>>
  PROVE  /\ OwedIn(Tail(q)) = IF Head(q) \in DoneTasks THEN Tail(OwedIn(q)) ELSE OwedIn(q)
         /\ Head(q) \in DoneTasks => OwedIn(q) # <<>>
<1> DEFINE r == Tail(q)
           d == IF Head(q) \in DoneTasks THEN 1 ELSE 0
           n == Rank(r, Len(r))
<1>1. /\ r \in Seq(Tasks) /\ Len(q) \in Nat \ {0} /\ Len(r) = Len(q) - 1 /\ Head(q) = q[1]
      /\ \A i \in 1 .. Len(r) : r[i] = q[i + 1]
  BY HeadTailProperties, EmptySeq
<1>2. \A i \in 0 .. Len(r) : Rank(r, i) \in Nat /\ Rank(q, i + 1) = Rank(r, i) + d
  <2> SUFFICES ASSUME NEW i \in 0 .. Len(r) PROVE Rank(r, i) \in Nat /\ Rank(q, i + 1) = Rank(r, i) + d
    OBVIOUS
  <2>1. i \in 0 .. Len(q) - 1 /\ i \in Nat
    BY <1>1
  <2>2. Rank(r, i) \in Nat
    BY <2>1, Ranks
  <2>3. QED
    BY <2>1, <2>2, RankTail
<1> HIDE DEF r
<1>3. n \in Nat /\ Rank(q, Len(q)) = n + d
  <2>1. Len(r) \in 0 .. Len(r) /\ Len(r) + 1 = Len(q)
    BY <1>1
  <2>2. QED
    BY <1>2, <2>1
<1>4. Rank(q, 1) = d
  <2>1. 0 \in 0 .. Len(r) /\ 0 + 1 = 1
    BY <1>1
  <2>2. QED
    BY <1>2, <2>1, RankZero
<1> HIDE DEF n
<1>5. ASSUME NEW k \in 1 .. n PROVE OwedAt(r, k) = OwedAt(q, k + d)
  <2>1. ASSUME MovesAt(r, k) PROVE MovesAt(q, k + d)
    <3>1. PICK i \in 1 .. Len(r) : r[i] = "signalMoveDone" /\ Rank(r, i) = k
      BY <2>1 DEF MovesAt
    <3>2. i + 1 \in 1 .. Len(q) /\ i \in 0 .. Len(r)
      BY <1>1
    <3>3. q[i + 1] = "signalMoveDone" /\ Rank(q, i + 1) = k + d
      BY <1>1, <1>2, <3>1, <3>2
    <3>4. QED
      BY <3>2, <3>3 DEF MovesAt
  <2>2. ASSUME MovesAt(q, k + d) PROVE MovesAt(r, k)
    <3>1. PICK i \in 1 .. Len(q) : q[i] = "signalMoveDone" /\ Rank(q, i) = k + d
      BY <2>2 DEF MovesAt
    <3>2. i # 1
      BY <1>4, <3>1
    <3>3. i - 1 \in 1 .. Len(r) /\ i - 1 \in 0 .. Len(r) /\ (i - 1) + 1 = i
      BY <1>1, <3>2
    <3>4. r[i - 1] = "signalMoveDone" /\ Rank(r, i - 1) \in Nat /\ Rank(r, i - 1) + d = k + d
      BY <1>1, <1>2, <3>1, <3>3
    <3>5. Rank(r, i - 1) = k
      BY <3>4
    <3>6. QED
      BY <3>3, <3>4, <3>5 DEF MovesAt
  <2>3. QED
    BY <2>1, <2>2 DEF OwedAt
<1>6. /\ OwedIn(q) \in Seq({"move", "turn"}) /\ Len(OwedIn(q)) = n + d
      /\ \A k \in 1 .. n + d : OwedIn(q)[k] = OwedAt(q, k)
  BY <1>3, OwedElements
<1>7. /\ OwedIn(r) \in Seq({"move", "turn"}) /\ Len(OwedIn(r)) = n
      /\ \A k \in 1 .. n : OwedIn(r)[k] = OwedAt(r, k)
  BY <1>1, OwedElements DEF n
<1>8. CASE Head(q) \notin DoneTasks
  <2>1. \A k \in 1 .. n : k + d = k
    BY <1>8
  <2>2. Len(OwedIn(q)) = n /\ d = 0
    BY <1>3, <1>6, <1>8
  <2>3. \A k \in 1 .. n : OwedIn(q)[k] = OwedAt(q, k)
    BY <1>3, <1>6, <2>2
  <2>4. \A k \in 1 .. n : OwedIn(r)[k] = OwedIn(q)[k]
    BY <1>5, <1>7, <2>1, <2>3
  <2>5. OwedIn(r) = OwedIn(q)
    BY <1>6, <1>7, <2>2, <2>4, SeqEqual
  <2>6. QED
    BY <1>8, <2>5 DEF r
<1>9. CASE Head(q) \in DoneTasks
  <2>1. d = 1 /\ Len(OwedIn(q)) = n + 1
    BY <1>6, <1>9
  <2>2. OwedIn(q) # <<>>
    BY <1>3, <2>1
  <2> DEFINE s == Tail(OwedIn(q))
  <2>3. /\ s \in Seq({"move", "turn"}) /\ Len(s) = n
        /\ \A k \in 1 .. n : s[k] = OwedIn(q)[k + 1]
    BY <1>3, <1>6, <2>1, <2>2, HeadTailProperties
  <2> HIDE DEF s
  <2>4. ASSUME NEW k \in 1 .. n PROVE s[k] = OwedIn(r)[k]
    <3>1. k + 1 \in 1 .. n + d /\ k + d = k + 1
      BY <1>3, <2>1
    <3>2. QED
      BY <1>5, <1>6, <1>7, <2>3, <3>1
  <2>5. OwedIn(r) = s
    BY <1>7, <2>3, <2>4, SeqEqual
  <2>6. QED
    BY <1>9, <2>2, <2>5 DEF r, s
<1>10. QED
  BY <1>8, <1>9

-----------------------------------------------------------------------------
(* The steps of the service.                                               *)

serviceVars == <<phaseBar, motionBar, owedBar>>
ServiceStep == Service!Next \/ UNCHANGED serviceVars

\* What a step that leaves these alone does to what the clients see.
LEMMA PhaseKept ==
  ASSUME UNCHANGED <<mState, resetFor>>
  PROVE  UNCHANGED <<phaseBar, motionBar>>
BY DEF phaseBar, motionBar

LEMMA PhaseIdle ==
  ASSUME mState = "IDLE", resetFor \in {"no", "abort"}
  PROVE  phaseBar = "idle" /\ motionBar = "none"
BY DEF phaseBar, motionBar, Started, Running, MoveStates, TurnStates

(* A task that is no report is posted or taken.                            *)
LEMMA NothingOwed ==
  ASSUME ControlInv,
         \/ UNCHANGED queue
         \/ \E t \in Timers : queue' = Append(queue, t)
         \/ queue # <<>> /\ Head(queue) \in Timers /\ queue' = Tail(queue)
  PROVE  owedBar' = owedBar
<1>1. queue \in Seq(Tasks)
  BY DEF ControlInv, TypeOK
<1>2. \A t \in Timers : t \in Tasks /\ t \notin DoneTasks
  BY DEF Timers, MotionTimers, DoneTasks, Tasks
<1>3. CASE UNCHANGED queue
  BY <1>3 DEF owedBar
<1>4. CASE \E t \in Timers : queue' = Append(queue, t)
  BY <1>1, <1>2, <1>4, OwedAppend DEF owedBar
<1>5. CASE queue # <<>> /\ Head(queue) \in Timers /\ queue' = Tail(queue)
  BY <1>1, <1>2, <1>5, OwedTail DEF owedBar
<1>6. QED
  BY <1>3, <1>4, <1>5

LEMMA RequestServes ==
  ASSUME ControlInv, \/ \E distance \in Distances : Move(distance)
                     \/ \E degree \in Degrees : TurnRobot(degree)
  PROVE  ServiceStep
<1>1. queue \in Seq(Tasks) /\ DoneTasks \subseteq Tasks
  BY DEF ControlInv, TypeOK, Tasks
<1>2. resetFor = "no" /\ mState = "IDLE" /\ resetFor' = resetFor
  BY DEF Move, TurnRobot, BetweenTasks
<1>3. phaseBar = "idle" /\ motionBar = "none"
  BY <1>2, PhaseIdle
<1>4. \/ /\ UNCHANGED mState
         /\ \/ queue' = Append(queue, "signalMoveDone")
            \/ queue' = Append(queue, "signalTurnDone")
      \/ /\ UNCHANGED queue
         /\ mState' \in {"ONE_MOTOR_MF_STARTED", "ONE_MOTOR_TURNING_STARTED"}
  BY DEF Move, TurnRobot, mcVars
<1>5. CASE /\ UNCHANGED mState
           /\ \/ queue' = Append(queue, "signalMoveDone")
              \/ queue' = Append(queue, "signalTurnDone")
  <2>1. UNCHANGED <<phaseBar, motionBar>>
    BY <1>2, <1>5, PhaseKept
  <2>2. PICK t \in DoneTasks : queue' = Append(queue, t)
    BY <1>5 DEF DoneTasks
  <2>3. owedBar' = Append(owedBar, Kind(t)) /\ Kind(t) \in Service!Motion
    BY <1>1, <2>2, OwedAppend DEF owedBar, Kind, Service!Motion
  <2>4. Service!RequestNothing(Kind(t))
    BY <1>3, <2>1, <2>3 DEF Service!RequestNothing
  <2>5. QED
    BY <2>3, <2>4 DEF ServiceStep, Service!Next
<1>6. CASE /\ UNCHANGED queue
           /\ mState' \in {"ONE_MOTOR_MF_STARTED", "ONE_MOTOR_TURNING_STARTED"}
  <2>1. owedBar' = owedBar
    BY <1>6 DEF owedBar
  <2>2. phaseBar' = "starting" /\ motionBar' \in Service!Motion
    BY <1>2, <1>6 DEF phaseBar, motionBar, Started, Running, MoveStates, TurnStates, Service!Motion
  <2>3. \E k \in Service!Motion : Service!Request(k)
    BY <1>3, <2>1, <2>2 DEF Service!Request
  <2>4. QED
    BY <2>3 DEF ServiceStep, Service!Next
<1>7. QED
  BY <1>4, <1>5, <1>6

LEMMA AbortServes ==
  ASSUME ControlInv, AbortMove
  PROVE  ServiceStep
<1>1. /\ mState # "IDLE" /\ mState \in MStates /\ resetFor = "no"
      /\ mState' = "IDLE" /\ resetFor' = "abort" /\ UNCHANGED queue
  BY DEF AbortMove, BetweenTasks, ControlInv, TypeOK
<1>2. phaseBar # "idle"
  BY <1>1 DEF phaseBar, Started, Running, MStates, MoveStates, TurnStates
<1>3. phaseBar' = "idle" /\ motionBar' = "none"
  BY <1>1 DEF phaseBar, motionBar, Started, Running, MoveStates, TurnStates
<1>4. owedBar' = owedBar
  BY <1>1 DEF owedBar
<1>5. Service!Abort
  BY <1>2, <1>3, <1>4 DEF Service!Abort
<1>6. QED
  BY <1>5 DEF ServiceStep, Service!Next

(* The end of the reset is where a motion is complete.                     *)
LEMMA ResetServes ==
  ASSUME ControlInv, FinishReset
  PROVE  ServiceStep
<1>1. /\ queue \in Seq(Tasks) /\ resetFor \in {"abort", "move", "turn"}
      /\ mState = "IDLE" /\ mState' = "IDLE" /\ resetFor' = "no"
      /\ queue' = IF resetFor = "abort" THEN queue ELSE Append(queue, ReportOf(resetFor))
  BY DEF FinishReset, ControlInv, TypeOK, Reasons, mcVars
<1>2. phaseBar' = "idle" /\ motionBar' = "none"
  BY <1>1 DEF phaseBar, motionBar, Started, Running, MoveStates, TurnStates
<1>3. CASE resetFor = "abort"
  <2>1. phaseBar = "idle" /\ motionBar = "none"
    BY <1>1, <1>3, PhaseIdle
  <2>2. owedBar' = owedBar
    BY <1>1, <1>3 DEF owedBar
  <2>3. QED
    BY <1>2, <2>1, <2>2 DEF ServiceStep, serviceVars
<1>4. CASE resetFor \in {"move", "turn"}
  <2> DEFINE t == ReportOf(resetFor)
  <2>1. /\ phaseBar = "running" /\ motionBar = Kind(t)
        /\ t \in DoneTasks /\ t \in Tasks
    BY <1>1, <1>4 DEF phaseBar, motionBar, Started, Running, MoveStates, TurnStates,
       ReportOf, Kind, DoneTasks, Tasks
  <2>2. queue' = Append(queue, t)
    BY <1>1, <1>4
  <2> HIDE DEF t
  <2>3. owedBar' = Append(owedBar, Kind(t))
    BY <1>1, <2>1, <2>2, OwedAppend DEF owedBar
  <2>4. Service!Complete
    BY <1>2, <2>1, <2>3 DEF Service!Complete
  <2>5. QED
    BY <2>4 DEF ServiceStep, Service!Next
<1>5. QED
  BY <1>1, <1>3, <1>4

(* The task at the head: a timer ends a motion, of which the clients hear  *)
(* nothing yet; a report is signalled.                                     *)
LEMMA TaskServes ==
  ASSUME ControlInv, RunTask
  PROVE  ServiceStep
<1>1. CASE MoveTimerFired \/ TurnTimerFired
  <2>1. /\ resetFor = "no" /\ queue # <<>> /\ Head(queue) \in Timers /\ queue' = Tail(queue)
        /\ \/ UNCHANGED <<mState, resetFor>>
           \/ mState = "MOVING_FORWARD" /\ mState' = "IDLE" /\ resetFor' = "move"
           \/ mState = "TURNING" /\ mState' = "IDLE" /\ resetFor' = "turn"
    BY <1>1 DEF MoveTimerFired, TurnTimerFired, Dispatch, BetweenTasks, Timers, MotionTimers
  <2>2. owedBar' = owedBar
    BY <2>1, NothingOwed
  <2>3. UNCHANGED <<phaseBar, motionBar>>
    BY <2>1 DEF phaseBar, motionBar, Started, Running, MoveStates, TurnStates
  <2>4. QED
    BY <2>2, <2>3 DEF ServiceStep, serviceVars
<1>2. CASE ResetTimerFired
  <2>1. /\ queue # <<>> /\ Head(queue) \in Timers /\ queue' = Tail(queue)
        /\ UNCHANGED <<mState, resetFor>>
    BY <1>2 DEF ResetTimerFired, Dispatch, Timers, mcVars
  <2>2. owedBar' = owedBar
    BY <2>1, NothingOwed
  <2>3. QED
    BY <2>1, <2>2, PhaseKept DEF ServiceStep, serviceVars
<1>3. CASE \E t \in DoneTasks : SignalDone(t)
  <2>1. /\ queue \in Seq(Tasks) /\ queue # <<>> /\ Head(queue) \in DoneTasks
        /\ queue' = Tail(queue) /\ UNCHANGED <<mState, resetFor>>
    BY <1>3 DEF SignalDone, Dispatch, ControlInv, TypeOK, mcVars
  <2>2. owedBar # <<>> /\ owedBar' = Tail(owedBar)
    BY <2>1, OwedTail DEF owedBar
  <2>3. Service!Signal
    BY <2>1, <2>2, PhaseKept DEF Service!Signal
  <2>4. QED
    BY <2>3 DEF ServiceStep, Service!Next
<1>4. QED
  BY <1>1, <1>2, <1>3 DEF RunTask

(* A byte is sent: after the last of the second motor the motion runs.     *)
LEMMA ByteServes ==
  ASSUME ControlInv, ByteSent
  PROVE  ServiceStep
<1>1. UNCHANGED <<resetFor, queue>> /\ owedBar' = owedBar /\ mState \in MStates
  BY DEF ByteSent, owedBar, ControlInv, TypeOK
<1>2. \/ UNCHANGED mState
      \/ mState = "ONE_MOTOR_MF_STARTED" /\ mState' = "BOTH_MOTOR_MF_STARTED"
      \/ mState = "ONE_MOTOR_TURNING_STARTED" /\ mState' = "BOTH_MOTOR_TURNING_STARTED"
      \/ mState = "BOTH_MOTOR_MF_STARTED" /\ mState' = "MOVING_FORWARD"
      \/ mState = "BOTH_MOTOR_TURNING_STARTED" /\ mState' = "TURNING"
  BY DEF ByteSent, MotorParamsChanged
<1>3. mState # "IDLE" => resetFor = "no"
  BY DEF ControlInv
<1>4. CASE \/ UNCHANGED mState
           \/ mState = "ONE_MOTOR_MF_STARTED" /\ mState' = "BOTH_MOTOR_MF_STARTED"
           \/ mState = "ONE_MOTOR_TURNING_STARTED" /\ mState' = "BOTH_MOTOR_TURNING_STARTED"
  <2>1. UNCHANGED <<phaseBar, motionBar>>
    BY <1>1, <1>4 DEF phaseBar, motionBar, Started, Running, MoveStates, TurnStates
  <2>2. QED
    BY <1>1, <2>1 DEF ServiceStep, serviceVars
<1>5. CASE \/ mState = "BOTH_MOTOR_MF_STARTED" /\ mState' = "MOVING_FORWARD"
           \/ mState = "BOTH_MOTOR_TURNING_STARTED" /\ mState' = "TURNING"
  <2>1. phaseBar = "starting" /\ phaseBar' = "running" /\ motionBar' = motionBar
    BY <1>1, <1>3, <1>5 DEF phaseBar, motionBar, Started, Running, MoveStates, TurnStates
  <2>2. Service!Engage
    BY <1>1, <2>1 DEF Service!Engage
  <2>3. QED
    BY <2>2 DEF ServiceStep, Service!Next
<1>6. QED
  BY <1>2, <1>4, <1>5

LEMMA ExpiryServes ==
  ASSUME ControlInv, ResetPeriodEnds \/ \E id \in MotionTimers : Expire(id)
  PROVE  ServiceStep
<1>1. UNCHANGED <<mState, resetFor>>
      /\ (UNCHANGED queue \/ \E t \in Timers : queue' = Append(queue, t))
  BY DEF ResetPeriodEnds, Expire, mcVars, Timers
<1>2. owedBar' = owedBar
  BY <1>1, NothingOwed
<1>3. QED
  BY <1>1, <1>2, PhaseKept DEF ServiceStep, serviceVars

(* MotionControl keeps the promise of MotionService: one motion at a time, *)
(* engaged before it ends, and every motion that is not aborted, and every *)
(* zero-length one, is reported exactly once and in the order in which     *)
(* they ended; for both kinds of timers, and however many reports wait.    *)
THEOREM ServiceKept == Spec => Service!Spec
<1>1. Init => Service!Init
  <2> SUFFICES ASSUME Init PROVE Service!Init
    OBVIOUS
  <2>1. phaseBar = "idle" /\ motionBar = "none"
    BY PhaseIdle DEF Init
  <2>2. queue = <<>> /\ queue \in Seq(Tasks) /\ Len(queue) = 0
    BY DEF Init
  <2>3. OwedIn(queue) \in Seq({"move", "turn"}) /\ Len(OwedIn(queue)) = 0
    BY <2>2, OwedElements, RankZero
  <2>4. owedBar = <<>>
    BY <2>3, EmptySeq DEF owedBar
  <2>5. QED
    BY <2>1, <2>4 DEF Service!Init
<1>2. ControlInv /\ [Next]_vars => [Service!Next]_serviceVars
  <2> SUFFICES ASSUME ControlInv, [Next]_vars PROVE ServiceStep
    BY DEF ServiceStep
  <2>1. CASE UNCHANGED vars
    BY <2>1, PhaseKept DEF vars, ServiceStep, serviceVars, owedBar
  <2>2. CASE Next
    BY <2>2, RequestServes, AbortServes, ResetServes, TaskServes, ByteServes, ExpiryServes
       DEF Next, Client
  <2>3. QED
    BY <2>1, <2>2
<1>3. QED
  BY <1>1, <1>2, ControlCorrect, PTL DEF Spec, Service!Spec, Service!vars, serviceVars
=============================================================================
