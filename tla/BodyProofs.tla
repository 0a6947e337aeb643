------------------------------ MODULE BodyProofs ------------------------------
(***************************************************************************)
(* The body, its alert line and its lights.  Of the body controller: that  *)
(* it watches for edges whenever its wheels turn, and that the clock of    *)
(* the wheels runs exactly while one turns.  Of the alert driver and motor *)
(* control on the brain: that a driver at rest has released the flip-flop, *)
(* and that a speed the bus has accepted is the one the body obeys.  Of    *)
(* the light show: that no load finds only some headlights changed, and    *)
(* that one light of the U is on.                                          *)
(***************************************************************************)
EXTENDS Irman, AlertPath, LightShow, SequenceTheorems, FiniteSetTheorems, TLAPS

Calibrating == cliff_state \in {"IRC_CALIBRATE0", "IRC_CALIBRATE1"}

\* The robot has stopped exactly when its wheels stand.
StateOfWheels == robot_state = "ROBOT_MOVE" <=> Turning

\* From the command to the last conversion, a robot that is calibrated stands, and its
\* main loop is not in a move.
CalibratedStands ==
  /\ i2c_buffer.type = "calibrate" => ~Turning /\ main.pc \in {"parse", "avoid"}
  /\ main.pc = "calibrate" => ~Turning /\ i2c_buffer = None
  /\ Calibrating => ~Turning /\ i2c_buffer = None /\ main.pc \in {"parse", "avoid", "calibrate"}

\* In the middle of move the lamp is lit already.
LitBeforeStart == main.pc = "start" => Turning /\ lamp

Watched == adc.on /\ lamp /\ \E k \in Channels : cliff_state = Reading(k)

IInv == /\ TypeOK
        /\ StateOfWheels
        /\ CalibratedStands
        /\ LitBeforeStart
        /\ TurningIsWatched
        /\ TimerServesWheels

LEMMA InitIInv == Init => IInv
<1> SUFFICES ASSUME Init PROVE IInv OBVIOUS
<1>1. main = [pc |-> "parse", left |-> "stop", right |-> "stop", then |-> "parse"]
  BY DEF Init, At
<1>2. i2c_buffer = None /\ None.type = "none" BY DEF Init, None, Other
<1>3. TypeOK
  <2>1. main \in [pc : {"parse", "move", "start", "calibrate", "avoid", "back", "clear"},
                  left : Directions, right : Directions,
                  then : {"parse", "avoid", "back", "clear"}]
    BY <1>1 DEF Directions
  <2>2. wheel \in [left : Directions, right : Directions] BY DEF Init, Directions
  <2>3. cliff_val \in [Channels -> BOOLEAN] /\ edge \in [Channels -> BOOLEAN] BY DEF Init, Blind
  <2>4. adc \in [on : BOOLEAN, channel : Channels] /\ ADMUX \in Channels BY DEF Init, Channels
  <2>5. QED BY <1>2, <2>1, <2>2, <2>3, <2>4 DEF Init, TypeOK
<1>4. ~Turning BY DEF Init, Turning
<1>5. QED
  BY <1>1, <1>2, <1>3, <1>4 DEF Init, IInv, StateOfWheels, CalibratedStands, LitBeforeStart,
     TurningIsWatched, TimerServesWheels, Calibrating

\* The receive interrupt touches the mailbox only.
LEMMA CommandKeeps ==
  ASSUME IInv, NEW c \in Commands, ReceiveCommand(c) PROVE IInv'
<1>1. TypeOK' BY DEF IInv, TypeOK, ReceiveCommand, drive, cliff
<1>2. StateOfWheels' /\ LitBeforeStart' /\ TurningIsWatched' /\ TimerServesWheels'
  BY DEF IInv, StateOfWheels, LitBeforeStart, TurningIsWatched, TimerServesWheels, Turning,
         ReceiveCommand, drive, cliff, Reading
<1>3. CalibratedStands'
  BY DEF IInv, StateOfWheels, CalibratedStands, Calibrating, Turning, ReceiveCommand, Resting,
         drive, cliff
<1>4. QED BY <1>1, <1>2, <1>3 DEF IInv

\* The edges of the table are no business of the program.
LEMMA EdgeKeeps ==
  ASSUME IInv, NEW k \in Channels, EdgeMoves(k) PROVE IInv'
<1>1. TypeOK' BY DEF IInv, TypeOK, EdgeMoves, drive, cliff
<1>2. StateOfWheels' /\ LitBeforeStart' /\ TurningIsWatched' /\ TimerServesWheels'
  BY DEF IInv, StateOfWheels, LitBeforeStart, TurningIsWatched, TimerServesWheels, Turning,
         EdgeMoves, drive, cliff, Reading
<1>3. CalibratedStands'
  BY DEF IInv, CalibratedStands, Calibrating, Turning, EdgeMoves, drive, cliff
<1>4. QED BY <1>1, <1>2, <1>3 DEF IInv

\* The converter's interrupt: reading goes on reading; only the end of a calibration
\* switches off, and the robot stands then.
LEMMA AdcKeeps ==
  ASSUME IInv, AdcInterrupt PROVE IInv'
<1> USE DEF Channels
<1>1. UNCHANGED <<i2c_buffer, main, robot_state, wheel, timer0, irman_hi, edge, sent>>
  BY DEF AdcInterrupt, drive
<1>2. CASE \E k \in Channels : cliff_state = Reading(k)
  <2>1. PICK k \in Channels :
          /\ cliff_state = Reading(k)
          /\ cliff_val' = [cliff_val EXCEPT ![k] = edge[adc.channel]]
          /\ cliff_state' = Reading(1 - k) /\ ADMUX' = NextChannel(k)
          /\ adc' = [adc EXCEPT !.channel = ADMUX]
          /\ lamp' = lamp
    BY <1>2 DEF AdcInterrupt, Reading
  <2>2. 1 - k \in Channels OBVIOUS
  <2>3. TypeOK'
    <3>1. cliff_val' \in [Channels -> BOOLEAN] BY <2>1 DEF IInv, TypeOK
    <3>2. adc' \in [on : BOOLEAN, channel : Channels] /\ ADMUX' \in Channels
      BY <2>1, <2>2 DEF IInv, TypeOK, NextChannel
    <3>3. QED BY <1>1, <2>1, <3>1, <3>2 DEF IInv, TypeOK, Reading
  <2>4. adc'.on = adc.on BY <2>1 DEF IInv, TypeOK
  <2>5. ~Calibrating' /\ \E j \in Channels : cliff_state' = Reading(j)
    BY <2>1, <2>2 DEF Calibrating, Reading
  <2>6. QED
    BY <1>1, <2>1, <2>3, <2>4, <2>5 DEF IInv, StateOfWheels, CalibratedStands, LitBeforeStart,
       TurningIsWatched, TimerServesWheels, Turning, Reading
<1>3. CASE ~\E k \in Channels : cliff_state = Reading(k)
  <2>1. Calibrating /\ ~Turning /\ main.pc # "start"
    BY <1>3 DEF AdcInterrupt, Calibrating, IInv, CalibratedStands
  <2>2. TypeOK'
    <3>1. cliff_state' \in {"IRC_IDLE", "IRC_CALIBRATE1"} /\ lamp' \in BOOLEAN
      BY <1>3 DEF AdcInterrupt, ircliff_off, IInv, TypeOK
    <3>2. adc' \in [on : BOOLEAN, channel : Channels] /\ ADMUX' \in Channels
      <4>1. \/ adc' = [adc EXCEPT !.channel = ADMUX] /\ ADMUX' = 1 - 0
            \/ adc' = [adc EXCEPT !.on = FALSE] /\ ADMUX' = ADMUX
        <5>1. CASE cliff_state = "IRC_CALIBRATE0"
          BY <1>3, <5>1 DEF AdcInterrupt, NextChannel
        <5>2. CASE cliff_state = "IRC_CALIBRATE1"
          BY <1>3, <5>2 DEF AdcInterrupt, ircliff_off
        <5>3. QED BY <2>1, <5>1, <5>2 DEF Calibrating
      <4>2. adc \in [on : BOOLEAN, channel : Channels] /\ ADMUX \in Channels BY DEF IInv, TypeOK
      <4>3. CASE adc' = [adc EXCEPT !.channel = ADMUX] /\ ADMUX' = 1 - 0
        BY <4>2, <4>3
      <4>4. CASE adc' = [adc EXCEPT !.on = FALSE] /\ ADMUX' = ADMUX
        BY <4>2, <4>4
      <4>5. QED BY <4>1, <4>3, <4>4
    <3>3. cliff_val' = cliff_val BY <1>3 DEF AdcInterrupt
    <3>4. QED BY <1>1, <3>1, <3>2, <3>3 DEF IInv, TypeOK
  <2>3. ~Turning' BY <1>1, <2>1 DEF Turning
  <2>4. CalibratedStands' BY <1>1, <2>1, <2>3 DEF IInv, CalibratedStands
  <2>5. QED
    BY <1>1, <2>1, <2>2, <2>3, <2>4 DEF IInv, StateOfWheels, LitBeforeStart, TurningIsWatched,
       TimerServesWheels, Turning
<1>4. QED BY <1>2, <1>3

\* The first half of move sets the wheels, their clock and the state together, and
\* leaves the robot watched or about to be.
LEMMA WheelsKeep ==
  ASSUME IInv, MoveWheels PROVE IInv'
<1>1. /\ wheel' = [left |-> main.left, right |-> main.right]
      /\ timer0' = (main.left # "stop" \/ main.right # "stop")
      /\ UNCHANGED <<i2c_buffer, ADMUX, cliff_val, irman_hi, edge, sent>>
  BY DEF MoveWheels, TimerAfter
<1>2. Turning' <=> main.left # "stop" \/ main.right # "stop" BY <1>1 DEF Turning
<1>3. ~Calibrating /\ i2c_buffer.type # "calibrate"
  BY DEF IInv, CalibratedStands, MoveWheels
<1>4. main.left \in Directions /\ main.right \in Directions
      /\ main.then \in {"parse", "avoid", "back", "clear"}
  BY DEF IInv, TypeOK
<1>5. wheel' \in [left : Directions, right : Directions] /\ timer0' \in BOOLEAN
  BY <1>1, <1>4
<1>6. CASE main.left = "stop" /\ main.right = "stop"
  <2>1. /\ robot_state' = "ROBOT_STOP" /\ cliff_state' = "IRC_IDLE" /\ lamp' = FALSE
        /\ adc' = [adc EXCEPT !.on = FALSE] /\ main' = At(main.then)
    BY <1>6 DEF MoveWheels, ircliff_off
  <2>2. main' \in [pc : {"parse", "move", "start", "calibrate", "avoid", "back", "clear"},
                   left : Directions, right : Directions,
                   then : {"parse", "avoid", "back", "clear"}]
    BY <2>1, <1>4 DEF At, Directions
  <2>3. adc' \in [on : BOOLEAN, channel : Channels] BY <2>1 DEF IInv, TypeOK
  <2>4. TypeOK' BY <1>1, <1>5, <2>1, <2>2, <2>3 DEF IInv, TypeOK
  <2>5. main'.pc = main.then BY <2>1 DEF At
  <2>6. QED
    BY <1>1, <1>2, <1>3, <1>4, <1>6, <2>1, <2>4, <2>5 DEF IInv, StateOfWheels, CalibratedStands,
       Calibrating, LitBeforeStart, TurningIsWatched, TimerServesWheels
<1>7. CASE ~(main.left = "stop" /\ main.right = "stop")
  <2>1. /\ robot_state' = "ROBOT_MOVE" /\ lamp' = TRUE /\ main' = [main EXCEPT !.pc = "start"]
        /\ UNCHANGED <<cliff_state, adc>>
    BY <1>7 DEF MoveWheels
  <2>2. TypeOK' BY <1>1, <1>5, <2>1 DEF IInv, TypeOK
  <2>3. main'.pc = "start" BY <2>1 DEF IInv, TypeOK
  <2>4. QED
    BY <1>1, <1>2, <1>3, <1>7, <2>1, <2>2, <2>3 DEF IInv, StateOfWheels, CalibratedStands,
       Calibrating, LitBeforeStart, TurningIsWatched, TimerServesWheels
<1>8. QED BY <1>6, <1>7

\* The second half of move: the converter runs, and reads.
LEMMA DetectorKeeps ==
  ASSUME IInv, StartDetector PROVE IInv'
<1>1. UNCHANGED <<i2c_buffer, robot_state, wheel, timer0, lamp, ADMUX, irman_hi, edge, sent>>
      /\ main' = At(main.then) /\ cliff_state' = Reading(0) /\ cliff_val' = Blind
      /\ adc' = IF adc.on THEN adc ELSE [on |-> TRUE, channel |-> ADMUX]
  BY DEF StartDetector, ircliff_start, SwitchOn, drive
<1>2. Turning /\ lamp /\ i2c_buffer.type # "calibrate"
  BY DEF IInv, LitBeforeStart, CalibratedStands, StartDetector
<1>3. main.then \in {"parse", "avoid", "back", "clear"} BY DEF IInv, TypeOK
<1>4. main'.pc = main.then BY <1>1 DEF At
<1>5. TypeOK'
  <2>1. main' \in [pc : {"parse", "move", "start", "calibrate", "avoid", "back", "clear"},
                   left : Directions, right : Directions,
                   then : {"parse", "avoid", "back", "clear"}]
    BY <1>1, <1>3 DEF At, Directions
  <2>2. adc' \in [on : BOOLEAN, channel : Channels] BY <1>1 DEF IInv, TypeOK
  <2>3. cliff_val' \in [Channels -> BOOLEAN] BY <1>1 DEF Blind
  <2>4. QED BY <1>1, <2>1, <2>2, <2>3 DEF IInv, TypeOK, Reading
<1>6. adc'.on BY <1>1 DEF IInv, TypeOK
<1>7. \E k \in Channels : cliff_state' = Reading(k) BY <1>1 DEF Channels
<1>8. QED
  BY <1>1, <1>2, <1>3, <1>4, <1>5, <1>6, <1>7 DEF IInv, StateOfWheels, CalibratedStands,
     Calibrating, LitBeforeStart, TurningIsWatched, TimerServesWheels, Turning, Reading

\* A call of move keeps everything but the place of the main loop.
LEMMA CallKeeps ==
  ASSUME IInv, NEW l \in Directions, NEW r \in Directions,
         NEW next \in {"parse", "avoid", "back", "clear"},
         Call(l, r, next), UNCHANGED <<drive, cliff, edge, sent>>,
         i2c_buffer' \in {i2c_buffer, None}, irman_hi' \in BOOLEAN,
         i2c_buffer'.type # "calibrate", ~Calibrating
  PROVE  IInv'
<1>1. main' = [pc |-> "move", left |-> l, right |-> r, then |-> next] BY DEF Call
<1>2. UNCHANGED <<robot_state, wheel, timer0, cliff_state, lamp, adc, ADMUX, cliff_val, edge, sent>>
  BY DEF drive, cliff
<1>3. TypeOK'
  <2>1. main' \in [pc : {"parse", "move", "start", "calibrate", "avoid", "back", "clear"},
                   left : Directions, right : Directions,
                   then : {"parse", "avoid", "back", "clear"}]
    BY <1>1
  <2>2. QED BY <1>2, <2>1 DEF IInv, TypeOK
<1>4. QED
  BY <1>1, <1>2, <1>3 DEF IInv, StateOfWheels, CalibratedStands, Calibrating, LitBeforeStart,
     TurningIsWatched, TimerServesWheels, Turning, Reading

\* A step of the main loop to a place outside of move, calibration and its start.
LEMMA StepKeeps ==
  ASSUME IInv, NEW pc \in {"parse", "avoid"}, main' = At(pc), main.pc \in {"parse", "avoid"},
         UNCHANGED <<drive, cliff, edge, sent>>,
         i2c_buffer' \in {i2c_buffer, None}, irman_hi' \in BOOLEAN
  PROVE  IInv'
<1>1. main' = [pc |-> pc, left |-> "stop", right |-> "stop", then |-> "parse"] BY DEF At
<1>2. UNCHANGED <<robot_state, wheel, timer0, cliff_state, lamp, adc, ADMUX, cliff_val, edge, sent>>
  BY DEF drive, cliff
<1>3. TypeOK'
  <2>1. main' \in [pc : {"parse", "move", "start", "calibrate", "avoid", "back", "clear"},
                   left : Directions, right : Directions,
                   then : {"parse", "avoid", "back", "clear"}]
    BY <1>1 DEF Directions
  <2>2. QED BY <1>2, <2>1 DEF IInv, TypeOK
<1>4. None.type # "calibrate" BY DEF None, Other
<1>5. QED
  BY <1>1, <1>2, <1>3, <1>4 DEF IInv, StateOfWheels, CalibratedStands, Calibrating, LitBeforeStart,
     TurningIsWatched, TimerServesWheels, Turning, Reading

\* A motor command names two directions.
LEMMA MotorCommands ==
  ASSUME NEW c \in Commands \cup {None}, c.type = "motor"
  PROVE  c.left \in Directions /\ c.right \in Directions
BY DEF Commands, None, Motor, Other, Directions

\* While a command is parsed nothing is calibrated, or the mailbox is empty.
LEMMA ParseKeeps ==
  ASSUME IInv, i2c_parse PROVE IInv'
<1>1. /\ main.pc = "parse" /\ i2c_buffer' = None
      /\ UNCHANGED <<drive, adc, ADMUX, cliff_val, edge, sent>>
  BY DEF i2c_parse
<1>2. irman_hi' \in BOOLEAN BY DEF i2c_parse, IInv, TypeOK
<1>3. None.type # "calibrate" BY DEF None, Other
<1>4. i2c_buffer \in Commands \cup {None} BY DEF IInv, TypeOK
<1>5. CASE i2c_buffer.type = "calibrate"
  <2>1. cliff_state' = "IRC_CALIBRATE0" /\ lamp' = TRUE /\ main' = At("calibrate")
    BY <1>5 DEF i2c_parse
  <2>2. main' = [pc |-> "calibrate", left |-> "stop", right |-> "stop", then |-> "parse"]
    BY <2>1 DEF At
  <2>3. TypeOK'
    <3>1. main' \in [pc : {"parse", "move", "start", "calibrate", "avoid", "back", "clear"},
                     left : Directions, right : Directions,
                     then : {"parse", "avoid", "back", "clear"}]
      BY <2>2 DEF Directions
    <3>2. QED BY <1>1, <1>2, <2>1, <3>1 DEF IInv, TypeOK, drive
  <2>4. ~Turning BY <1>5 DEF IInv, CalibratedStands
  <2>5. QED
    BY <1>1, <1>3, <2>1, <2>2, <2>3, <2>4 DEF IInv, StateOfWheels, CalibratedStands, Calibrating,
       LitBeforeStart, TurningIsWatched, TimerServesWheels, Turning, drive
<1>6. CASE i2c_buffer.type = "motor"
  <2>1. Call(i2c_buffer.left, i2c_buffer.right, "avoid") /\ UNCHANGED <<drive, cliff, edge, sent>>
    BY <1>1, <1>6 DEF i2c_parse, cliff
  <2>2. CASE ~Calibrating
    BY <1>1, <1>2, <1>3, <1>4, <1>6, <2>1, <2>2, MotorCommands, CallKeeps
  <2>3. CASE Calibrating
    <3>1. i2c_buffer.type = "none" BY <2>3 DEF IInv, CalibratedStands, None, Other
    <3>2. QED BY <1>6, <3>1
  <2>4. QED BY <2>2, <2>3
<1>7. CASE i2c_buffer.type \notin {"calibrate", "motor"}
  <2>1. main' = At("avoid") /\ UNCHANGED <<drive, cliff, edge, sent>>
    BY <1>1, <1>7 DEF i2c_parse, cliff
  <2>2. QED BY <1>1, <1>2, <2>1, StepKeeps
<1>8. QED BY <1>5, <1>6, <1>7

\* The rest of the main loop: the end of a calibration, and cliff_avoidance.
LEMMA LoopKeeps ==
  ASSUME IInv, EndOfCalibrate \/ Avoid \/ DriveOn \/ BackedAway \/ StopAfterEdge PROVE IInv'
<1> USE DEF Directions
<1>1. CASE EndOfCalibrate
  <2>1. /\ UNCHANGED <<i2c_buffer, robot_state, wheel, timer0, cliff_state, lamp, ADMUX, irman_hi,
                      edge, sent>>
        /\ main' = [pc |-> "avoid", left |-> "stop", right |-> "stop", then |-> "parse"]
        /\ adc' = IF adc.on THEN adc ELSE [on |-> TRUE, channel |-> ADMUX]
        /\ cliff_val' = Blind /\ main.pc = "calibrate"
    BY <1>1 DEF EndOfCalibrate, SwitchOn, drive, At
  <2>2. ~Turning /\ i2c_buffer = None BY <2>1 DEF IInv, CalibratedStands
  <2>3. TypeOK'
    <3>1. main' \in [pc : {"parse", "move", "start", "calibrate", "avoid", "back", "clear"},
                     left : Directions, right : Directions,
                     then : {"parse", "avoid", "back", "clear"}]
      BY <2>1
    <3>2. adc' \in [on : BOOLEAN, channel : Channels] BY <2>1 DEF IInv, TypeOK
    <3>3. cliff_val' \in [Channels -> BOOLEAN] BY <2>1 DEF Blind
    <3>4. QED BY <2>1, <3>1, <3>2, <3>3 DEF IInv, TypeOK
  <2>4. None.type # "calibrate" BY DEF None, Other
  <2>5. QED
    BY <2>1, <2>2, <2>3, <2>4 DEF IInv, StateOfWheels, CalibratedStands, Calibrating, LitBeforeStart,
       TurningIsWatched, TimerServesWheels, Turning
<1>2. CASE Avoid
  <2>1. /\ Call("rev", "rev", "back") /\ irman_hi' = FALSE /\ i2c_buffer' = i2c_buffer
        /\ UNCHANGED <<drive, cliff, edge, sent>> /\ robot_state = "ROBOT_MOVE"
    BY <1>2 DEF Avoid
  <2>2. ~Calibrating /\ i2c_buffer.type # "calibrate"
    BY <2>1 DEF IInv, StateOfWheels, CalibratedStands
  <2>3. QED BY <2>1, <2>2, CallKeeps
<1>3. CASE DriveOn
  <2>1. /\ main' = At("parse") /\ main.pc = "avoid"
        /\ UNCHANGED <<i2c_buffer, irman_hi, drive, cliff, edge, sent>>
    BY <1>3 DEF DriveOn
  <2>2. irman_hi' \in BOOLEAN BY <2>1 DEF IInv, TypeOK
  <2>3. QED BY <2>1, <2>2, StepKeeps
<1>4. CASE BackedAway
  <2>1. /\ Call("rev", "rev", "clear") /\ UNCHANGED <<i2c_buffer, irman_hi, drive, cliff, edge, sent>>
        /\ main.pc = "back"
    BY <1>4 DEF BackedAway
  <2>2. ~Calibrating /\ i2c_buffer.type # "calibrate" BY <2>1 DEF IInv, CalibratedStands
  <2>3. irman_hi' \in BOOLEAN BY <2>1 DEF IInv, TypeOK
  <2>4. QED BY <2>1, <2>2, <2>3, CallKeeps
<1>5. CASE StopAfterEdge
  <2>1. /\ Call("stop", "stop", "parse") /\ irman_hi' = TRUE
        /\ UNCHANGED <<i2c_buffer, drive, cliff, edge, sent>> /\ main.pc = "clear"
    BY <1>5 DEF StopAfterEdge
  <2>2. ~Calibrating /\ i2c_buffer.type # "calibrate" BY <2>1 DEF IInv, CalibratedStands
  <2>3. QED BY <2>1, <2>2, CallKeeps
<1>6. QED BY <1>1, <1>2, <1>3, <1>4, <1>5

LEMMA NextIInv == IInv /\ [Next]_vars => IInv'
<1> SUFFICES ASSUME IInv, [Next]_vars PROVE IInv' OBVIOUS
<1>1. CASE \E c \in Commands : ReceiveCommand(c) BY <1>1, CommandKeeps
<1>2. CASE \E k \in Channels : EdgeMoves(k) BY <1>2, EdgeKeeps
<1>3. CASE AdcInterrupt BY <1>3, AdcKeeps
<1>4. CASE i2c_parse BY <1>4, ParseKeeps
<1>5. CASE MoveWheels BY <1>5, WheelsKeep
<1>6. CASE StartDetector BY <1>6, DetectorKeeps
<1>7. CASE EndOfCalibrate \/ Avoid \/ DriveOn \/ BackedAway \/ StopAfterEdge BY <1>7, LoopKeeps
<1>8. CASE UNCHANGED vars
  <2>1. TypeOK' BY <1>8 DEF IInv, TypeOK, vars, drive, cliff
  <2>2. QED
    BY <1>8, <2>1 DEF IInv, StateOfWheels, CalibratedStands, Calibrating, LitBeforeStart,
       TurningIsWatched, TimerServesWheels, Turning, Reading, vars, drive, cliff
<1>9. QED
  BY <1>1, <1>2, <1>3, <1>4, <1>5, <1>6, <1>7, <1>8 DEF Next, Main, World

LEMMA IInvHolds == Spec => []IInv
  BY InitIInv, NextIInv, PTL DEF Spec

\* Every variable of the controller keeps its type.
THEOREM TypeCorrect == Spec => []TypeOK
<1>1. IInv => TypeOK BY DEF IInv
<1>2. QED BY <1>1, IInvHolds, PTL

\* A robot whose wheels turn looks out for edges, for any number of commands and at
\* whatever point of the main loop they and the conversions come in.
THEOREM RobotIsWatched == Spec => []TurningIsWatched
<1>1. IInv => TurningIsWatched BY DEF IInv
<1>2. QED BY <1>1, IInvHolds, PTL

\* The clock of the outputs runs exactly while a wheel turns.
THEOREM ClockServesWheels == Spec => []TimerServesWheels
<1>1. IInv => TimerServesWheels BY DEF IInv
<1>2. QED BY <1>1, IInvHolds, PTL

-----------------------------------------------------------------------------
(* The alert driver: its inductive invariant.                              *)

(* The messages of the driver by what they tell it: that a write has ended,  *)
(* what a read has found, that the timer has expired.                        *)
Kind(m) ==
  CASE m.to = "hipri" /\ m.type = "MSG_I2C_SEND_DONE" -> "sent"
    [] m.to = "hipri" /\ m.type = "MSG_I2C_READ_DONE" -> m.data
    [] m.to = "hipri" /\ m.type = "MSG_TIMER_TIMEOUT" -> "expired"
    [] m.to = "hipri" /\ m.type = "MSG_INIT"          -> "init"
    [] OTHER                                          -> "other"

Results == {"clear", "alert"}

(* No message of these kinds waits.                                          *)
NoneOf(q, K) == \A i \in 1 .. Len(q) : Kind(q[i]) \notin K

(* The messages of the kinds A come before those of the kinds B.             *)
InOrder(q, A, B) ==
  \A i, j \in 1 .. Len(q) : Kind(q[i]) \in A /\ Kind(q[j]) \in B => i < j

(* What is under way on the bus.                                             *)
Writing == i2c = Transfer("hipri", "send")
Written == i2c = [Transfer("hipri", "send") EXCEPT !.stage = "end"]
Fetching == i2c = Transfer("hipri", "read")

(* No read is under way, or waits to be told.                                *)
NoReads == ~Fetching /\ NoneOf(queue, Results)

(* A read of the register finds an alert.                                    *)
FindsAlert == pointer = "input" => latch

Clients == {"hipri", "motor", "app"}
Messages ==
  {m \in [to : Clients,
          type : {"MSG_INIT", "MSG_CHANGE_SPEED", "MSG_HIPRI_INT", "MSG_I2C_SEND_DONE",
                  "MSG_I2C_READ_DONE", "MSG_TIMER_TIMEOUT"},
          data : {""} \cup Results \cup Changes] :
     m.to = "hipri" /\ m.type = "MSG_I2C_READ_DONE" => m.data \in Results}

OnBus == i2c \in {Idle, Transfer("motor", "send")} \/ Writing \/ Written \/ Fetching

DriverTypes ==
  /\ queue \in Seq(Messages)
  /\ registered \in Seq({"app", "motor"})
  /\ timer \in BOOLEAN /\ deciding \in BOOLEAN /\ int7 \in BOOLEAN
  /\ latch \in BOOLEAN /\ seen \in BOOLEAN /\ released \in BOOLEAN
  /\ OnBus

(* The packet goes with the state, but for an interrupt in the middle of the *)
(* way back to IDLE.                                                         *)
PacketOfState ==
  \/ state = "INIT" /\ i2c_packet = "config"
  \/ state = "RESET_REG1" /\ i2c_packet = "low"
  \/ state \in {"REQUEST_READ", "READ_REGISTER"} /\ i2c_packet = "request"
  \/ state = "RESET_REG2" /\ i2c_packet = "high"
  \/ state = "IDLE" /\ i2c_packet \in {"high", "request"}

(* The driver is started once.                                               *)
StartsOnce ==
  \A i \in 1 .. Len(queue) : Kind(queue[i]) = "init" => i = 1 /\ state = "INIT"

(* The bus serves one transfer after the other, so what the driver is told   *)
(* of the reads of one round comes after the writes before it and before the *)
(* writes after it.                                                          *)
Rounds ==
  /\ state \in {"INIT", "IDLE"} \/ deciding => NoReads
  /\ state \in {"RESET_REG1", "REQUEST_READ", "RESET_REG2"} =>
       /\ InOrder(queue, Results, {"sent"})
       /\ Fetching => NoneOf(queue, {"sent"})
  /\ state = "READ_REGISTER" =>
       /\ InOrder(queue, {"sent"}, Results)
       /\ NoneOf(queue, Results) \/ ~(Writing \/ Written)

(* In one round a read that has found an alert is followed by no other that  *)
(* does not: the flip-flop is not reset before.                              *)
Findings ==
  /\ InOrder(queue, {"clear"}, {"alert"})
  /\ Fetching \/ state = "READ_REGISTER" => FindsAlert \/ NoneOf(queue, {"alert"})
  /\ state = "RESET_REG1" => NoneOf(queue, {"clear"}) /\ (Fetching => FindsAlert)

(* While the flip-flop is held in reset it takes no alert; an interrupt of   *)
(* before is not taken once the driver is on its way back, or the driver has *)
(* yet to be told of the write that ends the reset.                          *)
HeldInReset ==
  /\ ~latch
  /\ int7 /\ state = "RESET_REG2" => NoneOf(queue, {"sent"}) /\ ~Written
  /\ int7 /\ state = "REQUEST_READ" => NoReads
  /\ deciding => ~int7 /\ state = "RESET_REG2"
  /\ state \in {"RESET_REG2", "IDLE"} =>
       i2c_packet = "high" /\ (timer \/ Writing \/ ~NoneOf(queue, {"expired"}))

AlertInv ==
  /\ DriverTypes
  /\ PacketOfState /\ StartsOnce
  /\ deciding => state \in {"RESET_REG2", "REQUEST_READ"}
  /\ Rounds
  /\ Findings
  /\ ~released => HeldInReset

-----------------------------------------------------------------------------
(* The table of modules.                                                   *)
LEMMA Removed ==
  ASSUME NEW S, NEW s \in Seq(S), NEW k \in 1 .. Len(s)
  PROVE  RemoveAt(s, k) \in Seq(S)
<1>1. Len(s) \in Nat /\ k \in Nat /\ 1 <= k /\ k <= Len(s) /\ \A i \in 1 .. Len(s) : s[i] \in S
  BY LenProperties, ElementOfSeq
<1>2. \A i \in 1 .. (k - 1) : s[i] \in S
  BY <1>1
<1>3. \A i \in (k + 1) .. Len(s) : s[i] \in S
  BY <1>1
<1>4. SubSeq(s, 1, k - 1) \in Seq(S) /\ SubSeq(s, k + 1, Len(s)) \in Seq(S)
  BY <1>1, <1>2, <1>3, SubSeqProperties
<1>5. QED
  BY <1>4, ConcatProperties DEF RemoveAt

(* The queue: a message is posted ...                                      *)
LEMMA Posted ==
  ASSUME NEW q \in Seq(Messages), NEW m \in Messages, NEW r, r = Append(q, m)
  PROVE  /\ r \in Seq(Messages)
         /\ \A K : NoneOf(r, K) <=> NoneOf(q, K) /\ Kind(m) \notin K
         /\ \A A, B : /\ InOrder(q, A, B)
                      /\ Kind(m) \in A => NoneOf(q, B) /\ Kind(m) \notin B
                      => InOrder(r, A, B)
         /\ Kind(m) # "init" =>
              \A i \in 1 .. Len(r) : Kind(r[i]) = "init" => i \in 1 .. Len(q) /\ r[i] = q[i]
<1>1. /\ Len(q) \in Nat /\ r \in Seq(Messages) /\ Len(r) = Len(q) + 1
      /\ \A i \in 1 .. Len(q) : r[i] = q[i]
      /\ r[Len(q) + 1] = m
  BY AppendProperties, LenProperties
<1>2. ASSUME NEW i \in 1 .. Len(r)
      PROVE  i \in 1 .. Len(q) \/ i = Len(q) + 1
  BY <1>1
<1>3. ASSUME NEW K PROVE NoneOf(r, K) <=> NoneOf(q, K) /\ Kind(m) \notin K
  BY <1>1, <1>2 DEF NoneOf
<1>4. ASSUME NEW A, NEW B, InOrder(q, A, B),
             Kind(m) \in A => NoneOf(q, B) /\ Kind(m) \notin B
      PROVE  InOrder(r, A, B)
  <2> SUFFICES ASSUME NEW i \in 1 .. Len(r), NEW j \in 1 .. Len(r),
                      Kind(r[i]) \in A, Kind(r[j]) \in B
               PROVE  i < j
    BY DEF InOrder
  <2>1. CASE i \in 1 .. Len(q) /\ j \in 1 .. Len(q)
    BY <1>1, <1>4, <2>1 DEF InOrder
  <2>2. CASE i \in 1 .. Len(q) /\ j = Len(q) + 1
    BY <1>1, <2>2
  <2>3. CASE i = Len(q) + 1
    <3>1. NoneOf(q, B) /\ Kind(m) \notin B
      BY <1>1, <1>4, <2>3
    <3>2. QED
      BY <1>1, <1>2, <3>1 DEF NoneOf
  <2>4. QED
    BY <1>2, <2>1, <2>2, <2>3
<1>5. QED
  BY <1>1, <1>2, <1>3, <1>4

(* ... and the first one is taken off, and perhaps others, none of them    *)
(* the driver's, put before the rest.                                      *)
LEMMA Moved ==
  ASSUME NEW q \in Seq(Messages), q # <<>>, NEW b \in Seq(Messages), NEW r,
         r = b \o Tail(q), \A i \in 1 .. Len(b) : Kind(b[i]) = "other",
         NEW d, d = Len(b) - 1
  PROVE  /\ r \in Seq(Messages)
         /\ \A j \in 1 .. Len(r) : Kind(r[j]) # "other" =>
              j - d \in 2 .. Len(q) /\ r[j] = q[j - d]
         /\ \A i \in 2 .. Len(q) : i + d \in 1 .. Len(r) /\ r[i + d] = q[i]
         /\ d \in Int /\ Len(q) \in Nat /\ Len(r) \in Nat /\ Len(q) > 0
         /\ Head(q) = q[1]
<1> DEFINE t == Tail(q)
<1>1. /\ Len(q) \in Nat /\ Len(q) > 0 /\ t \in Seq(Messages) /\ Len(t) = Len(q) - 1
      /\ \A i \in 1 .. Len(t) : t[i] = q[i + 1]
  BY HeadTailProperties, LenProperties, EmptySeq
<1> HIDE DEF t
<1>2. r = b \o t
  BY DEF t
<1>3. /\ r \in Seq(Messages) /\ Len(r) = Len(b) + Len(t) /\ Len(b) \in Nat
      /\ \A i \in 1 .. Len(b) + Len(t) : r[i] = IF i <= Len(b) THEN b[i] ELSE t[i - Len(b)]
  BY <1>1, <1>2, ConcatProperties, LenProperties
<1>4. ASSUME NEW j \in 1 .. Len(r), Kind(r[j]) # "other"
      PROVE  j - d \in 2 .. Len(q) /\ r[j] = q[j - d]
  <2>1. ~(j <= Len(b))
    BY <1>1, <1>3, <1>4
  <2>2. r[j] = t[j - Len(b)] /\ j - Len(b) \in 1 .. Len(t)
    BY <1>1, <1>3, <2>1
  <2>3. t[j - Len(b)] = q[j - Len(b) + 1] /\ j - Len(b) + 1 = j - d
    BY <1>1, <1>3, <2>2
  <2>4. QED
    BY <1>1, <1>3, <2>2, <2>3
<1>5. ASSUME NEW i \in 2 .. Len(q)
      PROVE  i + d \in 1 .. Len(r) /\ r[i + d] = q[i]
  <2>1. i - 1 \in 1 .. Len(t) /\ t[i - 1] = q[i]
    BY <1>1
  <2>2. i + d \in 1 .. Len(r) /\ ~(i + d <= Len(b)) /\ i + d - Len(b) = i - 1
    BY <1>1, <1>3
  <2>3. QED
    BY <1>3, <2>1, <2>2
<1>6. QED
  BY <1>1, <1>3, <1>4, <1>5

LEMMA Taken ==
  ASSUME NEW q \in Seq(Messages), q # <<>>, NEW b \in Seq(Messages), NEW r,
         r = b \o Tail(q), \A i \in 1 .. Len(b) : Kind(b[i]) = "other"
  PROVE  /\ r \in Seq(Messages)
         /\ \A K : "other" \notin K /\ NoneOf(q, K) => NoneOf(r, K)
         /\ \A K : Kind(Head(q)) \notin K /\ ~NoneOf(q, K) => ~NoneOf(r, K)
         /\ \A A, B : "other" \notin A /\ "other" \notin B /\ InOrder(q, A, B) => InOrder(r, A, B)
         /\ (\A i \in 1 .. Len(q) : Kind(q[i]) = "init" => i = 1) =>
              \A i \in 1 .. Len(r) : Kind(r[i]) # "init"
<1> DEFINE d == Len(b) - 1
<1>1. /\ r \in Seq(Messages) /\ d \in Int /\ Len(q) \in Nat /\ Len(r) \in Nat /\ Len(q) > 0
      /\ \A j \in 1 .. Len(r) : Kind(r[j]) # "other" => j - d \in 2 .. Len(q) /\ r[j] = q[j - d]
      /\ \A i \in 2 .. Len(q) : i + d \in 1 .. Len(r) /\ r[i + d] = q[i]
      /\ Head(q) = q[1]
  BY Moved
<1> HIDE DEF d
<1>2. ASSUME NEW K, "other" \notin K, NoneOf(q, K) PROVE NoneOf(r, K)
  <2> SUFFICES ASSUME NEW j \in 1 .. Len(r), Kind(r[j]) \in K PROVE FALSE
    BY DEF NoneOf
  <2>1. j - d \in 2 .. Len(q) /\ r[j] = q[j - d]
    BY <1>1, <1>2
  <2>2. j - d \in 1 .. Len(q)
    BY <1>1, <2>1
  <2>3. QED
    BY <1>2, <2>1, <2>2 DEF NoneOf
<1>3. ASSUME NEW K, Kind(Head(q)) \notin K, ~NoneOf(q, K) PROVE ~NoneOf(r, K)
  <2>1. PICK i \in 1 .. Len(q) : Kind(q[i]) \in K
    BY <1>3 DEF NoneOf
  <2>2. i \in 2 .. Len(q)
    BY <1>1, <1>3, <2>1
  <2>3. i + d \in 1 .. Len(r) /\ r[i + d] = q[i]
    BY <1>1, <2>2
  <2>4. QED
    BY <2>1, <2>3 DEF NoneOf
<1>4. ASSUME NEW A, NEW B, "other" \notin A, "other" \notin B, InOrder(q, A, B)
      PROVE  InOrder(r, A, B)
  <2> SUFFICES ASSUME NEW i \in 1 .. Len(r), NEW j \in 1 .. Len(r),
                      Kind(r[i]) \in A, Kind(r[j]) \in B
               PROVE  i < j
    BY DEF InOrder
  <2>1. /\ i - d \in 2 .. Len(q) /\ r[i] = q[i - d]
        /\ j - d \in 2 .. Len(q) /\ r[j] = q[j - d]
    BY <1>1, <1>4
  <2>2. i - d \in 1 .. Len(q) /\ j - d \in 1 .. Len(q)
    <3>1. 2 .. Len(q) \subseteq 1 .. Len(q)
      BY <1>1
    <3>2. QED
      BY <2>1, <3>1
  <2>3. i - d < j - d
    BY <1>4, <2>1, <2>2 DEF InOrder
  <2>4. QED
    BY <1>1, <2>3
<1>5. ASSUME \A i \in 1 .. Len(q) : Kind(q[i]) = "init" => i = 1,
             NEW j \in 1 .. Len(r), Kind(r[j]) = "init"
      PROVE  FALSE
  <2>1. j - d \in 2 .. Len(q) /\ r[j] = q[j - d]
    BY <1>1, <1>5
  <2>2. j - d \in 1 .. Len(q) /\ j - d # 1
    BY <1>1, <2>1
  <2>3. QED
    BY <1>5, <2>1, <2>2
<1>6. QED
  BY <1>1, <1>2, <1>3, <1>4, <1>5

(* Nothing that comes before the kind of the first message is there.       *)
LEMMA FirstIs ==
  ASSUME NEW q \in Seq(Messages), q # <<>>, NEW A, NEW B, InOrder(q, A, B),
         Kind(Head(q)) \in B
  PROVE  NoneOf(q, A)
<1>1. Head(q) = q[1] /\ 1 \in 1 .. Len(q) /\ Len(q) \in Nat
  BY EmptySeq, LenProperties
<1>2. QED
  BY <1>1 DEF NoneOf, InOrder
-----------------------------------------------------------------------------
(* The driver's queue.                                                     *)
LEMMA Kinds ==
  ASSUME NEW q
  PROVE  NoneOf(q, Results) <=> NoneOf(q, {"clear"}) /\ NoneOf(q, {"alert"})
BY DEF NoneOf, Results

LEMMA HeadKind ==
  ASSUME DriverTypes, queue # <<>>
  PROVE  /\ Head(queue) \in Messages
         /\ \A K : Kind(Head(queue)) \in K => ~NoneOf(queue, K)
         /\ Kind(Head(queue)) \in {"sent", "clear", "alert", "expired", "init", "other"}
<1>1. Head(queue) = queue[1] /\ 1 \in 1 .. Len(queue) /\ Head(queue) \in Messages
  BY EmptySeq, LenProperties, HeadTailProperties DEF DriverTypes
<1>2. ASSUME NEW K, Kind(Head(queue)) \in K PROVE ~NoneOf(queue, K)
  BY <1>1, <1>2 DEF NoneOf
<1>3. Kind(Head(queue)) \in {"sent", "clear", "alert", "expired", "init", "other"}
  BY <1>1 DEF Kind, Messages, Results
<1>4. QED
  BY <1>1, <1>2, <1>3

LEMMA HeadIs ==
  ASSUME DriverTypes
  PROVE  /\ Next_is("hipri", "MSG_I2C_SEND_DONE") => Kind(Head(queue)) = "sent"
         /\ Next_is("hipri", "MSG_TIMER_TIMEOUT") => Kind(Head(queue)) = "expired"
         /\ Next_is("hipri", "MSG_INIT") => Kind(Head(queue)) = "init"
         /\ Next_is("hipri", "MSG_I2C_READ_DONE") /\ Head(queue).data = "alert"
              => Kind(Head(queue)) = "alert"
         /\ Next_is("hipri", "MSG_I2C_READ_DONE") /\ Head(queue).data # "alert"
              => Kind(Head(queue)) = "clear"
         /\ \A type : Next_is("motor", type) \/ Next_is("app", type) => Kind(Head(queue)) = "other"
<1>1. ASSUME queue # <<>> PROVE Head(queue) \in Messages
  BY <1>1, HeadKind
<1>2. QED
  BY <1>1 DEF Next_is, Kind, Messages, Results

(* A step that tells the driver nothing new.                               *)
NothingNew ==
  /\ queue' \in Seq(Messages)
  /\ StartsOnce'
  /\ \A K \in {Results, {"sent"}, {"clear"}, {"alert"}} : NoneOf(queue, K) => NoneOf(queue', K)
  /\ InOrder(queue, Results, {"sent"}) => InOrder(queue', Results, {"sent"})
  /\ InOrder(queue, {"sent"}, Results) => InOrder(queue', {"sent"}, Results)
  /\ InOrder(queue, {"clear"}, {"alert"}) => InOrder(queue', {"clear"}, {"alert"})

(* The first message is taken off.                                         *)
LEMMA HeadOff ==
  ASSUME DriverTypes, StartsOnce, queue # <<>>, NEW b \in Seq(Messages),
         \A i \in 1 .. Len(b) : Kind(b[i]) = "other", queue' = b \o Tail(queue)
  PROVE  /\ NothingNew
         /\ Kind(Head(queue)) # "expired" /\ ~NoneOf(queue, {"expired"})
              => ~NoneOf(queue', {"expired"})
<1>1. queue \in Seq(Messages) /\ \A i \in 1 .. Len(queue) : Kind(queue[i]) = "init" => i = 1
  BY DEF DriverTypes, StartsOnce
<1>2. \A i \in 1 .. Len(queue') : Kind(queue'[i]) # "init"
  BY <1>1, Taken
<1>3. StartsOnce'
  BY <1>2 DEF StartsOnce
<1>4. /\ queue' \in Seq(Messages)
      /\ \A K : "other" \notin K /\ NoneOf(queue, K) => NoneOf(queue', K)
      /\ \A K : Kind(Head(queue)) \notin K /\ ~NoneOf(queue, K) => ~NoneOf(queue', K)
      /\ \A A, B : "other" \notin A /\ "other" \notin B /\ InOrder(queue, A, B)
                     => InOrder(queue', A, B)
  BY <1>1, Taken
<1>5. /\ "other" \notin Results /\ "other" \notin {"sent"} /\ "other" \notin {"clear"}
      /\ "other" \notin {"alert"}
  BY DEF Results
<1>6. QED
  BY <1>3, <1>4, <1>5 DEF NothingNew

LEMMA Dispatched ==
  ASSUME DriverTypes, StartsOnce, queue # <<>>, Dispatch(<<>>)
  PROVE  /\ NothingNew
         /\ Kind(Head(queue)) # "expired" /\ ~NoneOf(queue, {"expired"})
              => ~NoneOf(queue', {"expired"})
<1>1. Tail(queue) \in Seq(Messages)
  BY HeadTailProperties DEF DriverTypes
<1>2. queue' = <<>> \o Tail(queue)
  BY <1>1, ConcatEmptySeq DEF Dispatch
<1>3. <<>> \in Seq(Messages) /\ \A i \in 1 .. Len(<<>>) : Kind(<<>>[i]) = "other"
  BY EmptySeq
<1>4. QED
  BY <1>2, <1>3, HeadOff

(* A message is posted.                                                    *)
LEMMA Grown ==
  ASSUME DriverTypes, StartsOnce, state' = state, NEW m \in Messages, Kind(m) # "init",
         queue' = Append(queue, m)
  PROVE  /\ queue' \in Seq(Messages)
         /\ \A K : NoneOf(queue', K) <=> NoneOf(queue, K) /\ Kind(m) \notin K
         /\ \A A, B : /\ InOrder(queue, A, B)
                      /\ Kind(m) \in A => NoneOf(queue, B) /\ Kind(m) \notin B
                      => InOrder(queue', A, B)
         /\ StartsOnce'
<1>1. queue \in Seq(Messages)
  BY DEF DriverTypes
<1>2. \A i \in 1 .. Len(queue') : Kind(queue'[i]) = "init"
         => i \in 1 .. Len(queue) /\ queue'[i] = queue[i]
  BY <1>1, Posted
<1>3. StartsOnce'
  BY <1>2 DEF StartsOnce
<1>4. QED
  BY <1>1, <1>3, Posted

-----------------------------------------------------------------------------
(* The bus.                                                                *)
LEMMA OneTransfer ==
  /\ ~(Writing /\ Written) /\ ~(Writing /\ Fetching) /\ ~(Written /\ Fetching)
  /\ i2c \in {Idle, Transfer("motor", "send")} => ~Writing /\ ~Written /\ ~Fetching
BY DEF Writing, Written, Fetching, Idle, Transfer

LEMMA BusSame ==
  ASSUME i2c' = i2c
  PROVE  (Writing' <=> Writing) /\ (Written' <=> Written) /\ (Fetching' <=> Fetching)
         /\ (OnBus => OnBus')
BY DEF Writing, Written, Fetching, OnBus

LEMMA TrySend ==
  ASSUME DriverTypes, Try("send")
  PROVE  /\ OnBus' /\ (Fetching' <=> Fetching) /\ (Written' <=> Written)
         /\ (Writing => Writing') /\ (Writing' \/ timer') /\ timer' \in BOOLEAN
<1>1. CASE i2c = Idle
  BY <1>1 DEF Try, Busy, DriverTypes, OnBus, Writing, Written, Fetching, Idle, Transfer
<1>2. CASE i2c # Idle
  BY <1>2, BusSame DEF Try, Busy, DriverTypes
<1>3. QED
  BY <1>1, <1>2

LEMMA TryRead ==
  ASSUME DriverTypes, Try("read")
  PROVE  /\ OnBus' /\ (Writing' <=> Writing) /\ (Written' <=> Written)
         /\ (Fetching => Fetching') /\ (Fetching' /\ ~Fetching => ~Writing /\ ~Written)
         /\ timer' \in BOOLEAN
<1>1. CASE i2c = Idle
  BY <1>1 DEF Try, Busy, DriverTypes, OnBus, Writing, Written, Fetching, Idle, Transfer
<1>2. CASE i2c # Idle
  BY <1>2, BusSame DEF Try, Busy, DriverTypes
<1>3. QED
  BY <1>1, <1>2

LEMMA SendIs ==
  ASSUME DriverTypes, NEW s, NEW p, Send(s, p)
  PROVE  /\ state' = s /\ i2c_packet' = p
         /\ OnBus' /\ (Fetching' <=> Fetching) /\ (Written' <=> Written)
         /\ (Writing => Writing') /\ (Writing' \/ timer') /\ timer' \in BOOLEAN
BY TrySend DEF Send
-----------------------------------------------------------------------------
(* The steps, one by one.  A step that changes nothing of the driver.      *)
LEMMA Quiet ==
  ASSUME AlertInv, NothingNew, UNCHANGED <<driver, int7, register>>,
         ~NoneOf(queue, {"expired"}) => ~NoneOf(queue', {"expired"}),
         registered' \in Seq({"app", "motor"}), OnBus',
         Writing' <=> Writing, Written' <=> Written, Fetching' <=> Fetching
  PROVE  AlertInv'
<1>1. DriverTypes'
  BY DEF AlertInv, DriverTypes, NothingNew, driver, register
<1>2. PacketOfState' /\ (deciding => state \in {"RESET_REG2", "REQUEST_READ"})'
  BY DEF AlertInv, PacketOfState, driver
<1>3. StartsOnce'
  BY DEF NothingNew
<1>4. Rounds'
  BY DEF AlertInv, Rounds, NoReads, NothingNew, driver
<1>5. Findings'
  BY DEF AlertInv, Findings, FindsAlert, NothingNew, driver, register
<1>6. (~released => HeldInReset)'
  BY DEF AlertInv, HeldInReset, NoReads, NothingNew, driver, register
<1>7. QED
  BY <1>1, <1>2, <1>3, <1>4, <1>5, <1>6 DEF AlertInv

LEMMA OthersMail ==
  ASSUME AlertInv, NEW m \in Messages, Kind(m) = "other", queue' = Append(queue, m),
         state' = state
  PROVE  NothingNew /\ (~NoneOf(queue, {"expired"}) => ~NoneOf(queue', {"expired"}))
<1>1. DriverTypes /\ StartsOnce
  BY DEF AlertInv
<1>2. /\ queue' \in Seq(Messages) /\ StartsOnce'
      /\ \A K : NoneOf(queue', K) <=> NoneOf(queue, K) /\ Kind(m) \notin K
      /\ \A A, B : /\ InOrder(queue, A, B)
                   /\ Kind(m) \in A => NoneOf(queue, B) /\ Kind(m) \notin B
                   => InOrder(queue', A, B)
  BY <1>1, Grown
<1>3. Kind(m) \notin Results \cup {"sent", "clear", "alert", "expired"}
  BY DEF Results
<1>4. QED
  BY <1>2, <1>3 DEF NothingNew

LEMMA OthersHear ==
  ASSUME AlertInv, NEW type, Next_is("motor", type) \/ Next_is("app", type), Dispatch(<<>>)
  PROVE  NothingNew /\ (~NoneOf(queue, {"expired"}) => ~NoneOf(queue', {"expired"}))
<1>1. DriverTypes /\ StartsOnce /\ queue # <<>>
  BY DEF AlertInv, Next_is
<1>2. Kind(Head(queue)) = "other"
  BY <1>1, HeadIs
<1>3. QED
  BY <1>1, <1>2, Dispatched

LEMMA MotorSend ==
  ASSUME OnBus, i2c' = IF Busy THEN i2c ELSE Transfer("motor", "send")
  PROVE  OnBus' /\ (Writing' <=> Writing) /\ (Written' <=> Written) /\ (Fetching' <=> Fetching)
<1>1. CASE Busy
  BY <1>1, BusSame
<1>2. CASE ~Busy
  BY <1>2 DEF Busy, OnBus, Writing, Written, Fetching, Idle, Transfer
<1>3. QED
  BY <1>1, <1>2

LEMMA MotorStarts == AlertInv /\ StartMotor => AlertInv'
<1> SUFFICES ASSUME AlertInv, StartMotor PROVE AlertInv'
  OBVIOUS
<1>1. OnBus /\ registered \in Seq({"app", "motor"})
  BY DEF AlertInv, DriverTypes
<1>2. registered' \in Seq({"app", "motor"})
  BY <1>1, AppendProperties DEF StartMotor, RegisterIn
<1>3. UNCHANGED <<driver, int7, register, i2c>>
  BY DEF StartMotor, unregistered
<1>4. NothingNew /\ (~NoneOf(queue, {"expired"}) => ~NoneOf(queue', {"expired"}))
  BY OthersHear DEF StartMotor
<1>5. QED
  BY <1>1, <1>2, <1>3, <1>4, BusSame, Quiet

LEMMA AppLeaves == AlertInv /\ AppDeregisters => AlertInv'
<1> SUFFICES ASSUME AlertInv, AppDeregisters PROVE AlertInv'
  OBVIOUS
<1>1. OnBus /\ registered \in Seq({"app", "motor"}) /\ queue \in Seq(Messages) /\ StartsOnce
  BY DEF AlertInv, DriverTypes
<1>2. registered' \in Seq({"app", "motor"})
  <2>1. CASE UNCHANGED registered
    BY <1>1, <2>1
  <2>2. CASE \E k \in DOMAIN registered : registered' = RemoveAt(registered, k)
    <3>1. DOMAIN registered = 1 .. Len(registered)
      BY <1>1, LenProperties
    <3>2. QED
      BY <1>1, <2>2, <3>1, Removed
  <2>3. QED
    BY <2>1, <2>2 DEF AppDeregisters, DeregisterFrom
<1>3. UNCHANGED <<driver, int7, register, i2c, queue>>
  BY DEF AppDeregisters, unregistered
<1>4. NothingNew
  BY <1>1, <1>3 DEF NothingNew, StartsOnce, driver
<1>5. QED
  BY <1>1, <1>2, <1>3, <1>4, BusSame, Quiet

LEMMA MotorAndOthers ==
  AlertInv /\ (ChangeSpeed \/ StopSpeed \/ SpeedSent \/ AppHears) => AlertInv'
<1> SUFFICES ASSUME AlertInv, ChangeSpeed \/ StopSpeed \/ SpeedSent \/ AppHears
             PROVE  AlertInv'
  OBVIOUS
<1>1. OnBus /\ registered \in Seq({"app", "motor"})
  BY DEF AlertInv, DriverTypes
<1>2. UNCHANGED <<driver, int7, register, registered>>
  BY DEF ChangeSpeed, StopSpeed, SpeedSent, AppHears, hipriVars
<1>3. NothingNew /\ (~NoneOf(queue, {"expired"}) => ~NoneOf(queue', {"expired"}))
  BY OthersHear DEF ChangeSpeed, StopSpeed, SpeedSent, AppHears
<1>4. OnBus' /\ (Writing' <=> Writing) /\ (Written' <=> Written) /\ (Fetching' <=> Fetching)
  BY <1>1, BusSame, MotorSend DEF ChangeSpeed, StopSpeed, SpeedSent, AppHears
<1>5. QED
  BY <1>1, <1>2, <1>3, <1>4, Quiet

LEMMA MotorMail ==
  AlertInv /\ (SendSpeed \/ \E c \in Asked : AskSpeed(c)) => AlertInv'
<1> SUFFICES ASSUME AlertInv, SendSpeed \/ \E c \in Asked : AskSpeed(c)
             PROVE  AlertInv'
  OBVIOUS
<1>1. OnBus /\ registered \in Seq({"app", "motor"})
  BY DEF AlertInv, DriverTypes
<1>2. UNCHANGED <<driver, int7, register, registered>> /\ state' = state
  BY DEF SendSpeed, AskSpeed, hipriVars, driver
<1>3. PICK m \in Messages : Kind(m) = "other" /\ queue' = Append(queue, m)
  <2>1. CASE SendSpeed
    <3> DEFINE m == Message("motor", "MSG_I2C_SEND_DONE", "")
    <3>1. m \in Messages /\ Kind(m) = "other"
      BY DEF Messages, Clients, Kind, Message
    <3>2. QED
      BY <2>1, <3>1 DEF SendSpeed
  <2>2. CASE \E c \in Asked : AskSpeed(c)
    <3>1. PICK c \in Changes : AskSpeed(c)
      BY <2>2, ChangesAssumption
    <3> DEFINE m == Message("motor", "MSG_CHANGE_SPEED", c)
    <3>2. m \in Messages /\ Kind(m) = "other"
      BY <3>1 DEF Messages, Clients, Kind, Message
    <3>3. QED
      BY <3>1, <3>2 DEF AskSpeed
  <2>3. QED
    BY <2>1, <2>2
<1>4. NothingNew /\ (~NoneOf(queue, {"expired"}) => ~NoneOf(queue', {"expired"}))
  BY <1>2, <1>3, OthersMail
<1>5. OnBus' /\ (Writing' <=> Writing) /\ (Written' <=> Written) /\ (Fetching' <=> Fetching)
  <2>1. CASE SendSpeed
    BY <2>1 DEF SendSpeed, OnBus, Writing, Written, Fetching, Idle, Transfer
  <2>2. CASE UNCHANGED i2c
    BY <1>1, <2>2, BusSame
  <2>3. QED
    BY <2>1, <2>2 DEF AskSpeed
<1>6. QED
  BY <1>1, <1>2, <1>4, <1>5, Quiet

(* The alert register.  The flip-flop takes an alert.                      *)
LEMMA Alerted ==
  AlertInv /\ Alert /\ UNCHANGED <<motorVars, queue, i2c>> => AlertInv'
<1> SUFFICES ASSUME AlertInv, Alert, UNCHANGED <<queue, i2c>> PROVE AlertInv'
  OBVIOUS
<1>1. UNCHANGED <<state, i2c_packet, timer, deciding, registered, seen, released, pointer>>
  BY DEF Alert, driver
<1>2. latch' = (latch \/ released) /\ int7' = (int7 \/ (latch = seen /\ latch' # seen))
  BY DEF Alert, Falls
<1>3. (Writing' <=> Writing) /\ (Written' <=> Written) /\ (Fetching' <=> Fetching) /\ OnBus'
  BY BusSame DEF AlertInv, DriverTypes
<1>4. latch \in BOOLEAN /\ seen \in BOOLEAN /\ released \in BOOLEAN /\ int7 \in BOOLEAN
  BY DEF AlertInv, DriverTypes
<1>5. latch' \in BOOLEAN /\ int7' \in BOOLEAN /\ (latch => latch')
      /\ (~released /\ ~latch => ~latch' /\ (int7' <=> int7))
  BY <1>2, <1>4
<1>6. DriverTypes'
  BY <1>1, <1>3, <1>5 DEF AlertInv, DriverTypes
<1>7. PacketOfState' /\ StartsOnce' /\ (deciding => state \in {"RESET_REG2", "REQUEST_READ"})'
  BY <1>1 DEF AlertInv, PacketOfState, StartsOnce
<1>8. Rounds'
  BY <1>1, <1>3 DEF AlertInv, Rounds, NoReads
<1>9. Findings'
  BY <1>1, <1>3, <1>5 DEF AlertInv, Findings, FindsAlert
<1>10. (~released => HeldInReset)'
  BY <1>1, <1>3, <1>5 DEF AlertInv, HeldInReset, NoReads
<1>11. QED
  BY <1>6, <1>7, <1>8, <1>9, <1>10 DEF AlertInv

(* A write reaches the register: it resets it, or ends its reset, as the   *)
(* packet says.                                                            *)
LEMMA RegisterWritten == AlertInv /\ WriteRegister => AlertInv'
<1> SUFFICES ASSUME AlertInv, WriteRegister PROVE AlertInv'
  OBVIOUS
<1>1. UNCHANGED <<state, i2c_packet, timer, deciding, registered, seen, queue>>
  BY DEF WriteRegister, driver
<1>2. Writing /\ ~Writing' /\ Written' /\ ~Fetching /\ ~Fetching' /\ OnBus'
  BY DEF WriteRegister, Writing, Written, Fetching, OnBus, Transfer
<1>3. latch \in BOOLEAN /\ seen \in BOOLEAN /\ released \in BOOLEAN /\ int7 \in BOOLEAN
  BY DEF AlertInv, DriverTypes
<1>4. /\ i2c_packet = "low" => released' = FALSE
      /\ i2c_packet = "high" => released' = TRUE
      /\ i2c_packet \notin {"low", "high"} => released' = released
      /\ latch' = (latch /\ released')
      /\ int7' = (int7 \/ (latch = seen /\ latch' # seen))
  BY DEF WriteRegister, Falls
<1>5. /\ released' \in BOOLEAN /\ latch' \in BOOLEAN /\ int7' \in BOOLEAN
      /\ ~released' => ~latch'
      /\ ~latch => ~latch' /\ (int7' <=> int7)
  <2>1. released' \in BOOLEAN
    BY <1>3, <1>4
  <2>2. QED
    BY <1>3, <1>4, <2>1
<1>6. DriverTypes'
  BY <1>1, <1>2, <1>5 DEF AlertInv, DriverTypes
<1>7. PacketOfState' /\ StartsOnce' /\ (deciding => state \in {"RESET_REG2", "REQUEST_READ"})'
  BY <1>1 DEF AlertInv, PacketOfState, StartsOnce
<1>8. Rounds'
  BY <1>1, <1>2 DEF AlertInv, Rounds, NoReads
<1>9. Findings'
  BY <1>1, <1>2, Kinds DEF AlertInv, Findings, Rounds
<1>10. (~released => HeldInReset)'
  <2>1. CASE state = "RESET_REG1"
    BY <1>1, <1>5, <2>1 DEF AlertInv, HeldInReset
  <2>2. CASE state # "RESET_REG1"
    <3>1. i2c_packet # "low"
      BY <2>2 DEF AlertInv, PacketOfState
    <3>2. ~released' => ~released /\ i2c_packet # "high"
      BY <1>4, <3>1
    <3>3. ~released' => HeldInReset /\ i2c_packet # "high"
      BY <3>2 DEF AlertInv
    <3>4. QED
      BY <1>1, <1>2, <1>5, <3>3 DEF HeldInReset, NoReads, AlertInv
  <2>3. QED
    BY <2>1, <2>2
<1>11. QED
  BY <1>6, <1>7, <1>8, <1>9, <1>10 DEF AlertInv

LEMMA WriteEnded == AlertInv /\ WriteDone => AlertInv'
<1> SUFFICES ASSUME AlertInv, WriteDone PROVE AlertInv'
  OBVIOUS
<1>1. UNCHANGED <<state, i2c_packet, timer, deciding, registered, int7, latch, seen,
                  released, pointer>>
  BY DEF WriteDone, hipriVars, driver, register
<1>2. Written /\ ~Writing /\ ~Fetching /\ ~Writing' /\ ~Written' /\ ~Fetching' /\ OnBus'
  BY DEF WriteDone, Writing, Written, Fetching, OnBus, Transfer, Idle
<1> DEFINE m == Message("hipri", "MSG_I2C_SEND_DONE", "")
<1>3. m \in Messages /\ Kind(m) = "sent"
  BY DEF Messages, Clients, Kind, Message
<1>4. DriverTypes /\ StartsOnce /\ queue' = Append(queue, m)
  BY DEF AlertInv, WriteDone
<1> HIDE DEF m
<1>5. /\ queue' \in Seq(Messages) /\ StartsOnce'
      /\ \A K : NoneOf(queue', K) <=> NoneOf(queue, K) /\ Kind(m) \notin K
      /\ \A A, B : /\ InOrder(queue, A, B)
                   /\ Kind(m) \in A => NoneOf(queue, B) /\ Kind(m) \notin B
                   => InOrder(queue', A, B)
  BY <1>1, <1>3, <1>4, Grown
<1>6. /\ NoneOf(queue, Results) <=> NoneOf(queue', Results)
      /\ NoneOf(queue, {"clear"}) <=> NoneOf(queue', {"clear"})
      /\ NoneOf(queue, {"alert"}) <=> NoneOf(queue', {"alert"})
      /\ NoneOf(queue, {"expired"}) <=> NoneOf(queue', {"expired"})
      /\ InOrder(queue, {"clear"}, {"alert"}) => InOrder(queue', {"clear"}, {"alert"})
      /\ InOrder(queue, Results, {"sent"}) => InOrder(queue', Results, {"sent"})
      /\ InOrder(queue, {"sent"}, Results) /\ NoneOf(queue, Results)
           => InOrder(queue', {"sent"}, Results)
  <2>1. /\ Kind(m) \notin Results /\ Kind(m) \notin {"clear"} /\ Kind(m) \notin {"alert"}
        /\ Kind(m) \notin {"expired"}
    BY <1>3 DEF Results
  <2>2. QED
    BY <1>5, <2>1
<1>7. DriverTypes'
  BY <1>1, <1>2, <1>4, <1>5 DEF DriverTypes
<1>8. PacketOfState' /\ (deciding => state \in {"RESET_REG2", "REQUEST_READ"})'
  BY <1>1 DEF AlertInv, PacketOfState
<1>9. Rounds'
  BY <1>1, <1>2, <1>6 DEF AlertInv, Rounds, NoReads
<1>10. Findings'
  BY <1>1, <1>2, <1>6 DEF AlertInv, Findings, FindsAlert
<1>11. (~released => HeldInReset)'
  BY <1>1, <1>2, <1>6 DEF AlertInv, HeldInReset, NoReads
<1>12. QED
  BY <1>5, <1>7, <1>8, <1>9, <1>10, <1>11 DEF AlertInv

LEMMA RegisterRead == AlertInv /\ ReadRegister => AlertInv'
<1> SUFFICES ASSUME AlertInv, ReadRegister PROVE AlertInv'
  OBVIOUS
<1>1. UNCHANGED <<state, i2c_packet, timer, deciding, registered, int7, latch, released,
                  pointer>>
  BY DEF ReadRegister, driver
<1>2. Fetching /\ ~Writing /\ ~Written /\ ~Writing' /\ ~Written' /\ ~Fetching' /\ OnBus'
  BY DEF ReadRegister, Writing, Written, Fetching, OnBus, Transfer, Idle
<1>3. PICK found \in Results : /\ found = "alert" <=> FindsAlert
                               /\ queue' = Append(queue, Message("hipri", "MSG_I2C_READ_DONE", found))
  BY DEF ReadRegister, Results, FindsAlert
<1>4. PICK m \in Messages : Kind(m) = found /\ queue' = Append(queue, m)
  <2> DEFINE n == Message("hipri", "MSG_I2C_READ_DONE", found)
  <2>1. n \in Messages /\ Kind(n) = found
    BY <1>3 DEF Messages, Clients, Kind, Message
  <2>2. QED
    BY <1>3, <2>1
<1>5. DriverTypes /\ StartsOnce /\ Kind(m) \in {"clear", "alert"}
  BY <1>3, <1>4 DEF AlertInv, Results
<1>6. /\ queue' \in Seq(Messages) /\ StartsOnce'
      /\ \A K : NoneOf(queue', K) <=> NoneOf(queue, K) /\ Kind(m) \notin K
      /\ \A A, B : /\ InOrder(queue, A, B)
                   /\ Kind(m) \in A => NoneOf(queue, B) /\ Kind(m) \notin B
                   => InOrder(queue', A, B)
  BY <1>1, <1>4, <1>5, Grown
<1>7. /\ NoneOf(queue, {"sent"}) <=> NoneOf(queue', {"sent"})
      /\ NoneOf(queue, {"expired"}) <=> NoneOf(queue', {"expired"})
      /\ FindsAlert => (NoneOf(queue, {"clear"}) => NoneOf(queue', {"clear"}))
      /\ ~FindsAlert => (NoneOf(queue, {"alert"}) => NoneOf(queue', {"alert"}))
      /\ InOrder(queue, Results, {"sent"}) /\ NoneOf(queue, {"sent"})
           => InOrder(queue', Results, {"sent"})
      /\ InOrder(queue, {"sent"}, Results) => InOrder(queue', {"sent"}, Results)
      /\ InOrder(queue, {"clear"}, {"alert"}) /\ (FindsAlert \/ NoneOf(queue, {"alert"}))
           => InOrder(queue', {"clear"}, {"alert"})
  <2>1. /\ Kind(m) \notin {"sent"} /\ Kind(m) \notin {"expired"}
        /\ FindsAlert => Kind(m) \notin {"clear"}
        /\ ~FindsAlert => Kind(m) \notin {"alert"}
    BY <1>3, <1>4, <1>5
  <2>2. QED
    BY <1>6, <2>1
<1>8. seen' \in BOOLEAN
  BY DEF ReadRegister, AlertInv, DriverTypes
<1>9. DriverTypes'
  BY <1>1, <1>2, <1>5, <1>6, <1>8 DEF DriverTypes
<1>10. PacketOfState' /\ (deciding => state \in {"RESET_REG2", "REQUEST_READ"})'
  BY <1>1 DEF AlertInv, PacketOfState
<1>11. Rounds'
  BY <1>1, <1>2, <1>7 DEF AlertInv, Rounds, NoReads
<1>12. Findings'
  <2>1. FindsAlert' <=> FindsAlert
    BY <1>1 DEF FindsAlert
  <2>2. QED
    BY <1>1, <1>2, <1>7, <2>1 DEF AlertInv, Findings
<1>13. (~released => HeldInReset)'
  BY <1>1, <1>2, <1>7 DEF AlertInv, HeldInReset, NoReads
<1>14. QED
  BY <1>6, <1>9, <1>10, <1>11, <1>12, <1>13 DEF AlertInv

(* The driver.  Its back-off timer expires.                                *)
LEMMA TimerEnded == AlertInv /\ TimerExpires => AlertInv'
<1> SUFFICES ASSUME AlertInv, TimerExpires PROVE AlertInv'
  OBVIOUS
<1>1. UNCHANGED <<state, i2c_packet, deciding, registered, int7, latch, seen, released,
                  pointer, i2c>> /\ timer' = FALSE
  BY DEF TimerExpires, register
<1>2. (Writing' <=> Writing) /\ (Written' <=> Written) /\ (Fetching' <=> Fetching) /\ OnBus'
  BY <1>1, BusSame DEF AlertInv, DriverTypes
<1> DEFINE m == Message("hipri", "MSG_TIMER_TIMEOUT", "")
<1>3. m \in Messages /\ Kind(m) = "expired"
  BY DEF Messages, Clients, Kind, Message
<1>4. DriverTypes /\ StartsOnce /\ queue' = Append(queue, m)
  BY DEF AlertInv, TimerExpires
<1> HIDE DEF m
<1>5. /\ queue' \in Seq(Messages) /\ StartsOnce'
      /\ \A K : NoneOf(queue', K) <=> NoneOf(queue, K) /\ Kind(m) \notin K
      /\ \A A, B : /\ InOrder(queue, A, B)
                   /\ Kind(m) \in A => NoneOf(queue, B) /\ Kind(m) \notin B
                   => InOrder(queue', A, B)
  BY <1>1, <1>3, <1>4, Grown
<1>6. NothingNew /\ ~NoneOf(queue', {"expired"})
  <2>1. Kind(m) \in {"expired"} /\ Kind(m) \notin Results \cup {"sent", "clear", "alert"}
    BY <1>3 DEF Results
  <2>2. QED
    BY <1>5, <2>1 DEF NothingNew
<1>7. DriverTypes'
  BY <1>1, <1>2, <1>4, <1>5 DEF DriverTypes
<1>8. PacketOfState' /\ (deciding => state \in {"RESET_REG2", "REQUEST_READ"})'
  BY <1>1 DEF AlertInv, PacketOfState
<1>9. Rounds'
  BY <1>1, <1>2, <1>6 DEF AlertInv, Rounds, NoReads, NothingNew
<1>10. Findings'
  BY <1>1, <1>2, <1>6 DEF AlertInv, Findings, FindsAlert, NothingNew
<1>11. (~released => HeldInReset)'
  BY <1>1, <1>2, <1>6 DEF AlertInv, HeldInReset, NoReads, NothingNew
<1>12. QED
  BY <1>5, <1>7, <1>8, <1>9, <1>10, <1>11 DEF AlertInv

(* What every handler of the driver does: the first message is taken, and  *)
(* perhaps the alert broadcast before the rest.                            *)
LEMMA DriverHears ==
  ASSUME AlertInv, queue # <<>>,
         Dispatch(<<>>) \/ queue' = Broadcast \o Tail(queue)
  PROVE  /\ NothingNew
         /\ Kind(Head(queue)) # "expired" /\ ~NoneOf(queue, {"expired"})
              => ~NoneOf(queue', {"expired"})
<1>1. DriverTypes /\ StartsOnce
  BY DEF AlertInv
<1>2. CASE Dispatch(<<>>)
  BY <1>1, <1>2, Dispatched
<1>3. CASE queue' = Broadcast \o Tail(queue)
  <2>1. registered \in Seq({"app", "motor"})
    BY <1>1 DEF DriverTypes
  <2>2. /\ Len(registered) \in Nat /\ DOMAIN registered = 1 .. Len(registered)
        /\ \A k \in DOMAIN registered : registered[k] \in {"app", "motor"}
    BY <2>1, LenProperties, ElementOfSeq
  <2>3. \A k \in DOMAIN registered : /\ Broadcast[k] \in Messages
                                     /\ Kind(Broadcast[k]) = "other"
    BY <2>2 DEF Broadcast, Message, Messages, Clients, Kind
  <2>4. Broadcast \in [1 .. Len(registered) -> Messages]
    BY <2>2, <2>3 DEF Broadcast
  <2>5. Broadcast \in Seq(Messages) /\ Len(Broadcast) = Len(registered)
    BY <2>2, <2>4, SeqDef, LenProperties
  <2>6. \A i \in 1 .. Len(Broadcast) : Kind(Broadcast[i]) = "other"
    BY <2>2, <2>3, <2>5
  <2>7. QED
    BY <1>1, <1>3, <2>5, <2>6, HeadOff
<1>4. QED
  BY <1>2, <1>3

LEMMA BeforeAndAfter ==
  ASSUME NEW q, NEW A, NEW B, NoneOf(q, A)
  PROVE  InOrder(q, A, B) /\ InOrder(q, B, A)
BY DEF NoneOf, InOrder

LEMMA DriverStarts == AlertInv /\ StartDriver => AlertInv'
<1> SUFFICES ASSUME AlertInv, StartDriver PROVE AlertInv'
  OBVIOUS
<1>1. DriverTypes /\ queue # <<>> /\ Next_is("hipri", "MSG_INIT") /\ Dispatch(<<>>)
  BY DEF AlertInv, StartDriver, Next_is
<1>2. Kind(Head(queue)) = "init" /\ state = "INIT"
  <2>1. Kind(Head(queue)) = "init" /\ Head(queue) = queue[1] /\ 1 \in 1 .. Len(queue)
    BY <1>1, HeadIs, EmptySeq, LenProperties DEF DriverTypes
  <2>2. QED
    BY <2>1 DEF AlertInv, StartsOnce
<1>3. /\ NothingNew
      /\ ~NoneOf(queue, {"expired"}) => ~NoneOf(queue', {"expired"})
  BY <1>1, <1>2, DriverHears
<1>4. /\ state' = "INIT" /\ i2c_packet' = "config" /\ timer' \in BOOLEAN
      /\ OnBus' /\ (Fetching' <=> Fetching)
  BY <1>1, SendIs DEF StartDriver
<1>5. UNCHANGED <<deciding, registered, int7, latch, seen, released, pointer>>
  BY DEF StartDriver, register
<1>6. DriverTypes'
  BY <1>1, <1>3, <1>4, <1>5 DEF DriverTypes, NothingNew
<1>7. PacketOfState' /\ (deciding => state \in {"RESET_REG2", "REQUEST_READ"})'
  BY <1>2, <1>4, <1>5 DEF AlertInv, PacketOfState
<1>8. Rounds'
  BY <1>2, <1>3, <1>4, <1>5 DEF AlertInv, Rounds, NoReads, NothingNew
<1>9. Findings'
  BY <1>2, <1>3, <1>4, <1>5 DEF AlertInv, Findings, Rounds, NoReads, NothingNew
<1>10. (~released => HeldInReset)'
  BY <1>2, <1>3, <1>4, <1>5 DEF AlertInv, HeldInReset
<1>11. QED
  BY <1>3, <1>6, <1>7, <1>8, <1>9, <1>10 DEF AlertInv, NothingNew

(* The end of a write.  No read is under way, or is yet to be told, when   *)
(* the driver is to make its next one.                                     *)
LEMMA NoReadsAtSent ==
  ASSUME AlertInv, ~deciding, Next_is("hipri", "MSG_I2C_SEND_DONE"),
         state \in {"INIT", "RESET_REG1", "REQUEST_READ", "RESET_REG2"}
  PROVE  NoReads
<1>1. queue # <<>> /\ queue \in Seq(Messages) /\ Kind(Head(queue)) \in {"sent"}
      /\ ~NoneOf(queue, {"sent"})
  BY HeadIs, HeadKind DEF AlertInv, DriverTypes, Next_is
<1>2. InOrder(queue, Results, {"sent"}) => NoneOf(queue, Results)
  BY <1>1, FirstIs
<1>3. QED
  BY <1>1, <1>2 DEF AlertInv, Rounds, NoReads

LEMMA DriverSent == AlertInv /\ SendDone => AlertInv'
<1> SUFFICES ASSUME AlertInv, SendDone PROVE AlertInv'
  OBVIOUS
<1>1. /\ DriverTypes /\ queue # <<>> /\ Next_is("hipri", "MSG_I2C_SEND_DONE")
      /\ Dispatch(<<>>) /\ ~deciding
  BY DEF AlertInv, SendDone, Next_is
<1>2. Kind(Head(queue)) = "sent" /\ ~NoneOf(queue, {"sent"})
  BY <1>1, HeadIs, HeadKind
<1>3. /\ NothingNew
      /\ ~NoneOf(queue, {"expired"}) => ~NoneOf(queue', {"expired"})
  BY <1>1, <1>2, DriverHears
<1>4. UNCHANGED <<registered, int7, latch, seen, released, pointer>>
  BY DEF SendDone, register
<1>5. state \in {"INIT", "RESET_REG1", "REQUEST_READ", "RESET_REG2"} => NoReads
  BY <1>1, NoReadsAtSent
<1>6. NoReads => /\ NoneOf(queue', Results) /\ NoneOf(queue', {"clear"})
                 /\ NoneOf(queue', {"alert"})
                 /\ InOrder(queue', Results, {"sent"}) /\ InOrder(queue', {"sent"}, Results)
  BY <1>3, BeforeAndAfter, Kinds DEF NoReads, NothingNew
<1>7. InOrder(queue', {"clear"}, {"alert"})
  BY <1>3 DEF AlertInv, Findings, NothingNew
<1>8. CASE state = "INIT" /\ Send("RESET_REG1", "low") /\ UNCHANGED deciding
  <2>1. /\ state' = "RESET_REG1" /\ i2c_packet' = "low" /\ timer' \in BOOLEAN
        /\ OnBus' /\ ~Fetching' /\ NoReads
    BY <1>1, <1>5, <1>8, SendIs DEF NoReads
  <2>2. DriverTypes' /\ PacketOfState' /\ StartsOnce' /\ ~deciding'
    BY <1>1, <1>3, <1>4, <1>8, <2>1 DEF DriverTypes, PacketOfState, NothingNew
  <2>3. Rounds' /\ Findings' /\ (~released => HeldInReset)'
    BY <1>1, <1>4, <1>6, <1>7, <1>8, <2>1
       DEF AlertInv, Rounds, Findings, HeldInReset
  <2>4. QED
    BY <2>2, <2>3 DEF AlertInv
<1>9. CASE state = "RESET_REG1" /\ Send("REQUEST_READ", "request") /\ UNCHANGED deciding
  <2>1. /\ state' = "REQUEST_READ" /\ i2c_packet' = "request" /\ timer' \in BOOLEAN
        /\ OnBus' /\ ~Fetching' /\ NoReads
    BY <1>1, <1>5, <1>9, SendIs DEF NoReads
  <2>2. DriverTypes' /\ PacketOfState' /\ StartsOnce' /\ ~deciding'
    BY <1>1, <1>3, <1>4, <1>9, <2>1 DEF DriverTypes, PacketOfState, NothingNew
  <2>3. Rounds' /\ Findings' /\ (~released => HeldInReset)'
    BY <1>1, <1>4, <1>6, <1>7, <1>9, <2>1
       DEF AlertInv, Rounds, Findings, HeldInReset, NoReads
  <2>4. QED
    BY <2>2, <2>3 DEF AlertInv
<1>10. CASE /\ state = "REQUEST_READ"
            /\ state' = "READ_REGISTER" /\ Try("read")
            /\ UNCHANGED <<i2c_packet, deciding>>
  <2>1. /\ timer' \in BOOLEAN /\ OnBus' /\ NoReads
    BY <1>1, <1>5, <1>10, TryRead
  <2>2. DriverTypes' /\ PacketOfState' /\ StartsOnce' /\ ~deciding'
    BY <1>1, <1>3, <1>4, <1>10, <2>1 DEF DriverTypes, AlertInv, PacketOfState, NothingNew
  <2>3. Rounds' /\ Findings' /\ (~released => HeldInReset)'
    BY <1>1, <1>4, <1>6, <1>7, <1>10, <2>1
       DEF AlertInv, Rounds, Findings, HeldInReset
  <2>4. QED
    BY <2>2, <2>3 DEF AlertInv
<1>11. CASE /\ state = "RESET_REG2"
            /\ deciding' = TRUE
            /\ UNCHANGED <<state, i2c_packet, timer, i2c>>
  <2>1. /\ (Writing' <=> Writing) /\ (Written' <=> Written) /\ ~Fetching' /\ OnBus'
        /\ NoReads
    BY <1>1, <1>5, <1>11, BusSame DEF DriverTypes, NoReads
  <2>2. DriverTypes' /\ PacketOfState' /\ StartsOnce'
    BY <1>1, <1>3, <1>4, <1>11, <2>1 DEF DriverTypes, AlertInv, PacketOfState, NothingNew
  <2>3. Rounds' /\ Findings'
    BY <1>4, <1>6, <1>7, <1>11, <2>1 DEF Rounds, Findings, NoReads
  <2>4. ~released => ~latch /\ ~int7 /\ i2c_packet = "high"
                     /\ (timer \/ Writing \/ ~NoneOf(queue, {"expired"}))
    BY <1>2, <1>11 DEF AlertInv, HeldInReset
  <2>5. (~released => HeldInReset)'
    BY <1>3, <1>4, <1>11, <2>1, <2>4 DEF HeldInReset
  <2>6. QED
    BY <1>11, <2>2, <2>3, <2>5 DEF AlertInv
<1>12. CASE UNCHANGED <<driver, i2c>>
  BY <1>1, <1>3, <1>4, <1>12, BusSame, Quiet DEF DriverTypes, register
<1>13. QED
  BY <1>8, <1>9, <1>10, <1>11, <1>12 DEF SendDone

LEMMA BackAtIdle == AlertInv /\ BackToIdle => AlertInv'
<1> SUFFICES ASSUME AlertInv, BackToIdle PROVE AlertInv'
  OBVIOUS
<1>1. /\ UNCHANGED <<i2c_packet, timer, registered, int7, latch, seen, released, pointer,
                     queue, i2c>>
      /\ deciding /\ deciding' = FALSE /\ state' = "IDLE"
      /\ state \in {"RESET_REG2", "REQUEST_READ"}
  BY DEF AlertInv, BackToIdle, register
<1>2. (Writing' <=> Writing) /\ (Written' <=> Written) /\ (Fetching' <=> Fetching) /\ OnBus'
  BY <1>1, BusSame DEF AlertInv, DriverTypes
<1>3. NoReads
  BY <1>1 DEF AlertInv, Rounds
<1>4. DriverTypes' /\ PacketOfState'
  BY <1>1, <1>2 DEF AlertInv, DriverTypes, PacketOfState
<1>5. StartsOnce'
  BY <1>1 DEF AlertInv, StartsOnce
<1>6. Rounds' /\ Findings'
  BY <1>1, <1>2, <1>3 DEF AlertInv, Rounds, Findings, NoReads
<1>7. (~released => HeldInReset)'
  BY <1>1, <1>2 DEF AlertInv, HeldInReset
<1>8. QED
  BY <1>1, <1>4, <1>5, <1>6, <1>7 DEF AlertInv

(* The end of a read.                                                      *)
LEMMA DriverRead == AlertInv /\ ReadDone => AlertInv'
<1> SUFFICES ASSUME AlertInv, ReadDone PROVE AlertInv'
  OBVIOUS
<1>1. DriverTypes /\ queue # <<>> /\ Next_is("hipri", "MSG_I2C_READ_DONE") /\ ~deciding
  BY DEF AlertInv, ReadDone, Next_is
<1>2. Kind(Head(queue)) \in Results /\ ~NoneOf(queue, Results)
  BY <1>1, HeadIs, HeadKind DEF Results
<1>3. /\ NothingNew
      /\ ~NoneOf(queue, {"expired"}) => ~NoneOf(queue', {"expired"})
  <2>1. Kind(Head(queue)) # "expired"
    BY <1>2 DEF Results
  <2>2. QED
    BY <1>1, <2>1, DriverHears DEF ReadDone
<1>4. UNCHANGED <<deciding, registered, int7, latch, seen, released, pointer>>
  BY DEF ReadDone, register
<1>5. state \in {"RESET_REG1", "REQUEST_READ", "RESET_REG2", "READ_REGISTER"}
  BY <1>2 DEF AlertInv, Rounds, NoReads, PacketOfState
<1>6. state = "READ_REGISTER" => NoneOf(queue, {"sent"}) /\ ~Writing /\ ~Written
  <2>1. queue \in Seq(Messages)
    BY <1>1 DEF DriverTypes
  <2>2. InOrder(queue, {"sent"}, Results) => NoneOf(queue, {"sent"})
    BY <1>1, <1>2, <2>1, FirstIs
  <2>3. QED
    BY <1>2, <2>2 DEF AlertInv, Rounds
<1>7. /\ InOrder(queue', Results, {"sent"})
      /\ Fetching => NoneOf(queue', {"sent"})
  <2>1. NoneOf(queue', {"sent"}) => InOrder(queue', Results, {"sent"})
    BY BeforeAndAfter
  <2>2. QED
    BY <1>3, <1>5, <1>6, <2>1 DEF AlertInv, Rounds, NothingNew
<1>8. InOrder(queue', {"clear"}, {"alert"})
  BY <1>3 DEF AlertInv, Findings, NothingNew
<1>9. CASE Head(queue).data = "alert"
  <2>1. Send("RESET_REG1", "low")
    BY <1>9 DEF ReadDone
  <2>2. /\ state' = "RESET_REG1" /\ i2c_packet' = "low" /\ timer' \in BOOLEAN
        /\ OnBus' /\ (Fetching' <=> Fetching)
    BY <1>1, <2>1, SendIs
  <2>3. Kind(Head(queue)) \in {"alert"} /\ ~NoneOf(queue, {"alert"})
    BY <1>1, <1>9, HeadIs, HeadKind
  <2>4. NoneOf(queue, {"clear"})
    BY <1>1, <2>3, FirstIs DEF AlertInv, Findings, DriverTypes
  <2>5. NoneOf(queue', {"clear"}) /\ (Fetching => FindsAlert)
    BY <1>3, <2>3, <2>4 DEF AlertInv, Findings, NothingNew
  <2>6. FindsAlert' <=> FindsAlert
    BY <1>4 DEF FindsAlert
  <2>7. DriverTypes' /\ PacketOfState' /\ StartsOnce' /\ ~deciding'
    BY <1>1, <1>3, <1>4, <2>2 DEF DriverTypes, PacketOfState, NothingNew
  <2>8. Rounds' /\ Findings'
    BY <1>1, <1>4, <1>7, <1>8, <2>2, <2>5, <2>6 DEF Rounds, Findings
  <2>9. (~released => HeldInReset)'
    BY <1>1, <1>4, <2>2 DEF AlertInv, HeldInReset
  <2>10. QED
    BY <2>7, <2>8, <2>9 DEF AlertInv
<1>10. CASE Head(queue).data # "alert"
  <2>1. Send("RESET_REG2", "high")
    BY <1>10 DEF ReadDone
  <2>2. /\ state' = "RESET_REG2" /\ i2c_packet' = "high" /\ timer' \in BOOLEAN
        /\ OnBus' /\ (Fetching' <=> Fetching) /\ (Written' <=> Written)
        /\ (timer' \/ Writing')
    BY <1>1, <2>1, SendIs
  <2>3. ~NoneOf(queue, {"clear"})
    BY <1>1, <1>10, HeadIs, HeadKind
  <2>4. Fetching => FindsAlert \/ NoneOf(queue', {"alert"})
    BY <1>3 DEF AlertInv, Findings, NothingNew
  <2>5. FindsAlert' <=> FindsAlert
    BY <1>4 DEF FindsAlert
  <2>6. DriverTypes' /\ PacketOfState' /\ StartsOnce' /\ ~deciding'
    BY <1>1, <1>3, <1>4, <2>2 DEF DriverTypes, PacketOfState, NothingNew
  <2>7. Rounds' /\ Findings'
    BY <1>1, <1>4, <1>7, <1>8, <2>2, <2>4, <2>5 DEF Rounds, Findings
  <2>8. ~released /\ int7 => NoneOf(queue, {"sent"}) /\ ~Written
    <3>1. state # "RESET_REG1"
      BY <2>3 DEF AlertInv, Findings
    <3>2. QED
      BY <1>2, <1>5, <1>6, <3>1 DEF AlertInv, HeldInReset, NoReads
  <2>9. (~released => HeldInReset)'
    BY <1>1, <1>3, <1>4, <2>2, <2>8 DEF AlertInv, HeldInReset, NothingNew
  <2>10. QED
    BY <2>6, <2>7, <2>9 DEF AlertInv
<1>11. QED
  BY <1>9, <1>10

(* The driver tries again what the bus has refused.                        *)
LEMMA TriedAgain == AlertInv /\ Timeout => AlertInv'
<1> SUFFICES ASSUME AlertInv, Timeout PROVE AlertInv'
  OBVIOUS
<1>1. DriverTypes /\ queue # <<>> /\ Dispatch(<<>>) /\ ~deciding
  BY DEF AlertInv, Timeout, Next_is
<1>2. NothingNew
  BY <1>1, DriverHears
<1>3. UNCHANGED <<state, i2c_packet, deciding, registered, int7, latch, seen, released, pointer>>
  BY DEF Timeout, register
<1>4. FindsAlert' <=> FindsAlert
  BY <1>3 DEF FindsAlert
<1>5. CASE state = "READ_REGISTER"
  <2>1. /\ OnBus' /\ (Writing' <=> Writing) /\ (Written' <=> Written) /\ timer' \in BOOLEAN
    BY <1>1, <1>5, TryRead DEF Timeout
  <2>2. DriverTypes' /\ PacketOfState' /\ StartsOnce' /\ ~deciding'
    BY <1>1, <1>2, <1>3, <2>1 DEF DriverTypes, AlertInv, PacketOfState, NothingNew
  <2>3. Rounds' /\ Findings' /\ (~released => HeldInReset)'
    BY <1>1, <1>2, <1>3, <1>4, <1>5, <2>1
       DEF AlertInv, Rounds, Findings, HeldInReset, NothingNew
  <2>4. QED
    BY <2>2, <2>3 DEF AlertInv
<1>6. CASE state # "READ_REGISTER"
  <2>1. /\ OnBus' /\ (Fetching' <=> Fetching) /\ (Written' <=> Written)
        /\ (Writing' \/ timer') /\ timer' \in BOOLEAN
    BY <1>1, <1>6, TrySend DEF Timeout
  <2>2. DriverTypes' /\ PacketOfState' /\ StartsOnce' /\ ~deciding'
    BY <1>1, <1>2, <1>3, <2>1 DEF DriverTypes, AlertInv, PacketOfState, NothingNew
  <2>3. Rounds' /\ Findings'
    BY <1>1, <1>2, <1>3, <1>4, <1>6, <2>1
       DEF AlertInv, Rounds, Findings, NoReads, NothingNew
  <2>4. (~released => HeldInReset)'
    BY <1>1, <1>2, <1>3, <1>6, <2>1 DEF AlertInv, HeldInReset, NoReads, NothingNew
  <2>5. QED
    BY <2>2, <2>3, <2>4 DEF AlertInv
<1>7. QED
  BY <1>5, <1>6

LEMMA InterruptTaken == AlertInv /\ Interrupt7 => AlertInv'
<1> SUFFICES ASSUME AlertInv, Interrupt7 PROVE AlertInv'
  OBVIOUS
<1>1. /\ UNCHANGED <<deciding, registered, latch, seen, released, pointer, queue>>
      /\ DriverTypes /\ int7 /\ int7' = FALSE
  BY DEF AlertInv, Interrupt7, register
<1>2. FindsAlert' <=> FindsAlert
  BY <1>1 DEF FindsAlert
<1>3. CASE state \in {"IDLE", "RESET_REG2"}
  <2>1. Send("REQUEST_READ", "request")
    BY <1>3 DEF Interrupt7
  <2>2. /\ state' = "REQUEST_READ" /\ i2c_packet' = "request" /\ timer' \in BOOLEAN
        /\ OnBus' /\ (Fetching' <=> Fetching) /\ (Written' <=> Written)
    BY <1>1, <2>1, SendIs
  <2>3. DriverTypes' /\ PacketOfState' /\ (deciding => state \in {"RESET_REG2", "REQUEST_READ"})'
    BY <1>1, <2>2 DEF DriverTypes, PacketOfState
  <2>4. StartsOnce'
    BY <1>1, <1>3 DEF AlertInv, StartsOnce
  <2>5. Rounds'
    <3>1. NoReads => InOrder(queue, Results, {"sent"})
      BY BeforeAndAfter DEF NoReads
    <3>2. QED
      BY <1>1, <1>3, <2>2, <3>1 DEF AlertInv, Rounds, NoReads
  <2>6. Findings'
    BY <1>1, <1>2, <1>3, <2>2 DEF AlertInv, Findings
  <2>7. (~released => HeldInReset)'
    BY <1>1, <2>2 DEF AlertInv, HeldInReset
  <2>8. QED
    BY <2>3, <2>4, <2>5, <2>6, <2>7 DEF AlertInv
<1>4. CASE UNCHANGED <<state, i2c_packet, timer, i2c>>
  <2>1. (Writing' <=> Writing) /\ (Written' <=> Written) /\ (Fetching' <=> Fetching) /\ OnBus'
    BY <1>1, <1>4, BusSame DEF DriverTypes
  <2>2. DriverTypes' /\ PacketOfState' /\ (deciding => state \in {"RESET_REG2", "REQUEST_READ"})'
        /\ StartsOnce'
    BY <1>1, <1>4, <2>1 DEF AlertInv, DriverTypes, PacketOfState, StartsOnce
  <2>3. Rounds' /\ Findings'
    BY <1>1, <1>2, <1>4, <2>1 DEF AlertInv, Rounds, Findings, NoReads
  <2>4. (~released => HeldInReset)'
    BY <1>1, <1>4, <2>1 DEF AlertInv, HeldInReset
  <2>5. QED
    BY <2>2, <2>3, <2>4 DEF AlertInv
<1>5. QED
  BY <1>3, <1>4 DEF Interrupt7

LEMMA AlertInvInit == AlertInit => AlertInv
<1> SUFFICES ASSUME AlertInit PROVE AlertInv
  OBVIOUS
<1>1. /\ state = "INIT" /\ i2c_packet = "config" /\ timer = FALSE /\ deciding = FALSE
      /\ int7 = FALSE /\ latch \in BOOLEAN /\ seen = latch /\ released = TRUE
      /\ i2c = Idle /\ registered = <<"app">>
  BY DEF AlertInit, HipriInit
<1> DEFINE m1 == Message("hipri", "MSG_INIT", "")
           m2 == Message("motor", "MSG_INIT", "")
<1>2. m1 \in Messages /\ m2 \in Messages /\ Kind(m1) = "init" /\ Kind(m2) = "other"
  BY DEF Messages, Clients, Message, Kind
<1>3. queue = <<m1, m2>>
  BY DEF AlertInit
<1> HIDE DEF m1, m2
<1>4. /\ queue \in Seq(Messages) /\ Len(queue) = 2 /\ queue[1] = m1 /\ queue[2] = m2
  BY <1>2, <1>3
<1>5. \A i \in 1 .. Len(queue) : Kind(queue[i]) = "init" => i = 1
  BY <1>2, <1>4
<1>6. \A i \in 1 .. Len(queue) : Kind(queue[i]) \in {"init", "other"}
  <2>1. \A i \in 1 .. Len(queue) : i = 1 \/ i = 2
    BY <1>4
  <2>2. QED
    BY <1>2, <1>4, <2>1
<1>7. NoneOf(queue, Results) /\ NoneOf(queue, {"clear"})
  BY <1>6 DEF NoneOf, Results
<1>8. InOrder(queue, {"clear"}, {"alert"})
  BY <1>7, BeforeAndAfter
<1>9. ~Fetching /\ ~Writing /\ ~Written /\ OnBus
  BY <1>1, OneTransfer DEF OnBus
<1>10. registered \in Seq({"app", "motor"})
  BY <1>1
<1>11. DriverTypes
  BY <1>1, <1>4, <1>9, <1>10 DEF DriverTypes
<1>12. PacketOfState /\ StartsOnce /\ Rounds /\ Findings
  BY <1>1, <1>5, <1>7, <1>8, <1>9
     DEF PacketOfState, StartsOnce, Rounds, Findings, NoReads
<1>13. QED
  BY <1>1, <1>11, <1>12 DEF AlertInv

LEMMA AlertInvStep == AlertInv /\ [AlertNext]_alertVars => AlertInv'
<1> SUFFICES ASSUME AlertInv, [AlertNext]_alertVars PROVE AlertInv'
  OBVIOUS
<1>1. CASE HipriStep
  BY <1>1, DriverStarts, DriverSent, BackAtIdle, DriverRead, TriedAgain, RegisterWritten,
     WriteEnded, RegisterRead, TimerEnded, InterruptTaken
     DEF HipriStep, Handlers, Bus
<1>2. CASE MotorStep \/ AppDeregisters \/ AppHears \/ \E c \in Asked : AskSpeed(c)
  BY <1>2, MotorStarts, AppLeaves, MotorAndOthers, MotorMail DEF MotorStep
<1>3. CASE Alert /\ UNCHANGED <<motorVars, queue, i2c>>
  BY <1>3, Alerted
<1>4. CASE UNCHANGED alertVars
  <2>1. /\ UNCHANGED <<driver, int7, register, i2c, queue, registered>>
        /\ DriverTypes /\ StartsOnce
    BY <1>4 DEF alertVars, hipriVars, AlertInv
  <2>2. NothingNew
    BY <2>1 DEF NothingNew, DriverTypes, StartsOnce, driver
  <2>3. QED
    BY <2>1, <2>2, BusSame, Quiet DEF DriverTypes
<1>5. QED
  BY <1>1, <1>2, <1>3, <1>4 DEF AlertNext

LEMMA RestFromInv == AlertInv => RestMeansReady
<1> SUFFICES ASSUME AlertInv, state = "IDLE", i2c.client # "hipri", ~timer,
                    \A k \in DOMAIN queue : queue[k].to # "hipri", ~released
             PROVE  FALSE
  BY DEF RestMeansReady, AlertInv, DriverTypes
<1>1. ~NoneOf(queue, {"expired"}) \/ Writing
  BY DEF AlertInv, HeldInReset
<1>2. ~Writing
  BY DEF Writing, Transfer
<1>3. DOMAIN queue = 1 .. Len(queue)
  BY LenProperties DEF AlertInv, DriverTypes
<1>4. NoneOf(queue, {"expired"})
  BY <1>3 DEF NoneOf, Kind
<1>5. QED
  BY <1>1, <1>2, <1>4

(* A driver at rest (hipri_int.c: IDLE, no transfer, no timer, no message)   *)
(* has sent the packet that ends the reset, whatever the interrupts, the     *)
(* refusals of the bus and the late timers on the way; for every number of   *)
(* alerts and of changes of speed and every size of the table.               *)
THEOREM ReadyAtRest == AlertSpec => []RestMeansReady
<1>1. AlertSpec => []AlertInv
  BY AlertInvInit, AlertInvStep, PTL DEF AlertSpec
<1>2. QED
  BY <1>1, RestFromInv, PTL

(* Of the types, the driver's are in the invariant.                        *)
LEMMA TypesInit == AlertInit => AlertTypeOK
BY DEF AlertInit, HipriInit, AlertTypeOK

LEMMA SpeedsAreTwoWheels ==
  ASSUME AlertTypeOK, NEW c
  PROVE  NewSpeed(c) \in {MOTOR_STOP} \cup [{"left", "right"} -> Gears]
<1>1. Kept \in [{"left", "right"} -> Gears]
  BY DEF AlertTypeOK, Kept, Standing, Wheels, Gears
<1>2. \A d \in DOMAIN Told, w \in {"left", "right"} : Told[d][w] \in Gears \cup {"kept"}
  BY DEF Told, Wheels, Standing, Gears
<1>3. QED
  BY <1>1, <1>2 DEF NewSpeed

LEMMA TypesStep == AlertInv' /\ AlertTypeOK /\ [AlertNext]_alertVars => AlertTypeOK'
<1> SUFFICES ASSUME AlertInv', AlertTypeOK, [AlertNext]_alertVars PROVE AlertTypeOK'
  OBVIOUS
<1> DEFINE Speeds == {MOTOR_STOP} \cup [{"left", "right"} -> Gears]
<1>1. /\ state' \in {"INIT", "IDLE", "RESET_REG1", "RESET_REG2", "REQUEST_READ", "READ_REGISTER"}
      /\ i2c_packet' \in {"config", "low", "high", "request"}
      /\ timer' \in BOOLEAN /\ deciding' \in BOOLEAN /\ int7' \in BOOLEAN
      /\ latch' \in BOOLEAN /\ seen' \in BOOLEAN /\ released' \in BOOLEAN
  BY DEF AlertInv, DriverTypes, PacketOfState
<1>2. pointer' \in {"input", "output", "config"}
  <2>1. CASE WriteRegister
    BY <2>1 DEF WriteRegister
  <2>2. CASE UNCHANGED pointer
    BY <2>2 DEF AlertTypeOK
  <2>3. QED
    BY <2>1, <2>2 DEF AlertNext, MotorStep, StartMotor, ChangeSpeed, StopSpeed, SpeedSent, SendSpeed,
         AppDeregisters, AppHears, Alert, AskSpeed, HipriStep, Handlers, Bus, StartDriver,
         SendDone, BackToIdle, ReadDone, Timeout, WriteDone, ReadRegister, TimerExpires,
         Interrupt7, alertVars, hipriVars, register, unregistered
<1>3. speed' \in Speeds
  <2>1. CASE StartMotor \/ StopSpeed
    BY <2>1 DEF StartMotor, StopSpeed, Forget
  <2>2. CASE ChangeSpeed
    BY <2>2, SpeedsAreTwoWheels DEF ChangeSpeed
  <2>3. CASE UNCHANGED speed
    BY <2>3 DEF AlertTypeOK
  <2>4. QED
    BY <2>1, <2>2, <2>3 DEF AlertNext, MotorStep, SpeedSent, SendSpeed, AppDeregisters, AppHears,
         AskSpeed, alertVars, motorVars
<1>4. QED
  BY <1>1, <1>2, <1>3 DEF AlertTypeOK

(* The types of the driver, of the alert register and of the speed.          *)
THEOREM AlertTypes == AlertSpec => []AlertTypeOK
<1>1. AlertSpec => []AlertInv
  BY AlertInvInit, AlertInvStep, PTL DEF AlertSpec
<1>2. QED
  BY <1>1, TypesInit, TypesStep, PTL DEF AlertSpec

-----------------------------------------------------------------------------
(* A change of speed that was accepted.                                    *)

(* What goes out while a change is on its way is one of the speeds since.  *)
SpeedInv == AcceptedSpeedArrives /\ (i2c.client = "motor" => speed \in onWay)

(* A step that leaves alone what was asked of the body; no transfer of     *)
(* motor control begins or ends.                                           *)
LEMMA SpeedSame ==
  ASSUME SpeedInv, UNCHANGED <<speed, onWay, body>>,
         i2c'.client = "motor" <=> i2c.client = "motor"
  PROVE  SpeedInv'
BY DEF SpeedInv, AcceptedSpeedArrives

LEMMA BusKeepsMotor ==
  ASSUME HipriStep
  PROVE  i2c'.client = "motor" <=> i2c.client = "motor"
<1>1. CASE StartDriver
  BY <1>1 DEF StartDriver, Send, Try, Busy, Transfer, Idle
<1>2. CASE SendDone
  BY <1>2 DEF SendDone, Send, Try, Busy, Transfer, Idle
<1>3. CASE BackToIdle \/ TimerExpires
  BY <1>3 DEF BackToIdle, TimerExpires
<1>8. CASE WriteRegister
  BY <1>8 DEF WriteRegister, Transfer
<1>9. CASE WriteDone
  BY <1>9 DEF WriteDone, Transfer, Idle
<1>10. CASE ReadRegister
  BY <1>10 DEF ReadRegister, Transfer, Idle
<1>4. CASE ReadDone
  BY <1>4 DEF ReadDone, Send, Try, Busy, Transfer, Idle
<1>5. CASE Timeout
  BY <1>5 DEF Timeout, Try, Busy, Transfer, Idle
<1>6. CASE Interrupt7
  BY <1>6 DEF Interrupt7, Send, Try, Busy, Transfer, Idle
<1>7. QED
  BY <1>1, <1>2, <1>3, <1>4, <1>5, <1>6, <1>8, <1>9, <1>10 DEF HipriStep, Handlers, Bus

LEMMA SpeedStep == SpeedInv /\ [AlertNext]_alertVars => SpeedInv'
<1> SUFFICES ASSUME SpeedInv, [AlertNext]_alertVars PROVE SpeedInv'
  OBVIOUS
<1>1. CASE HipriStep /\ UNCHANGED motorVars
  BY <1>1, BusKeepsMotor, SpeedSame DEF motorVars
<1>2. CASE StartMotor \/ StopSpeed
  <2>1. Forget /\ UNCHANGED <<i2c, body>>
    BY <1>2 DEF StartMotor, StopSpeed
  <2>2. QED
    BY <2>1 DEF Forget, SpeedInv, AcceptedSpeedArrives
<1>3. CASE ChangeSpeed
  <2>1. CASE ~Busy
    <3>1. i2c' = Transfer("motor", "send") /\ onWay' = {speed'}
      BY <1>3, <2>1 DEF ChangeSpeed
    <3>2. QED
      BY <3>1 DEF SpeedInv, AcceptedSpeedArrives, Transfer
  <2>2. CASE Busy
    <3>1. /\ UNCHANGED <<i2c, body>>
          /\ onWay' = IF i2c.client = "motor" THEN onWay \cup {speed'} ELSE onWay
      BY <1>3, <2>2 DEF ChangeSpeed
    <3>2. QED
      BY <3>1 DEF SpeedInv, AcceptedSpeedArrives
  <2>3. QED
    BY <2>1, <2>2
<1>4. CASE SendSpeed
  <2>1. i2c.client = "motor" /\ i2c'.client # "motor"
    BY <1>4 DEF SendSpeed, Transfer, Idle
  <2>2. UNCHANGED <<speed, onWay>> /\ body' = IF speed = MOTOR_STOP THEN body ELSE speed
    BY <1>4 DEF SendSpeed
  <2>3. QED
    BY <2>1, <2>2 DEF SpeedInv, AcceptedSpeedArrives
<1>5. CASE SpeedSent \/ AppDeregisters \/ AppHears
  BY <1>5, SpeedSame DEF SpeedSent, AppDeregisters, AppHears, motorVars
<1>6. CASE \/ Alert /\ UNCHANGED <<motorVars, queue, i2c>>
           \/ \E c \in Asked : AskSpeed(c)
           \/ UNCHANGED alertVars
  BY <1>6, SpeedSame DEF AskSpeed, alertVars, motorVars
<1>7. QED
  BY <1>1, <1>2, <1>3, <1>4, <1>5, <1>6 DEF AlertNext, MotorStep

(* When no change of speed is on its way the body obeys the last one that    *)
(* motorcontrol.c handed to the bus, or one that came while that one was on  *)
(* its way; the exception is a byte that was forgotten or named no side.     *)
THEOREM SpeedArrives == AlertSpec => []AcceptedSpeedArrives
<1>1. AlertInit => SpeedInv
  <2> SUFFICES ASSUME AlertInit PROVE SpeedInv
    OBVIOUS
  <2>1. i2c.client # "motor" /\ body \in onWay
    BY DEF AlertInit, Idle
  <2>2. QED
    BY <2>1 DEF SpeedInv, AcceptedSpeedArrives
<1>2. SpeedInv => AcceptedSpeedArrives
  BY DEF SpeedInv
<1>3. QED
  BY <1>1, <1>2, SpeedStep, PTL DEF AlertSpec

-----------------------------------------------------------------------------
(* The light show: the headlights.                                         *)

(* The four headlights in the order of the show.                           *)
Place == [FRONT_LEFT |-> 1, FRONT_RIGHT |-> 2, BACK_LEFT |-> 3, BACK_RIGHT |-> 4]
Lights == {"FRONT_LEFT", "FRONT_RIGHT", "BACK_LEFT", "BACK_RIGHT"}

IsHeadlight(m) == m.type = "MSG_HEADLIGHT"
Follows(m, n) == /\ IsHeadlight(n) /\ n.data.byte \in Lights
                 /\ Place[n.data.byte] = Place[m.data.byte] + 1
                 /\ n.data.word = m.data.word

(* A step of the show changes the four headlights one after the other to the *)
(* same colour, with nothing between them; the first messages of the step    *)
(* may have been taken.                                                      *)
Together(q) ==
  \A i \in 1 .. Len(q) : IsHeadlight(q[i]) =>
    /\ q[i].data.byte \in Lights
    /\ q[i].data.byte # "BACK_RIGHT" => i + 1 \in 1 .. Len(q) /\ Follows(q[i], q[i + 1])
    /\ q[i].data.byte # "FRONT_LEFT" =>
         i = 1 \/ (IsHeadlight(q[i - 1]) /\ q[i - 1].data.byte # "BACK_RIGHT")

StartsWhole(q) ==
  1 \in 1 .. Len(q) /\ IsHeadlight(q[1]) => q[1].data.byte = "FRONT_LEFT"

WholeSteps(q) == Together(q) /\ StartsWhole(q)

(* A headlight has a colour; headlights have the same.                     *)
Has(bits, light, color) ==
  /\ HeadlightPin[light] \in bits <=> color \in {"GREEN", "ORANGE"}
  /\ HeadlightPin[light] + 1 \in bits <=> color \in {"RED", "ORANGE"}

Agree(bits, lights) ==
  \A p, q \in lights :
    /\ HeadlightPin[p] \in bits <=> HeadlightPin[q] \in bits
    /\ HeadlightPin[p] + 1 \in bits <=> HeadlightPin[q] + 1 \in bits

(* Those before the message dispatched next have its colour, the others     *)
(* still have one of their own.                                            *)
ChangedSoFar(q, bits) ==
  IF 1 \in 1 .. Len(q) /\ IsHeadlight(q[1])
  THEN /\ \A l \in Lights : Place[l] < Place[q[1].data.byte] => Has(bits, l, q[1].data.word)
       /\ Agree(bits, {l \in Lights : Place[l] >= Place[q[1].data.byte]})
  ELSE Agree(bits, Lights)

Mail ==
  Asks \cup [to : {"lightshow", "cb2bus"},
             type : {"MSG_LIGHTSHOW", "MSG_LIGHTSHOW_START", "MSG_TIMER_TIMEOUT",
                     "MSG_DECKLIGHT", "MSG_BARPOSITION", "MSG_HEADLIGHT", "MSG_LOAD"},
             data : [byte : Lights \cup {"", "decklights", "headlights"} \cup Int
                              \cup {U[k] : k \in Int},
                     word : {"", "ENABLE", "ON", "OFF", "BLACK", "GREEN", "ORANGE", "RED", 0}]]

LightTypes ==
  /\ queue \in Seq(Mail)
  /\ count \in Nat
  /\ config = [i \in 0 .. 4 |-> config[i]]

LightInv ==
  /\ LightTypes
  /\ "headlights" \notin touched =>
       /\ Together(queue)
       /\ ChangedSoFar(queue, config[0])
       /\ Agree(outputs[0], Lights)

-----------------------------------------------------------------------------
(* Sequences of messages.                                                  *)
LEMMA StepsFollow ==
  ASSUME NEW S, NEW s \in Seq(S), NEW t \in Seq(S), WholeSteps(s), WholeSteps(t),
         NEW r, r = s \o t
  PROVE  r \in Seq(S) /\ WholeSteps(r)
<1>1. /\ r \in Seq(S) /\ Len(s) \in Nat /\ Len(t) \in Nat /\ Len(r) = Len(s) + Len(t)
      /\ \A i \in 1 .. Len(s) + Len(t) : r[i] = IF i <= Len(s) THEN s[i] ELSE t[i - Len(s)]
  BY ConcatProperties, LenProperties
<1>2. ASSUME NEW i \in 1 .. Len(r) PROVE i \in 1 .. Len(s) \/ i - Len(s) \in 1 .. Len(t)
  BY <1>1
<1>3. \A i \in 1 .. Len(s) : i \in 1 .. Len(r) /\ r[i] = s[i]
  BY <1>1
<1>4. ASSUME NEW j \in 1 .. Len(t)
      PROVE  j + Len(s) \in 1 .. Len(r) /\ r[j + Len(s)] = t[j]
  <2>1. j + Len(s) \in 1 .. Len(r) /\ ~(j + Len(s) <= Len(s)) /\ j + Len(s) - Len(s) = j
    BY <1>1
  <2>2. QED
    BY <1>1, <2>1
<1>5. Together(r)
  <2> SUFFICES ASSUME NEW i \in 1 .. Len(r), IsHeadlight(r[i])
               PROVE  /\ r[i].data.byte \in Lights
                      /\ r[i].data.byte # "BACK_RIGHT" =>
                           i + 1 \in 1 .. Len(r) /\ Follows(r[i], r[i + 1])
                      /\ r[i].data.byte # "FRONT_LEFT" =>
                           i = 1 \/ (IsHeadlight(r[i - 1]) /\ r[i - 1].data.byte # "BACK_RIGHT")
    BY DEF Together
  <2>1. CASE i \in 1 .. Len(s)
    <3>1. r[i] = s[i]
      BY <1>3, <2>1
    <3>2. i + 1 \in 1 .. Len(s) => i + 1 \in 1 .. Len(r) /\ r[i + 1] = s[i + 1]
      BY <1>3
    <3>3. i = 1 \/ i - 1 \in 1 .. Len(s)
      BY <1>1, <2>1
    <3>4. i = 1 \/ r[i - 1] = s[i - 1]
      BY <1>3, <3>3
    <3>5. QED
      BY <2>1, <3>1, <3>2, <3>4 DEF WholeSteps, Together
  <2>2. CASE i - Len(s) \in 1 .. Len(t)
    <3> DEFINE j == i - Len(s)
    <3>1. j \in 1 .. Len(t) /\ j + Len(s) = i /\ i \in Int
      BY <1>1, <2>2
    <3>2. r[i] = t[j]
      BY <1>4, <3>1
    <3>3. j + 1 \in 1 .. Len(t) => i + 1 \in 1 .. Len(r) /\ r[i + 1] = t[j + 1]
      <4>1. j + 1 + Len(s) = i + 1
        BY <1>1, <3>1
      <4>2. QED
        BY <1>4, <4>1
    <3>4. j # 1 => r[i - 1] = t[j - 1]
      <4>1. j - 1 + Len(s) = i - 1 /\ (j # 1 => j - 1 \in 1 .. Len(t))
        BY <1>1, <3>1
      <4>2. QED
        BY <1>4, <4>1
    <3> HIDE DEF j
    <3>5. j = 1 => t[j].data.byte = "FRONT_LEFT"
      BY <3>1, <3>2 DEF WholeSteps, StartsWhole
    <3>6. QED
      BY <3>1, <3>2, <3>3, <3>4, <3>5 DEF WholeSteps, Together
  <2>3. QED
    BY <1>2, <2>1, <2>2
<1>6. StartsWhole(r)
  <2>1. CASE Len(s) = 0
    BY <1>1, <2>1 DEF WholeSteps, StartsWhole
  <2>2. CASE Len(s) # 0
    BY <1>1, <1>3, <2>2 DEF WholeSteps, StartsWhole
  <2>3. QED
    BY <2>1, <2>2
<1>7. QED
  BY <1>1, <1>5, <1>6 DEF WholeSteps

LEMMA NoHeadlights ==
  ASSUME NEW s, \A i \in 1 .. Len(s) : ~IsHeadlight(s[i])
  PROVE  WholeSteps(s)
BY DEF WholeSteps, Together, StartsWhole

(* A message that is no headlight's is posted.                             *)
LEMMA MailPosted ==
  ASSUME NEW S, NEW q \in Seq(S), NEW m \in S, NEW r, r = Append(q, m)
  PROVE  /\ r \in Seq(S)
         /\ ~IsHeadlight(m) /\ Together(q) => Together(r)
         /\ \A bits : ~IsHeadlight(m) /\ ChangedSoFar(q, bits) => ChangedSoFar(r, bits)
<1>1. /\ Len(q) \in Nat /\ r \in Seq(S) /\ Len(r) = Len(q) + 1
      /\ \A i \in 1 .. Len(q) : i \in 1 .. Len(r) /\ r[i] = q[i]
      /\ r[Len(q) + 1] = m
  BY AppendProperties, LenProperties
<1>2. ASSUME NEW i \in 1 .. Len(r) PROVE i \in 1 .. Len(q) \/ i = Len(q) + 1
  BY <1>1
<1>3. ASSUME ~IsHeadlight(m), Together(q) PROVE Together(r)
  <2> SUFFICES ASSUME NEW i \in 1 .. Len(r), IsHeadlight(r[i])
               PROVE  /\ r[i].data.byte \in Lights
                      /\ r[i].data.byte # "BACK_RIGHT" =>
                           i + 1 \in 1 .. Len(r) /\ Follows(r[i], r[i + 1])
                      /\ r[i].data.byte # "FRONT_LEFT" =>
                           i = 1 \/ (IsHeadlight(r[i - 1]) /\ r[i - 1].data.byte # "BACK_RIGHT")
    BY DEF Together
  <2>1. i \in 1 .. Len(q)
    BY <1>1, <1>2, <1>3
  <2>2. r[i] = q[i] /\ (i + 1 \in 1 .. Len(q) => i + 1 \in 1 .. Len(r) /\ r[i + 1] = q[i + 1])
    BY <1>1, <2>1
  <2>3. i = 1 \/ i - 1 \in 1 .. Len(q)
    BY <1>1, <2>1
  <2>4. i = 1 \/ r[i - 1] = q[i - 1]
    BY <1>1, <2>3
  <2>5. QED
    BY <1>3, <2>1, <2>2, <2>4 DEF Together
<1>4. ASSUME NEW bits, ~IsHeadlight(m), ChangedSoFar(q, bits) PROVE ChangedSoFar(r, bits)
  <2>1. CASE 1 \in 1 .. Len(q)
    BY <1>1, <1>4, <2>1 DEF ChangedSoFar
  <2>2. CASE 1 \notin 1 .. Len(q)
    <3>1. Len(q) = 0 /\ r[1] = m
      BY <1>1, <2>2
    <3>2. QED
      BY <1>4, <2>2, <3>1 DEF ChangedSoFar
  <2>3. QED
    BY <2>1, <2>2
<1>5. QED
  BY <1>1, <1>3, <1>4

(* The first message is taken.                                             *)
LEMMA MailTaken ==
  ASSUME NEW S, NEW q \in Seq(S), q # <<>>, NEW r, r = Tail(q)
  PROVE  /\ r \in Seq(S) /\ Head(q) = q[1] /\ 1 \in 1 .. Len(q)
         /\ Together(q) => Together(r)
         /\ Together(q) /\ (IsHeadlight(q[1]) => q[1].data.byte = "BACK_RIGHT") => StartsWhole(r)
         /\ Together(q) /\ IsHeadlight(q[1]) /\ q[1].data.byte # "BACK_RIGHT"
              => 1 \in 1 .. Len(r) /\ Follows(q[1], r[1])
<1>1. /\ Len(q) \in Nat /\ Len(q) > 0 /\ r \in Seq(S) /\ Len(r) = Len(q) - 1
      /\ \A i \in 1 .. Len(r) : r[i] = q[i + 1]
      /\ Head(q) = q[1]
  BY HeadTailProperties, LenProperties, EmptySeq
<1>2. ASSUME Together(q) PROVE Together(r)
  <2> SUFFICES ASSUME NEW i \in 1 .. Len(r), IsHeadlight(r[i])
               PROVE  /\ r[i].data.byte \in Lights
                      /\ r[i].data.byte # "BACK_RIGHT" =>
                           i + 1 \in 1 .. Len(r) /\ Follows(r[i], r[i + 1])
                      /\ r[i].data.byte # "FRONT_LEFT" =>
                           i = 1 \/ (IsHeadlight(r[i - 1]) /\ r[i - 1].data.byte # "BACK_RIGHT")
    BY DEF Together
  <2> DEFINE j == i + 1
  <2>1. j \in 1 .. Len(q) /\ j # 1 /\ r[i] = q[j]
    BY <1>1
  <2>2. j + 1 \in 1 .. Len(q) => i + 1 \in 1 .. Len(r) /\ r[i + 1] = q[j + 1]
    BY <1>1
  <2>3. i = 1 \/ r[i - 1] = q[j - 1]
    BY <1>1
  <2> HIDE DEF j
  <2>4. QED
    BY <1>2, <2>1, <2>2, <2>3 DEF Together
<1>3. 1 \in 1 .. Len(r) => r[1] = q[2] /\ 2 \in 1 .. Len(q)
  BY <1>1
<1>4. 2 \in 1 .. Len(q) => 1 \in 1 .. Len(r)
  BY <1>1
<1>5. 1 \in 1 .. Len(q) /\ 2 - 1 = 1 /\ 1 + 1 = 2
  BY <1>1
<1>6. ASSUME Together(q), IsHeadlight(q[1]) => q[1].data.byte = "BACK_RIGHT"
      PROVE  StartsWhole(r)
  <2> SUFFICES ASSUME 1 \in 1 .. Len(r), IsHeadlight(r[1]), r[1].data.byte # "FRONT_LEFT"
               PROVE  FALSE
    BY DEF StartsWhole
  <2>1. r[1] = q[2] /\ 2 \in 1 .. Len(q)
    BY <1>3
  <2>2. IsHeadlight(q[2 - 1]) /\ q[2 - 1].data.byte # "BACK_RIGHT"
    BY <1>6, <2>1 DEF Together
  <2>3. QED
    BY <1>5, <1>6, <2>2
<1>7. ASSUME Together(q), IsHeadlight(q[1]), q[1].data.byte # "BACK_RIGHT"
      PROVE  1 \in 1 .. Len(r) /\ Follows(q[1], r[1])
  <2>1. 1 + 1 \in 1 .. Len(q) /\ Follows(q[1], q[1 + 1])
    BY <1>5, <1>7 DEF Together
  <2>2. QED
    BY <1>3, <1>4, <1>5, <2>1
<1>8. QED
  BY <1>1, <1>2, <1>5, <1>6, <1>7

LEMMA TakenOnly ==
  ASSUME NEW S, queue \in Seq(S), queue # <<>>, Dispatch(<<>>)
  PROVE  queue' = Tail(queue)
<1>1. Tail(queue) \in Seq(S)
  BY HeadTailProperties
<1>2. QED
  BY <1>1, ConcatEmptySeq DEF Dispatch

(* A step of the show.                                                     *)
LEMMA FourHeadlights ==
  ASSUME NEW c \in Nat
  PROVE  Headlights(c) \in Seq(Mail) /\ WholeSteps(Headlights(c))
<1> DEFINE color == CASE c % 8 = 2 -> "GREEN" [] c % 8 = 4 -> "ORANGE" [] c % 8 = 6 -> "RED"
                      [] OTHER -> "BLACK"
           m1 == Setting("MSG_HEADLIGHT", "FRONT_LEFT", color)
           m2 == Setting("MSG_HEADLIGHT", "FRONT_RIGHT", color)
           m3 == Setting("MSG_HEADLIGHT", "BACK_LEFT", color)
           m4 == Setting("MSG_HEADLIGHT", "BACK_RIGHT", color)
<1>1. color \in {"BLACK", "GREEN", "ORANGE", "RED"}
  OBVIOUS
<1>2. Headlights(c) = <<m1, m2, m3, m4>>
  BY DEF Headlights
<1> HIDE DEF color
<1>3. m1 \in Mail /\ m2 \in Mail /\ m3 \in Mail /\ m4 \in Mail
  BY <1>1 DEF Mail, Setting, Message, Lights
<1>4. /\ IsHeadlight(m1) /\ m1.data.byte = "FRONT_LEFT" /\ m1.data.word = color
      /\ IsHeadlight(m2) /\ m2.data.byte = "FRONT_RIGHT" /\ m2.data.word = color
      /\ IsHeadlight(m3) /\ m3.data.byte = "BACK_LEFT" /\ m3.data.word = color
      /\ IsHeadlight(m4) /\ m4.data.byte = "BACK_RIGHT" /\ m4.data.word = color
  BY DEF IsHeadlight, Setting, Message
<1> HIDE DEF m1, m2, m3, m4
<1>5. Follows(m1, m2) /\ Follows(m2, m3) /\ Follows(m3, m4)
  BY <1>4 DEF Follows, Place, Lights
<1> DEFINE s == <<m1, m2, m3, m4>>
<1>6. s \in Seq(Mail) /\ Len(s) = 4 /\ s[1] = m1 /\ s[2] = m2 /\ s[3] = m3 /\ s[4] = m4
  BY <1>3
<1> HIDE DEF s
<1>7. \A i \in 1 .. 4 : i = 1 \/ i = 2 \/ i = 3 \/ i = 4
  OBVIOUS
<1>8. Together(s)
  <2> SUFFICES ASSUME NEW i \in 1 .. 4
               PROVE  /\ s[i].data.byte \in Lights
                      /\ s[i].data.byte # "BACK_RIGHT" =>
                           i + 1 \in 1 .. 4 /\ Follows(s[i], s[i + 1])
                      /\ s[i].data.byte # "FRONT_LEFT" =>
                           i = 1 \/ (IsHeadlight(s[i - 1]) /\ s[i - 1].data.byte # "BACK_RIGHT")
    BY <1>6 DEF Together
  <2>1. CASE i = 1
    BY <1>4, <1>5, <1>6, <2>1 DEF Lights
  <2>2. CASE i = 2
    BY <1>4, <1>5, <1>6, <2>2 DEF Lights
  <2>3. CASE i = 3
    BY <1>4, <1>5, <1>6, <2>3 DEF Lights
  <2>4. CASE i = 4
    BY <1>4, <1>5, <1>6, <2>4 DEF Lights
  <2>5. QED
    BY <1>7, <2>1, <2>2, <2>3, <2>4
<1>9. StartsWhole(s)
  BY <1>4, <1>6 DEF StartsWhole
<1>10. QED
  BY <1>2, <1>6, <1>8, <1>9 DEF s, WholeSteps

LEMMA Switches ==
  ASSUME NEW k \in Int
  PROVE  /\ Off(U[k]) \in Mail /\ On(U[k]) \in Mail
         /\ ~IsHeadlight(Off(U[k])) /\ ~IsHeadlight(On(U[k]))
<1> DEFINE b == U[k]
<1>1. b \in {U[i] : i \in Int}
  OBVIOUS
<1> HIDE DEF b
<1>2. /\ Off(b) \in Mail /\ On(b) \in Mail
      /\ ~IsHeadlight(Off(b)) /\ ~IsHeadlight(On(b))
  BY <1>1 DEF Off, On, Setting, Message, Mail, IsHeadlight
<1>3. QED
  BY <1>2 DEF b

LEMMA OneMessage ==
  ASSUME NEW m \in Mail, ~IsHeadlight(m)
  PROVE  <<m>> \in Seq(Mail) /\ WholeSteps(<<m>>)
<1> DEFINE s == <<m>>
<1>1. s \in Seq(Mail) /\ Len(s) = 1 /\ s[1] = m
  OBVIOUS
<1> HIDE DEF s
<1>2. \A i \in 1 .. Len(s) : ~IsHeadlight(s[i])
  BY <1>1
<1>3. QED
  BY <1>1, <1>2, NoHeadlights DEF s

LEMMA TwoMessages ==
  ASSUME NEW m \in Mail, NEW n \in Mail, ~IsHeadlight(m), ~IsHeadlight(n)
  PROVE  <<m, n>> \in Seq(Mail) /\ WholeSteps(<<m, n>>)
<1> DEFINE s == <<m, n>>
<1>1. s \in Seq(Mail) /\ Len(s) = 2 /\ s[1] = m /\ s[2] = n
  OBVIOUS
<1> HIDE DEF s
<1>2. \A i \in 1 .. Len(s) : ~IsHeadlight(s[i])
  <2>1. \A i \in 1 .. Len(s) : i = 1 \/ i = 2
    BY <1>1
  <2>2. QED
    BY <1>1, <2>1
<1>3. QED
  BY <1>1, <1>2, NoHeadlights DEF s

LEMMA ThreeMessages ==
  ASSUME NEW m \in Mail, NEW n \in Mail, NEW o \in Mail,
         ~IsHeadlight(m), ~IsHeadlight(n), ~IsHeadlight(o)
  PROVE  <<m, n, o>> \in Seq(Mail) /\ WholeSteps(<<m, n, o>>)
<1> DEFINE s == <<m, n, o>>
<1>1. s \in Seq(Mail) /\ Len(s) = 3 /\ s[1] = m /\ s[2] = n /\ s[3] = o
  OBVIOUS
<1> HIDE DEF s
<1>2. \A i \in 1 .. Len(s) : ~IsHeadlight(s[i])
  <2>1. \A i \in 1 .. Len(s) : i = 1 \/ i = 2 \/ i = 3
    BY <1>1
  <2>2. QED
    BY <1>1, <2>1
<1>3. QED
  BY <1>1, <1>2, NoHeadlights DEF s

LEMMA DecklightMail ==
  ASSUME NEW c \in Nat
  PROVE  Decklights(c) \in Seq(Mail) /\ WholeSteps(Decklights(c))
<1> DEFINE k == IF c % 10 <= 5 THEN c % 10 ELSE 10 - (c % 10)
<1>1. k \in Int
  OBVIOUS
<1>2. Decklights(c) = CASE k = 0 -> <<Off(U[2]), On(U[1])>>
                        [] k = 5 -> <<Off(U[5]), On(U[6])>>
                        [] OTHER -> <<Off(U[k]), On(U[k + 1]), Off(U[k + 2])>>
  BY DEF Decklights
<1> HIDE DEF k
<1>3. <<Off(U[2]), On(U[1])>> \in Seq(Mail) /\ WholeSteps(<<Off(U[2]), On(U[1])>>)
  BY Switches, TwoMessages
<1>4. <<Off(U[5]), On(U[6])>> \in Seq(Mail) /\ WholeSteps(<<Off(U[5]), On(U[6])>>)
  BY Switches, TwoMessages
<1>5. /\ <<Off(U[k]), On(U[k + 1]), Off(U[k + 2])>> \in Seq(Mail)
      /\ WholeSteps(<<Off(U[k]), On(U[k + 1]), Off(U[k + 2])>>)
  <2>1. k + 1 \in Int /\ k + 2 \in Int
    BY <1>1
  <2>2. QED
    BY <1>1, <2>1, Switches, ThreeMessages
<1>6. QED
  BY <1>2, <1>3, <1>4, <1>5

LEMMA StepMail ==
  ASSUME NEW c \in Nat
  PROVE  Step(c) \in Seq(Mail) /\ WholeSteps(Step(c))
<1>1. <<>> \in Seq(Mail) /\ WholeSteps(<<>>)
  BY EmptySeq, NoHeadlights
<1>2. If("decklights", Decklights(c)) \in Seq(Mail) /\ WholeSteps(If("decklights", Decklights(c)))
  BY <1>1, DecklightMail DEF If
<1>3. If("headlights", Headlights(c)) \in Seq(Mail) /\ WholeSteps(If("headlights", Headlights(c)))
  BY <1>1, FourHeadlights DEF If
<1>4. If("bargraph", Bargraph(c)) \in Seq(Mail) /\ WholeSteps(If("bargraph", Bargraph(c)))
  <2> DEFINE b == IF c % 18 < 10 THEN c % 18 ELSE 18 - (c % 18)
             m == Setting("MSG_BARPOSITION", b, 0)
  <2>1. b \in Int
    OBVIOUS
  <2> HIDE DEF b
  <2>2. m \in Mail /\ ~IsHeadlight(m)
    BY <2>1 DEF Mail, Setting, Message, IsHeadlight
  <2>3. Bargraph(c) = <<m>>
    BY DEF Bargraph, b
  <2>4. QED
    BY <1>1, <2>2, <2>3, OneMessage DEF If
<1>5. Load \in Seq(Mail) /\ WholeSteps(Load)
  <2>1. Setting("MSG_LOAD", 0, 0) \in Mail /\ ~IsHeadlight(Setting("MSG_LOAD", 0, 0))
    BY DEF Mail, Setting, Message, IsHeadlight
  <2>2. QED
    BY <2>1, OneMessage DEF Load
<1> DEFINE a == If("decklights", Decklights(c))
           b == If("bargraph", Bargraph(c))
           h == If("headlights", Headlights(c))
<1>6. Step(c) = ((a \o b) \o h) \o Load
  BY DEF Step
<1> HIDE DEF a, b, h
<1>7. a \o b \in Seq(Mail) /\ WholeSteps(a \o b)
  BY <1>2, <1>4, StepsFollow DEF a, b
<1>8. (a \o b) \o h \in Seq(Mail) /\ WholeSteps((a \o b) \o h)
  BY <1>3, <1>7, StepsFollow DEF h
<1>9. QED
  BY <1>5, <1>6, <1>8, StepsFollow

-----------------------------------------------------------------------------
(* The headlights that are changed, and those that are not yet.            *)
LEMMA Coloured ==
  ASSUME NEW bits, NEW l \in Lights, NEW color, NEW new,
         new = SetColor(bits, HeadlightPin[l], HeadlightPin[l] + 1, color)
  PROVE  /\ Has(new, l, color)
         /\ \A p \in Lights \ {l} : /\ HeadlightPin[p] \in new <=> HeadlightPin[p] \in bits
                                    /\ HeadlightPin[p] + 1 \in new <=> HeadlightPin[p] + 1 \in bits
<1> DEFINE a == HeadlightPin[l]
<1>1. a \in Int /\ a # a + 1
  BY DEF Lights, HeadlightPin
<1>2. ASSUME NEW p \in Lights \ {l}
      PROVE  /\ HeadlightPin[p] \notin {a, a + 1}
             /\ HeadlightPin[p] + 1 \notin {a, a + 1}
  BY DEF Lights, HeadlightPin
<1>3. new = (bits \ {a, a + 1}) \cup (IF color \in {"GREEN", "ORANGE"} THEN {a} ELSE {})
                                \cup (IF color \in {"RED", "ORANGE"} THEN {a + 1} ELSE {})
  BY DEF SetColor
<1>4. Has(new, l, color)
  <2>1. a \in new <=> color \in {"GREEN", "ORANGE"}
    BY <1>1, <1>3
  <2>2. a + 1 \in new <=> color \in {"RED", "ORANGE"}
    BY <1>1, <1>3
  <2>3. QED
    BY <2>1, <2>2 DEF Has
<1> HIDE DEF a
<1>5. ASSUME NEW p \in Lights \ {l}
      PROVE  /\ HeadlightPin[p] \in new <=> HeadlightPin[p] \in bits
             /\ HeadlightPin[p] + 1 \in new <=> HeadlightPin[p] + 1 \in bits
  <2>1. ASSUME NEW x, x \notin {a, a + 1} PROVE x \in new <=> x \in bits
    BY <1>3, <2>1
  <2>2. QED
    BY <1>2, <2>1
<1>6. QED
  BY <1>4, <1>5

LEMMA SameColour ==
  ASSUME NEW bits, NEW color, \A l \in Lights : Has(bits, l, color)
  PROVE  Agree(bits, Lights)
BY DEF Has, Agree

LEMMA Places ==
  /\ \A l \in Lights : Place[l] \in 1 .. 4
  /\ \A l, k \in Lights : Place[l] = Place[k] => l = k
  /\ Place["FRONT_LEFT"] = 1 /\ Place["BACK_RIGHT"] = 4
BY DEF Lights, Place

(* Before the first of a step all agree, and so they do after the last.    *)
LEMMA BeforeAStep ==
  ASSUME NEW q, NEW bits, Together(q), StartsWhole(q), Agree(bits, Lights)
  PROVE  ChangedSoFar(q, bits)
<1>1. CASE 1 \in 1 .. Len(q) /\ IsHeadlight(q[1])
  <2>1. q[1].data.byte = "FRONT_LEFT"
    BY <1>1 DEF StartsWhole
  <2>2. Agree(bits, {l \in Lights : Place[l] >= Place[q[1].data.byte]})
    BY DEF Agree
  <2>3. \A l \in Lights : ~(Place[l] < Place[q[1].data.byte])
    BY <2>1, Places
  <2>4. QED
    BY <1>1, <2>2, <2>3 DEF ChangedSoFar
<1>2. CASE ~(1 \in 1 .. Len(q) /\ IsHeadlight(q[1]))
  BY <1>2 DEF ChangedSoFar
<1>3. QED
  BY <1>1, <1>2

LEMMA HeadlightChanged ==
  ASSUME NEW S, NEW q \in Seq(S), q # <<>>, Together(q), IsHeadlight(q[1]),
         NEW r, r = Tail(q), NEW bits, ChangedSoFar(q, bits),
         NEW new, new = SetColor(bits, HeadlightPin[q[1].data.byte],
                                 HeadlightPin[q[1].data.byte] + 1, q[1].data.word)
  PROVE  ChangedSoFar(r, new)
<1> DEFINE b == q[1].data.byte
           w == q[1].data.word
<1>1. 1 \in 1 .. Len(q) /\ Together(r)
  BY MailTaken
<1>2. b \in Lights
  BY <1>1 DEF Together
<1>3. /\ \A l \in Lights : Place[l] < Place[b] => Has(bits, l, w)
      /\ Agree(bits, {l \in Lights : Place[l] >= Place[b]})
  BY <1>1 DEF ChangedSoFar
<1>0. new = SetColor(bits, HeadlightPin[b], HeadlightPin[b] + 1, w)
  OBVIOUS
<1> HIDE DEF w, b
<1>4. /\ Has(new, b, w)
      /\ \A p \in Lights \ {b} : /\ HeadlightPin[p] \in new <=> HeadlightPin[p] \in bits
                                 /\ HeadlightPin[p] + 1 \in new <=> HeadlightPin[p] + 1 \in bits
  BY <1>0, <1>2, Coloured
<1> USE DEF b
<1>5. \A l \in Lights : Place[l] <= Place[b] => Has(new, l, w)
  <2> SUFFICES ASSUME NEW l \in Lights, Place[l] <= Place[b] PROVE Has(new, l, w)
    OBVIOUS
  <2>1. CASE l = b
    BY <1>4, <2>1
  <2>2. CASE l # b
    <3>1. Place[l] < Place[b]
      BY <1>2, <2>2, Places
    <3>2. Has(bits, l, w)
      BY <1>3, <3>1
    <3>3. QED
      BY <1>4, <2>2, <3>2 DEF Has
  <2>3. QED
    BY <2>1, <2>2
<1>6. CASE b = "BACK_RIGHT"
  <2>1. \A l \in Lights : Has(new, l, w)
    BY <1>5, <1>6, Places
  <2>2. Agree(new, Lights)
    BY <2>1, SameColour
  <2>3. StartsWhole(r)
    BY <1>6, MailTaken
  <2>4. QED
    BY <1>1, <2>2, <2>3, BeforeAStep
<1>7. CASE b # "BACK_RIGHT"
  <2>1. 1 \in 1 .. Len(r) /\ Follows(q[1], r[1])
    BY <1>7, MailTaken
  <2> DEFINE n == r[1].data.byte
  <2>2. /\ IsHeadlight(r[1]) /\ n \in Lights /\ Place[n] = Place[b] + 1
        /\ r[1].data.word = w
    BY <2>1 DEF Follows, w
  <2> HIDE DEF n
  <2>3. \A l \in Lights : Place[l] < Place[n] => Place[l] <= Place[b]
    BY <1>2, <2>2, Places
  <2>4. \A l \in Lights : Place[l] >= Place[n] => l # b /\ Place[l] >= Place[b]
    BY <1>2, <2>2, Places
  <2>5. Agree(new, {l \in Lights : Place[l] >= Place[n]})
    BY <1>3, <1>4, <2>4 DEF Agree
  <2>6. \A l \in Lights : Place[l] < Place[n] => Has(new, l, w)
    BY <1>5, <2>3
  <2>7. QED
    BY <2>1, <2>2, <2>5, <2>6 DEF ChangedSoFar, n
<1>8. QED
  BY <1>6, <1>7

(* A message that is no headlight's is taken.                              *)
LEMMA OtherTaken ==
  ASSUME NEW S, NEW q \in Seq(S), q # <<>>, Together(q), ~IsHeadlight(q[1]),
         NEW r, r = Tail(q), NEW bits, ChangedSoFar(q, bits)
  PROVE  Together(r) /\ StartsWhole(r) /\ Agree(bits, Lights) /\ ChangedSoFar(r, bits)
<1>1. 1 \in 1 .. Len(q) /\ Together(r) /\ StartsWhole(r)
  BY MailTaken
<1>2. Agree(bits, Lights)
  BY <1>1 DEF ChangedSoFar
<1>3. QED
  BY <1>1, <1>2, BeforeAStep

-----------------------------------------------------------------------------
(* The steps.                                                              *)
LEMMA StepTaken == LightInv /\ TakeStep => LightInv'
<1> SUFFICES ASSUME LightInv, TakeStep PROVE LightInv'
  OBVIOUS
<1>1. /\ queue \in Seq(Mail) /\ queue # <<>> /\ Head(queue).type = "MSG_TIMER_TIMEOUT"
      /\ count \in Nat /\ queue' = Tail(queue) \o Step(count)
      /\ UNCHANGED <<config, outputs, touched>>
      /\ count' = (count + 1) % 256
  BY DEF LightInv, LightTypes, TakeStep, Next_is, Dispatch
<1>2. Head(queue) = queue[1] /\ ~IsHeadlight(queue[1])
  BY <1>1, MailTaken DEF IsHeadlight
<1>3. Tail(queue) \in Seq(Mail)
  BY <1>1, MailTaken
<1>4. Step(count) \in Seq(Mail) /\ WholeSteps(Step(count))
  BY <1>1, StepMail
<1>5. LightTypes'
  <2>1. queue' \in Seq(Mail)
    BY <1>1, <1>3, <1>4, ConcatProperties
  <2>2. QED
    BY <1>1, <2>1 DEF LightInv, LightTypes
<1>6. ASSUME "headlights" \notin touched'
      PROVE  Together(queue') /\ ChangedSoFar(queue', config'[0]) /\ Agree(outputs'[0], Lights)
  <2>1. /\ Together(queue) /\ ChangedSoFar(queue, config[0]) /\ Agree(outputs[0], Lights)
    BY <1>1, <1>6 DEF LightInv
  <2>2. Together(Tail(queue)) /\ StartsWhole(Tail(queue)) /\ Agree(config[0], Lights)
    BY <1>1, <1>2, <2>1, OtherTaken
  <2>3. WholeSteps(queue')
    BY <1>1, <1>3, <1>4, <2>2, StepsFollow DEF WholeSteps
  <2>4. QED
    BY <1>1, <2>1, <2>2, <2>3, BeforeAStep DEF WholeSteps
<1>7. QED
  BY <1>5, <1>6 DEF LightInv

LEMMA PostedToLights ==
  LightInv /\ (Expire \/ \E m \in Asks : Ask(m)) => LightInv'
<1> SUFFICES ASSUME LightInv, Expire \/ \E m \in Asks : Ask(m) PROVE LightInv'
  OBVIOUS
<1>1. UNCHANGED <<config, outputs, count>>
  BY DEF Expire, Ask, show
<1>2. PICK m \in Mail : /\ queue' = Append(queue, m)
                        /\ "headlights" \notin touched' => ~IsHeadlight(m) /\ "headlights" \notin touched
  <2>1. CASE Expire
    <3> DEFINE m == Show("MSG_TIMER_TIMEOUT", "", "")
    <3>1. m \in Mail /\ ~IsHeadlight(m)
      BY DEF Show, Message, Mail, IsHeadlight
    <3>2. QED
      BY <2>1, <3>1 DEF Expire
  <2>2. CASE \E m \in Asks : Ask(m)
    <3>1. PICK m \in Asks : Ask(m)
      BY <2>2
    <3>2. m \in Mail
      BY DEF Mail
    <3>3. QED
      BY <3>1, <3>2 DEF Ask, IsHeadlight
  <2>3. QED
    BY <2>1, <2>2
<1>3. queue \in Seq(Mail)
  BY DEF LightInv, LightTypes
<1>4. LightTypes'
  BY <1>1, <1>2, <1>3, MailPosted DEF LightInv, LightTypes
<1>5. ASSUME "headlights" \notin touched'
      PROVE  Together(queue') /\ ChangedSoFar(queue', config'[0]) /\ Agree(outputs'[0], Lights)
  BY <1>1, <1>2, <1>3, <1>5, MailPosted DEF LightInv
<1>6. QED
  BY <1>4, <1>5 DEF LightInv

LEMMA ShowControlled == LightInv /\ (StartStop \/ Enable) => LightInv'
<1> SUFFICES ASSUME LightInv, StartStop \/ Enable PROVE LightInv'
  OBVIOUS
<1>1. /\ queue \in Seq(Mail) /\ queue # <<>> /\ Dispatch(<<>>)
      /\ UNCHANGED <<config, outputs, count>>
      /\ "headlights" \notin touched' => "headlights" \notin touched
      /\ Head(queue).type # "MSG_HEADLIGHT"
  BY DEF LightInv, LightTypes, StartStop, Enable, Next_is
<1>2. queue' = Tail(queue) /\ queue' \in Seq(Mail)
  BY <1>1, TakenOnly, HeadTailProperties
<1>3. ~IsHeadlight(queue[1])
  BY <1>1, MailTaken DEF IsHeadlight
<1>4. LightTypes'
  BY <1>1, <1>2 DEF LightInv, LightTypes
<1>5. ASSUME "headlights" \notin touched'
      PROVE  Together(queue') /\ ChangedSoFar(queue', config'[0]) /\ Agree(outputs'[0], Lights)
  BY <1>1, <1>2, <1>3, <1>5, OtherTaken DEF LightInv
<1>6. QED
  BY <1>4, <1>5 DEF LightInv

LEMMA ConfigOfHeadlights ==
  ASSUME LightTypes, NEW type, NEW byte, NEW word,
         config' = Configured(type, byte, word)
  PROVE  /\ config' = [i \in 0 .. 4 |-> config'[i]]
         /\ type # "MSG_HEADLIGHT" => config'[0] = config[0]
         /\ type = "MSG_HEADLIGHT" =>
              config'[0] = SetColor(config[0], HeadlightPin[byte], HeadlightPin[byte] + 1, word)
<1>1. config = [i \in 0 .. 4 |-> config[i]]
  BY DEF LightTypes
<1>2. ASSUME NEW k \in 1 .. 4, NEW v, config' = [config EXCEPT ![k] = v]
      PROVE  config' = [i \in 0 .. 4 |-> config'[i]] /\ config'[0] = config[0]
  <2>1. config' = [i \in 0 .. 4 |-> IF i = k THEN v ELSE config[i]]
    BY <1>1, <1>2
  <2>2. QED
    BY <2>1
<1>3. CASE type = "MSG_HEADLIGHT"
  <2> DEFINE v == SetColor(config[0], HeadlightPin[byte], HeadlightPin[byte] + 1, word)
  <2>1. config' = [config EXCEPT ![0] = v]
    BY <1>3 DEF Configured
  <2> HIDE DEF v
  <2>2. config' = [i \in 0 .. 4 |-> config'[i]] /\ config'[0] = v
    <3>1. config' = [i \in 0 .. 4 |-> IF i = 0 THEN v ELSE config[i]]
      BY <1>1, <2>1
    <3>2. QED
      BY <3>1
  <2>3. QED
    BY <1>3, <2>2 DEF v
<1>4. ASSUME NEW E, config' = Bar(E)
      PROVE  config' = [i \in 0 .. 4 |-> config'[i]] /\ config'[0] = config[0]
  <2> DEFINE v == E \cap 0 .. 7
             old == [config EXCEPT ![1] = v]
             w == (old[2] \ {0, 1}) \cup {e - 8 : e \in E \cap {8, 9}}
  <2>1. config' = [old EXCEPT ![2] = w]
    BY <1>4 DEF Bar
  <2> HIDE DEF v, w
  <2>2. old = [i \in 0 .. 4 |-> IF i = 1 THEN v ELSE config[i]]
    BY <1>1
  <2> HIDE DEF old
  <2>3. config' = [i \in 0 .. 4 |-> IF i = 2 THEN w ELSE old[i]]
    BY <2>1, <2>2
  <2>4. QED
    BY <2>2, <2>3
<1>5. CASE type = "MSG_DECKLIGHT"
  <2>1. config' = [config EXCEPT ![2] = Switch(config[2], byte + 1, word)]
    BY <1>5 DEF Configured
  <2>2. QED
    BY <1>2, <1>5, <2>1
<1>6. CASE type = "MSG_CLEARDECKLIGHTS"
  <2>1. config' = [config EXCEPT ![2] = config[2] \cap {0, 1}]
    BY <1>6 DEF Configured
  <2>2. QED
    BY <1>2, <1>6, <2>1
<1>7. CASE type \in {"MSG_BARPOSITION", "MSG_BARPERCENT", "MSG_BARBINARY"}
  <2>1. PICK E : config' = Bar(E)
    BY <1>7 DEF Configured
  <2>2. QED
    BY <1>4, <1>7, <2>1
<1>8. ASSUME NEW bit, config' = [config EXCEPT ![3] = Switch(config[3], bit, word)]
      PROVE  config' = [i \in 0 .. 4 |-> config'[i]] /\ config'[0] = config[0]
  <2> DEFINE v == Switch(config[3], bit, word)
  <2>1. config' = [config EXCEPT ![3] = v]
    BY <1>8
  <2> HIDE DEF v
  <2>2. config' = [i \in 0 .. 4 |-> IF i = 3 THEN v ELSE config[i]]
    BY <1>1, <2>1
  <2>3. QED
    BY <2>2
<1>9. CASE type \in {"MSG_SERVO_EN", "MSG_MAG_EN", "MSG_ACC_EN", "MSG_CB2_IRIS", "MSG_CB2_BCU"}
  <2>1. PICK bit : config' = [config EXCEPT ![3] = Switch(config[3], bit, word)]
    BY <1>9 DEF Configured
  <2>2. QED
    BY <1>8, <1>9, <2>1
<1>10. CASE type = "MSG_CB2_HEAD0"
  <2>1. config' = [config EXCEPT ![4] = Switch(config[4], 7, word)]
    BY <1>10 DEF Configured
  <2>2. QED
    BY <1>2, <1>10, <2>1
<1>11. CASE type = "MSG_MAG_RESET"
  <2>1. config' = [config EXCEPT ![3] = config[3] \cup {2}]
    BY <1>11 DEF Configured
  <2>2. QED
    BY <1>2, <1>11, <2>1
<1>12. CASE type \notin {"MSG_DECKLIGHT", "MSG_CLEARDECKLIGHTS", "MSG_HEADLIGHT",
                         "MSG_BARPOSITION", "MSG_BARPERCENT", "MSG_BARBINARY",
                         "MSG_SERVO_EN", "MSG_MAG_EN", "MSG_ACC_EN", "MSG_CB2_IRIS",
                         "MSG_CB2_BCU", "MSG_CB2_HEAD0", "MSG_MAG_RESET"}
  <2>1. config' = config
    BY <1>12 DEF Configured
  <2>2. QED
    BY <1>1, <1>12, <2>1
<1>13. QED
  BY <1>3, <1>5, <1>6, <1>7, <1>9, <1>10, <1>11, <1>12

LEMMA LightsHandled ==
  LightInv /\ CB2Handle /\ UNCHANGED <<show, asked, touched>> => LightInv'
<1> SUFFICES ASSUME LightInv, CB2Handle, UNCHANGED <<show, asked, touched>> PROVE LightInv'
  OBVIOUS
<1> DEFINE m == Head(queue)
<1>1. /\ LightTypes /\ queue \in Seq(Mail) /\ queue # <<>> /\ Dispatch(<<>>)
      /\ config' = Configured(m.type, m.data.byte, m.data.word)
      /\ outputs' = IF m.type \in {"MSG_LOAD", "MSG_MAG_RESET"}
                    THEN [i \in 0 .. 3 |-> config'[i]] ELSE outputs
      /\ UNCHANGED <<count, touched>>
  BY DEF LightInv, LightTypes, CB2Handle, show
<1>2. queue' = Tail(queue) /\ queue' \in Seq(Mail) /\ m = queue[1] /\ 1 \in 1 .. Len(queue)
  BY <1>1, TakenOnly, MailTaken
<1> HIDE DEF m
<1>3. /\ config' = [i \in 0 .. 4 |-> config'[i]]
      /\ m.type # "MSG_HEADLIGHT" => config'[0] = config[0]
      /\ m.type = "MSG_HEADLIGHT" =>
           config'[0] = SetColor(config[0], HeadlightPin[m.data.byte],
                                 HeadlightPin[m.data.byte] + 1, m.data.word)
  BY <1>1, ConfigOfHeadlights
<1>4. LightTypes'
  BY <1>1, <1>2, <1>3 DEF LightTypes
<1>5. ASSUME "headlights" \notin touched'
      PROVE  Together(queue') /\ ChangedSoFar(queue', config'[0]) /\ Agree(outputs'[0], Lights)
  <2>1. Together(queue) /\ ChangedSoFar(queue, config[0]) /\ Agree(outputs[0], Lights)
    BY <1>1, <1>5 DEF LightInv
  <2>2. CASE m.type = "MSG_HEADLIGHT"
    <3>1. IsHeadlight(queue[1]) /\ outputs' = outputs
      BY <1>1, <1>2, <2>2 DEF IsHeadlight
    <3>2. Together(queue')
      BY <1>1, <1>2, <2>1, MailTaken
    <3>3. ChangedSoFar(queue', config'[0])
      BY <1>1, <1>2, <1>3, <2>1, <2>2, <3>1, HeadlightChanged
    <3>4. QED
      BY <2>1, <3>1, <3>2, <3>3
  <2>3. CASE m.type # "MSG_HEADLIGHT"
    <3>1. ~IsHeadlight(queue[1]) /\ config'[0] = config[0]
      BY <1>2, <1>3, <2>3 DEF IsHeadlight
    <3>2. Together(queue') /\ Agree(config[0], Lights) /\ ChangedSoFar(queue', config[0])
      BY <1>1, <1>2, <2>1, <3>1, OtherTaken
    <3>3. outputs'[0] = config'[0] \/ outputs' = outputs
      BY <1>1
    <3>4. QED
      BY <2>1, <3>1, <3>2, <3>3
  <2>4. QED
    BY <2>2, <2>3
<1>6. QED
  BY <1>4, <1>5 DEF LightInv

LEMMA LightInvInit == ShowInit => LightInv
<1> SUFFICES ASSUME ShowInit PROVE LightInv
  OBVIOUS
<1> DEFINE m1 == Show("MSG_LIGHTSHOW", "decklights", "ENABLE")
           m2 == Show("MSG_LIGHTSHOW", "headlights", "ENABLE")
           m3 == Show("MSG_LIGHTSHOW_START", "", "")
<1>1. /\ m1 \in Mail /\ m2 \in Mail /\ m3 \in Mail
      /\ ~IsHeadlight(m1) /\ ~IsHeadlight(m2) /\ ~IsHeadlight(m3)
  BY DEF Show, Message, Mail, IsHeadlight
<1>2. queue = <<m1, m2, m3>>
  BY DEF ShowInit
<1> HIDE DEF m1, m2, m3
<1>3. queue \in Seq(Mail) /\ WholeSteps(queue)
  BY <1>1, <1>2, ThreeMessages
<1>4. config = [i \in 0 .. 4 |-> config[i]] /\ config[0] = {} /\ outputs[0] = {} /\ count = 0
  <2>1. config = [i \in 0 .. 4 |-> IF i = 3 THEN {2} ELSE {}] /\ count = 0
        /\ outputs = [i \in 0 .. 3 |-> config[i]]
    BY DEF ShowInit, CB2_init
  <2>2. QED
    BY <2>1
<1>5. Agree(config[0], Lights) /\ Agree(outputs[0], Lights)
  BY <1>4 DEF Agree
<1>6. QED
  BY <1>3, <1>4, <1>5, BeforeAStep DEF LightInv, LightTypes, WholeSteps

LEMMA LightInvStep == LightInv /\ [ShowNext]_lightVars => LightInv'
<1> SUFFICES ASSUME LightInv, [ShowNext]_lightVars PROVE LightInv'
  OBVIOUS
<1>1. CASE TakeStep
  BY <1>1, StepTaken
<1>2. CASE Expire \/ \E m \in Asks : Ask(m)
  BY <1>2, PostedToLights
<1>3. CASE StartStop \/ Enable
  BY <1>3, ShowControlled
<1>4. CASE CB2Handle /\ UNCHANGED <<show, asked, touched>>
  BY <1>4, LightsHandled
<1>5. CASE UNCHANGED lightVars
  BY <1>5 DEF lightVars, show, LightInv, LightTypes
<1>6. QED
  BY <1>1, <1>2, <1>3, <1>4, <1>5 DEF ShowNext

(* The light show changes the headlights all four or not at all before any   *)
(* load, its own or that of another module (lightshow.c:134-150), for        *)
(* whatever messages applications send.                                      *)
THEOREM HeadlightsOneColour == ShowSpec => []HeadlightsAgree
<1>1. LightInv => HeadlightsAgree
  <2>1. DOMAIN HeadlightPin = Lights
    BY DEF HeadlightPin, Lights
  <2>2. QED
    BY <2>1 DEF LightInv, HeadlightsAgree, Agree
<1>2. QED
  BY <1>1, LightInvInit, LightInvStep, PTL DEF ShowSpec

-----------------------------------------------------------------------------
(* The steps of the show are numbered from the first on; count is the number *)
(* of the next one to be posted, modulo 256.  After step c the light         *)
(* Shining(c) is on, and no other but light 1 before step 4, where it goes   *)
(* off if the step before was the last of the byte.                          *)
Turn(c) == IF c % 10 <= 5 THEN c % 10 ELSE 10 - (c % 10)
Shining(c) == U[Turn(c) + 1]
Shown(c) == {Shining(c)} \cup (IF c <= 3 THEN {1} ELSE {})
LitIn(bits) == {x \in 1 .. 6 : x + 1 \in bits}

IsExpiry(m) == m.type = "MSG_TIMER_TIMEOUT"
IsLoad(m) == m.type = "MSG_LOAD"
IsDecklight(m) == m.type = "MSG_DECKLIGHT"
SwitchesOff(m, x) == IsDecklight(m) /\ m.data.byte = x /\ m.data.word = "OFF"
StepTypes == {"MSG_DECKLIGHT", "MSG_BARPOSITION", "MSG_HEADLIGHT", "MSG_LOAD"}

(* A message of step c: of the deck lights, none but Shining(c) is switched  *)
(* on.                                                                       *)
OfStep(m, c) ==
  /\ m.type \in StepTypes
  /\ IsDecklight(m) =>
       /\ m.data.byte \in 1 .. 6
       /\ m.data.word = "OFF" \/ (m.data.word = "ON" /\ m.data.byte = Shining(c))

(* In a queue f numbers the steps: that which an expiry will post, and that  *)
(* of which a message is.  The steps up to number a are posted, the first of *)
(* which not all is handled is number m; n expiries wait.                    *)
Posted_(f, a, i) == 0 <= f[i] /\ f[i] < a

Expiries(q, f, a, n) ==
  /\ \A i \in 1 .. Len(q) : /\ IsExpiry(q[i]) <=> a <= f[i]
                            /\ f[i] < a + n
                            /\ IsExpiry(q[i]) => q[i].to = "lightshow"
  /\ \A i, j \in 1 .. Len(q) : IsExpiry(q[i]) /\ IsExpiry(q[j]) /\ i < j => f[i] < f[j]
  /\ \A b \in Int : a <= b /\ b < a + n => \E i \in 1 .. Len(q) : IsExpiry(q[i]) /\ f[i] = b

(* A step stays together up to its load, and steps are in their order.       *)
StepsInOrder(q, f, a, m) ==
  /\ \A i \in 1 .. Len(q) : Posted_(f, a, i) => m <= f[i] /\ OfStep(q[i], f[i] % 256)
  /\ \A i, j \in 1 .. Len(q) : Posted_(f, a, i) /\ Posted_(f, a, j) /\ i < j => f[i] <= f[j]
  /\ \A i \in 1 .. Len(q) : Posted_(f, a, i) /\ ~IsLoad(q[i]) =>
       i + 1 \in 1 .. Len(q) /\ f[i + 1] = f[i]
  /\ \A i, j \in 1 .. Len(q) : Posted_(f, a, i) /\ IsLoad(q[i]) /\ f[j] = f[i] => j <= i
  /\ \A b \in Int : m <= b /\ b < a => \E i \in 1 .. Len(q) : IsLoad(q[i]) /\ f[i] = b
  /\ \A i \in 1 .. Len(q) : IsDecklight(q[i]) => Posted_(f, a, i)

(* An expiry before a message of a step waited when the step was posted.     *)
Waited(q, f, a) ==
  \A i, j \in 1 .. Len(q) :
    i < j /\ IsExpiry(q[i]) /\ Posted_(f, a, j) => f[i] < f[j] + MaxTimeouts

(* The light of the step before is switched off.                             *)
SwitchedOff(q, f, b) ==
  \A x \in Shown((b - 1) % 256) \ Shown(b % 256) :
    \E i \in 1 .. Len(q) : f[i] = b /\ SwitchesOff(q[i], x)

Begun(q, f, a) == 1 \in 1 .. Len(q) /\ Posted_(f, a, 1)

Numbers(q, f, a, m, n) ==
  /\ a \in Nat /\ m \in Nat /\ n \in Nat /\ f \in [1 .. Len(q) -> Int]
  /\ m <= a /\ a <= m + MaxTimeouts /\ n <= MaxTimeouts
  /\ Expiries(q, f, a, n)
  /\ StepsInOrder(q, f, a, m)
  /\ Waited(q, f, a)
  /\ \A b \in Int : m <= b /\ b < a /\ (b = m => ~Begun(q, f, a)) => SwitchedOff(q, f, b)

(* What config shows, between steps and within one.                          *)
Shows(q, f, a, m, bits) ==
  IF Begun(q, f, a)
  THEN \A x \in LitIn(bits) : \/ x \in Shown(m % 256)
                              \/ \E i \in 1 .. Len(q) : f[i] = m /\ SwitchesOff(q[i], x)
  ELSE LitIn(bits) \subseteq Shown((m - 1) % 256)

-----------------------------------------------------------------------------
LEMMA TimeoutsPositive == MaxTimeouts \in Nat /\ MaxTimeouts >= 1
BY ShowAssumption

(* Message p, which is not of a step, is posted; k expiries wait then.     *)
NoStep(p, n, k) ==
  /\ ~IsDecklight(p) /\ (IsExpiry(p) => p.to = "lightshow")
  /\ k = (IF IsExpiry(p) THEN n + 1 ELSE n) /\ k <= MaxTimeouts

PostedAs(q, p, f, a, m, k) ==
  \E g : /\ Numbers(Append(q, p), g, a, m, k)
         /\ \A bits : Shows(q, f, a, m, bits) => Shows(Append(q, p), g, a, m, bits)

LEMMA NumbersPosted ==
  ASSUME NEW S, NEW q \in Seq(S), NEW p \in S,
         NEW f, NEW a, NEW m, NEW n, Numbers(q, f, a, m, n), NEW k, NoStep(p, n, k)
  PROVE  PostedAs(q, p, f, a, m, k)
<1> DEFINE r == Append(q, p)
<1>1. /\ r = Append(q, p) /\ ~IsDecklight(p) /\ (IsExpiry(p) => p.to = "lightshow")
      /\ k = (IF IsExpiry(p) THEN n + 1 ELSE n) /\ k <= MaxTimeouts
  BY DEF NoStep
<1> HIDE DEF r
<1> USE <1>1
<1> DEFINE v == IF IsExpiry(p) THEN a + n ELSE -1
           g == [i \in 1 .. Len(r) |-> IF i <= Len(q) THEN f[i] ELSE v]
<1> HIDE DEF v, g
<1>2. /\ Len(q) \in Nat /\ r \in Seq(S) /\ Len(r) = Len(q) + 1
      /\ \A i \in 1 .. Len(q) : i \in 1 .. Len(r) /\ r[i] = q[i]
      /\ r[Len(q) + 1] = p
  BY AppendProperties, LenProperties
<1>3. /\ a \in Nat /\ m \in Nat /\ n \in Nat /\ f \in [1 .. Len(q) -> Int]
      /\ m <= a /\ a <= m + MaxTimeouts
      /\ Expiries(q, f, a, n) /\ StepsInOrder(q, f, a, m) /\ Waited(q, f, a)
  BY DEF Numbers
<1>4. \A i \in 1 .. Len(q) : /\ IsExpiry(q[i]) => a <= f[i]
                             /\ a <= f[i] => IsExpiry(q[i])
                             /\ f[i] < a + n
                             /\ IsExpiry(q[i]) => q[i].to = "lightshow"
                             /\ f[i] \in Int
  BY <1>3 DEF Expiries
<1> DEFINE e == Len(q) + 1
<1>5. /\ v \in Int /\ k \in Nat /\ ~(0 <= v /\ v < a) /\ n <= k
      /\ v < a + k /\ (IsExpiry(p) => a <= v) /\ (a <= v => IsExpiry(p))
  <2>1. CASE IsExpiry(p)
    <3>1. v = a + n /\ k = n + 1
      BY <2>1 DEF v
    <3>2. QED
      BY <1>3, <2>1, <3>1
  <2>2. CASE ~IsExpiry(p)
    <3>1. v = -1 /\ k = n
      BY <2>2 DEF v
    <3>2. QED
      BY <1>3, <2>2, <3>1
  <2>3. QED
    BY <2>1, <2>2
<1>6. /\ g \in [1 .. Len(r) -> Int] /\ e \in 1 .. Len(r) /\ g[e] = v /\ r[e] = p
      /\ \A i \in 1 .. Len(q) : g[i] = f[i] /\ f[i] \in Int
  <2>1. \A i \in 1 .. Len(r) : i <= Len(q) => i \in 1 .. Len(q)
    BY <1>2
  <2>2. \A i \in 1 .. Len(r) : (IF i <= Len(q) THEN f[i] ELSE v) \in Int
    BY <1>4, <1>5, <2>1
  <2>3. e \in 1 .. Len(r) /\ ~(e <= Len(q)) /\ r[e] = p
    BY <1>2
  <2>4. \A i \in 1 .. Len(q) : i \in 1 .. Len(r) /\ i <= Len(q)
    BY <1>2
  <2>5. QED
    BY <1>2, <1>4, <2>2, <2>3, <2>4 DEF g
<1>7. ASSUME NEW i \in 1 .. Len(r) PROVE i \in 1 .. Len(q) \/ i = e
  BY <1>2
<1>8. \A i \in 1 .. Len(q) : i < e /\ i # e
  BY <1>2
<1> HIDE DEF e
<1>9. \A i \in 1 .. Len(r) : Posted_(g, a, i) <=> i \in 1 .. Len(q) /\ Posted_(f, a, i)
  BY <1>5, <1>6, <1>7, <1>8 DEF Posted_
<1>10. Begun(r, g, a) <=> Begun(q, f, a)
  <2>1. 1 \in 1 .. Len(r)
    BY <1>2
  <2>2. QED
    BY <1>9, <2>1 DEF Begun
<1>11. Expiries(r, g, a, k)
  <2>1. ASSUME NEW i \in 1 .. Len(r)
        PROVE  /\ IsExpiry(r[i]) <=> a <= g[i]
               /\ g[i] < a + k
               /\ IsExpiry(r[i]) => r[i].to = "lightshow"
    <3>1. CASE i \in 1 .. Len(q)
      <4>1. f[i] < a + k
        <5>1. f[i] < a + n /\ f[i] \in Int /\ a \in Nat /\ n \in Nat /\ k \in Nat /\ n <= k
          BY <1>3, <1>4, <1>5, <3>1
        <5>2. QED
          BY <5>1
      <4>2. r[i] = q[i] /\ g[i] = f[i]
        BY <1>2, <1>6, <3>1
      <4>3. QED
        BY <1>2, <1>4, <3>1, <4>1, <4>2
    <3>2. CASE i = e
      <4>1. g[i] = v /\ r[i] = p
        BY <1>6, <3>2
      <4>2. QED
        BY <1>5, <4>1
    <3>3. QED
      BY <1>7, <3>1, <3>2
  <2>2. ASSUME NEW i \in 1 .. Len(r), NEW j \in 1 .. Len(r), IsExpiry(r[i]), IsExpiry(r[j]), i < j
        PROVE  g[i] < g[j]
    <3>1. i \in 1 .. Len(q)
      BY <1>2, <1>7, <2>2 DEF e
    <3>2. CASE j \in 1 .. Len(q)
      BY <1>2, <1>3, <1>6, <2>2, <3>1, <3>2 DEF Expiries
    <3>3. CASE j = e
      <4>1. f[i] < a + n
        BY <1>2, <1>4, <3>1
      <4>2. IsExpiry(p) /\ g[j] = v /\ g[i] = f[i]
        BY <1>6, <2>2, <3>1, <3>3
      <4>3. v = a + n
        BY <4>2 DEF v
      <4>4. QED
        BY <4>1, <4>2, <4>3
    <3>4. QED
      BY <1>7, <3>2, <3>3
  <2>3. ASSUME NEW b \in Int, a <= b, b < a + k
        PROVE  \E i \in 1 .. Len(r) : IsExpiry(r[i]) /\ g[i] = b
    <3>1. CASE b < a + n
      BY <1>2, <1>3, <1>6, <2>3, <3>1 DEF Expiries
    <3>2. CASE ~(b < a + n)
      <4>1. IsExpiry(p) /\ b = a + n
        BY <1>3, <2>3, <3>2
      <4>2. v = b
        BY <4>1 DEF v
      <4>3. QED
        BY <1>6, <4>1, <4>2
    <3>3. QED
      BY <3>1, <3>2
  <2>4. QED
    BY <2>1, <2>2, <2>3 DEF Expiries
<1>12. StepsInOrder(r, g, a, m)
  <2>1. ASSUME NEW i \in 1 .. Len(r), Posted_(g, a, i)
        PROVE  m <= g[i] /\ OfStep(r[i], g[i] % 256)
    BY <1>2, <1>3, <1>6, <1>9, <2>1 DEF StepsInOrder
  <2>2. ASSUME NEW i \in 1 .. Len(r), NEW j \in 1 .. Len(r), Posted_(g, a, i), Posted_(g, a, j), i < j
        PROVE  g[i] <= g[j]
    BY <1>3, <1>6, <1>9, <2>2 DEF StepsInOrder
  <2>3. ASSUME NEW i \in 1 .. Len(r), Posted_(g, a, i), ~IsLoad(r[i])
        PROVE  i + 1 \in 1 .. Len(r) /\ g[i + 1] = g[i]
    <3>1. i \in 1 .. Len(q) /\ Posted_(f, a, i) /\ ~IsLoad(q[i])
      BY <1>2, <1>9, <2>3
    <3>2. i + 1 \in 1 .. Len(q) /\ f[i + 1] = f[i]
      BY <1>3, <3>1 DEF StepsInOrder
    <3>3. QED
      BY <1>2, <1>6, <3>1, <3>2
  <2>4. ASSUME NEW i \in 1 .. Len(r), NEW j \in 1 .. Len(r), Posted_(g, a, i), IsLoad(r[i]), g[j] = g[i]
        PROVE  j <= i
    <3>1. i \in 1 .. Len(q) /\ Posted_(f, a, i) /\ IsLoad(q[i]) /\ Posted_(g, a, j)
      BY <1>2, <1>9, <2>4 DEF Posted_
    <3>2. j \in 1 .. Len(q)
      BY <1>9, <3>1
    <3>3. QED
      BY <1>3, <1>6, <2>4, <3>1, <3>2 DEF StepsInOrder
  <2>5. ASSUME NEW b \in Int, m <= b, b < a
        PROVE  \E i \in 1 .. Len(r) : IsLoad(r[i]) /\ g[i] = b
    BY <1>2, <1>3, <1>6, <2>5 DEF StepsInOrder
  <2>6. ASSUME NEW i \in 1 .. Len(r), IsDecklight(r[i]) PROVE Posted_(g, a, i)
    BY <1>2, <1>3, <1>6, <1>7, <1>9, <2>6 DEF StepsInOrder
  <2>7. QED
    BY <2>1, <2>2, <2>3, <2>4, <2>5, <2>6 DEF StepsInOrder
<1>13. Waited(r, g, a)
  <2> SUFFICES ASSUME NEW i \in 1 .. Len(r), NEW j \in 1 .. Len(r),
                      i < j, IsExpiry(r[i]), Posted_(g, a, j)
               PROVE  g[i] < g[j] + MaxTimeouts
    BY DEF Waited
  <2>1. j \in 1 .. Len(q) /\ Posted_(f, a, j)
    BY <1>9
  <2>2. i \in 1 .. Len(q)
    BY <1>2, <2>1
  <2>3. QED
    BY <1>2, <1>3, <1>6, <2>1, <2>2 DEF Waited
<1>14. ASSUME NEW b, NEW x, \E i \in 1 .. Len(q) : f[i] = b /\ SwitchesOff(q[i], x)
       PROVE  \E i \in 1 .. Len(r) : g[i] = b /\ SwitchesOff(r[i], x)
  BY <1>2, <1>6, <1>14
<1>15. ASSUME NEW b \in Int, m <= b, b < a, b = m => ~Begun(r, g, a)
       PROVE  SwitchedOff(r, g, b)
  <2>1. SwitchedOff(q, f, b)
    BY <1>10, <1>15 DEF Numbers
  <2>2. QED
    BY <1>14, <2>1 DEF SwitchedOff
<1>16. Numbers(r, g, a, m, k)
  BY <1>3, <1>5, <1>6, <1>11, <1>12, <1>13, <1>15 DEF Numbers
<1>17. ASSUME NEW bits, Shows(q, f, a, m, bits) PROVE Shows(r, g, a, m, bits)
  BY <1>10, <1>14, <1>17 DEF Shows
<1>18. QED
  BY <1>16, <1>17 DEF PostedAs, r

(* The first message of the step that is being handled.                    *)
LEMMA FirstOfStep ==
  ASSUME NEW S, NEW q \in Seq(S), NEW f, NEW a, NEW m, NEW n, Numbers(q, f, a, m, n),
         Begun(q, f, a)
  PROVE  /\ 1 \in 1 .. Len(q) /\ f[1] = m /\ 0 <= m /\ m < a /\ OfStep(q[1], m % 256)
         /\ ~IsLoad(q[1]) => 2 \in 1 .. Len(q) /\ f[2] = m
         /\ IsLoad(q[1]) => \A j \in 1 .. Len(q) : f[j] = m => j = 1
<1>1. Len(q) \in Nat
  BY LenProperties
<1>2. /\ a \in Nat /\ m \in Nat /\ f \in [1 .. Len(q) -> Int] /\ StepsInOrder(q, f, a, m)
  BY DEF Numbers
<1>3. 1 \in 1 .. Len(q) /\ 0 <= f[1] /\ f[1] < a /\ Posted_(f, a, 1)
  BY DEF Begun, Posted_
<1>4. m <= f[1] /\ OfStep(q[1], f[1] % 256)
  BY <1>2, <1>3 DEF StepsInOrder
<1>5. f[1] \in Int
  BY <1>2, <1>3
<1>6. PICK i \in 1 .. Len(q) : IsLoad(q[i]) /\ f[i] = m
  <2>1. m \in Int /\ m <= m /\ m < a
    BY <1>2, <1>3, <1>4, <1>5
  <2>2. QED
    BY <1>2, <2>1 DEF StepsInOrder
<1>7. f[1] = m
  <2>1. CASE i = 1
    BY <1>6, <2>1
  <2>2. CASE i # 1
    <3>1. 1 < i
      BY <1>1, <2>2
    <3>2. Posted_(f, a, i)
      BY <1>2, <1>3, <1>4, <1>5, <1>6 DEF Posted_
    <3>3. f[1] <= f[i]
      BY <1>2, <1>3, <3>1, <3>2 DEF StepsInOrder
    <3>4. QED
      BY <1>2, <1>4, <1>5, <1>6, <3>3
  <2>3. QED
    BY <2>1, <2>2
<1>8. ~IsLoad(q[1]) => 2 \in 1 .. Len(q) /\ f[2] = m
  <2>1. ~IsLoad(q[1]) => 1 + 1 \in 1 .. Len(q) /\ f[1 + 1] = f[1]
    BY <1>2, <1>3 DEF StepsInOrder
  <2>2. 1 + 1 = 2
    OBVIOUS
  <2>3. QED
    BY <1>7, <2>1, <2>2
<1>9. ASSUME IsLoad(q[1]), NEW j \in 1 .. Len(q), f[j] = m PROVE j = 1
  <2>1. j <= 1
    BY <1>2, <1>3, <1>7, <1>9 DEF StepsInOrder
  <2>2. QED
    BY <1>1, <2>1
<1>10. QED
  BY <1>2, <1>3, <1>4, <1>7, <1>8, <1>9

(* The numbers when the first message is taken; a step ends with its load. *)
TakenNumbers(f, r) == [i \in 1 .. Len(r) |-> f[i + 1]]
NextUnhandled(q, f, a, m) == IF Begun(q, f, a) /\ IsLoad(q[1]) THEN m + 1 ELSE m

Taken_(q, f, a, m, n) ==
  LET r == Tail(q)
      g == TakenNumbers(f, r)
      k == NextUnhandled(q, f, a, m)
  IN  /\ Numbers(r, g, a, k, n)
      /\ \A b, x : f[1] # b /\ (\E i \in 1 .. Len(q) : f[i] = b /\ SwitchesOff(q[i], x))
                   => \E i \in 1 .. Len(r) : g[i] = b /\ SwitchesOff(r[i], x)
      /\ ~Begun(q, f, a) \/ IsLoad(q[1]) =>
           \A b \in Int : k <= b /\ b < a => SwitchedOff(r, g, b)
      /\ Begun(q, f, a) /\ ~IsLoad(q[1]) => Begun(r, g, a)

(* The first message, if it is not an expiry, is taken; a step ends with   *)
(* its load.                                                               *)
LEMMA NumbersTaken ==
  ASSUME NEW S, NEW q \in Seq(S), q # <<>>, ~IsExpiry(q[1]),
         NEW f, NEW a, NEW m, NEW n, Numbers(q, f, a, m, n)
  PROVE  Taken_(q, f, a, m, n)
<1> DEFINE r == Tail(q)
           g == TakenNumbers(f, r)
           k == NextUnhandled(q, f, a, m)
<1>1. r = Tail(q) /\ g = TakenNumbers(f, r) /\ k = NextUnhandled(q, f, a, m)
  OBVIOUS
<1> HIDE DEF r, g, k
<1> USE <1>1
<1>2. /\ Len(q) \in Nat /\ Len(r) \in Nat /\ Len(r) = Len(q) - 1 /\ 1 \in 1 .. Len(q)
      /\ \A i \in 1 .. Len(r) : r[i] = q[i + 1]
  BY HeadTailProperties, LenProperties, EmptySeq
<1>3. /\ g = [i \in 1 .. Len(r) |-> f[i + 1]]
      /\ k = IF Begun(q, f, a) /\ IsLoad(q[1]) THEN m + 1 ELSE m
  BY DEF TakenNumbers, NextUnhandled
<1>4. /\ a \in Nat /\ m \in Nat /\ n \in Nat /\ f \in [1 .. Len(q) -> Int]
      /\ m <= a /\ a <= m + MaxTimeouts /\ n <= MaxTimeouts
      /\ Expiries(q, f, a, n) /\ StepsInOrder(q, f, a, m) /\ Waited(q, f, a)
  BY DEF Numbers
<1>5. ASSUME NEW i \in 1 .. Len(r)
      PROVE  i \in Int /\ i + 1 \in 1 .. Len(q) /\ i + 1 # 1 /\ r[i] = q[i + 1] /\ g[i] = f[i + 1] /\ g[i] \in Int
  <2>1. i + 1 \in 1 .. Len(q) /\ i + 1 # 1 /\ i \in Int
    BY <1>2
  <2>2. QED
    BY <1>2, <1>3, <1>4, <2>1
<1>6. ASSUME NEW j \in 1 .. Len(q), j # 1
      PROVE  \E i \in 1 .. Len(r) : i + 1 = j /\ r[i] = q[j] /\ g[i] = f[j]
  <2>1. j - 1 \in 1 .. Len(r) /\ (j - 1) + 1 = j
    BY <1>2, <1>6
  <2>2. r[j - 1] = q[j] /\ g[j - 1] = f[j]
    BY <1>5, <2>1
  <2>3. QED
    BY <2>1, <2>2
<1>7. k \in Nat /\ m <= k /\ k <= a /\ a <= k + MaxTimeouts
  <2>1. CASE Begun(q, f, a) /\ IsLoad(q[1])
    <3>1. m < a /\ k = m + 1
      BY <1>3, <2>1, FirstOfStep
    <3>2. QED
      BY <1>4, <3>1, TimeoutsPositive
  <2>2. CASE ~(Begun(q, f, a) /\ IsLoad(q[1]))
    BY <1>3, <1>4, <2>2
  <2>3. QED
    BY <2>1, <2>2
<1>8. \A i \in 1 .. Len(r) : Posted_(g, a, i) <=> Posted_(f, a, i + 1)
  BY <1>5 DEF Posted_
<1>9. f[1] < a /\ f[1] \in Int
  <2>1. f[1] \in Int /\ ~(a <= f[1])
    BY <1>2, <1>4 DEF Expiries
  <2>2. QED
    BY <1>4, <2>1
<1>10. ASSUME NEW b, NEW x, f[1] # b, \E i \in 1 .. Len(q) : f[i] = b /\ SwitchesOff(q[i], x)
       PROVE  \E i \in 1 .. Len(r) : g[i] = b /\ SwitchesOff(r[i], x)
  <2>1. PICK j \in 1 .. Len(q) : f[j] = b /\ SwitchesOff(q[j], x)
    BY <1>10
  <2>2. j # 1
    BY <1>10, <2>1
  <2>3. QED
    BY <1>6, <2>1, <2>2
<1>11. ASSUME NEW b, f[1] # b, SwitchedOff(q, f, b) PROVE SwitchedOff(r, g, b)
  BY <1>10, <1>11 DEF SwitchedOff
<1>12. Begun(q, f, a) => f[1] = m /\ m < a
  BY FirstOfStep
<1>13. ASSUME Begun(q, f, a), ~IsLoad(q[1]) PROVE Begun(r, g, a)
  <2>1. 2 \in 1 .. Len(q) /\ f[2] = m
    BY <1>13, FirstOfStep
  <2>2. 1 \in 1 .. Len(r) /\ 1 + 1 = 2
    BY <1>2, <2>1
  <2>3. g[1] = m
    BY <1>5, <2>1, <2>2
  <2>4. QED
    BY <1>4, <1>12, <1>13, <2>2, <2>3 DEF Begun, Posted_
<1>14. ASSUME NEW b \in Int, k <= b, b < a, ~Begun(q, f, a) \/ IsLoad(q[1]) \/ b # m
       PROVE  SwitchedOff(r, g, b)
  <2>1. CASE Begun(q, f, a)
    <3>1. f[1] = m /\ b # m
      <4>1. IsLoad(q[1]) => k = m + 1
        BY <1>3, <2>1
      <4>2. IsLoad(q[1]) => b # m
        BY <1>4, <1>14, <4>1
      <4>3. QED
        BY <1>12, <1>14, <2>1, <4>2
    <3>2. m <= b
      BY <1>4, <1>7, <1>14
    <3>3. SwitchedOff(q, f, b)
      BY <1>14, <3>1, <3>2 DEF Numbers
    <3>4. QED
      BY <1>11, <3>1, <3>3
  <2>2. CASE ~Begun(q, f, a)
    <3>1. m <= b
      BY <1>4, <1>7, <1>14
    <3>2. SwitchedOff(q, f, b)
      BY <1>14, <2>2, <3>1 DEF Numbers
    <3>3. f[1] # b
      <4>1. 0 <= b
        BY <1>4, <1>14, <3>1
      <4>2. QED
        BY <1>2, <1>14, <2>2, <4>1 DEF Begun, Posted_
    <3>4. QED
      BY <1>11, <3>2, <3>3
  <2>3. QED
    BY <2>1, <2>2
<1>15. Expiries(r, g, a, n)
  <2>1. \A i \in 1 .. Len(r) : /\ IsExpiry(r[i]) <=> a <= g[i]
                               /\ g[i] < a + n
                               /\ IsExpiry(r[i]) => r[i].to = "lightshow"
    BY <1>4, <1>5 DEF Expiries
  <2>2. ASSUME NEW i \in 1 .. Len(r), NEW j \in 1 .. Len(r), IsExpiry(r[i]), IsExpiry(r[j]), i < j
        PROVE  g[i] < g[j]
    <3>1. i + 1 < j + 1
      BY <1>5, <2>2
    <3>2. QED
      BY <1>4, <1>5, <2>2, <3>1 DEF Expiries
  <2>3. ASSUME NEW b \in Int, a <= b, b < a + n
        PROVE  \E i \in 1 .. Len(r) : IsExpiry(r[i]) /\ g[i] = b
    <3>1. PICK j \in 1 .. Len(q) : IsExpiry(q[j]) /\ f[j] = b
      BY <1>4, <2>3 DEF Expiries
    <3>2. QED
      BY <1>6, <3>1
  <2>4. QED
    BY <2>1, <2>2, <2>3 DEF Expiries
<1>16. StepsInOrder(r, g, a, k)
  <2>1. ASSUME NEW i \in 1 .. Len(r), Posted_(g, a, i)
        PROVE  k <= g[i] /\ OfStep(r[i], g[i] % 256)
    <3>1. m <= f[i + 1] /\ OfStep(q[i + 1], f[i + 1] % 256)
      BY <1>4, <1>5, <1>8, <2>1 DEF StepsInOrder
    <3>2. Begun(q, f, a) /\ IsLoad(q[1]) => f[i + 1] # m
      BY <1>5, FirstOfStep
    <3>3. k <= f[i + 1]
      <4>1. f[i + 1] \in Int /\ k \in {m, m + 1}
        BY <1>3, <1>4, <1>5
      <4>2. k = m + 1 => f[i + 1] # m
        BY <1>3, <1>4, <3>2
      <4>3. QED
        BY <1>4, <3>1, <4>1, <4>2
    <3>4. QED
      BY <1>5, <3>1, <3>3
  <2>2. ASSUME NEW i \in 1 .. Len(r), NEW j \in 1 .. Len(r), Posted_(g, a, i), Posted_(g, a, j), i < j
        PROVE  g[i] <= g[j]
    <3>1. i + 1 < j + 1
      BY <1>5, <2>2
    <3>2. QED
      BY <1>4, <1>5, <1>8, <2>2, <3>1 DEF StepsInOrder
  <2>3. ASSUME NEW i \in 1 .. Len(r), Posted_(g, a, i), ~IsLoad(r[i])
        PROVE  i + 1 \in 1 .. Len(r) /\ g[i + 1] = g[i]
    <3>1. (i + 1) + 1 \in 1 .. Len(q) /\ f[(i + 1) + 1] = f[i + 1]
      BY <1>4, <1>5, <1>8, <2>3 DEF StepsInOrder
    <3>2. i + 1 \in 1 .. Len(r)
      BY <1>2, <1>5, <3>1
    <3>3. QED
      BY <1>5, <3>1, <3>2
  <2>4. ASSUME NEW i \in 1 .. Len(r), NEW j \in 1 .. Len(r), Posted_(g, a, i), IsLoad(r[i]), g[j] = g[i]
        PROVE  j <= i
    <3>1. j + 1 <= i + 1
      BY <1>4, <1>5, <1>8, <2>4 DEF StepsInOrder
    <3>2. QED
      BY <1>5, <3>1
  <2>5. ASSUME NEW b \in Int, k <= b, b < a
        PROVE  \E i \in 1 .. Len(r) : IsLoad(r[i]) /\ g[i] = b
    <3>1. m <= b /\ 0 <= b
      BY <1>4, <1>7, <2>5
    <3>2. PICK j \in 1 .. Len(q) : IsLoad(q[j]) /\ f[j] = b
      BY <1>4, <2>5, <3>1 DEF StepsInOrder
    <3>3. j # 1
      <4>1. SUFFICES ASSUME j = 1 PROVE FALSE
        OBVIOUS
      <4>2. Begun(q, f, a)
        BY <1>2, <2>5, <3>1, <3>2, <4>1 DEF Begun, Posted_
      <4>3. k = m + 1 /\ b = m
        BY <1>3, <1>12, <3>2, <4>1, <4>2
      <4>4. QED
        BY <1>4, <2>5, <4>3
    <3>4. QED
      BY <1>6, <3>2, <3>3
  <2>6. ASSUME NEW i \in 1 .. Len(r), IsDecklight(r[i]) PROVE Posted_(g, a, i)
    BY <1>4, <1>5, <1>8, <2>6 DEF StepsInOrder
  <2>7. QED
    BY <2>1, <2>2, <2>3, <2>4, <2>5, <2>6 DEF StepsInOrder
<1>17. Waited(r, g, a)
  <2> SUFFICES ASSUME NEW i \in 1 .. Len(r), NEW j \in 1 .. Len(r),
                      i < j, IsExpiry(r[i]), Posted_(g, a, j)
               PROVE  g[i] < g[j] + MaxTimeouts
    BY DEF Waited
  <2>1. i + 1 < j + 1
    BY <1>5
  <2>2. QED
    BY <1>4, <1>5, <1>8, <2>1 DEF Waited
<1>18. ASSUME NEW b \in Int, k <= b, b < a, b = k => ~Begun(r, g, a)
       PROVE  SwitchedOff(r, g, b)
  <2>1. ~Begun(q, f, a) \/ IsLoad(q[1]) \/ b # m
    BY <1>3, <1>13, <1>18
  <2>2. QED
    BY <1>14, <1>18, <2>1
<1>19. Numbers(r, g, a, k, n)
  <2>1. g \in [1 .. Len(r) -> Int]
    BY <1>3, <1>4, <1>5
  <2>2. QED
    BY <1>4, <1>7, <1>15, <1>16, <1>17, <1>18, <2>1 DEF Numbers
<1>20. QED
  BY <1>10, <1>13, <1>14, <1>19 DEF Taken_, r, g, k

(* The messages of step b.                                                 *)
IsStep(s, b) ==
  /\ 1 \in 1 .. Len(s)
  /\ \A i \in 1 .. Len(s) : OfStep(s[i], b % 256) /\ (IsLoad(s[i]) <=> i = Len(s))
  /\ \A x \in Shown((b - 1) % 256) \ Shown(b % 256) : \E i \in 1 .. Len(s) : SwitchesOff(s[i], x)

LEMMA NotAnExpiry ==
  ASSUME NEW x, NEW c, OfStep(x, c)
  PROVE  ~IsExpiry(x)
BY DEF OfStep, StepTypes, IsExpiry

(* The first message is an expiry: it is taken, and the messages of step a *)
(* are posted.                                                             *)
LEMMA NumbersStep ==
  ASSUME NEW S, NEW q \in Seq(S), q # <<>>, NEW s \in Seq(S), NEW r, r = Tail(q) \o s,
         NEW f, NEW a, NEW m, NEW n, Numbers(q, f, a, m, n), IsExpiry(q[1]), IsStep(s, a)
  PROVE  \E g : /\ Numbers(r, g, a + 1, m, n - 1)
                /\ \A b \in Int : m <= b /\ b < a + 1 => SwitchedOff(r, g, b)
                /\ ~Begun(q, f, a)
<1> DEFINE l == Len(q) - 1
           g == [i \in 1 .. Len(r) |-> IF i <= l THEN f[i + 1] ELSE a]
<1> HIDE DEF g
<1>1. /\ Len(q) \in Nat /\ l \in Nat /\ Len(s) \in Nat /\ Len(r) = l + Len(s) /\ 1 \in 1 .. Len(q)
      /\ \A i \in 1 .. l : r[i] = q[i + 1]
      /\ \A i \in 1 .. Len(s) : r[l + i] = s[i]
  <2>1. /\ Tail(q) \in Seq(S) /\ Len(Tail(q)) = l /\ Len(q) \in Nat /\ l \in Nat /\ Len(s) \in Nat
        /\ \A i \in 1 .. l : Tail(q)[i] = q[i + 1]
    BY HeadTailProperties, LenProperties, EmptySeq
  <2>2. /\ Len(r) = l + Len(s)
        /\ \A i \in 1 .. l + Len(s) : r[i] = IF i <= l THEN Tail(q)[i] ELSE s[i - l]
    BY <2>1, ConcatProperties
  <2>3. ASSUME NEW i \in 1 .. l PROVE r[i] = q[i + 1]
    <3>1. i \in 1 .. l + Len(s) /\ i <= l
      BY <2>1
    <3>2. QED
      BY <2>1, <2>2, <3>1
  <2>4. ASSUME NEW i \in 1 .. Len(s) PROVE r[l + i] = s[i]
    <3>1. l + i \in 1 .. l + Len(s) /\ ~(l + i <= l) /\ (l + i) - l = i
      BY <2>1
    <3>2. QED
      BY <2>2, <3>1
  <2>5. QED
    BY <2>1, <2>2, <2>3, <2>4
<1>2. /\ a \in Nat /\ m \in Nat /\ n \in Nat /\ f \in [1 .. Len(q) -> Int]
      /\ m <= a /\ a <= m + MaxTimeouts /\ n <= MaxTimeouts
      /\ Expiries(q, f, a, n) /\ StepsInOrder(q, f, a, m) /\ Waited(q, f, a)
  BY DEF Numbers
<1>3. ASSUME NEW i \in 1 .. l
      PROVE  i \in 1 .. Len(r) /\ i \in Int /\ i + 1 \in 1 .. Len(q) /\ i + 1 # 1
             /\ r[i] = q[i + 1] /\ g[i] = f[i + 1] /\ g[i] \in Int
  <2>1. i \in 1 .. Len(r) /\ i \in Int /\ i + 1 \in 1 .. Len(q) /\ i + 1 # 1 /\ i <= l
    BY <1>1
  <2>2. QED
    BY <1>1, <1>2, <2>1 DEF g
<1>4. ASSUME NEW j \in 1 .. Len(q), j # 1
      PROVE  \E i \in 1 .. l : i + 1 = j /\ r[i] = q[j] /\ g[i] = f[j]
  <2>1. j - 1 \in 1 .. l /\ (j - 1) + 1 = j
    BY <1>1, <1>4
  <2>2. QED
    BY <1>3, <2>1
<1>5. ASSUME NEW i \in 1 .. Len(s)
      PROVE  l + i \in 1 .. Len(r) /\ l + i \notin 1 .. l /\ r[l + i] = s[i] /\ g[l + i] = a
  <2>1. l + i \in 1 .. Len(r) /\ l + i \notin 1 .. l /\ ~(l + i <= l)
    BY <1>1
  <2>2. QED
    BY <1>1, <2>1 DEF g
<1>6. ASSUME NEW i \in 1 .. Len(r), i \notin 1 .. l
      PROVE  i \in Int /\ l < i /\ \E j \in 1 .. Len(s) : i = l + j /\ r[i] = s[j] /\ g[i] = a
  <2>1. i - l \in 1 .. Len(s) /\ i = l + (i - l) /\ i \in Int /\ l < i
    BY <1>1, <1>6
  <2>2. QED
    BY <1>5, <2>1
<1> HIDE DEF l
<1>7. ASSUME NEW i \in 1 .. Len(s)
      PROVE  /\ OfStep(s[i], a % 256)
             /\ IsLoad(s[i]) => i = Len(s)
             /\ i = Len(s) => IsLoad(s[i])
  BY DEF IsStep
<1>8. \A i \in 1 .. Len(q) : IsExpiry(q[i]) => a <= f[i] /\ f[i] < a + n /\ q[i].to = "lightshow"
  BY <1>2 DEF Expiries
<1>9. \A i \in 1 .. Len(q) : a <= f[i] => IsExpiry(q[i])
  BY <1>2 DEF Expiries
<1>10. f[1] = a /\ 0 < n
  <2>1. a <= f[1] /\ f[1] < a + n /\ f[1] \in Int
    BY <1>1, <1>2, <1>8
  <2>2. a \in Int /\ a <= a /\ a < a + n
    BY <1>2, <2>1
  <2>3. PICK i \in 1 .. Len(q) : IsExpiry(q[i]) /\ f[i] = a
    BY <1>2, <2>2 DEF Expiries
  <2>4. i = 1 \/ 1 < i
    BY <1>1
  <2>5. 1 < i => f[1] < f[i]
    BY <1>1, <1>2, <2>3 DEF Expiries
  <2>6. QED
    BY <1>2, <2>1, <2>3, <2>4, <2>5
<1>11. \A i \in 1 .. Len(q) : i # 1 /\ a <= f[i] => a + 1 <= f[i]
  <2> SUFFICES ASSUME NEW i \in 1 .. Len(q), i # 1, a <= f[i] PROVE a + 1 <= f[i]
    OBVIOUS
  <2>1. 1 < i
    BY <1>1
  <2>2. f[1] < f[i]
    BY <1>1, <1>2, <1>9, <2>1 DEF Expiries
  <2>3. f[i] \in Int /\ a < f[i]
    BY <1>2, <1>10, <2>2
  <2>4. QED
    BY <1>2, <2>3
<1>12. ~Begun(q, f, a)
  BY <1>2, <1>10 DEF Begun, Posted_
<1>13. ASSUME NEW i \in 1 .. l
       PROVE  /\ Posted_(g, a + 1, i) => Posted_(f, a, i + 1)
              /\ Posted_(f, a, i + 1) => Posted_(g, a + 1, i)
              /\ Posted_(g, a + 1, i) => g[i] < a
  <2>1. g[i] = f[i + 1] /\ i + 1 \in 1 .. Len(q) /\ i + 1 # 1 /\ f[i + 1] \in Int
    BY <1>2, <1>3
  <2>2. a <= f[i + 1] => a + 1 <= f[i + 1]
    BY <1>11, <2>1
  <2>3. QED
    BY <1>2, <2>1, <2>2 DEF Posted_
<1>14. Expiries(r, g, a + 1, n - 1)
  <2>1. ASSUME NEW i \in 1 .. Len(r)
        PROVE  /\ IsExpiry(r[i]) <=> a + 1 <= g[i]
               /\ g[i] < (a + 1) + (n - 1)
               /\ IsExpiry(r[i]) => r[i].to = "lightshow"
               /\ IsExpiry(r[i]) => i \in 1 .. l
    <3>1. CASE i \in 1 .. l
      <4>1. r[i] = q[i + 1] /\ g[i] = f[i + 1] /\ i + 1 \in 1 .. Len(q) /\ i + 1 # 1 /\ g[i] \in Int
        BY <1>3, <3>1
      <4>2. IsExpiry(q[i + 1]) => a + 1 <= f[i + 1]
        BY <1>8, <1>11, <4>1
      <4>3. a + 1 <= f[i + 1] => IsExpiry(q[i + 1])
        BY <1>2, <1>9, <4>1
      <4>4. f[i + 1] < a + n
        BY <1>2, <4>1 DEF Expiries
      <4>5. g[i] < (a + 1) + (n - 1)
        BY <1>2, <4>1, <4>4
      <4>6. QED
        BY <1>8, <3>1, <4>1, <4>2, <4>3, <4>5
    <3>2. CASE i \notin 1 .. l
      <4>1. PICK j \in 1 .. Len(s) : r[i] = s[j] /\ g[i] = a
        BY <1>6, <3>2
      <4>2. ~IsExpiry(r[i])
        BY <1>7, <4>1, NotAnExpiry
      <4>3. ~(a + 1 <= g[i]) /\ g[i] < (a + 1) + (n - 1)
        BY <1>2, <1>10, <4>1
      <4>4. QED
        BY <4>2, <4>3
    <3>3. QED
      BY <3>1, <3>2
  <2>2. ASSUME NEW i \in 1 .. Len(r), NEW j \in 1 .. Len(r), IsExpiry(r[i]), IsExpiry(r[j]), i < j
        PROVE  g[i] < g[j]
    <3>1. i \in 1 .. l /\ j \in 1 .. l
      BY <2>1, <2>2
    <3>2. i + 1 < j + 1
      BY <1>3, <2>2, <3>1
    <3>3. QED
      BY <1>2, <1>3, <2>2, <3>1, <3>2 DEF Expiries
  <2>3. ASSUME NEW b \in Int, a + 1 <= b, b < (a + 1) + (n - 1)
        PROVE  \E i \in 1 .. Len(r) : IsExpiry(r[i]) /\ g[i] = b
    <3>1. a <= b /\ b < a + n /\ b # a
      BY <1>2, <2>3
    <3>2. PICK j \in 1 .. Len(q) : IsExpiry(q[j]) /\ f[j] = b
      BY <1>2, <3>1 DEF Expiries
    <3>3. j # 1
      BY <1>10, <3>1, <3>2
    <3>4. QED
      BY <1>3, <1>4, <3>2, <3>3
  <2>4. QED
    BY <2>1, <2>2, <2>3 DEF Expiries
<1>15. StepsInOrder(r, g, a + 1, m)
  <2>1. ASSUME NEW i \in 1 .. Len(r), Posted_(g, a + 1, i)
        PROVE  m <= g[i] /\ OfStep(r[i], g[i] % 256)
    <3>1. CASE i \in 1 .. l
      BY <1>2, <1>3, <1>13, <2>1, <3>1 DEF StepsInOrder
    <3>2. CASE i \notin 1 .. l
      <4>1. PICK j \in 1 .. Len(s) : r[i] = s[j] /\ g[i] = a
        BY <1>6, <3>2
      <4>2. QED
        BY <1>2, <1>7, <4>1
    <3>3. QED
      BY <3>1, <3>2
  <2>2. ASSUME NEW i \in 1 .. Len(r), NEW j \in 1 .. Len(r),
               Posted_(g, a + 1, i), Posted_(g, a + 1, j), i < j
        PROVE  g[i] <= g[j]
    <3>1. CASE j \in 1 .. l
      <4>1. i \in 1 .. l
        BY <1>1, <1>3, <1>6, <2>2, <3>1
      <4>2. i + 1 < j + 1
        BY <1>3, <2>2, <3>1, <4>1
      <4>3. Posted_(f, a, i + 1) /\ Posted_(f, a, j + 1)
        BY <1>13, <2>2, <3>1, <4>1
      <4>4. i + 1 \in 1 .. Len(q) /\ j + 1 \in 1 .. Len(q) /\ g[i] = f[i + 1] /\ g[j] = f[j + 1]
        BY <1>3, <3>1, <4>1
      <4>5. f[i + 1] <= f[j + 1]
        BY <1>2, <4>2, <4>3, <4>4 DEF StepsInOrder
      <4>6. QED
        BY <4>4, <4>5
    <3>2. CASE j \notin 1 .. l
      <4>1. g[j] = a
        BY <1>6, <3>2
      <4>2. g[i] = a \/ (g[i] \in Int /\ g[i] < a)
        BY <1>3, <1>6, <1>13, <2>2
      <4>3. QED
        BY <1>2, <4>1, <4>2
    <3>3. QED
      BY <3>1, <3>2
  <2>3. ASSUME NEW i \in 1 .. Len(r), Posted_(g, a + 1, i), ~IsLoad(r[i])
        PROVE  i + 1 \in 1 .. Len(r) /\ g[i + 1] = g[i]
    <3>1. CASE i \in 1 .. l
      <4>1. (i + 1) + 1 \in 1 .. Len(q) /\ f[(i + 1) + 1] = f[i + 1]
        BY <1>2, <1>3, <1>13, <2>3, <3>1 DEF StepsInOrder
      <4>2. i + 1 \in 1 .. l
        BY <1>1, <1>3, <3>1, <4>1 DEF l
      <4>3. QED
        BY <1>3, <3>1, <4>1, <4>2
    <3>2. CASE i \notin 1 .. l
      <4>1. PICK j \in 1 .. Len(s) : i = l + j /\ r[i] = s[j] /\ g[i] = a
        BY <1>6, <3>2
      <4>2. j # Len(s)
        BY <1>7, <2>3, <4>1
      <4>3. j + 1 \in 1 .. Len(s) /\ l + (j + 1) = i + 1
        BY <1>1, <4>1, <4>2
      <4>4. QED
        BY <1>5, <4>1, <4>3
    <3>3. QED
      BY <3>1, <3>2
  <2>4. ASSUME NEW i \in 1 .. Len(r), NEW j \in 1 .. Len(r),
               Posted_(g, a + 1, i), IsLoad(r[i]), g[j] = g[i]
        PROVE  j <= i
    <3>1. CASE i \in 1 .. l
      <4>1. g[i] < a /\ g[i] \in Int
        BY <1>3, <1>13, <2>4, <3>1
      <4>2. j \in 1 .. l
        BY <1>2, <1>6, <2>4, <4>1
      <4>3. j + 1 <= i + 1
        BY <1>2, <1>3, <1>13, <2>4, <3>1, <4>2 DEF StepsInOrder
      <4>4. QED
        BY <1>3, <3>1, <4>2, <4>3
    <3>2. CASE i \notin 1 .. l
      <4>1. PICK k \in 1 .. Len(s) : i = l + k /\ r[i] = s[k]
        BY <1>6, <3>2
      <4>2. k = Len(s)
        BY <1>7, <2>4, <4>1
      <4>3. QED
        BY <1>1, <4>1, <4>2
    <3>3. QED
      BY <3>1, <3>2
  <2>5. ASSUME NEW b \in Int, m <= b, b < a + 1
        PROVE  \E i \in 1 .. Len(r) : IsLoad(r[i]) /\ g[i] = b
    <3>1. CASE b < a
      <4>1. PICK j \in 1 .. Len(q) : IsLoad(q[j]) /\ f[j] = b
        BY <1>2, <2>5, <3>1 DEF StepsInOrder
      <4>2. j # 1
        BY <1>2, <1>10, <3>1, <4>1
      <4>3. QED
        BY <1>3, <1>4, <4>1, <4>2
    <3>2. CASE ~(b < a)
      <4>1. b = a
        BY <1>2, <2>5, <3>2
      <4>2. Len(s) \in 1 .. Len(s)
        BY <1>1 DEF IsStep
      <4>3. QED
        BY <1>5, <1>7, <4>1, <4>2
    <3>3. QED
      BY <3>1, <3>2
  <2>6. ASSUME NEW i \in 1 .. Len(r), IsDecklight(r[i]) PROVE Posted_(g, a + 1, i)
    <3>1. CASE i \in 1 .. l
      BY <1>2, <1>3, <1>13, <2>6, <3>1 DEF StepsInOrder
    <3>2. CASE i \notin 1 .. l
      <4>1. g[i] = a
        BY <1>6, <3>2
      <4>2. QED
        BY <1>2, <4>1 DEF Posted_
    <3>3. QED
      BY <3>1, <3>2
  <2>7. QED
    BY <2>1, <2>2, <2>3, <2>4, <2>5, <2>6 DEF StepsInOrder
<1>16. Waited(r, g, a + 1)
  <2> SUFFICES ASSUME NEW i \in 1 .. Len(r), NEW j \in 1 .. Len(r),
                      i < j, IsExpiry(r[i]), Posted_(g, a + 1, j)
               PROVE  g[i] < g[j] + MaxTimeouts
    BY DEF Waited
  <2>1. i \in 1 .. l
    <3>1. SUFFICES ASSUME i \notin 1 .. l PROVE FALSE
      OBVIOUS
    <3>2. QED
      BY <1>6, <1>7, <3>1, NotAnExpiry
  <2>2. IsExpiry(q[i + 1]) /\ g[i] = f[i + 1] /\ i + 1 \in 1 .. Len(q) /\ g[i] \in Int
    BY <1>3, <2>1
  <2>3. CASE j \in 1 .. l
    <3>1. i + 1 < j + 1
      BY <1>3, <2>1, <2>3
    <3>2. QED
      BY <1>2, <1>3, <1>13, <2>2, <2>3, <3>1 DEF Waited
  <2>4. CASE j \notin 1 .. l
    <3>1. g[j] = a
      BY <1>6, <2>4
    <3>2. f[i + 1] < a + n
      BY <1>8, <2>2
    <3>3. QED
      BY <1>2, <2>2, <3>1, <3>2, TimeoutsPositive
  <2>5. QED
    BY <2>3, <2>4
<1>17. a + 1 <= m + MaxTimeouts
  <2>1. CASE m < a
    <3>1. PICK j \in 1 .. Len(q) : IsLoad(q[j]) /\ f[j] = m
      BY <1>2, <2>1 DEF StepsInOrder
    <3>2. j # 1
      BY <1>2, <1>10, <2>1, <3>1
    <3>3. 1 < j
      BY <1>1, <3>2
    <3>4. Posted_(f, a, j)
      BY <1>2, <2>1, <3>1 DEF Posted_
    <3>5. f[1] < f[j] + MaxTimeouts
      BY <1>1, <1>2, <3>3, <3>4 DEF Waited
    <3>6. QED
      BY <1>2, <1>10, <3>1, <3>5, TimeoutsPositive
  <2>2. CASE ~(m < a)
    BY <1>2, <2>2, TimeoutsPositive
  <2>3. QED
    BY <2>1, <2>2
<1>18. ASSUME NEW b \in Int, m <= b, b < a + 1 PROVE SwitchedOff(r, g, b)
  <2>1. CASE b < a
    <3>1. SwitchedOff(q, f, b)
      BY <1>12, <1>18, <2>1 DEF Numbers
    <3>2. ASSUME NEW x \in Shown((b - 1) % 256) \ Shown(b % 256)
          PROVE  \E i \in 1 .. Len(r) : g[i] = b /\ SwitchesOff(r[i], x)
      <4>1. PICK j \in 1 .. Len(q) : f[j] = b /\ SwitchesOff(q[j], x)
        BY <3>1, <3>2 DEF SwitchedOff
      <4>2. b # a
        BY <1>2, <2>1
      <4>3. j # 1
        BY <1>10, <4>1, <4>2
      <4>4. QED
        BY <1>3, <1>4, <4>1, <4>3
    <3>3. QED
      BY <3>2 DEF SwitchedOff
  <2>2. CASE ~(b < a)
    <3>1. b = a
      BY <1>2, <1>18, <2>2
    <3>2. ASSUME NEW x \in Shown((b - 1) % 256) \ Shown(b % 256)
          PROVE  \E i \in 1 .. Len(r) : g[i] = b /\ SwitchesOff(r[i], x)
      <4>1. PICK j \in 1 .. Len(s) : SwitchesOff(s[j], x)
        BY <3>1, <3>2 DEF IsStep
      <4>2. QED
        BY <1>5, <3>1, <4>1
    <3>3. QED
      BY <3>2 DEF SwitchedOff
  <2>3. QED
    BY <2>1, <2>2
<1>19. Numbers(r, g, a + 1, m, n - 1)
  <2>1. g \in [1 .. Len(r) -> Int]
    <3>1. \A i \in 1 .. Len(r) : g[i] \in Int
      <4> SUFFICES ASSUME NEW i \in 1 .. Len(r) PROVE g[i] \in Int
        OBVIOUS
      <4>1. CASE i \in 1 .. l
        BY <1>3, <4>1
      <4>2. CASE i \notin 1 .. l
        <5>1. g[i] = a
          BY <1>6, <4>2
        <5>2. QED
          BY <1>2, <5>1
      <4>3. QED
        BY <4>1, <4>2
    <3>2. g = [i \in 1 .. Len(r) |-> g[i]]
      BY DEF g
    <3>3. QED
      BY <3>1, <3>2
  <2>2. a + 1 \in Nat /\ n - 1 \in Nat /\ m <= a + 1 /\ n - 1 <= MaxTimeouts
    BY <1>2, <1>10, TimeoutsPositive
  <2>3. QED
    BY <1>2, <1>14, <1>15, <1>16, <1>17, <1>18, <2>1, <2>2 DEF Numbers
<1>20. QED
  BY <1>12, <1>18, <1>19

-----------------------------------------------------------------------------
(* The messages of a step of the deck lights.                              *)
Among(s, c) == \A i \in 1 .. Len(s) : OfStep(s[i], c) /\ ~IsLoad(s[i])
Off_(s, x) == \E i \in 1 .. Len(s) : SwitchesOff(s[i], x)

LEMMA Joined ==
  ASSUME NEW S, NEW s \in Seq(S), NEW t \in Seq(S), NEW r, r = s \o t
  PROVE  /\ r \in Seq(S)
         /\ \A c : Among(s, c) /\ Among(t, c) => Among(r, c)
         /\ \A x : Off_(s, x) => Off_(r, x)
<1>1. /\ r \in Seq(S) /\ Len(s) \in Nat /\ Len(t) \in Nat /\ Len(r) = Len(s) + Len(t)
      /\ \A i \in 1 .. Len(s) + Len(t) : r[i] = IF i <= Len(s) THEN s[i] ELSE t[i - Len(s)]
  BY ConcatProperties, LenProperties
<1>2. ASSUME NEW i \in 1 .. Len(s) PROVE i \in 1 .. Len(r) /\ r[i] = s[i]
  <2>1. i \in 1 .. Len(s) + Len(t) /\ i <= Len(s)
    BY <1>1
  <2>2. QED
    BY <1>1, <2>1
<1>3. ASSUME NEW i \in 1 .. Len(r), i \notin 1 .. Len(s)
      PROVE  \E j \in 1 .. Len(t) : r[i] = t[j]
  <2>1. i \in 1 .. Len(s) + Len(t) /\ ~(i <= Len(s)) /\ i - Len(s) \in 1 .. Len(t)
    BY <1>1, <1>3
  <2>2. QED
    BY <1>1, <2>1
<1>4. ASSUME NEW c, Among(s, c), Among(t, c) PROVE Among(r, c)
  BY <1>2, <1>3, <1>4 DEF Among
<1>5. ASSUME NEW x, Off_(s, x) PROVE Off_(r, x)
  BY <1>2, <1>5 DEF Off_
<1>6. QED
  BY <1>1, <1>4, <1>5

LEMMA TheU ==
  U[1] = 2 /\ U[2] = 3 /\ U[3] = 4 /\ U[4] = 5 /\ U[5] = 6 /\ U[6] = 1
BY DEF U

LEMMA Switched ==
  ASSUME NEW x \in 1 .. 6, NEW c
  PROVE  /\ OfStep(Off(x), c) /\ ~IsLoad(Off(x)) /\ SwitchesOff(Off(x), x)
         /\ x = Shining(c) => OfStep(On(x), c) /\ ~IsLoad(On(x))
         /\ Off(x) \in Mail /\ On(x) \in Mail
  BY DEF OfStep, IsDecklight, IsLoad, SwitchesOff, StepTypes, Off, On, Setting, Message, Mail

(* The light that was lit by the step before is switched off.              *)
LEMMA TwoLights ==
  ASSUME NEW x \in 1 .. 6, NEW y \in 1 .. 6, NEW c, y = Shining(c), NEW s, s = <<Off(x), On(y)>>
  PROVE  Among(s, c) /\ Off_(s, x)
<1>1. /\ OfStep(Off(x), c) /\ ~IsLoad(Off(x)) /\ SwitchesOff(Off(x), x)
      /\ OfStep(On(y), c) /\ ~IsLoad(On(y))
  BY Switched
<1> DEFINE o == Off(x)
           p == On(y)
<1> HIDE DEF o, p
<1>2. s = <<o, p>>
  BY DEF o, p
<1>3. Len(s) = 2 /\ s[1] = o /\ s[2] = p
  BY <1>2
<1>4. \A i \in 1 .. Len(s) : i = 1 \/ i = 2
  BY <1>3
<1>5. 1 \in 1 .. Len(s)
  BY <1>3
<1>6. QED
  BY <1>1, <1>3, <1>4, <1>5 DEF Among, Off_, o, p

LEMMA ThreeLights ==
  ASSUME NEW x \in 1 .. 6, NEW y \in 1 .. 6, NEW z \in 1 .. 6, NEW c, y = Shining(c),
         NEW s, s = <<Off(x), On(y), Off(z)>>
  PROVE  Among(s, c) /\ Off_(s, x) /\ Off_(s, z)
<1>1. /\ OfStep(Off(x), c) /\ ~IsLoad(Off(x)) /\ SwitchesOff(Off(x), x)
      /\ OfStep(On(y), c) /\ ~IsLoad(On(y))
      /\ OfStep(Off(z), c) /\ ~IsLoad(Off(z)) /\ SwitchesOff(Off(z), z)
  BY Switched
<1> DEFINE o == Off(x)
           p == On(y)
           n == Off(z)
<1> HIDE DEF o, p, n
<1>2. s = <<o, p, n>>
  BY DEF o, p, n
<1>3. Len(s) = 3 /\ s[1] = o /\ s[2] = p /\ s[3] = n
  BY <1>2
<1>4. \A i \in 1 .. Len(s) : i = 1 \/ i = 2 \/ i = 3
  BY <1>3
<1>5. 1 \in 1 .. Len(s) /\ 3 \in 1 .. Len(s)
  BY <1>3
<1>6. QED
  BY <1>1, <1>3, <1>4, <1>5 DEF Among, Off_, o, p, n

(* The step after step p.                                                  *)
LEMMA DecklightStep ==
  ASSUME NEW c \in 0 .. 255, NEW p, p = IF c = 0 THEN 255 ELSE c - 1
  PROVE  /\ Among(Decklights(c), c)
         /\ \A x \in Shown(p) \ Shown(c) : Off_(Decklights(c), x)
<1> DEFINE k == Turn(c)
           h == Turn(p)
           s == Decklights(c)
<1>1. /\ k \in 0 .. 5 /\ h \in 0 .. 5
      /\ k = 0 => c = 0 \/ h = 1
      /\ k = 1 => h = 0 \/ h = 2
      /\ k = 2 => h = 1 \/ h = 3
      /\ k = 3 => h = 2 \/ h = 4
      /\ k = 4 => h = 3 \/ h = 5
      /\ k = 5 => h = 4
      /\ c = 0 => h = 5 /\ k = 0
      /\ p <= 3 /\ ~(c <= 3) => k = 4
  BY DEF Turn
<1>2. 1 \in 1 .. 6 /\ 2 \in 1 .. 6 /\ 3 \in 1 .. 6 /\ 4 \in 1 .. 6 /\ 5 \in 1 .. 6 /\ 6 \in 1 .. 6
  OBVIOUS
<1>3. s = CASE k = 0 -> <<Off(U[2]), On(U[1])>>
            [] k = 5 -> <<Off(U[5]), On(U[6])>>
            [] OTHER -> <<Off(U[k]), On(U[k + 1]), Off(U[k + 2])>>
  BY DEF Decklights, Turn
<1>4. Shining(c) = U[k + 1] /\ Shining(p) = U[h + 1]
  BY DEF Shining
<1>5. /\ Shown(p) = {U[h + 1]} \cup (IF p <= 3 THEN {1} ELSE {})
      /\ Shown(c) = {U[k + 1]} \cup (IF c <= 3 THEN {1} ELSE {})
  BY <1>4 DEF Shown
<1> HIDE DEF k, h, s
<1>6. CASE k = 0
  <2>1. s = <<Off(3), On(2)>> /\ Shining(c) = 2
    BY <1>3, <1>4, <1>6, TheU
  <2>2. Among(s, c) /\ Off_(s, 3)
    BY <2>1, TwoLights
  <2>3. Shown(p) \ Shown(c) \subseteq {3}
    <3>1. CASE c = 0
      <4>1. p = 255 /\ h = 5
        BY <1>1, <3>1
      <4>2. Shown(p) = {1} /\ 1 \in Shown(c)
        BY <1>5, <3>1, <4>1, TheU
      <4>3. QED
        BY <4>2
    <3>2. CASE c # 0
      <4>1. U[h + 1] = 3 /\ (p <= 3 => c <= 3)
        BY <1>1, <1>6, <3>2, TheU
      <4>2. QED
        BY <1>5, <4>1
    <3>3. QED
      BY <3>1, <3>2
  <2>4. QED
    BY <2>2, <2>3 DEF s
<1>7. CASE k = 5
  <2>1. s = <<Off(6), On(1)>> /\ Shining(c) = 1
    BY <1>3, <1>4, <1>7, TheU
  <2>2. Among(s, c) /\ Off_(s, 6)
    BY <2>1, TwoLights
  <2>3. U[h + 1] = 6 /\ (p <= 3 => c <= 3)
    BY <1>1, <1>7, TheU
  <2>4. Shown(p) \ Shown(c) \subseteq {6}
    BY <1>5, <2>3
  <2>5. QED
    BY <2>2, <2>4 DEF s
<1>8. CASE k = 1
  <2>1. s = <<Off(2), On(3), Off(4)>> /\ Shining(c) = 3
    BY <1>3, <1>4, <1>8, TheU
  <2>2. Among(s, c) /\ Off_(s, 2) /\ Off_(s, 4)
    BY <1>2, <2>1, ThreeLights
  <2>3. (U[h + 1] = 2 \/ U[h + 1] = 4) /\ (p <= 3 => c <= 3)
    BY <1>1, <1>8, TheU
  <2>4. Shown(p) \ Shown(c) \subseteq {2, 4}
    BY <1>5, <2>3
  <2>5. QED
    BY <2>2, <2>4 DEF s
<1>9. CASE k = 2
  <2>1. s = <<Off(3), On(4), Off(5)>> /\ Shining(c) = 4
    BY <1>3, <1>4, <1>9, TheU
  <2>2. Among(s, c) /\ Off_(s, 3) /\ Off_(s, 5)
    BY <1>2, <2>1, ThreeLights
  <2>3. (U[h + 1] = 3 \/ U[h + 1] = 5) /\ (p <= 3 => c <= 3)
    BY <1>1, <1>9, TheU
  <2>4. Shown(p) \ Shown(c) \subseteq {3, 5}
    BY <1>5, <2>3
  <2>5. QED
    BY <2>2, <2>4 DEF s
<1>10. CASE k = 3
  <2>1. s = <<Off(4), On(5), Off(6)>> /\ Shining(c) = 5
    BY <1>3, <1>4, <1>10, TheU
  <2>2. Among(s, c) /\ Off_(s, 4) /\ Off_(s, 6)
    BY <1>2, <2>1, ThreeLights
  <2>3. (U[h + 1] = 4 \/ U[h + 1] = 6) /\ (p <= 3 => c <= 3)
    BY <1>1, <1>10, TheU
  <2>4. Shown(p) \ Shown(c) \subseteq {4, 6}
    BY <1>5, <2>3
  <2>5. QED
    BY <2>2, <2>4 DEF s
<1>11. CASE k = 4
  <2>1. s = <<Off(5), On(6), Off(1)>> /\ Shining(c) = 6
    BY <1>3, <1>4, <1>11, TheU
  <2>2. Among(s, c) /\ Off_(s, 5) /\ Off_(s, 1)
    BY <1>2, <2>1, ThreeLights
  <2>3. U[h + 1] = 5 \/ U[h + 1] = 1
    BY <1>1, <1>11, TheU
  <2>4. Shown(p) \ Shown(c) \subseteq {5, 1}
    BY <1>5, <2>3
  <2>5. QED
    BY <2>2, <2>4 DEF s
<1>12. QED
  <2>1. k = 0 \/ k = 1 \/ k = 2 \/ k = 3 \/ k = 4 \/ k = 5
    BY <1>1
  <2>2. QED
    BY <1>6, <1>7, <1>8, <1>9, <1>10, <1>11, <2>1

LEMMA OneOther ==
  ASSUME NEW m, m.type \in {"MSG_BARPOSITION", "MSG_HEADLIGHT"}, NEW c
  PROVE  OfStep(m, c) /\ ~IsLoad(m)
BY DEF OfStep, StepTypes, IsDecklight, IsLoad

(* With the deck lights enabled, what the handler of an expiry posts is a  *)
(* step.                                                                   *)
LEMMA ShowSteps ==
  ASSUME NEW a \in Nat, "decklights" \in enabled
  PROVE  IsStep(Step(a % 256), a)
<1> DEFINE c == a % 256
           p == (a - 1) % 256
           d == If("decklights", Decklights(c))
           b == If("bargraph", Bargraph(c))
           h == If("headlights", Headlights(c))
           l == Setting("MSG_LOAD", 0, 0)
<1>1. c \in 0 .. 255 /\ c \in Nat /\ p = IF c = 0 THEN 255 ELSE c - 1
  OBVIOUS
<1> HIDE DEF c, p
<1>2. d = Decklights(c)
  BY DEF If
<1>3. Among(d, c) /\ \A x \in Shown(p) \ Shown(c) : Off_(d, x)
  BY <1>1, <1>2, DecklightStep
<1>4. <<>> \in Seq(Mail) /\ Among(<<>>, c)
  BY EmptySeq DEF Among
<1>5. d \in Seq(Mail)
  BY <1>1, <1>2, DecklightMail
<1>6. b \in Seq(Mail) /\ Among(b, c)
  <2> DEFINE e == IF c % 18 < 10 THEN c % 18 ELSE 18 - (c % 18)
             m == Setting("MSG_BARPOSITION", e, 0)
  <2>1. e \in Int
    BY <1>1
  <2> HIDE DEF e
  <2>2. m \in Mail /\ OfStep(m, c) /\ ~IsLoad(m)
    BY <2>1, OneOther DEF Mail, Setting, Message
  <2>3. Bargraph(c) = <<m>>
    BY DEF Bargraph, e
  <2> HIDE DEF m
  <2> DEFINE s == <<m>>
  <2>4. s \in Seq(Mail) /\ Len(s) = 1 /\ s[1] = m
    BY <2>2
  <2> HIDE DEF s
  <2>5. \A i \in 1 .. Len(s) : s[i] = m
    BY <2>4
  <2>6. Among(s, c)
    BY <2>2, <2>5 DEF Among
  <2>7. QED
    BY <1>4, <2>3, <2>4, <2>6 DEF If, s
<1>7. h \in Seq(Mail) /\ Among(h, c)
  <2> DEFINE color == CASE c % 8 = 2 -> "GREEN" [] c % 8 = 4 -> "ORANGE" [] c % 8 = 6 -> "RED"
                        [] OTHER -> "BLACK"
             m1 == Setting("MSG_HEADLIGHT", "FRONT_LEFT", color)
             m2 == Setting("MSG_HEADLIGHT", "FRONT_RIGHT", color)
             m3 == Setting("MSG_HEADLIGHT", "BACK_LEFT", color)
             m4 == Setting("MSG_HEADLIGHT", "BACK_RIGHT", color)
             s == <<m1, m2, m3, m4>>
  <2>1. Headlights(c) = s
    BY DEF Headlights
  <2> HIDE DEF color
  <2>2. /\ OfStep(m1, c) /\ ~IsLoad(m1) /\ OfStep(m2, c) /\ ~IsLoad(m2)
        /\ OfStep(m3, c) /\ ~IsLoad(m3) /\ OfStep(m4, c) /\ ~IsLoad(m4)
    BY OneOther DEF Setting, Message
  <2> HIDE DEF m1, m2, m3, m4
  <2>3. Len(s) = 4 /\ s[1] = m1 /\ s[2] = m2 /\ s[3] = m3 /\ s[4] = m4
    OBVIOUS
  <2> HIDE DEF s
  <2>4. \A i \in 1 .. Len(s) : i = 1 \/ i = 2 \/ i = 3 \/ i = 4
    BY <2>3
  <2>5. Among(s, c)
    BY <2>2, <2>3, <2>4 DEF Among
  <2>6. Headlights(c) \in Seq(Mail)
    BY <1>1, FourHeadlights
  <2>7. QED
    BY <1>4, <2>1, <2>5, <2>6 DEF If
<1>8. Step(c) = ((d \o b) \o h) \o <<l>>
  BY DEF Step, Load
<1>9. l \in Mail /\ OfStep(l, c) /\ IsLoad(l)
  BY DEF Mail, Setting, Message, OfStep, StepTypes, IsDecklight, IsLoad
<1> HIDE DEF d, b, h, l
<1>10. /\ d \o b \in Seq(Mail) /\ Among(d \o b, c)
       /\ \A x \in Shown(p) \ Shown(c) : Off_(d \o b, x)
  BY <1>3, <1>5, <1>6, Joined
<1> DEFINE s == (d \o b) \o h
           r == s \o <<l>>
<1>11. s \in Seq(Mail) /\ Among(s, c) /\ \A x \in Shown(p) \ Shown(c) : Off_(s, x)
  BY <1>7, <1>10, Joined
<1>12. r = Step(c)
  BY <1>8
<1> HIDE DEF s
<1>13. /\ Len(s) \in Nat /\ Len(r) = Len(s) + 1 /\ r[Len(s) + 1] = l
       /\ \A i \in 1 .. Len(s) : r[i] = s[i]
  <2>1. r = Append(s, l)
    BY <1>9, <1>11, AppendIsConcat
  <2> HIDE DEF r
  <2>2. QED
    BY <1>9, <1>11, <2>1, AppendProperties, LenProperties
<1> HIDE DEF r
<1>14. 1 \in 1 .. Len(r)
  BY <1>13
<1>15. ASSUME NEW i \in 1 .. Len(r) PROVE OfStep(r[i], c) /\ (IsLoad(r[i]) <=> i = Len(r))
  <2>1. CASE i = Len(r)
    BY <1>9, <1>13, <2>1
  <2>2. CASE i # Len(r)
    <3>1. i \in 1 .. Len(s)
      BY <1>13, <2>2
    <3>2. QED
      BY <1>11, <1>13, <2>2, <3>1 DEF Among
  <2>3. QED
    BY <2>1, <2>2
<1>16. ASSUME NEW x \in Shown(p) \ Shown(c) PROVE \E i \in 1 .. Len(r) : SwitchesOff(r[i], x)
  <2>1. PICK i \in 1 .. Len(s) : SwitchesOff(s[i], x)
    BY <1>11 DEF Off_
  <2>2. i \in 1 .. Len(r) /\ r[i] = s[i]
    BY <1>13
  <2>3. QED
    BY <2>1, <2>2
<1>17. QED
  BY <1>12, <1>14, <1>15, <1>16 DEF IsStep, c, p

(* At most one light, and light 1 before step 4.                           *)
LEMMA AtMostOne ==
  ASSUME NEW s, NEW y, s \subseteq {y}
  PROVE  Cardinality(s) <= 1
<1>1. IsFiniteSet({y}) /\ Cardinality({y}) = 1
  BY FS_Singleton
<1>2. QED
  BY <1>1, FS_Subset

LEMMA LightsOfStep ==
  ASSUME NEW a \in Nat, NEW m \in Nat, m <= a, a <= m + MaxTimeouts,
         NEW s, s \subseteq Shown((m - 1) % 256)
  PROVE  Cardinality(IF a % 256 <= 4 + MaxTimeouts THEN s \ {1} ELSE s) <= 1
<1> DEFINE c == (m - 1) % 256
<1>1. s \subseteq {Shining(c)} \cup (IF c <= 3 THEN {1} ELSE {})
  BY DEF Shown
<1>2. CASE a % 256 <= 4 + MaxTimeouts
  <2>1. s \ {1} \subseteq {Shining(c)}
    BY <1>1
  <2>2. QED
    BY <1>2, <2>1, AtMostOne
<1>3. CASE ~(a % 256 <= 4 + MaxTimeouts)
  <2>1. ~(c <= 3)
    <3>1. MaxTimeouts \in Nat /\ a - (m - 1) \in 1 .. MaxTimeouts + 1
      BY TimeoutsPositive
    <3>2. (m - 1) % 256 = (a % 256) - (a - (m - 1))
      BY <1>3, <3>1
    <3>3. QED
      BY <1>3, <3>1, <3>2
  <2>2. s \subseteq {Shining(c)}
    BY <1>1, <2>1
  <2>3. QED
    BY <1>3, <2>2, AtMostOne
<1>4. QED
  BY <1>2, <1>3

-----------------------------------------------------------------------------
(* What a message of the driver does to the deck lights.                   *)
LEMMA ConfigOfDecklights ==
  ASSUME LightTypes, NEW type, NEW byte, NEW word,
         config' = Configured(type, byte, word)
  PROVE  /\ type = "MSG_DECKLIGHT" => config'[2] = Switch(config[2], byte + 1, word)
         /\ type # "MSG_DECKLIGHT" => LitIn(config'[2]) \subseteq LitIn(config[2])
<1>1. config = [i \in 0 .. 4 |-> config[i]]
  BY DEF LightTypes
<1>2. ASSUME NEW k \in {0, 3, 4}, NEW v, config' = [config EXCEPT ![k] = v]
      PROVE  config'[2] = config[2]
  <2>1. config' = [i \in 0 .. 4 |-> IF i = k THEN v ELSE config[i]]
    BY <1>1, <1>2
  <2>2. QED
    BY <2>1
<1>3. CASE type = "MSG_DECKLIGHT"
  <2> DEFINE v == Switch(config[2], byte + 1, word)
  <2>1. config' = [config EXCEPT ![2] = v]
    BY <1>3 DEF Configured
  <2> HIDE DEF v
  <2>2. config' = [i \in 0 .. 4 |-> IF i = 2 THEN v ELSE config[i]]
    BY <1>1, <2>1
  <2>3. config'[2] = v
    BY <2>2
  <2>4. QED
    BY <1>3, <2>3 DEF v
<1>4. CASE type = "MSG_CLEARDECKLIGHTS"
  <2> DEFINE v == config[2] \cap {0, 1}
  <2>1. config' = [config EXCEPT ![2] = v]
    BY <1>4 DEF Configured
  <2> HIDE DEF v
  <2>2. config' = [i \in 0 .. 4 |-> IF i = 2 THEN v ELSE config[i]]
    BY <1>1, <2>1
  <2>3. config'[2] \subseteq config[2]
    BY <2>2 DEF v
  <2>4. QED
    BY <1>4, <2>3 DEF LitIn
<1>5. ASSUME NEW E, config' = Bar(E)
      PROVE  LitIn(config'[2]) \subseteq LitIn(config[2])
  <2> DEFINE v == E \cap 0 .. 7
             old == [config EXCEPT ![1] = v]
             w == (old[2] \ {0, 1}) \cup {e - 8 : e \in E \cap {8, 9}}
  <2>1. config' = [old EXCEPT ![2] = w]
    BY <1>5 DEF Bar
  <2> HIDE DEF v, w
  <2>2. old = [i \in 0 .. 4 |-> IF i = 1 THEN v ELSE config[i]]
    BY <1>1
  <2> HIDE DEF old
  <2>3. config' = [i \in 0 .. 4 |-> IF i = 2 THEN w ELSE old[i]]
    BY <2>1, <2>2
  <2>4. config'[2] = w /\ old[2] = config[2]
    BY <2>2, <2>3
  <2>5. ASSUME NEW x \in 1 .. 6, x + 1 \in w PROVE x + 1 \in config[2]
    <3>1. ASSUME NEW e \in {8, 9} PROVE x + 1 # e - 8
      BY <3>1
    <3>2. QED
      BY <2>4, <2>5, <3>1 DEF w
  <2>6. QED
    BY <2>4, <2>5 DEF LitIn
<1>6. CASE type = "MSG_HEADLIGHT"
  <2>1. config' = [config EXCEPT ![0] = SetColor(config[0], HeadlightPin[byte],
                                                 HeadlightPin[byte] + 1, word)]
    BY <1>6 DEF Configured
  <2>2. config'[2] = config[2]
    BY <1>2, <2>1
  <2>3. QED
    BY <1>6, <2>2
<1>7. CASE type \in {"MSG_BARPOSITION", "MSG_BARPERCENT", "MSG_BARBINARY"}
  <2>1. PICK E : config' = Bar(E)
    BY <1>7 DEF Configured
  <2>2. QED
    BY <1>5, <1>7, <2>1
<1>8. CASE type \in {"MSG_SERVO_EN", "MSG_MAG_EN", "MSG_ACC_EN", "MSG_CB2_IRIS", "MSG_CB2_BCU"}
  <2>1. PICK bit : config' = [config EXCEPT ![3] = Switch(config[3], bit, word)]
    BY <1>8 DEF Configured
  <2>2. config'[2] = config[2]
    BY <1>2, <2>1
  <2>3. QED
    BY <1>8, <2>2
<1>9. CASE type = "MSG_CB2_HEAD0"
  <2>1. config' = [config EXCEPT ![4] = Switch(config[4], 7, word)]
    BY <1>9 DEF Configured
  <2>2. config'[2] = config[2]
    BY <1>2, <2>1
  <2>3. QED
    BY <1>9, <2>2
<1>10. CASE type = "MSG_MAG_RESET"
  <2>1. config' = [config EXCEPT ![3] = config[3] \cup {2}]
    BY <1>10 DEF Configured
  <2>2. config'[2] = config[2]
    BY <1>2, <2>1
  <2>3. QED
    BY <1>10, <2>2
<1>11. CASE type \notin {"MSG_DECKLIGHT", "MSG_CLEARDECKLIGHTS", "MSG_HEADLIGHT",
                         "MSG_BARPOSITION", "MSG_BARPERCENT", "MSG_BARBINARY",
                         "MSG_SERVO_EN", "MSG_MAG_EN", "MSG_ACC_EN", "MSG_CB2_IRIS",
                         "MSG_CB2_BCU", "MSG_CB2_HEAD0", "MSG_MAG_RESET"}
  <2>1. config' = config
    BY <1>11 DEF Configured
  <2>2. QED
    BY <1>11, <2>1
<1>12. QED
  BY <1>3, <1>4, <1>6, <1>7, <1>8, <1>9, <1>10, <1>11

(* Between steps; the next may begin.                                      *)
LEMMA BetweenSteps ==
  ASSUME NEW q, NEW f, NEW a, NEW m, NEW bits, Begun(q, f, a) => SwitchedOff(q, f, m),
         LitIn(bits) \subseteq Shown((m - 1) % 256)
  PROVE  Shows(q, f, a, m, bits)
BY DEF Shows, SwitchedOff

(* The steps of a queue are numbered, c is the number of the next one, and  *)
(* these lights are lit in the configuration and by the outputs.            *)
DecksShown(q, c, bits, out) ==
  \E f, a, m, n : /\ Numbers(q, f, a, m, n) /\ c = a % 256 /\ Shows(q, f, a, m, bits)
                  /\ LitIn(out) \subseteq Shown((m - 1) % 256)

(* What message x does to them.                                             *)
DecksSet(x, bits, out, new, newOut) ==
  /\ IsDecklight(x) => new = Switch(bits, x.data.byte + 1, x.data.word)
  /\ ~IsDecklight(x) => LitIn(new) \subseteq LitIn(bits)
  /\ newOut = out \/ (x.type \in {"MSG_LOAD", "MSG_MAG_RESET"} /\ newOut = new)
  /\ IsLoad(x) => newOut = new

(* A message is handled that is no expiry.                                 *)
LEMMA DecksTaken ==
  ASSUME NEW S, NEW q \in Seq(S), q # <<>>, ~IsExpiry(q[1]),
         NEW c, NEW bits, NEW out, DecksShown(q, c, bits, out),
         NEW new, NEW newOut, DecksSet(q[1], bits, out, new, newOut)
  PROVE  DecksShown(Tail(q), c, new, newOut)
<1>1. PICK f, a, m, n : /\ Numbers(q, f, a, m, n) /\ c = a % 256 /\ Shows(q, f, a, m, bits)
                        /\ LitIn(out) \subseteq Shown((m - 1) % 256)
  BY DEF DecksShown
<1>2. /\ IsDecklight(q[1]) => new = Switch(bits, q[1].data.byte + 1, q[1].data.word)
      /\ ~IsDecklight(q[1]) => LitIn(new) \subseteq LitIn(bits)
      /\ newOut = out \/ (q[1].type \in {"MSG_LOAD", "MSG_MAG_RESET"} /\ newOut = new)
      /\ IsLoad(q[1]) => newOut = new
  BY DEF DecksSet
<1> DEFINE r == Tail(q)
           g == TakenNumbers(f, r)
           k == NextUnhandled(q, f, a, m)
<1> SUFFICES \E h, j : /\ Numbers(r, h, a, j, n) /\ Shows(r, h, a, j, new)
                       /\ LitIn(newOut) \subseteq Shown((j - 1) % 256)
  BY <1>1 DEF DecksShown
<1>3. Numbers(q, f, a, m, n)
  BY <1>1
<1>4. Taken_(q, f, a, m, n)
  BY <1>3, NumbersTaken
<1>5. /\ Numbers(r, g, a, k, n)
      /\ ~Begun(q, f, a) \/ IsLoad(q[1]) =>
           \A b \in Int : k <= b /\ b < a => SwitchedOff(r, g, b)
      /\ Begun(q, f, a) /\ ~IsLoad(q[1]) => Begun(r, g, a)
  BY <1>4 DEF Taken_
<1>6. r = Tail(q)
  OBVIOUS
<1> HIDE DEF r
<1>7. Shows(q, f, a, m, bits) /\ LitIn(out) \subseteq Shown((m - 1) % 256)
  BY <1>1
<1> USE <1>2, <1>3, <1>6, <1>7
<1> USE DEF NextUnhandled
<1>8. /\ Len(q) \in Nat /\ Len(r) \in Nat /\ Len(r) = Len(q) - 1 /\ 1 \in 1 .. Len(q) /\ r \in Seq(S)
      /\ \A i \in 1 .. Len(r) : r[i] = q[i + 1]
  BY HeadTailProperties, LenProperties, EmptySeq
<1>9. \A i \in 1 .. Len(r) : g[i] = f[i + 1]
  BY DEF TakenNumbers
<1>10. /\ m \in Nat /\ k \in Int
       /\ Begun(q, f, a) => f[1] = m /\ OfStep(q[1], m % 256)
       /\ Begun(q, f, a) /\ IsLoad(q[1]) => \A j \in 1 .. Len(q) : f[j] = m => j = 1
  <2>1. m \in Nat
    BY DEF Numbers
  <2>2. k \in Int
    BY <2>1
  <2>3. QED
    BY <2>1, <2>2, FirstOfStep
<1> HIDE DEF g
<1>11. ~Begun(q, f, a) => ~IsDecklight(q[1])
  BY <1>8 DEF Numbers, StepsInOrder, Begun
<1>12. ASSUME LitIn(new) \subseteq Shown((k - 1) % 256), ~Begun(q, f, a) \/ IsLoad(q[1])
       PROVE  Shows(r, g, a, k, new)
  <2>1. Begun(r, g, a) => k < a
    BY <1>5, <1>8, FirstOfStep
  <2>2. k <= k
    BY <1>10
  <2> HIDE DEF k
  <2>3. Begun(r, g, a) => SwitchedOff(r, g, k)
    BY <1>5, <1>10, <1>12, <2>1, <2>2
  <2>4. QED
    BY <1>12, <2>3, BetweenSteps
<1>13. CASE ~Begun(q, f, a)
  <2>1. LitIn(bits) \subseteq Shown((m - 1) % 256) /\ k = m
    BY <1>13 DEF Shows
  <2>2. LitIn(new) \subseteq Shown((m - 1) % 256)
    BY <1>11, <1>13, <2>1
  <2>3. Shows(r, g, a, k, new)
    BY <1>12, <1>13, <2>1, <2>2
  <2>4. LitIn(newOut) \subseteq Shown((k - 1) % 256)
    BY <2>1, <2>2
  <2>5. QED
    BY <1>5, <2>3, <2>4
<1>14. CASE Begun(q, f, a) /\ IsLoad(q[1])
  <2>1. k = m + 1 /\ (k - 1) = m
    BY <1>10, <1>14
  <2>2. ~IsDecklight(q[1])
    BY <1>14 DEF IsLoad, IsDecklight
  <2>3. ASSUME NEW x \in LitIn(bits) PROVE x \in Shown(m % 256)
    <3>1. SUFFICES ASSUME NEW i \in 1 .. Len(q), f[i] = m, SwitchesOff(q[i], x) PROVE FALSE
      BY <1>14 DEF Shows
    <3>2. i = 1
      BY <1>10, <1>14, <3>1
    <3>3. QED
      BY <2>2, <3>1, <3>2 DEF SwitchesOff
  <2>4. LitIn(new) \subseteq Shown((k - 1) % 256)
    BY <2>1, <2>2, <2>3
  <2>5. Shows(r, g, a, k, new)
    BY <1>12, <1>14, <2>4
  <2>6. QED
    BY <1>5, <1>14, <2>4, <2>5
<1>15. CASE Begun(q, f, a) /\ ~IsLoad(q[1])
  <2>1. k = m /\ Begun(r, g, a) /\ OfStep(q[1], m % 256)
    BY <1>5, <1>10, <1>15
  <2>2. newOut = out
    BY <1>15, <2>1 DEF OfStep, StepTypes, IsLoad
  <2>3. ASSUME NEW x \in LitIn(new)
        PROVE  x \in Shown(m % 256) \/ (x \in LitIn(bits) /\ ~SwitchesOff(q[1], x))
    <3>1. CASE IsDecklight(q[1])
      <4> DEFINE b == q[1].data.byte
      <4>1. b \in 1 .. 6 /\ (q[1].data.word = "OFF" \/ (q[1].data.word = "ON" /\ b = Shining(m % 256)))
        BY <2>1, <3>1 DEF OfStep
      <4>2. new = Switch(bits, b + 1, q[1].data.word)
        BY <3>1
      <4> HIDE DEF b
      <4>3. x \in 1 .. 6 /\ x + 1 \in new /\ (x + 1 = b + 1 => x = b)
        BY <4>1 DEF LitIn
      <4>4. CASE q[1].data.word = "OFF"
        <5>1. x + 1 \in bits /\ x # b
          BY <4>2, <4>3, <4>4 DEF Switch
        <5>2. QED
          BY <4>3, <5>1 DEF LitIn, SwitchesOff, b
      <4>5. CASE q[1].data.word = "ON" /\ b = Shining(m % 256)
        <5>1. x + 1 \in bits \/ x = b
          BY <4>2, <4>3, <4>5 DEF Switch
        <5>2. b \in Shown(m % 256)
          BY <4>5 DEF Shown
        <5>3. QED
          BY <4>3, <4>5, <5>1, <5>2 DEF LitIn, SwitchesOff
      <4>6. QED
        BY <4>1, <4>4, <4>5
    <3>2. CASE ~IsDecklight(q[1])
      BY <3>2 DEF SwitchesOff
    <3>3. QED
      BY <3>1, <3>2
  <2>4. ASSUME NEW x \in LitIn(new), x \notin Shown(m % 256)
        PROVE  \E i \in 1 .. Len(r) : g[i] = m /\ SwitchesOff(r[i], x)
    <3>1. x \in LitIn(bits) /\ ~SwitchesOff(q[1], x)
      BY <2>3, <2>4
    <3>2. PICK j \in 1 .. Len(q) : f[j] = m /\ SwitchesOff(q[j], x)
      BY <1>15, <2>4, <3>1 DEF Shows
    <3>3. j # 1
      BY <3>1, <3>2
    <3>4. j - 1 \in 1 .. Len(r) /\ (j - 1) + 1 = j
      BY <1>8, <3>3
    <3>5. QED
      BY <1>8, <1>9, <3>2, <3>4
  <2>5. Shows(r, g, a, m, new)
    BY <2>1, <2>4 DEF Shows
  <2>6. QED
    BY <1>5, <2>1, <2>2, <2>5
<1>16. QED
  BY <1>13, <1>14, <1>15

-----------------------------------------------------------------------------
(* The expiries that wait are fewer than the bound when another comes.     *)
LEMMA ExpiriesWait ==
  ASSUME NEW S, NEW q \in Seq(S), NEW f, NEW a, NEW m, NEW n, Numbers(q, f, a, m, n)
  PROVE  n <= Cardinality({k \in DOMAIN q : IsExpiry(q[k])})
<1> DEFINE E == {k \in DOMAIN q : IsExpiry(q[k])}
           T == a .. (a + n - 1)
           h == [k \in E |-> f[k]]
<1>1. Len(q) \in Nat /\ DOMAIN q = 1 .. Len(q)
  BY LenProperties
<1>2. a \in Nat /\ n \in Nat /\ f \in [1 .. Len(q) -> Int] /\ Expiries(q, f, a, n)
  BY DEF Numbers
<1>3. IsFiniteSet(1 .. Len(q)) /\ IsFiniteSet(T) /\ Cardinality(T) = n
  <2>1. a \in Int /\ a + n - 1 \in Int /\ 1 \in Int /\ Len(q) \in Int
        /\ (IF a > a + n - 1 THEN 0 ELSE (a + n - 1) - a + 1) = n
    BY <1>1, <1>2
  <2>2. QED
    BY <2>1, FS_Interval
<1>4. IsFiniteSet(E)
  <2>1. E \subseteq 1 .. Len(q)
    BY <1>1
  <2>2. QED
    BY <1>3, <2>1, FS_Subset
<1>5. h \in Surjection(E, T)
  <2>1. ASSUME NEW k \in E PROVE f[k] \in T
    <3>1. k \in 1 .. Len(q) /\ IsExpiry(q[k])
      BY <1>1
    <3>2. a <= f[k] /\ f[k] < a + n /\ f[k] \in Int
      BY <1>2, <3>1 DEF Expiries
    <3>3. QED
      BY <1>2, <3>2
  <2>2. ASSUME NEW b \in T PROVE \E k \in E : h[k] = b
    <3>1. b \in Int /\ a <= b /\ b < a + n
      BY <1>2
    <3>2. PICK k \in 1 .. Len(q) : IsExpiry(q[k]) /\ f[k] = b
      BY <1>2, <3>1 DEF Expiries
    <3>3. k \in E
      BY <1>1, <3>2
    <3>4. QED
      BY <3>2, <3>3
  <2>3. h \in [E -> T]
    BY <2>1
  <2>4. QED
    BY <2>2, <2>3 DEF Surjection
<1> HIDE DEF E, T, h
<1>6. Cardinality(T) <= Cardinality(E)
  BY <1>4, <1>5, FS_Surjection
<1>7. QED
  BY <1>3, <1>6 DEF E

(* The first message of all enables the deck lights.                       *)
Enabling(q) == 1 \in 1 .. Len(q) /\ q[1] = Show("MSG_LIGHTSHOW", "decklights", "ENABLE")

DecksInv ==
  /\ LightInv
  /\ "decklights" \notin touched =>
       /\ "decklights" \in enabled \/ Enabling(queue)
       /\ DecksShown(queue, count, config[2], outputs[2])

LEMMA StepShown == DecksInv /\ TakeStep => DecksInv'
<1> SUFFICES ASSUME DecksInv, TakeStep PROVE DecksInv'
  OBVIOUS
<1>1. /\ queue \in Seq(Mail) /\ queue # <<>> /\ Head(queue).type = "MSG_TIMER_TIMEOUT"
      /\ count \in Nat /\ queue' = Tail(queue) \o Step(count)
      /\ UNCHANGED <<config, outputs, enabled, touched>>
      /\ count' = (count + 1) % 256
  BY DEF DecksInv, LightInv, LightTypes, TakeStep, Next_is, Dispatch
<1>2. Head(queue) = queue[1] /\ IsExpiry(queue[1])
  BY <1>1, MailTaken DEF IsExpiry
<1>3. LightInv'
  BY StepTaken DEF DecksInv
<1>4. ASSUME "decklights" \notin touched'
      PROVE  "decklights" \in enabled' /\ DecksShown(queue', count', config'[2], outputs'[2])
  <2>1. DecksShown(queue, count, config[2], outputs[2])
    BY <1>1, <1>4 DEF DecksInv
  <2>2. "decklights" \in enabled
    <3>1. ~Enabling(queue)
      BY <1>2 DEF IsExpiry, Enabling, Show, Message
    <3>2. QED
      BY <1>1, <1>4, <3>1 DEF DecksInv
  <2>3. PICK f, a, m, n : /\ Numbers(queue, f, a, m, n) /\ count = a % 256
                          /\ Shows(queue, f, a, m, config[2])
                          /\ LitIn(outputs[2]) \subseteq Shown((m - 1) % 256)
    BY <2>1 DEF DecksShown
  <2>4. a \in Nat /\ m \in Nat /\ n \in Nat /\ m <= a
    BY <2>3 DEF Numbers
  <2> DEFINE s == Step(count)
  <2>5. queue' = Tail(queue) \o s
    BY <1>1
  <2>6. s \in Seq(Mail) /\ IsStep(s, a)
    BY <1>1, <2>2, <2>3, <2>4, ShowSteps, StepMail
  <2> HIDE DEF s
  <2>7. PICK g : /\ Numbers(queue', g, a + 1, m, n - 1)
                 /\ \A b \in Int : m <= b /\ b < a + 1 => SwitchedOff(queue', g, b)
                 /\ ~Begun(queue, f, a)
    BY <1>1, <1>2, <2>3, <2>5, <2>6, NumbersStep, ZenonT(60)
  <2>8. SwitchedOff(queue', g, m)
    BY <2>4, <2>7
  <2>9. LitIn(config[2]) \subseteq Shown((m - 1) % 256)
    BY <2>3, <2>7 DEF Shows
  <2>10. Shows(queue', g, a + 1, m, config'[2])
    BY <1>1, <2>8, <2>9, BetweenSteps
  <2>11. count' = (a + 1) % 256
    BY <1>1, <2>3, <2>4
  <2>12. LitIn(outputs'[2]) \subseteq Shown((m - 1) % 256)
    BY <1>1, <2>3
  <2>13. DecksShown(queue', count', config'[2], outputs'[2])
    BY <2>7, <2>10, <2>11, <2>12 DEF DecksShown
  <2>14. QED
    BY <1>1, <2>2, <2>13
<1>5. QED
  BY <1>3, <1>4 DEF DecksInv

LEMMA PostedShown ==
  ASSUME DecksInv, Expire \/ \E x \in Asks : Ask(x)
  PROVE  DecksInv'
<1>1. UNCHANGED <<config, outputs, count, enabled>>
  BY DEF Expire, Ask, show
<1>2. LightInv'
  BY PostedToLights DEF DecksInv
<1>3. queue \in Seq(Mail) /\ Len(queue) \in Nat
  BY LenProperties DEF DecksInv, LightInv, LightTypes
<1>4. ASSUME "decklights" \notin touched'
      PROVE  /\ "decklights" \in enabled \/ Enabling(queue')
             /\ DecksShown(queue', count, config[2], outputs[2])
  <2>1. /\ "decklights" \notin touched
        /\ \E p \in Mail :
             /\ queue' = Append(queue, p) /\ ~IsDecklight(p) /\ (IsExpiry(p) => p.to = "lightshow")
             /\ IsExpiry(p) =>
                  Cardinality({k \in DOMAIN queue : IsExpiry(queue[k])}) < MaxTimeouts
    <3>1. CASE Expire
      <4> DEFINE p == Show("MSG_TIMER_TIMEOUT", "", "")
      <4>1. p \in Mail /\ ~IsDecklight(p) /\ p.to = "lightshow"
        BY DEF Show, Message, Mail, IsDecklight
      <4>2. QED
        BY <1>4, <3>1, <4>1 DEF Expire, IsExpiry
    <3>2. CASE \E x \in Asks : Ask(x)
      <4>1. PICK x \in Asks : Ask(x)
        BY <3>2
      <4>2. x \in Mail /\ ~IsExpiry(x)
        BY ShowAssumption DEF Mail, IsExpiry
      <4>3. ~IsDecklight(x) /\ "decklights" \notin touched /\ queue' = Append(queue, x)
        BY <1>4, <4>1 DEF Ask, IsDecklight
      <4>4. QED
        BY <4>2, <4>3
    <3>3. QED
      BY <3>1, <3>2
  <2>2. PICK p \in Mail :
             /\ queue' = Append(queue, p) /\ ~IsDecklight(p) /\ (IsExpiry(p) => p.to = "lightshow")
             /\ IsExpiry(p) =>
                  Cardinality({k \in DOMAIN queue : IsExpiry(queue[k])}) < MaxTimeouts
    BY <2>1
  <2>3. /\ "decklights" \in enabled \/ Enabling(queue)
        /\ DecksShown(queue, count, config[2], outputs[2])
    BY <2>1 DEF DecksInv
  <2>4. PICK f, a, m, n : /\ Numbers(queue, f, a, m, n) /\ count = a % 256
                          /\ Shows(queue, f, a, m, config[2])
                          /\ LitIn(outputs[2]) \subseteq Shown((m - 1) % 256)
    BY <2>3 DEF DecksShown
  <2> DEFINE k == IF IsExpiry(p) THEN n + 1 ELSE n
  <2>5. k <= MaxTimeouts
    <3>1. n \in Nat /\ n <= MaxTimeouts
      BY <2>4 DEF Numbers
    <3>2. CASE IsExpiry(p)
      <4> DEFINE c == Cardinality({i \in DOMAIN queue : IsExpiry(queue[i])})
      <4>1. n <= c
        BY <1>3, <2>4, ExpiriesWait
      <4>2. c < MaxTimeouts
        BY <2>2, <3>2
      <4>3. IsFiniteSet(1 .. Len(queue))
        BY <1>3, FS_Interval
      <4>4. {i \in DOMAIN queue : IsExpiry(queue[i])} \subseteq 1 .. Len(queue)
        BY <1>3, LenProperties
      <4>5. c \in Nat
        BY <4>3, <4>4, FS_Subset, FS_CardinalityType
      <4> HIDE DEF c
      <4>6. n < MaxTimeouts
        BY <3>1, <4>1, <4>2, <4>5, TimeoutsPositive
      <4>7. QED
        BY <3>1, <3>2, <4>6, TimeoutsPositive
    <3>3. CASE ~IsExpiry(p)
      BY <3>1, <3>3
    <3>4. QED
      BY <3>2, <3>3
  <2>6. NoStep(p, n, k)
    BY <2>2, <2>5 DEF NoStep
  <2> HIDE DEF k
  <2>7. Numbers(queue, f, a, m, n)
    BY <2>4
  <2>8. PostedAs(queue, p, f, a, m, k)
    BY <1>3, <2>6, <2>7, NumbersPosted
  <2>9. PICK g : /\ Numbers(queue', g, a, m, k)
                 /\ \A bits : Shows(queue, f, a, m, bits) => Shows(queue', g, a, m, bits)
    BY <2>2, <2>8 DEF PostedAs
  <2>10. DecksShown(queue', count, config[2], outputs[2])
    BY <2>4, <2>9 DEF DecksShown
  <2>11. Enabling(queue) => Enabling(queue')
    <3>1. 1 \in 1 .. Len(queue) => 1 \in 1 .. Len(queue') /\ queue'[1] = queue[1]
      BY <1>3, <2>2, AppendProperties
    <3>2. QED
      BY <3>1 DEF Enabling
  <2>12. QED
    BY <2>3, <2>10, <2>11
<1>5. QED
  BY <1>1, <1>2, <1>4 DEF DecksInv

LEMMA ControlShown ==
  ASSUME DecksInv, StartStop \/ Enable
  PROVE  DecksInv'
<1>1. /\ queue \in Seq(Mail) /\ queue # <<>> /\ Dispatch(<<>>)
      /\ UNCHANGED <<config, outputs, count>>
      /\ "decklights" \notin touched' => "decklights" \notin touched
      /\ Head(queue).type \in {"MSG_LIGHTSHOW", "MSG_LIGHTSHOW_START", "MSG_LIGHTSHOW_STOP"}
  BY DEF DecksInv, LightInv, LightTypes, StartStop, Enable, Next_is
<1>2. queue' = Tail(queue) /\ Head(queue) = queue[1] /\ 1 \in 1 .. Len(queue)
  BY <1>1, TakenOnly, MailTaken
<1>3. LightInv'
  BY ShowControlled DEF DecksInv
<1>4. ASSUME "decklights" \notin touched'
      PROVE  "decklights" \in enabled' /\ DecksShown(queue', count', config'[2], outputs'[2])
  <2>1. /\ "decklights" \in enabled \/ Enabling(queue)
        /\ DecksShown(queue, count, config[2], outputs[2])
    BY <1>1, <1>4 DEF DecksInv
  <2>2. "decklights" \in enabled'
    <3>1. CASE StartStop
      <4>1. ~Enabling(queue)
        BY <1>2, <3>1 DEF StartStop, Next_is, Enabling, Show, Message
      <4>2. QED
        BY <2>1, <3>1, <4>1 DEF StartStop
    <3>2. CASE Enable
      <4>1. Enabling(queue) =>
              Head(queue).data.word = "ENABLE" /\ Head(queue).data.byte = "decklights"
        BY <1>2 DEF Enabling, Show, Message
      <4>2. CASE Head(queue).data.word = "ENABLE"
        BY <2>1, <3>2, <4>1, <4>2 DEF Enable
      <4>3. CASE Head(queue).data.word # "ENABLE"
        BY <1>4, <2>1, <3>2, <4>1, <4>3 DEF Enable
      <4>4. QED
        BY <4>2, <4>3
    <3>3. QED
      BY <3>1, <3>2
  <2>3. ~IsExpiry(queue[1]) /\ ~IsDecklight(queue[1]) /\ ~IsLoad(queue[1])
    BY <1>1, <1>2 DEF IsExpiry, IsDecklight, IsLoad
  <2>4. DecksSet(queue[1], config[2], outputs[2], config[2], outputs[2])
    BY <2>3 DEF DecksSet
  <2>5. DecksShown(Tail(queue), count, config[2], outputs[2])
    BY <1>1, <2>1, <2>3, <2>4, DecksTaken
  <2>6. DecksShown(queue', count, config[2], outputs[2])
    BY <1>2, <2>5
  <2>7. QED
    BY <1>1, <2>2, <2>6
<1>5. QED
  BY <1>3, <1>4 DEF DecksInv

LEMMA HandledShown ==
  ASSUME DecksInv, CB2Handle, UNCHANGED <<show, asked, touched>>
  PROVE  DecksInv'
<1> DEFINE m1 == Head(queue)
<1>1. /\ LightTypes /\ queue \in Seq(Mail) /\ queue # <<>> /\ Dispatch(<<>>)
      /\ m1.to = "cb2bus"
      /\ config' = Configured(m1.type, m1.data.byte, m1.data.word)
      /\ outputs' = IF m1.type \in {"MSG_LOAD", "MSG_MAG_RESET"}
                    THEN [i \in 0 .. 3 |-> config'[i]] ELSE outputs
      /\ UNCHANGED <<count, enabled, touched>>
  BY DEF DecksInv, LightInv, LightTypes, CB2Handle, show
<1>2. queue' = Tail(queue) /\ m1 = queue[1] /\ 1 \in 1 .. Len(queue)
  BY <1>1, TakenOnly, MailTaken
<1>3. LightInv'
  BY LightsHandled DEF DecksInv
<1> HIDE DEF m1
<1>4. ASSUME "decklights" \notin touched'
      PROVE  "decklights" \in enabled' /\ DecksShown(queue', count', config'[2], outputs'[2])
  <2>1. /\ "decklights" \in enabled \/ Enabling(queue)
        /\ DecksShown(queue, count, config[2], outputs[2])
    BY <1>1, <1>4 DEF DecksInv
  <2>2. "decklights" \in enabled'
    <3>1. ~Enabling(queue)
      BY <1>1, <1>2 DEF Enabling, Show, Message
    <3>2. QED
      BY <1>1, <2>1, <3>1
  <2>3. ~IsExpiry(queue[1])
    <3>1. PICK f, a, m, n : Numbers(queue, f, a, m, n)
      BY <2>1 DEF DecksShown
    <3>2. QED
      BY <1>1, <1>2, <3>1 DEF Numbers, Expiries
  <2> DEFINE new == config'[2]
             newOut == outputs'[2]
  <2>4. /\ IsDecklight(queue[1]) =>
             new = Switch(config[2], queue[1].data.byte + 1, queue[1].data.word)
        /\ ~IsDecklight(queue[1]) => LitIn(new) \subseteq LitIn(config[2])
    BY <1>1, <1>2, ConfigOfDecklights DEF IsDecklight
  <2>5. /\ newOut = outputs[2] \/ (queue[1].type \in {"MSG_LOAD", "MSG_MAG_RESET"} /\ newOut = new)
        /\ IsLoad(queue[1]) => newOut = new
    BY <1>1, <1>2 DEF IsLoad
  <2> HIDE DEF new, newOut
  <2>6. DecksSet(queue[1], config[2], outputs[2], new, newOut)
    BY <2>4, <2>5 DEF DecksSet
  <2>7. DecksShown(Tail(queue), count, new, newOut)
    BY <1>1, <2>1, <2>3, <2>6, DecksTaken
  <2>8. QED
    BY <1>1, <1>2, <2>2, <2>7 DEF new, newOut
<1>5. QED
  BY <1>3, <1>4 DEF DecksInv

LEMMA DecksInvInit == ShowInit => DecksInv
<1> SUFFICES ASSUME ShowInit PROVE DecksInv
  OBVIOUS
<1> DEFINE m1 == Show("MSG_LIGHTSHOW", "decklights", "ENABLE")
           m2 == Show("MSG_LIGHTSHOW", "headlights", "ENABLE")
           m3 == Show("MSG_LIGHTSHOW_START", "", "")
<1>1. /\ ~IsExpiry(m1) /\ ~IsExpiry(m2) /\ ~IsExpiry(m3)
      /\ ~IsDecklight(m1) /\ ~IsDecklight(m2) /\ ~IsDecklight(m3)
  BY DEF Show, Message, IsExpiry, IsDecklight
<1>2. queue = <<m1, m2, m3>> /\ count = 0
  BY DEF ShowInit
<1> HIDE DEF m1, m2, m3
<1>3. Len(queue) = 3 /\ queue[1] = m1 /\ queue[2] = m2 /\ queue[3] = m3
  BY <1>2
<1>4. \A i \in 1 .. Len(queue) : ~IsExpiry(queue[i]) /\ ~IsDecklight(queue[i])
  <2>1. \A i \in 1 .. Len(queue) : i = 1 \/ i = 2 \/ i = 3
    BY <1>3
  <2>2. QED
    BY <1>1, <1>3, <2>1
<1>5. config[2] = {} /\ outputs[2] = {}
  <2>1. config = [i \in 0 .. 4 |-> IF i = 3 THEN {2} ELSE {}]
        /\ outputs = [i \in 0 .. 3 |-> config[i]]
    BY DEF ShowInit, CB2_init
  <2>2. QED
    BY <2>1
<1> DEFINE f == [i \in 1 .. Len(queue) |-> -1]
<1>6. f \in [1 .. Len(queue) -> Int] /\ \A i \in 1 .. Len(queue) : f[i] = -1
  OBVIOUS
<1> HIDE DEF f
<1>7. \A i \in 1 .. Len(queue) : ~Posted_(f, 0, i)
  BY <1>6 DEF Posted_
<1>8. Numbers(queue, f, 0, 0, 0)
  <2>1. Expiries(queue, f, 0, 0)
    BY <1>4, <1>6 DEF Expiries
  <2>2. StepsInOrder(queue, f, 0, 0)
    BY <1>4, <1>7 DEF StepsInOrder
  <2>3. Waited(queue, f, 0)
    BY <1>7 DEF Waited
  <2>4. \A b \in Int : ~(0 <= b /\ b < 0)
    OBVIOUS
  <2>5. 0 \in Nat /\ 0 <= 0 + MaxTimeouts /\ 0 <= MaxTimeouts
    BY TimeoutsPositive
  <2>6. QED
    BY <1>6, <2>1, <2>2, <2>3, <2>4, <2>5 DEF Numbers
<1>9. LitIn(config[2]) = {} /\ LitIn(outputs[2]) = {}
  BY <1>5 DEF LitIn
<1>10. Shows(queue, f, 0, 0, config[2])
  BY <1>7, <1>9 DEF Shows, Begun
<1>11. DecksShown(queue, count, config[2], outputs[2])
  <2>1. count = 0 % 256
    BY <1>2
  <2>2. LitIn(outputs[2]) \subseteq Shown((0 - 1) % 256)
    BY <1>9
  <2>3. QED
    BY <1>8, <1>10, <2>1, <2>2 DEF DecksShown
<1>12. Enabling(queue)
  BY <1>3 DEF Enabling, m1
<1>13. QED
  BY <1>11, <1>12, LightInvInit DEF DecksInv

LEMMA DecksInvStep == DecksInv /\ [ShowNext]_lightVars => DecksInv'
<1> SUFFICES ASSUME DecksInv, [ShowNext]_lightVars PROVE DecksInv'
  OBVIOUS
<1>1. CASE TakeStep
  BY <1>1, StepShown
<1>2. CASE Expire \/ \E x \in Asks : Ask(x)
  BY <1>2, PostedShown
<1>3. CASE StartStop \/ Enable
  BY <1>3, ControlShown
<1>4. CASE CB2Handle /\ UNCHANGED <<show, asked, touched>>
  BY <1>4, HandledShown
<1>5. CASE UNCHANGED lightVars
  <2>1. LightInv'
    BY <1>5, LightInvStep DEF DecksInv
  <2>2. UNCHANGED <<queue, config, outputs, enabled, count, touched>>
    BY <1>5 DEF lightVars, show
  <2>3. QED
    BY <2>1, <2>2 DEF DecksInv
<1>6. QED
  BY <1>1, <1>2, <1>3, <1>4, <1>5 DEF ShowNext

(* One deck light of the U is on at a time (lightshow.c:29), for whatever   *)
(* messages applications send and however many expiries wait, as long as   *)
(* none sets a deck light or disables them; but for light 1 before the     *)
(* fifth step after the count has wrapped.                                 *)
THEOREM OneLightOfU == ShowSpec => []OneDecklight
<1>1. DecksInv => OneDecklight
  <2> SUFFICES ASSUME DecksInv, "decklights" \notin touched
               PROVE  Cardinality(IF count <= 4 + MaxTimeouts THEN Lit \ {1} ELSE Lit) <= 1
    BY DEF OneDecklight
  <2>1. PICK f, a, m, n : /\ Numbers(queue, f, a, m, n) /\ count = a % 256
                          /\ LitIn(outputs[2]) \subseteq Shown((m - 1) % 256)
    BY DEF DecksInv, DecksShown
  <2>2. a \in Nat /\ m \in Nat /\ m <= a /\ a <= m + MaxTimeouts
    BY <2>1 DEF Numbers
  <2>3. Lit = LitIn(outputs[2])
    BY DEF Lit, LitIn
  <2>4. QED
    BY <2>1, <2>2, <2>3, LightsOfStep
<1>2. QED
  BY <1>1, DecksInvInit, DecksInvStep, PTL DEF ShowSpec
=============================================================================
