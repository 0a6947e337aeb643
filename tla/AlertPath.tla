------------------------------- MODULE AlertPath -------------------------------
(***************************************************************************)
(* The alert driver and the motor control module                           *)
(* (src/robot/sw/code/sos-1.x/modules/mc/motorcontrol) on the brain, which *)
(* share the I2C bus: the one reads the body's alert over it, the other    *)
(* sends the body its motor commands, and forgets its speed when it is     *)
(* told of an alert.                                                       *)
(***************************************************************************)
EXTENDS HipriInt

CONSTANTS
  Asked,      \* the changes of speed that applications ask for
  MaxChanges, \* bound: MSG_CHANGE_SPEED messages
  MaxInputs   \* bound: these and alerts together

VARIABLES
  speed,    \* mcontrol_state_t.speed: the two wheels, or MOTOR_STOP
  onWay,    \* the speeds since the last change that the bus accepted, while that
            \* is on its way
  body,     \* the last motor command the body obeys
  changes,  \* changes of speed so far
  app       \* another listener: "in" the table, or "gone" from it

motorVars == <<speed, onWay, body, changes, app>>
alertVars == <<queue, i2c, hipriVars, motorVars>>

\* What a wheel is told, whatever the gear.  MOTOR_STOP as a speed is 0xC0, which
\* for the body is no command at all.
Gears == {"stop", "rev", "fwd"}
Wheels(l, r) == [left |-> l, right |-> r]
MOTOR_STOP == Wheels("0xC0", "0xC0")
Standing == Wheels("stop", "stop")

\* The data of MSG_CHANGE_SPEED: a command for one wheel, which keeps the other, for
\* both wheels, or a byte that names no side.  All gears forward are one, and all
\* in reverse; MOTOR_STOP as a command stops both wheels.
Told ==
  [LFT_STOP           |-> Wheels("stop", "kept"), RGT_STOP       |-> Wheels("kept", "stop"),
   LFT_REV_NORMAL     |-> Wheels("rev", "kept"),  RGT_REV_NORMAL |-> Wheels("kept", "rev"),
   LFT_FWD_MAX        |-> Wheels("fwd", "kept"),  RGT_FWD_MAX    |-> Wheels("kept", "fwd"),
   MOTOR_STOP         |-> Standing,               MOTOR_FULL_SPEED |-> Wheels("fwd", "fwd"),
   MOTOR_FULL_REVERSE |-> Wheels("rev", "rev"),   MOTOR_RIGHT_MAX  |-> Wheels("rev", "fwd"),
   MOTOR_LEFT_MAX     |-> Wheels("fwd", "rev")]
Changes == DOMAIN Told \cup {"neither"}

ASSUME ChangesAssumption == MaxChanges \in Nat /\ MaxInputs \in Nat /\ Asked \subseteq Changes

AlertInit ==
  /\ HipriInit
  /\ registered = <<"app">>
  /\ speed = MOTOR_STOP /\ onWay = {Standing} /\ body = Standing /\ changes = 0
  /\ app = "in"
  /\ i2c = Idle
  /\ queue = <<Message("hipri", "MSG_INIT", ""), Message("motor", "MSG_INIT", "")>>

-----------------------------------------------------------------------------
\* An application asks for a change of speed.
AskSpeed(c) ==
  /\ changes < MaxChanges /\ alerts + changes < MaxInputs
  /\ changes' = changes + 1
  /\ queue' = Append(queue, Message("motor", "MSG_CHANGE_SPEED", c))
  /\ UNCHANGED <<i2c, hipriVars, speed, onWay, body, app>>

unregistered == <<driver, overlooked, int7, register, alerts>>

\* An application that has registered before motor control leaves.
AppDeregisters ==
  /\ ~deciding /\ app = "in" /\ app' = "gone"
  /\ DeregisterFrom("app")
  /\ UNCHANGED <<queue, i2c, unregistered, speed, onWay, body, changes>>

AppHears ==
  /\ ~deciding /\ Next_is("app", "MSG_HIPRI_INT")
  /\ Dispatch(<<>>)
  /\ UNCHANGED <<i2c, hipriVars, motorVars>>

\* The speed is forgotten, also that of a change that is on its way.
Forget ==
  /\ speed' = MOTOR_STOP
  /\ onWay' = IF i2c.client = "motor" THEN onWay \cup {MOTOR_STOP} ELSE onWay

\* MSG_INIT of motor control.
StartMotor ==
  /\ ~deciding /\ Next_is("motor", "MSG_INIT")
  /\ Dispatch(<<>>)
  /\ Forget
  /\ RegisterIn("motor")
  /\ UNCHANGED <<i2c, unregistered, body, changes, app>>

\* The masks keep the wheel that is not named, and clear what made the speed
\* MOTOR_STOP.
Kept == IF speed = MOTOR_STOP THEN Standing ELSE speed
NewSpeed(c) ==
  IF c \notin DOMAIN Told THEN MOTOR_STOP
  ELSE [w \in {"left", "right"} |-> IF Told[c][w] = "kept" THEN Kept[w] ELSE Told[c][w]]

\* Mutant: a refusal of the bus is not reported.
ChangeSpeedUnreported ==
  /\ ~deciding /\ Next_is("motor", "MSG_CHANGE_SPEED")
  /\ Dispatch(<<>>)
  /\ speed' = NewSpeed(Head(queue).data)
  /\ i2c' = IF Busy THEN i2c ELSE Transfer("motor", "send")
  /\ onWay' = {speed'}
  /\ UNCHANGED <<hipriVars, body, changes, app>>

\* MSG_CHANGE_SPEED: the speed is changed whether or not it can be sent.  If the bus
\* is taken by an earlier change, it is this one that goes out.
ChangeSpeed ==
  /\ ~deciding /\ Next_is("motor", "MSG_CHANGE_SPEED")
  /\ Dispatch(<<>>)
  /\ speed' = NewSpeed(Head(queue).data)
  /\ i2c' = IF Busy THEN i2c ELSE Transfer("motor", "send")
  /\ onWay' = IF ~Busy THEN {speed'}
              ELSE IF i2c.client = "motor" THEN onWay \cup {speed'} ELSE onWay
  /\ UNCHANGED <<hipriVars, body, changes, app>>

\* MSG_HIPRI_INT.
StopSpeed ==
  /\ ~deciding /\ Next_is("motor", "MSG_HIPRI_INT")
  /\ Dispatch(<<>>)
  /\ Forget
  /\ UNCHANGED <<i2c, hipriVars, body, changes, app>>

\* MSG_I2C_SEND_DONE.
SpeedSent ==
  /\ ~deciding /\ Next_is("motor", "MSG_I2C_SEND_DONE")
  /\ Dispatch(<<>>)
  /\ UNCHANGED <<i2c, hipriVars, motorVars>>

\* The byte, read from the module's state as it goes out, reaches the body.
SendSpeed ==
  /\ i2c = Transfer("motor", "send")
  /\ i2c' = Idle
  /\ body' = IF speed = MOTOR_STOP THEN body ELSE speed
  /\ queue' = Append(queue, Message("motor", "MSG_I2C_SEND_DONE", ""))
  /\ UNCHANGED <<hipriVars, speed, onWay, changes, app>>

-----------------------------------------------------------------------------
MotorStep == StartMotor \/ ChangeSpeed \/ StopSpeed \/ SpeedSent \/ SendSpeed
AlertNext ==
  \/ HipriStep /\ UNCHANGED motorVars
  \/ MotorStep
  \/ AppDeregisters \/ AppHears
  \/ alerts + changes < MaxInputs /\ Alert /\ UNCHANGED <<motorVars, queue, i2c>>
  \/ \E c \in Asked : AskSpeed(c)

\* Messages are dispatched, the bus and the timer run, the interrupt is taken.
Alone(A) == A /\ UNCHANGED motorVars
AlertFairness ==
  /\ WF_alertVars(Alone(Handlers)) /\ WF_alertVars(Alone(Bus))
  /\ WF_alertVars(Alone(TimerExpires)) /\ WF_alertVars(Alone(Interrupt7))
  /\ WF_alertVars(SendSpeed) /\ WF_alertVars(AppHears)
  /\ WF_alertVars(StartMotor \/ ChangeSpeed \/ StopSpeed \/ SpeedSent)

AlertSpec == AlertInit /\ [][AlertNext]_alertVars /\ AlertFairness

-----------------------------------------------------------------------------
(* Types and properties.                                                    *)

AlertTypeOK ==
  /\ state \in {"INIT", "IDLE", "RESET_REG1", "RESET_REG2", "REQUEST_READ",
                "READ_REGISTER"}
  /\ i2c_packet \in {"config", "low", "high", "request"}
  /\ pointer \in {"input", "output", "config"}
  /\ timer \in BOOLEAN /\ deciding \in BOOLEAN /\ int7 \in BOOLEAN
  /\ latch \in BOOLEAN /\ seen \in BOOLEAN /\ released \in BOOLEAN
  /\ speed \in {MOTOR_STOP} \cup [{"left", "right"} -> Gears]

\* An alert of the body makes motor control forget its speed, though the bus may
\* be taken, the interrupt may come while a packet is on its way and timers may
\* expire late; unless an interrupt once came where the driver looks no more: after
\* its test for RESET_REG2 and before its assignment (hipri_int.c:161-164), or after
\* a read that found the flip-flop clear and before the driver was told (194-206).
\* Either leaves the line pulled and the driver idle.
AlertStopsSpeed ==
  latch /\ state \in {"IDLE", "RESET_REG2"} ~> speed = MOTOR_STOP \/ overlooked

\* When the driver has come to rest the flip-flop is no longer held in reset: the
\* next alert is not lost.
RestMeansReady ==
  /\ state = "IDLE" /\ i2c.client # "hipri" /\ ~timer
  /\ \A k \in DOMAIN queue : queue[k].to # "hipri"
  => released

\* The body obeys the last change of speed that the bus accepted; or, since the byte
\* is read again as it goes out, one that came while that change was on its way and
\* was itself refused; or, if the byte was forgotten then or named no side, no newer
\* one.  A refused change with no other on its way never reaches the body.
AcceptedSpeedArrives ==
  i2c.client # "motor" => body \in onWay \/ MOTOR_STOP \in onWay
=============================================================================
