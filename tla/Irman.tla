--------------------------------- MODULE Irman ---------------------------------
(***************************************************************************)
(* IRMAN, the body controller (src/robot/sw/code/IRMAN): its main loop     *)
(* takes one-byte commands from the I2C interrupt and keeps the robot from *)
(* edges, which the interrupt of the analog converter finds.  The loop and *)
(* the two interrupts share the mailbox i2c_buffer, the state of the cliff *)
(* detector and its two readings.                                          *)
(*                                                                         *)
(* A reading is kept as what the code asks of it: whether it reaches its   *)
(* threshold, which it does when its sensor looks over an edge.  The eight *)
(* speeds are kept as their directions.                                    *)
(***************************************************************************)
EXTENDS Naturals

CONSTANT MaxCommands    \* bound: commands sent by the brain

ASSUME CommandsAssumption == MaxCommands \in Nat

Channels == {0, 1}                    \* ADC6 and ADC7
Directions == {"stop", "fwd", "rev"}
Motor(l, r) == [type |-> "motor", left |-> l, right |-> r]
Other(t) == [type |-> t, left |-> "stop", right |-> "stop"]
None == Other("none")                 \* 0xFF, no command

\* Commands the brain sends: motor commands, the test led, calibration.
Commands == {Motor("fwd", "fwd"), Motor("stop", "fwd"), Motor("stop", "stop"),
             Other("led_off"), Other("led_on"), Other("calibrate")}

VARIABLES
  i2c_buffer,  \* the mailbox
  main,        \* the main loop: where it is and the move under way
  robot_state, \* ROBOT_STOP or ROBOT_MOVE
  wheel,       \* direction of the two wheels, "stop" when the output is off
  timer0,      \* the clock of the PWM outputs
  cliff_state, \* state of the cliff detector
  lamp,        \* cliff leds and detector power
  adc,         \* converter: on, and the channel of the conversion under way
  ADMUX,       \* the channel selected
  cliff_val,   \* readings at or above their thresholds
  irman_hi,    \* the alert line, low when the brain is to be alerted
  edge,        \* sensors over an edge
  sent         \* commands sent so far

drive == <<robot_state, wheel, timer0>>
cliff == <<cliff_state, lamp, adc, ADMUX, cliff_val>>
vars == <<i2c_buffer, main, drive, cliff, irman_hi, edge, sent>>

At(pc) == [pc |-> pc, left |-> "stop", right |-> "stop", then |-> "parse"]
Blind == [k \in Channels |-> FALSE]

Init ==
  /\ i2c_buffer = None
  /\ main = At("parse")
  /\ robot_state = "ROBOT_STOP"
  /\ wheel = [left |-> "stop", right |-> "stop"] /\ timer0 = FALSE
  /\ cliff_state = "IRC_IDLE" /\ lamp = FALSE
  /\ adc = [on |-> FALSE, channel |-> 0] /\ ADMUX = 0
  /\ cliff_val = Blind
  /\ irman_hi = TRUE
  /\ edge = Blind
  /\ sent = 0

-----------------------------------------------------------------------------
(* The world: the brain, the robot on its table.                            *)

\* The robot stands, and neither the mailbox nor the main loop holds a command.
Resting == /\ robot_state = "ROBOT_STOP" /\ ~adc.on
           /\ i2c_buffer = None /\ main.pc \in {"parse", "avoid"}

\* SIG_TWI: the byte received replaces whatever the mailbox holds.  The robot is
\* calibrated while it stands, and left alone until that is over.
ReceiveCommand(c) ==
  /\ sent < MaxCommands
  /\ c.type = "calibrate" => Resting
  /\ i2c_buffer.type # "calibrate" /\ main.pc # "calibrate"
  /\ cliff_state \notin {"IRC_CALIBRATE0", "IRC_CALIBRATE1"}
  /\ i2c_buffer' = c
  /\ sent' = sent + 1
  /\ UNCHANGED <<main, drive, cliff, irman_hi, edge>>

Forward == "fwd" \in {wheel.left, wheel.right}
Backward == "rev" \in {wheel.left, wheel.right}

\* Both sensors look ahead: a robot that drives may come over an edge or leave
\* it, one that backs away leaves it.
EdgeMoves(k) ==
  /\ Forward \/ (Backward /\ edge[k])
  /\ edge' = [edge EXCEPT ![k] = ~@]
  /\ UNCHANGED <<i2c_buffer, main, drive, cliff, irman_hi, sent>>

-----------------------------------------------------------------------------
(* The cliff detector, called from the main loop.                           *)

Reading(k) == IF k = 0 THEN "IRC_READCHANNEL0" ELSE "IRC_READCHANNEL1"

ircliff_off == /\ cliff_state' = "IRC_IDLE" /\ lamp' = FALSE
               /\ adc' = [adc EXCEPT !.on = FALSE]

\* A converter that runs already goes on with the channel under way.
SwitchOn == adc' = IF adc.on THEN adc ELSE [on |-> TRUE, channel |-> ADMUX]

ircliff_start == /\ cliff_state' = Reading(0) /\ cliff_val' = Blind
                 /\ SwitchOn

\* ircliff_calibrate between its stall and its end.
EndOfCalibrate ==
  /\ main.pc = "calibrate"
  /\ cliff_val' = Blind
  /\ SwitchOn
  /\ main' = At("avoid")
  /\ UNCHANGED <<i2c_buffer, drive, cliff_state, lamp, ADMUX, irman_hi, edge,
                 sent>>

\* Mutant: the second channel does not hand the converter back.
NextChannelStuck(k) == 1

\* The channel SIG_ADC selects after that of cliff k.
NextChannel(k) == 1 - k

\* SIG_ADC.  The converter runs freely: when a conversion ends, the next one has
\* started on the channel selected before this interrupt.
AdcInterrupt ==
  /\ adc.on
  /\ \/ \E k \in Channels :
        /\ cliff_state = Reading(k)
        /\ cliff_val' = [cliff_val EXCEPT ![k] = edge[adc.channel]]
        /\ cliff_state' = Reading(1 - k) /\ ADMUX' = NextChannel(k)
        /\ adc' = [adc EXCEPT !.channel = ADMUX]
        /\ UNCHANGED lamp
     \/ /\ cliff_state = "IRC_CALIBRATE0"
        /\ cliff_state' = "IRC_CALIBRATE1" /\ ADMUX' = NextChannel(0)
        /\ adc' = [adc EXCEPT !.channel = ADMUX]
        /\ UNCHANGED <<cliff_val, lamp>>
     \/ /\ cliff_state = "IRC_CALIBRATE1"
        /\ ircliff_off
        /\ UNCHANGED <<ADMUX, cliff_val>>
  /\ UNCHANGED <<i2c_buffer, main, drive, irman_hi, edge, sent>>

-----------------------------------------------------------------------------
(* move: the wheels first, then the cliff detector.                         *)

\* Mutant: the right wheel is served before the left one.
TimerRightFirst(l, r) == \/ l # "stop" \/ r # "stop"
                         \/ timer0 /\ wheel.left # "stop"

\* A wheel that turns starts the timer.  The right one stops it if the left
\* output is off, which the left one, served first, has seen to.
TimerAfter(l, r) == l # "stop" \/ r # "stop"

\* Enter move(l, r); the loop goes on at next.
Call(l, r, next) == main' = [pc |-> "move", left |-> l, right |-> r, then |-> next]

\* Mutant: one standing wheel is enough for the robot to count as stopped.
MoveWheelsHalfStopped ==
  /\ main.pc = "move"
  /\ wheel' = [left |-> main.left, right |-> main.right]
  /\ timer0' = TimerAfter(main.left, main.right)
  /\ IF "stop" \in {main.left, main.right}
     THEN /\ robot_state' = "ROBOT_STOP"
          /\ ircliff_off
          /\ main' = At(main.then)
     ELSE /\ robot_state' = "ROBOT_MOVE"
          /\ lamp' = TRUE
          /\ main' = [main EXCEPT !.pc = "start"]
          /\ UNCHANGED <<cliff_state, adc>>
  /\ UNCHANGED <<i2c_buffer, ADMUX, cliff_val, irman_hi, edge, sent>>

\* The first half of move: outputs and robot_state; a robot that stops switches
\* the detector off, one that moves its lamp on.
MoveWheels ==
  /\ main.pc = "move"
  /\ wheel' = [left |-> main.left, right |-> main.right]
  /\ timer0' = TimerAfter(main.left, main.right)
  /\ IF main.left = "stop" /\ main.right = "stop"
     THEN /\ robot_state' = "ROBOT_STOP"
          /\ ircliff_off
          /\ main' = At(main.then)
     ELSE /\ robot_state' = "ROBOT_MOVE"
          /\ lamp' = TRUE
          /\ main' = [main EXCEPT !.pc = "start"]
          /\ UNCHANGED <<cliff_state, adc>>
  /\ UNCHANGED <<i2c_buffer, ADMUX, cliff_val, irman_hi, edge, sent>>

\* The second half of ircliff_medium.
StartDetector ==
  /\ main.pc = "start"
  /\ ircliff_start
  /\ main' = At(main.then)
  /\ UNCHANGED <<i2c_buffer, drive, lamp, ADMUX, irman_hi, edge, sent>>

-----------------------------------------------------------------------------
(* The main loop: i2c_parse, cliff_avoidance.                               *)

\* i2c_parse: the mailbox is emptied with interrupts off, and its command obeyed.
\* The test led is the pin of the alert line.
i2c_parse ==
  /\ main.pc = "parse"
  /\ i2c_buffer' = None
  /\ LET t == i2c_buffer.type IN
     /\ irman_hi' = IF t \in {"led_off", "led_on"} THEN t = "led_on" ELSE irman_hi
     /\ IF t = "calibrate"
        THEN cliff_state' = "IRC_CALIBRATE0" /\ lamp' = TRUE
        ELSE UNCHANGED <<cliff_state, lamp>>
     /\ IF t = "motor"
        THEN Call(i2c_buffer.left, i2c_buffer.right, "avoid")
        ELSE main' = At(IF t = "calibrate" THEN t ELSE "avoid")
  /\ UNCHANGED <<drive, adc, ADMUX, cliff_val, edge, sent>>

\* What a look at the two readings may return: they have two bytes each, and the
\* converter's interrupt may replace one between them.
SeesEdge == (\E k \in Channels : cliff_val[k]) \/ adc.on
SeesNone == (\A k \in Channels : ~cliff_val[k]) \/ adc.on

\* cliff_avoidance up to its loop.
Avoid ==
  /\ main.pc = "avoid" /\ robot_state = "ROBOT_MOVE" /\ SeesEdge
  /\ irman_hi' = FALSE
  /\ Call("rev", "rev", "back")
  /\ UNCHANGED <<i2c_buffer, drive, cliff, edge, sent>>

DriveOn ==
  /\ main.pc = "avoid" /\ (robot_state = "ROBOT_STOP" \/ SeesNone)
  /\ main' = At("parse")
  /\ UNCHANGED <<i2c_buffer, drive, cliff, irman_hi, edge, sent>>

\* The loop has found both readings below their thresholds.
BackedAway ==
  /\ main.pc = "back" /\ SeesNone
  /\ Call("rev", "rev", "clear")
  /\ UNCHANGED <<i2c_buffer, drive, cliff, irman_hi, edge, sent>>

\* Mutant: the line is left for the brain to release.
StopKeepingAlert ==
  /\ main.pc = "clear"
  /\ Call("stop", "stop", "parse")
  /\ UNCHANGED <<i2c_buffer, drive, cliff, irman_hi, edge, sent>>

\* Mutant: commands that came in during the retreat are forgotten.
StopForgetting ==
  /\ main.pc = "clear"
  /\ irman_hi' = TRUE /\ i2c_buffer' = None
  /\ Call("stop", "stop", "parse")
  /\ UNCHANGED <<drive, cliff, edge, sent>>

\* The stall is over.
StopAfterEdge ==
  /\ main.pc = "clear"
  /\ irman_hi' = TRUE
  /\ Call("stop", "stop", "parse")
  /\ UNCHANGED <<i2c_buffer, drive, cliff, edge, sent>>

-----------------------------------------------------------------------------
Main == \/ i2c_parse \/ MoveWheels \/ StartDetector \/ EndOfCalibrate
        \/ Avoid \/ DriveOn \/ BackedAway \/ StopAfterEdge
World == \/ \E c \in Commands : ReceiveCommand(c)
         \/ \E k \in Channels : EdgeMoves(k)
Next == Main \/ AdcInterrupt \/ World

\* A look that finds what the readings say.
Notice == Avoid /\ \E k \in Channels : cliff_val[k]
LeaveEdge(k) == Backward /\ edge[k] /\ EdgeMoves(k)

\* The processor and the converter run; a look is not torn for ever; a robot
\* that backs away leaves the edge.
Fairness == /\ WF_vars(Main) /\ WF_vars(AdcInterrupt) /\ SF_vars(Notice)
            /\ \A k \in Channels : WF_vars(LeaveEdge(k))
Spec == Init /\ [][Next]_vars /\ Fairness

-----------------------------------------------------------------------------
(* Types and properties.                                                    *)

TypeOK ==
  /\ i2c_buffer \in Commands \cup {None}
  /\ main \in [pc : {"parse", "move", "start", "calibrate", "avoid", "back",
                     "clear"},
               left : Directions, right : Directions,
               then : {"parse", "avoid", "back", "clear"}]
  /\ robot_state \in {"ROBOT_STOP", "ROBOT_MOVE"}
  /\ wheel \in [left : Directions, right : Directions]
  /\ timer0 \in BOOLEAN /\ lamp \in BOOLEAN /\ irman_hi \in BOOLEAN
  /\ cliff_state \in {"IRC_IDLE", "IRC_CALIBRATE0", "IRC_CALIBRATE1",
                      "IRC_READCHANNEL0", "IRC_READCHANNEL1"}
  /\ adc \in [on : BOOLEAN, channel : Channels] /\ ADMUX \in Channels
  /\ cliff_val \in [Channels -> BOOLEAN] /\ edge \in [Channels -> BOOLEAN]
  /\ sent \in Nat

Turning == wheel.left # "stop" \/ wheel.right # "stop"

\* A robot whose wheels turn looks out for edges whenever its main loop is not
\* inside move: lamp and converter are on and the readings are being taken
\* (motor.c, the end of move, against SIG_ADC and ircliff_off).
TurningIsWatched ==
  Turning /\ main.pc \notin {"move", "start"} =>
    adc.on /\ lamp /\ \E k \in Channels : cliff_state = Reading(k)

\* The clock of the PWM outputs runs exactly while an output is on, which motor.h
\* puts down to the left wheel coming before the right one.
TimerServesWheels == timer0 <=> Turning

\* A robot that drives with a sensor over an edge stops driving, whichever sensor
\* it is and whatever commands come in meanwhile, unless it leaves the edge.
EdgeStopsRobot ==
  \A k \in Channels : Forward /\ edge[k] ~> ~Forward \/ ~edge[k]

\* A motor command in the mailbox reaches the wheels unless a later command
\* replaces it: a command that comes in while the robot backs away is obeyed
\* afterwards.
CommandsTakeEffect ==
  \A c \in {d \in Commands : d.type = "motor"} :
    i2c_buffer = c ~> \/ wheel = [left |-> c.left, right |-> c.right]
                      \/ i2c_buffer \notin {c, None}

\* The alert is a pulse: the line is released after every retreat, so that the
\* next edge can pull it again.
AlertEnds == main.pc = "back" ~> irman_hi

=============================================================================
