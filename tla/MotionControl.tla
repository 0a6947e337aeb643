---------------------------- MODULE MotionControl ----------------------------
(***************************************************************************)
(* MotionControlM on top of DualMotorControllerM: moving and turning the   *)
(* robot for a time, with the task queue, the timers, the UART and the     *)
(* motor controller they run on.                                           *)
(*                                                                         *)
(* Commands and Timer.fired run in tasks, motorParamsChanged inside the    *)
(* transmit interrupt.  A step of this module is an interrupt handler or a *)
(* piece of a task between two points where an interrupt could tell the    *)
(* difference: handlers touch only dmcState, params, mState and tx, so a   *)
(* task is cut where it lets go of these, between mState = IDLE and the    *)
(* reset of the driver that follows (AbortMove, MoveTimerFired and         *)
(* TurnTimerFired, then FinishReset).                                      *)
(***************************************************************************)
EXTENDS DualMotorController, FiniteSets

CONSTANTS
  Distances,  \* arguments of move that clients use, 8-bit
  Degrees,    \* arguments of turnRobot that clients use, 16-bit
  Backlog     \* clients make zero-length requests while fewer tasks wait

ASSUME ArgumentsAssumption ==
  /\ Distances \subseteq Int8
  /\ Degrees \subseteq Int16
  /\ Backlog \in Nat

VARIABLES
  mState,          \* MotorState
  distanceToMove,
  degreeToMove,
  resetFor,        \* why a task is about to reset the driver, "no" if none is
  timer,           \* TimerC: the two timers of MotionControlM, and the driver's
  queue            \* the task queue

mcVars == <<mState, distanceToMove, degreeToMove>>
vars == <<dmcState, params, tx, frame, wheels, recovering, early, mState,
          distanceToMove, degreeToMove, resetFor, timer, queue>>

MotionTimers == {"mfTimer", "turnTimer"}
Timers       == MotionTimers \cup {"dmcTimer"}
DoneTasks    == {"signalMoveDone", "signalTurnDone"}
Tasks        == Timers \cup DoneTasks

MoveStates == {"ONE_MOTOR_MF_STARTED", "BOTH_MOTOR_MF_STARTED", "MOVING_FORWARD"}
TurnStates == {"ONE_MOTOR_TURNING_STARTED", "BOTH_MOTOR_TURNING_STARTED", "TURNING"}
MStates    == {"IDLE"} \cup MoveStates \cup TurnStates

Running == {"MOVING_FORWARD", "TURNING"}
Started == (MoveStates \cup TurnStates) \ Running

Full(motor, dir) == [motorID |-> motor, dir |-> dir, speed |-> 127]

DirOf(n) == IF n >= 0 THEN FORWARD ELSE BACKWARD

Opposite(dir) == IF dir = FORWARD THEN BACKWARD ELSE FORWARD

\* In 16 bits, the most negative value is its own opposite.
Negated(degree) == IF degree = -32768 THEN degree ELSE -degree

-----------------------------------------------------------------------------
Init ==
  /\ DmcInit
  /\ mState = "IDLE"
  /\ distanceToMove = 0
  /\ degreeToMove = 0
  /\ resetFor = "no"
  /\ timer = [id \in Timers |-> "off"]
  /\ queue = <<>>

(* The processor is free to take the next task.                            *)
BetweenTasks == resetFor = "no"

-----------------------------------------------------------------------------
(* Commands, called by a client's task.  A command that returns FAIL       *)
(* changes nothing.                                                        *)

(* (Wrong: a move is accepted whatever the robot is doing.)                *)
MoveAnytime(distance) ==
  /\ BetweenTasks
  /\ distance # 0
  /\ distanceToMove' = distance
  /\ mState' = "ONE_MOTOR_MF_STARTED"
  /\ ChangeMotorParams(Full(0, DirOf(distance)), dmcState, tx)
  /\ timer' = TimerStart(timer, "mfTimer")
  /\ UNCHANGED <<chipVars, degreeToMove, resetFor, queue>>

Move(distance) ==
  /\ BetweenTasks
  /\ mState = "IDLE"
  /\ \/ /\ distance = 0
        /\ Len(queue) < Backlog
        /\ queue' = Append(queue, "signalMoveDone")
        /\ UNCHANGED <<dmcVars, mcVars, timer>>
     \/ /\ distance # 0
        /\ distanceToMove' = distance
        /\ mState' = "ONE_MOTOR_MF_STARTED"
        /\ ChangeMotorParams(Full(0, DirOf(distance)), dmcState, tx)
        /\ timer' = TimerStart(timer, "mfTimer")
        /\ UNCHANGED <<chipVars, degreeToMove, queue>>
  /\ UNCHANGED resetFor

TurnRobot(degree) ==
  /\ BetweenTasks
  /\ mState = "IDLE"
  /\ \/ /\ degree = 0
        /\ Len(queue) < Backlog
        /\ queue' = Append(queue, "signalTurnDone")
        /\ UNCHANGED <<dmcVars, mcVars, timer>>
     \/ /\ degree # 0
        /\ degreeToMove' = Negated(degree)
        /\ mState' = "ONE_MOTOR_TURNING_STARTED"
        /\ ChangeMotorParams(Full(0, DirOf(Negated(degree))), dmcState, tx)
        /\ timer' = TimerStart(timer, "turnTimer")
        /\ UNCHANGED <<chipVars, distanceToMove, queue>>
  /\ UNCHANGED resetFor

AbortMove ==
  /\ BetweenTasks
  /\ mState # "IDLE"
  /\ mState' = "IDLE"
  /\ resetFor' = "abort"
  /\ UNCHANGED <<dmcVars, distanceToMove, degreeToMove, timer, queue>>

(* The rest of abortMove and of the two handlers below: the timers that    *)
(* they stop, DualMotorControl.reset with the start of its timer, and the  *)
(* task that reports the end of a motion.                                  *)
(* (Wrong: an abort forgets the timer of turns.)                           *)
StoppedForMove(reason) == IF reason = "turn" THEN {"turnTimer"} ELSE {"mfTimer"}

StoppedFor(reason) ==
  IF reason = "abort" THEN MotionTimers
  ELSE IF reason = "move" THEN {"mfTimer"} ELSE {"turnTimer"}

(* (Wrong: the reports swapped.)                                           *)
ReportOfOther(reason) ==
  IF reason = "move" THEN "signalTurnDone" ELSE "signalMoveDone"

ReportOf(reason) ==
  IF reason = "move" THEN "signalMoveDone" ELSE "signalTurnDone"

FinishReset ==
  /\ resetFor # "no"
  /\ DmcReset
  /\ timer' = [id \in Timers |-> IF id = "dmcTimer" THEN "armed"
                                 ELSE IF id \in StoppedFor(resetFor) THEN "off"
                                 ELSE timer[id]]
  /\ queue' = IF resetFor = "abort" THEN queue
              ELSE Append(queue, ReportOf(resetFor))
  /\ resetFor' = "no"
  /\ UNCHANGED mcVars

-----------------------------------------------------------------------------
(* The task at the head of the queue.                                      *)

Dispatch(t) ==
  /\ BetweenTasks
  /\ queue # <<>>
  /\ Head(queue) = t
  /\ queue' = Tail(queue)

(* The timer expires and posts its task.  Tasks are prompt: the queue is   *)
(* emptied long before a timer that has just fired can fire again.         *)
Expire(id) ==
  /\ timer[id] = "armed"
  /\ ~Queued(queue, id)
  /\ timer' = [timer EXCEPT ![id] = "due"]
  /\ queue' = Append(queue, id)
  /\ UNCHANGED <<dmcVars, mcVars, resetFor>>

(* mfTimer.fired: FAIL, and a new try at the next period, until both       *)
(* motors run.                                                             *)
(* (Wrong: the timer is not started again.)                                *)
MoveTimerFiredOnce ==
  /\ Dispatch("mfTimer")
  /\ timer' = AfterExpiry(timer, "mfTimer", FALSE)
  /\ IF mState = "MOVING_FORWARD" /\ Delivered(timer, "mfTimer")
       THEN mState' = "IDLE" /\ resetFor' = "move"
       ELSE UNCHANGED <<mState, resetFor>>
  /\ UNCHANGED <<dmcVars, distanceToMove, degreeToMove>>

MoveTimerFired ==
  /\ Dispatch("mfTimer")
  /\ timer' = AfterExpiry(timer, "mfTimer", TRUE)
  /\ IF mState = "MOVING_FORWARD" /\ Delivered(timer, "mfTimer")
       THEN mState' = "IDLE" /\ resetFor' = "move"
       ELSE UNCHANGED <<mState, resetFor>>
  /\ UNCHANGED <<dmcVars, distanceToMove, degreeToMove>>

TurnTimerFired ==
  /\ Dispatch("turnTimer")
  /\ timer' = AfterExpiry(timer, "turnTimer", TRUE)
  /\ IF mState = "TURNING" /\ Delivered(timer, "turnTimer")
       THEN mState' = "IDLE" /\ resetFor' = "turn"
       ELSE UNCHANGED <<mState, resetFor>>
  /\ UNCHANGED <<dmcVars, distanceToMove, degreeToMove>>

(* The driver's Timer.fired, which stops the timer first.                  *)
ResetTimerFired ==
  /\ Dispatch("dmcTimer")
  /\ IF Delivered(timer, "dmcTimer")
       THEN DmcTimerFired /\ timer' = TimerStop(timer, "dmcTimer")
       ELSE UNCHANGED <<dmcVars, timer>>
  /\ UNCHANGED <<mcVars, resetFor>>

(* moveDone or turnDone is signalled to the clients.                       *)
SignalDone(t) ==
  /\ Dispatch(t)
  /\ UNCHANGED <<dmcVars, mcVars, resetFor, timer>>

-----------------------------------------------------------------------------
(* Hardware.                                                               *)

(* DualMotorControl.motorParamsChanged: the second motor after the first,  *)
(* then the motion has begun.  dmcState is IDLE when it is signalled.      *)
MotorParamsChanged ==
  \/ /\ mState = "ONE_MOTOR_MF_STARTED"
     /\ ChangeMotorParams(Full(1, DirOf(distanceToMove)), "IDLE", <<>>)
     /\ mState' = "BOTH_MOTOR_MF_STARTED"
  \/ /\ mState = "ONE_MOTOR_TURNING_STARTED"
     /\ ChangeMotorParams(Full(1, Opposite(DirOf(degreeToMove))), "IDLE", <<>>)
     /\ mState' = "BOTH_MOTOR_TURNING_STARTED"
  \/ /\ mState \notin {"ONE_MOTOR_MF_STARTED", "ONE_MOTOR_TURNING_STARTED"}
     /\ mState' = IF mState = "BOTH_MOTOR_MF_STARTED" THEN "MOVING_FORWARD"
                  ELSE IF mState = "BOTH_MOTOR_TURNING_STARTED" THEN "TURNING"
                  ELSE mState
     /\ dmcState' = "IDLE"
     /\ tx' = <<>>
     /\ UNCHANGED params

(* The byte in the shift register reaches the controller.  The transmit   *)
(* interrupt is raised, and handled, when no byte follows it.              *)
ByteSent ==
  /\ tx # <<>>
  /\ ChipReceives(Head(tx))
  /\ \/ /\ Len(tx) > 1
        /\ tx' = Tail(tx)
        /\ UNCHANGED <<dmcState, params, mState>>
     \/ /\ Len(tx) = 1
        /\ \/ PutNextByte /\ UNCHANGED mState
           \/ dmcState = "SPEED_SENT" /\ MotorParamsChanged
           \/ PutDoneIgnored /\ UNCHANGED mState
  /\ UNCHANGED <<distanceToMove, degreeToMove, resetFor, timer, queue>>

(* 100 ms after the last reset the chip is ready again and the driver's    *)
(* timer, if it runs, expires.  A byte takes one millisecond: none that    *)
(* was on its way at the reset is left.  Tasks are prompt, as for Expire.  *)
ResetPeriodEnds ==
  /\ recovering
  /\ Len(tx) <= IF dmcState \in SentStates THEN 1 ELSE 0
  /\ ~Queued(queue, "dmcTimer")
  /\ recovering' = FALSE
  /\ IF timer["dmcTimer"] = "armed"
       THEN /\ timer' = [timer EXCEPT !["dmcTimer"] = "due"]
            /\ queue' = Append(queue, "dmcTimer")
       ELSE UNCHANGED <<timer, queue>>
  /\ UNCHANGED <<dmcState, params, tx, frame, wheels, early, mcVars, resetFor>>

-----------------------------------------------------------------------------
RunTask ==
  \/ MoveTimerFired
  \/ TurnTimerFired
  \/ ResetTimerFired
  \/ \E t \in DoneTasks : SignalDone(t)

Client ==
  \/ \E distance \in Distances : Move(distance)
  \/ \E degree \in Degrees : TurnRobot(degree)
  \/ AbortMove

Next ==
  \/ Client
  \/ FinishReset
  \/ RunTask
  \/ ByteSent
  \/ \E id \in MotionTimers : Expire(id)
  \/ ResetPeriodEnds

Spec == Init /\ [][Next]_vars

(* A started task ends, bytes are sent and timers expire.  Clients share   *)
(* the processor with the queue, which is served in order, so a task that  *)
(* is at the head again and again runs; clients themselves owe nothing.    *)
Fairness ==
  /\ WF_vars(FinishReset)
  /\ SF_vars(RunTask)
  /\ WF_vars(ByteSent)
  /\ \A id \in MotionTimers : WF_vars(Expire(id))
  /\ WF_vars(ResetPeriodEnds)

FairSpec == Spec /\ Fairness

-----------------------------------------------------------------------------
(* Properties.                                                             *)

Reasons == {"no", "abort", "move", "turn"}

(* Every variable has its type.  A degree stays in 16 bits, and no byte    *)
(* but the start byte has its high bit set, so that the controller cannot  *)
(* take part of a command for the beginning of one.                        *)
TypeOK ==
  /\ dmcState \in DMCStates
  /\ params \in MotorParams
  /\ tx \in Seq(WireByte)
  /\ frame \in Seq(WireByte)
  /\ wheels \in [Motors -> Velocities]
  /\ recovering \in BOOLEAN
  /\ early \in BOOLEAN
  /\ mState \in MStates
  /\ distanceToMove \in Int8
  /\ degreeToMove \in Int16
  /\ resetFor \in Reasons
  /\ timer \in [Timers -> TimerStates]
  /\ queue \in Seq(Tasks)

\* The chip has of the command in progress what the driver has sent, or
\* nothing, if its first byte came too early.
Received(part) == frame = part \/ (early /\ frame = <<>>)

\* What the driver has handed to the UART ends with this byte; of a command
\* begun too early, bytes from before the reset may be in front of it.
OnItsWay(byte) ==
  /\ Len(tx) >= 1 /\ tx[Len(tx)] = byte
  /\ Len(tx) > 1 => early /\ recovering

(* A command reaches the controller whole or not at all: what the chip has *)
(* of it and what is on its way is the part that the driver's state says,  *)
(* although the parameter block is shared with the client and read byte by *)
(* byte, and a reset may fall between any two bytes.  A command is lost    *)
(* only when an expiry from before the reset cut short the pause after it, *)
(* and then the chip takes no part of it for part of another.              *)
FrameIntegrity ==
  /\ dmcState \notin SentStates => frame = <<>>
  /\ dmcState \notin SentStates /\ ~recovering => tx = <<>>
  /\ dmcState = "START_SENT" =>
       OnItsWay(MTR_CTR_START_BYTE) /\ frame = <<>>
  /\ dmcState = "CTRID_SENT" =>
       OnItsWay(MTR_CTR_DEV_TYPE) /\ Received(<<MTR_CTR_START_BYTE>>)
  /\ dmcState = "MOTORID_DIR_SENT" =>
       /\ OnItsWay(MotorByte(params))
       /\ Received(<<MTR_CTR_START_BYTE, MTR_CTR_DEV_TYPE>>)
  /\ dmcState = "SPEED_SENT" =>
       /\ OnItsWay(params.speed)
       /\ Received(<<MTR_CTR_START_BYTE, MTR_CTR_DEV_TYPE, MotorByte(params)>>)

(* Once the driver has been reset, no byte of a new command is sent before *)
(* the controller has had its 100 ms to recover.  An expiry of the timer   *)
(* that was queued before the reset breaks this.                           *)
ResetRespected == dmcState \in SentStates => ~recovering

\* Wheel m turns at full speed, or its command was lost.
Turns(m, dir) == wheels[m] = Velocity(dir, 127) \/ (early /\ wheels[m] = 0)

(* The wheels do what the state of MotionControl says: both in the         *)
(* direction of a move, against each other in a turn, and standing still   *)
(* when no motion is in progress.  With the timers of TinyOS 1.x a wheel   *)
(* whose command was begun too early stands still in a motion; none ever   *)
(* turns the wrong way, or turns when no motion is in progress.            *)
WheelsMatchState ==
  /\ mState = "MOVING_FORWARD" =>
       Turns(0, DirOf(distanceToMove)) /\ Turns(1, DirOf(distanceToMove))
  /\ mState = "TURNING" =>
       Turns(0, DirOf(degreeToMove)) /\ Turns(1, Opposite(DirOf(degreeToMove)))
  /\ mState = "IDLE" /\ BetweenTasks => wheels = Stopped
  /\ mState \in {"ONE_MOTOR_MF_STARTED", "ONE_MOTOR_TURNING_STARTED"} =>
       wheels = Stopped

(* A motion that is starting has a command under way in the driver, or one *)
(* that waits for a reset timer that will fire; in every other state the   *)
(* driver is free.  So the result of changeMotorParams, which              *)
(* MotionControlM never looks at, is never FAIL.                           *)
StartingIsServed ==
  /\ mState \in Started => dmcState \in SentStates \cup {"CMD_PENDING"}
  /\ mState \notin Started /\ BetweenTasks => dmcState \in {"IDLE", "RESETED"}
  /\ dmcState \in {"RESETED", "CMD_PENDING"} =>
       \/ timer["dmcTimer"] = "armed" /\ recovering
       \/ timer["dmcTimer"] = "due" /\ Queued(queue, "dmcTimer")

(* Exactly the timer of the motion in progress runs, so that a motion is   *)
(* always ended by its own timer and none is ended by a timer left over.   *)
TimerOfMotion ==
  BetweenTasks =>
    /\ timer["mfTimer"] # "off" <=> mState \in MoveStates
    /\ timer["turnTimer"] # "off" <=> mState \in TurnStates

(* A motion that was accepted ends.                                        *)
MotionEnds == mState # "IDLE" ~> mState = "IDLE" /\ BetweenTasks

(* MotionControl implements MotionService: the moment at which a motion is *)
(* complete is the one at which its report is posted.                      *)
phaseBar ==
  CASE mState \in Started -> "starting"
    [] mState \in Running \/ resetFor \in {"move", "turn"} -> "running"
    [] OTHER -> "idle"

motionBar ==
  CASE mState \in MoveStates \/ resetFor = "move" -> "move"
    [] mState \in TurnStates \/ resetFor = "turn" -> "turn"
    [] OTHER -> "none"

\* Of the reports queued, the k-th is a moveDone or a turnDone.
ReportsUpTo(q, i) == {j \in 1 .. i : q[j] \in DoneTasks}

OwedIn(q) ==
  [k \in 1 .. Cardinality(ReportsUpTo(q, Len(q))) |->
     IF \E i \in 1 .. Len(q) :
          q[i] = "signalMoveDone" /\ Cardinality(ReportsUpTo(q, i)) = k
     THEN "move" ELSE "turn"]

owedBar == OwedIn(queue)

Service ==
  INSTANCE MotionService WITH
    phase  <- phaseBar,
    motion <- motionBar,
    owed   <- owedBar

ImplementsService == Service!FairSpec

-----------------------------------------------------------------------------
(* The inductive invariants behind the theorems of MotionControlProofs.    *)

(* Whatever a stop of a timer does to an expiry in the queue: control is   *)
(* where the states of the two components say it is, and the driver's      *)
(* timer is pending only while the driver waits for it.                    *)
ControlInv ==
  /\ TypeOK
  /\ StartingIsServed
  /\ TimerOfMotion
  /\ resetFor # "no" => mState = "IDLE"
  /\ resetFor = "move" => timer["turnTimer"] = "off"
  /\ resetFor = "turn" => timer["mfTimer"] = "off"
  /\ dmcState \notin {"RESETED", "CMD_PENDING"} =>
       timer["dmcTimer"] = "off" /\ ~Queued(queue, "dmcTimer")
  /\ dmcState = "CMD_PENDING" =>
       mState \in {"IDLE", "ONE_MOTOR_MF_STARTED", "ONE_MOTOR_TURNING_STARTED"}
  /\ AtMostOnce(queue, "dmcTimer")

(* The driver, the UART and the controller agree, the parameter block is   *)
(* the one that the state of MotionControl calls for, and only a driver    *)
(* that went on too early sends to a controller that recovers.             *)
WireInv ==
  /\ FrameIntegrity
  /\ WheelsMatchState
  /\ recovering => frame = <<>> /\ wheels = Stopped
  /\ recovering /\ dmcState \notin {"RESETED", "CMD_PENDING"} => early
  /\ dmcState \in {"RESETED", "CMD_PENDING"} => wheels = Stopped
  /\ timer["dmcTimer"] = "due" => ~recovering
  /\ mState = "ONE_MOTOR_MF_STARTED" => params = Full(0, DirOf(distanceToMove))
  /\ mState = "ONE_MOTOR_TURNING_STARTED" => params = Full(0, DirOf(degreeToMove))
  /\ mState = "BOTH_MOTOR_MF_STARTED" =>
       /\ params = Full(1, DirOf(distanceToMove))
       /\ Turns(0, DirOf(distanceToMove)) /\ wheels[1] = 0
  /\ mState = "BOTH_MOTOR_TURNING_STARTED" =>
       /\ params = Full(1, Opposite(DirOf(degreeToMove)))
       /\ Turns(0, DirOf(degreeToMove)) /\ wheels[1] = 0
=============================================================================
