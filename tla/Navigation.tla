----------------------------- MODULE Navigation -----------------------------
(***************************************************************************)
(* NavigationM and OrientM: driving the robot to a place in legs, each a   *)
(* turn towards the place and a move of at most 30 cm, with a localization *)
(* before every decision.                                                  *)
(*                                                                         *)
(* Both components run in tasks only, so that a step is a whole task.  The *)
(* services below them are abstract: motion is the motion in progress of   *)
(* MotionControl, see MotionService; reqs are the localizations requested, *)
(* see Localization; alarm is the obstacle alarm, see ObstacleDetection.   *)
(* Positions and headings are reduced to the outcome of the comparisons    *)
(* made with them: near the destination or not, aligned with it or not.    *)
(***************************************************************************)
EXTENDS TinyOS

CONSTANTS
  Backlog    \* a service or timer reports only while fewer tasks wait

ASSUME BacklogAssumption == Backlog \in Nat

VARIABLES
  navState,    \* NavigationM.state
  orientState, \* OrientM.state
  reqs,        \* the components that wait for their location
  motion,      \* "idle", "move" or "turn"
  alarm,       \* "idle", "watching" (a reading will come) or "deaf" (none will)
  timer,
  queue,
  aborted      \* Navigation.abort was called, for the properties only

vars == <<navState, orientState, reqs, motion, alarm, timer, queue, aborted>>

NavStates == {"IDLE", "NAVIGATING", "ORIENTING", "MOVING"}
Clients   == {"nav", "orient"}
Timers    == {"navTimer", "orientTimer"}
Handlers  == {"handleGotLocalization", "handleMoveDone", "handleOriented",
              "handleOrientFailed", "handleObstacleAlarm"}
Reports   == {"signalMoveDone", "signalTurnDone", "tellLocation", "handleIRRanger"}
Tasks     == Timers \cup Handlers \cup Reports

Init ==
  /\ navState = "IDLE"
  /\ orientState = "IDLE"
  /\ reqs = {}
  /\ motion = "idle"
  /\ alarm = "idle"
  /\ timer = [id \in Timers |-> "off"]
  /\ queue = <<>>
  /\ aborted = FALSE

-----------------------------------------------------------------------------
(* Commands of the components, in the order in which they are called.      *)

(* Orient.orient: refused while an orientation is in progress.             *)
Orient ==
  \/ orientState = "ORIENT" /\ UNCHANGED <<orientState, reqs>>
  \/ /\ orientState = "IDLE"
     /\ orientState' = "ORIENT"
     /\ reqs' = reqs \cup {"orient"}

(* moveToLocation, in the states NAVIGATING and MOVING.                    *)
MoveToLocation == navState' = "ORIENTING" /\ Orient

(* ObstacleDetection.turnOffAlarm stops the timer of the lookups but not a *)
(* reading that has begun, and leaves the alarm set.                       *)
TurnOffAlarm ==
  \/ alarm' = alarm
  \/ alarm = "watching" /\ alarm' = "deaf"

SetObstacleAlarm == alarm' = IF alarm = "idle" THEN "watching" ELSE alarm

-----------------------------------------------------------------------------
(* Commands of a client.                                                   *)

(* (Wrong: no request is made while another waits for its location.)       *)
MoveToUnlessAsked ==
  /\ navState = "IDLE"
  /\ navState' = "NAVIGATING"
  /\ reqs' = IF reqs = {} THEN {"nav"} ELSE reqs
  /\ UNCHANGED <<orientState, motion, alarm, timer, queue, aborted>>

MoveTo ==
  /\ navState = "IDLE"
  /\ navState' = "NAVIGATING"
  /\ reqs' = reqs \cup {"nav"}
  /\ UNCHANGED <<orientState, motion, alarm, timer, queue, aborted>>

(* abort: a move is stopped, but a turn is not.                            *)
Abort ==
  /\ navState' = "IDLE"
  /\ aborted' = TRUE
  /\ \/ /\ navState = "MOVING"
        /\ TurnOffAlarm
        /\ motion' = "idle"
        /\ UNCHANGED <<orientState, timer>>
     \/ /\ navState = "ORIENTING"
        /\ orientState' = "IDLE"
        /\ timer' = TimerStop(timer, "orientTimer")
        /\ UNCHANGED <<motion, alarm>>
     \/ /\ navState = "NAVIGATING"
        /\ UNCHANGED <<orientState, motion, alarm, timer>>
  /\ UNCHANGED <<reqs, queue>>

-----------------------------------------------------------------------------
(* Tasks.                                                                  *)

Rest == Tail(queue)

Dispatch(t) == queue # <<>> /\ Head(queue) = t

(* Localization.location for the clients that wait.  Orient is done, or    *)
(* turns the robot, or reports that MotionControl refuses the turn.        *)
TellLocation ==
  LET told == IF "nav" \in reqs THEN Append(Rest, "handleGotLocalization") ELSE Rest
  IN  /\ Dispatch("tellLocation")
      /\ reqs' = {}
      /\ \/ /\ "orient" \notin reqs \/ orientState = "IDLE"
            /\ queue' = told
            /\ UNCHANGED <<orientState, motion>>
         \/ /\ "orient" \in reqs /\ orientState = "ORIENT"    \* aligned
            /\ orientState' = "IDLE"
            /\ queue' = Append(told, "handleOriented")
            /\ UNCHANGED motion
         \/ /\ "orient" \in reqs /\ orientState = "ORIENT"    \* turnRobot
            /\ motion = "idle"
            /\ motion' = "turn"
            /\ queue' = told
            /\ UNCHANGED orientState
         \/ /\ "orient" \in reqs /\ orientState = "ORIENT"    \* turnRobot fails
            /\ motion # "idle"
            /\ queue' = Append(told, "handleOrientFailed")
            /\ UNCHANGED <<orientState, motion>>
      /\ UNCHANGED <<navState, alarm, timer, aborted>>

HandleGotLocalization ==
  /\ Dispatch("handleGotLocalization")
  /\ queue' = Rest
  /\ \/ /\ navState \in {"NAVIGATING", "MOVING"}
        /\ MoveToLocation
        /\ UNCHANGED alarm
     \/ /\ navState = "MOVING"                                \* near: moveDone
        /\ navState' = "IDLE"
        /\ TurnOffAlarm
        /\ UNCHANGED <<orientState, reqs>>
     \/ /\ navState \notin {"NAVIGATING", "MOVING"}
        /\ UNCHANGED <<navState, orientState, reqs, alarm>>
  /\ UNCHANGED <<motion, timer, aborted>>

(* The leg may be shorter than a centimetre: move(0) only reports.         *)
HandleOriented ==
  /\ Dispatch("handleOriented")
  /\ \/ /\ navState = "ORIENTING"
        /\ navState' = "MOVING"
        /\ SetObstacleAlarm
        /\ \/ motion = "idle" /\ motion' = "move" /\ queue' = Rest
           \/ /\ motion = "idle"
              /\ queue' = Append(Rest, "signalMoveDone")
              /\ UNCHANGED motion
           \/ motion # "idle" /\ queue' = Rest /\ UNCHANGED motion
     \/ /\ navState # "ORIENTING"
        /\ queue' = Rest
        /\ UNCHANGED <<navState, motion, alarm>>
  /\ UNCHANGED <<orientState, reqs, timer, aborted>>

HandleOrientFailed ==
  /\ Dispatch("handleOrientFailed")
  /\ queue' = Rest
  /\ \/ navState = "ORIENTING" /\ Orient
     \/ navState # "ORIENTING" /\ UNCHANGED <<orientState, reqs>>
  /\ UNCHANGED <<navState, motion, alarm, timer, aborted>>

(* (Wrong: waits for the state before the move.)                           *)
HandleMoveDoneLate ==
  /\ Dispatch("handleMoveDone")
  /\ queue' = Rest
  /\ timer' = IF navState = "ORIENTING" THEN TimerStart(timer, "navTimer") ELSE timer
  /\ UNCHANGED <<navState, orientState, reqs, motion, alarm, aborted>>

HandleMoveDone ==
  /\ Dispatch("handleMoveDone")
  /\ queue' = Rest
  /\ timer' = IF navState = "MOVING" THEN TimerStart(timer, "navTimer") ELSE timer
  /\ UNCHANGED <<navState, orientState, reqs, motion, alarm, aborted>>

(* It waits for the state OBS_DETECT, which is assigned nowhere.           *)
HandleObstacleAlarm ==
  /\ Dispatch("handleObstacleAlarm")
  /\ queue' = Rest
  /\ UNCHANGED <<navState, orientState, reqs, motion, alarm, timer, aborted>>

(* The reading that an alarm waits for; near an obstacle, obstacleAlarm is *)
(* signalled.                                                              *)
HandleIRRanger ==
  /\ Dispatch("handleIRRanger")
  /\ \/ /\ alarm' = "idle"
        /\ \/ /\ navState = "MOVING"
              /\ motion' = "idle"
              /\ orientState' = "IDLE"
              /\ timer' = TimerStop(timer, "orientTimer")
              /\ queue' = Append(Rest, "handleObstacleAlarm")
           \/ /\ navState # "MOVING"
              /\ queue' = Rest
              /\ UNCHANGED <<motion, orientState, timer>>
     \/ /\ alarm' = "deaf"
        /\ queue' = Rest
        /\ UNCHANGED <<motion, orientState, timer>>
  /\ UNCHANGED <<navState, reqs, aborted>>

(* MotionControl.moveDone and turnDone, to all who use MotionControl.      *)
SignalMoveDone ==
  /\ Dispatch("signalMoveDone")
  /\ queue' = Append(Rest, "handleMoveDone")
  /\ UNCHANGED <<navState, orientState, reqs, motion, alarm, timer, aborted>>

(* (Wrong: Orient does not look again after a turn.)                       *)
SignalTurnDoneOnly ==
  /\ Dispatch("signalTurnDone")
  /\ queue' = Rest
  /\ UNCHANGED <<navState, orientState, reqs, motion, alarm, timer, aborted>>

SignalTurnDone ==
  /\ Dispatch("signalTurnDone")
  /\ queue' = Rest
  /\ timer' = TimerStart(timer, "orientTimer")
  /\ UNCHANGED <<navState, orientState, reqs, motion, alarm, aborted>>

(* Timer.fired of NavigationM and of OrientM.                              *)
TimerFired(id, c) ==
  /\ Dispatch(id)
  /\ queue' = Rest
  /\ timer' = AfterExpiry(timer, id, FALSE)
  /\ reqs' = IF Delivered(timer, id) THEN reqs \cup {c} ELSE reqs
  /\ UNCHANGED <<navState, orientState, motion, alarm, aborted>>

RunTask ==
  \/ TellLocation
  \/ HandleGotLocalization \/ HandleMoveDone \/ HandleOriented
  \/ HandleOrientFailed \/ HandleObstacleAlarm \/ HandleIRRanger
  \/ SignalMoveDone \/ SignalTurnDone
  \/ TimerFired("navTimer", "nav") \/ TimerFired("orientTimer", "orient")

-----------------------------------------------------------------------------
(* The services: each posts its task when it has a result.  Localizations, *)
(* motions and timers take long, so that few results come together.        *)

Locate ==
  /\ reqs # {}
  /\ Len(queue) < Backlog
  /\ ~Queued(queue, "tellLocation")
  /\ queue' = Append(queue, "tellLocation")
  /\ UNCHANGED <<navState, orientState, reqs, motion, alarm, timer, aborted>>

EndMotion ==
  /\ Len(queue) < Backlog
  /\ motion # "idle"
  /\ motion' = "idle"
  /\ queue' = Append(queue, IF motion = "move" THEN "signalMoveDone" ELSE "signalTurnDone")
  /\ UNCHANGED <<navState, orientState, reqs, alarm, timer, aborted>>

ReadRange ==
  /\ alarm = "watching"
  /\ Len(queue) < Backlog
  /\ ~Queued(queue, "handleIRRanger")
  /\ queue' = Append(queue, "handleIRRanger")
  /\ UNCHANGED <<navState, orientState, reqs, motion, alarm, timer, aborted>>

(* No task waits as long as these timers run.                              *)
Expire(id) ==
  /\ timer[id] = "armed"
  /\ Len(queue) < Backlog
  /\ ~Queued(queue, id)
  /\ timer' = [timer EXCEPT ![id] = "due"]
  /\ queue' = Append(queue, id)
  /\ UNCHANGED <<navState, orientState, reqs, motion, alarm, aborted>>

Next ==
  \/ MoveTo \/ Abort
  \/ RunTask
  \/ Locate \/ EndMotion \/ ReadRange
  \/ \E id \in Timers : Expire(id)

Spec == Init /\ [][Next]_vars

(* The queue is served, the services answer, timers expire.                *)
FairSpec ==
  /\ Spec
  /\ WF_vars(RunTask)
  /\ WF_vars(Locate) /\ WF_vars(EndMotion) /\ WF_vars(ReadRange)
  /\ \A id \in Timers : WF_vars(Expire(id))

-----------------------------------------------------------------------------
(* Properties.                                                             *)

(* Every variable has its type; three of the states that NavigationM       *)
(* declares, OBS_DETECT, OBS_AVOID and ABORT, are never entered.           *)
TypeOK ==
  /\ navState \in NavStates
  /\ orientState \in {"IDLE", "ORIENT"}
  /\ reqs \subseteq Clients
  /\ motion \in {"idle", "move", "turn"}
  /\ alarm \in {"idle", "watching", "deaf"}
  /\ timer \in [Timers -> TimerStates]
  /\ queue \in Seq(Tasks)

Coming(tasks) == \E t \in tasks : Queued(queue, t)

(* What keeps a navigation going, by its state: a location that has been   *)
(* requested, the end of a motion, a timer, or a task in the queue.  A     *)
(* state that waits for none of these is one the robot never leaves.       *)

(* A destination was accepted: its first location is on the way, whatever  *)
(* was aborted before.                                                     *)
NavigatingIsServed ==
  navState = "NAVIGATING" => "nav" \in reqs \/ Coming({"handleGotLocalization"})

(* NavigationM waits for Orient, which reports, or waits in its turn for a *)
(* location, or for a turn and the second that follows it.  (What an abort *)
(* leaves behind may have the next turn refused during a move, whose end   *)
(* Orient ignores.)                                                        *)
OrientingIsServed ==
  navState = "ORIENTING" /\ ~aborted =>
    \/ Coming({"handleOriented", "handleOrientFailed"})
    \/ /\ orientState = "ORIENT"
       /\ \/ "orient" \in reqs
          \/ motion = "turn"
          \/ timer["orientTimer"] # "off"
          \/ Coming({"signalTurnDone"})

(* An alarm that was raised left the obstacle detection idle; until then   *)
(* the leg ends, and the position is looked at again.  (An abort does not  *)
(* stop a turn, and during a turn the next leg is refused.)                *)
MovingIsServed ==
  navState = "MOVING" /\ alarm # "idle" /\ ~aborted =>
    \/ "nav" \in reqs
    \/ motion = "move"
    \/ timer["navTimer"] # "off"
    \/ Coming({"signalMoveDone", "handleMoveDone", "handleGotLocalization"})

(* Again and again, navigation is over or the robot moves, unless an       *)
(* obstacle has stopped it.                                                *)
KeepsMoving ==
  navState # "IDLE" /\ ~aborted ~>
    \/ navState = "IDLE" \/ motion # "idle" \/ Coming({"signalMoveDone"})
    \/ navState = "MOVING" /\ alarm = "idle"

=============================================================================
