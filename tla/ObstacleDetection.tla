------------------------- MODULE ObstacleDetection -------------------------
(***************************************************************************)
(* ObstacleDetectionM over IRRangerM and PanTiltControllerM: an alarm when *)
(* the ranger sees something near, and a map of the distances around the   *)
(* robot, for which the ranger is panned from left to right.               *)
(*                                                                         *)
(* The ranger answers in an interrupt that posts handleIRRanger; the servo *)
(* answers 300 ms after it was told to move.  The tilt servo is told to    *)
(* stay at 0 and is left out, as are the distances written to the map.     *)
(* The client is that of the applications: it sets the alarm, asks for a   *)
(* map or sets the alarm again once it is raised, and sets it after a map. *)
(***************************************************************************)
EXTENDS TinyOS

CONSTANTS
  Readings,   \* distances the ranger may measure, in cm
  Distances,  \* distances for which an alarm is set
  Periods,    \* periods for which an alarm is set, in ms
  DataPoints  \* sizes of the maps asked for

SCAN_SPAN  == 180
MAX_ANGLE  == 90
MIN_PERIOD == 100

(* The span is divided evenly by the sizes that clients use, 5 and 10.     *)
ASSUME ObstacleAssumption ==
  /\ Readings \subseteq UInt8
  /\ Distances \subseteq UInt8
  /\ Periods \subseteq Nat
  /\ \A d \in DataPoints : d \in UInt8 /\ d >= 2 /\ SCAN_SPAN % d = 0

VARIABLES
  state,       \* ObstacleDetectionM.state
  minDist,
  distance,    \* the last reading
  angle, angleInc, mapIndex,
  irState,     \* IRRangerM.state
  panIsLocked,
  pan,         \* currentPanPosition
  timer,
  queue,
  asked        \* what the client asked for last: a distance, or a size

odVars  == <<state, minDist, angle, angleInc, mapIndex, asked>>
panVars == <<panIsLocked, pan>>
vars    == <<odVars, distance, irState, panVars, timer, queue>>

ODStates == {"OD_IDLE", "OD_CREATE_MAP", "OD_ALARM_ONE_TIME", "OD_ALARM", "OD_MAP_COMPLETE"}
Timers   == {"odTimer", "irTimer", "panLock", "panBusy"}
Handlers == {"handleIRRanger", "handlePanPositionChange"}
Tasks    == Timers \cup Handlers \cup {"askAlarm", "askMap"}

(* After the init commands, when the servo has reached its first position. *)
Init ==
  /\ state = "OD_IDLE"
  /\ minDist = 0
  /\ distance = 0
  /\ angle = 0 /\ angleInc = 0 /\ mapIndex = 0
  /\ irState = "IR_IDLE"
  /\ panIsLocked = FALSE
  /\ pan = 0
  /\ timer = [id \in Timers |-> "off"]
  /\ queue = <<"askAlarm">>
  /\ asked = 0

-----------------------------------------------------------------------------
(* Commands.                                                               *)

(* A value that is assigned to an int8_t.                                  *)
Wrap8(n) == ((n + 128) % 256) - 128

(* IRRanger.getDistance is refused, by FAIL, unless the ranger is idle.    *)
GetDistance == irState' = IF irState = "IR_IDLE" THEN "IR_BUSY" ELSE irState

(* setPanPosition with a lock of 0 ms.                                     *)
SetPanPosition(position) ==
  IF panIsLocked \/ position > 90 \/ position < -90
    THEN UNCHANGED <<panIsLocked, pan, timer>>
    ELSE /\ panIsLocked' = TRUE
         /\ pan' = position
         /\ timer' = TimerStart(TimerStart(timer, "panLock"), "panBusy")

(* (Wrong: as many steps as points, and one more.)                         *)
GetObstacleMapFine(dataPoint) ==
  \/ /\ state = "OD_IDLE"
     /\ state' = "OD_CREATE_MAP"
     /\ angleInc' = Wrap8(SCAN_SPAN \div (dataPoint + 1))
     /\ angle' = -90
     /\ mapIndex' = 0
     /\ asked' = dataPoint
     /\ SetPanPosition(-90)
     /\ UNCHANGED minDist
  \/ state # "OD_IDLE" /\ UNCHANGED <<odVars, panVars, timer>>

GetObstacleMap(dataPoint) ==
  \/ /\ state = "OD_IDLE"
     /\ state' = "OD_CREATE_MAP"
     /\ angleInc' = Wrap8(SCAN_SPAN \div dataPoint)
     /\ angle' = -90
     /\ mapIndex' = 0
     /\ asked' = dataPoint
     /\ SetPanPosition(-90)
     /\ UNCHANGED minDist
  \/ state # "OD_IDLE" /\ UNCHANGED <<odVars, panVars, timer>>

(* setObstacleAlarm: with a period of 0 the distance is not remembered.    *)
SetObstacleAlarm(dist, period) ==
  \/ /\ state = "OD_IDLE"
     /\ period = 0 \/ period >= MIN_PERIOD
     /\ state' = IF period = 0 THEN "OD_ALARM_ONE_TIME" ELSE "OD_ALARM"
     /\ minDist' = IF period = 0 THEN minDist ELSE dist
     /\ timer' = IF period = 0 THEN timer ELSE TimerStart(timer, "odTimer")
     /\ asked' = dist
     /\ GetDistance
     /\ UNCHANGED <<angle, angleInc, mapIndex>>
  \/ /\ state # "OD_IDLE" \/ period \in 1 .. MIN_PERIOD - 1
     /\ UNCHANGED <<odVars, irState, timer>>

(* turnOffAlarm: the state remains OD_ALARM.                               *)
TurnOffAlarm ==
  /\ state = "OD_ALARM"
  /\ timer' = TimerStop(timer, "odTimer")
  /\ UNCHANGED <<odVars, distance, irState, panVars, queue>>

-----------------------------------------------------------------------------
(* Tasks and interrupts.                                                   *)

Rest == Tail(queue)

Dispatch(t) == queue # <<>> /\ Head(queue) = t

AskAlarm ==
  /\ Dispatch("askAlarm")
  /\ \E dist \in Distances, period \in Periods : SetObstacleAlarm(dist, period)
  /\ queue' = Rest
  /\ UNCHANGED <<distance, panVars>>

AskMap ==
  /\ Dispatch("askMap")
  /\ \E dataPoint \in DataPoints : GetObstacleMap(dataPoint)
  /\ queue' = Rest
  /\ UNCHANGED <<distance, irState>>

(* A reading raises the alarm, whose handler posts a task of the client,   *)
(* or goes into the map.                                                   *)
HandleIRRanger ==
  /\ Dispatch("handleIRRanger")
  /\ \/ /\ state \in {"OD_ALARM", "OD_ALARM_ONE_TIME"} /\ distance < minDist
        /\ state' = "OD_IDLE"
        /\ \E t \in {"askAlarm", "askMap"} : queue' = Append(Rest, t)
        /\ UNCHANGED <<minDist, angle, angleInc, mapIndex, asked, panVars, timer>>
     \/ /\ state \in {"OD_ALARM", "OD_ALARM_ONE_TIME"} /\ distance >= minDist
        /\ queue' = Rest
        /\ UNCHANGED <<odVars, panVars, timer>>
     \/ /\ state = "OD_CREATE_MAP"
        /\ mapIndex' = mapIndex + 1
        /\ angle' = Wrap8(angle + angleInc)
        /\ SetPanPosition(angle')
        /\ queue' = Rest
        /\ UNCHANGED <<state, minDist, angleInc, asked>>
     \/ /\ state \in {"OD_IDLE", "OD_MAP_COMPLETE"}
        /\ queue' = Rest
        /\ UNCHANGED <<odVars, panVars, timer>>
  /\ UNCHANGED <<distance, irState>>

(* The servo has moved.  While a reading cannot begin, the task waits for  *)
(* the ranger in a loop, and no other task runs.                           *)
HandlePanPositionChange ==
  /\ Dispatch("handlePanPositionChange")
  /\ \/ /\ state = "OD_CREATE_MAP" /\ angle + angleInc < MAX_ANGLE
        /\ irState = "IR_IDLE"
        /\ irState' = "IR_BUSY"
        /\ queue' = Rest
        /\ UNCHANGED <<odVars, panVars, timer>>
     \/ /\ state = "OD_CREATE_MAP" /\ angle + angleInc >= MAX_ANGLE
        /\ SetPanPosition(0)
        /\ state' = "OD_MAP_COMPLETE"
        /\ queue' = Rest
        /\ UNCHANGED <<minDist, angle, angleInc, mapIndex, asked, irState>>
     \/ /\ state = "OD_MAP_COMPLETE"                 \* obstacleMapReady
        /\ state' = "OD_IDLE"
        /\ queue' = Append(Rest, "askAlarm")
        /\ UNCHANGED <<minDist, angle, angleInc, mapIndex, asked, irState, panVars, timer>>
     \/ /\ state \notin {"OD_CREATE_MAP", "OD_MAP_COMPLETE"}
        /\ queue' = Rest
        /\ UNCHANGED <<odVars, irState, panVars, timer>>
  /\ UNCHANGED distance

(* The timers of the four components.                                      *)
LookupTimerFired ==
  /\ Dispatch("odTimer")
  /\ IF Delivered(timer, "odTimer") THEN GetDistance ELSE UNCHANGED irState
  /\ timer' = AfterExpiry(timer, "odTimer", TRUE)
  /\ queue' = Rest
  /\ UNCHANGED <<odVars, distance, panVars>>

RangerTimerFired ==
  /\ Dispatch("irTimer")
  /\ irState' = IF Delivered(timer, "irTimer") /\ irState = "IR_REST" THEN "IR_IDLE" ELSE irState
  /\ timer' = AfterExpiry(timer, "irTimer", FALSE)
  /\ queue' = Rest
  /\ UNCHANGED <<odVars, distance, panVars>>

(* (Wrong: the servo remains locked.)                                      *)
PanLockedTimerFiredKeeps ==
  /\ Dispatch("panLock")
  /\ timer' = AfterExpiry(timer, "panLock", FALSE)
  /\ queue' = Rest
  /\ UNCHANGED <<odVars, distance, irState, panVars>>

PanLockedTimerFired ==
  /\ Dispatch("panLock")
  /\ panIsLocked' = IF Delivered(timer, "panLock") THEN FALSE ELSE panIsLocked
  /\ timer' = AfterExpiry(timer, "panLock", FALSE)
  /\ queue' = Rest
  /\ UNCHANGED <<odVars, distance, irState, pan>>

PanBusyTimerFired ==
  /\ Dispatch("panBusy")
  /\ timer' = AfterExpiry(timer, "panBusy", FALSE)
  /\ queue' = IF Delivered(timer, "panBusy") THEN Append(Rest, "handlePanPositionChange") ELSE Rest
  /\ UNCHANGED <<odVars, distance, irState, panVars>>

RunTask ==
  \/ AskAlarm \/ AskMap \/ HandleIRRanger \/ HandlePanPositionChange
  \/ LookupTimerFired \/ RangerTimerFired \/ PanLockedTimerFired \/ PanBusyTimerFired

(* The interrupt of the ranger and IRRanger.distance; 70 ms after the      *)
(* reading began, so that a lock of 0 ms is over.                          *)
Interrupt4(dist) ==
  /\ irState = "IR_BUSY"
  /\ timer["panLock"] = "off"
  /\ irState' = "IR_REST"
  /\ distance' = dist
  /\ queue' = Append(queue, "handleIRRanger")
  /\ timer' = TimerStart(IF state = "OD_ALARM" THEN TimerStop(timer, "odTimer") ELSE timer,
                         "irTimer")
  /\ UNCHANGED <<odVars, panVars>>

(* A timer expires; the task of its last expiry has run.  The 300 ms of a  *)
(* move of the servo are longer than a lock of 0 ms, and than the 72 ms in *)
(* which a reading is over that was begun before.                          *)
Expire(id) ==
  /\ timer[id] = "armed"
  /\ ~Queued(queue, id)
  /\ id = "panBusy" =>
       timer["panLock"] = "off" /\ (state = "OD_CREATE_MAP" => irState = "IR_IDLE")
  /\ timer' = [timer EXCEPT ![id] = "due"]
  /\ queue' = Append(queue, id)
  /\ UNCHANGED <<odVars, distance, irState, panVars>>

Interrupt == \E dist \in Readings : Interrupt4(dist)

Next ==
  \/ TurnOffAlarm
  \/ RunTask
  \/ Interrupt
  \/ \E id \in Timers : Expire(id)

Spec == Init /\ [][Next]_vars

(* The queue is served, the ranger answers, timers expire.                 *)
FairSpec ==
  /\ Spec
  /\ WF_vars(RunTask) /\ WF_vars(Interrupt)
  /\ \A id \in Timers : WF_vars(Expire(id))

-----------------------------------------------------------------------------
(* Properties.                                                             *)

(* Every variable has its type; no angle that the servo is told is outside *)
(* its range.                                                              *)
TypeOK ==
  /\ state \in ODStates
  /\ minDist \in UInt8 /\ distance \in UInt8 /\ mapIndex \in UInt8 /\ asked \in UInt8
  /\ angle \in Int8 /\ angleInc \in Int8
  /\ irState \in {"IR_IDLE", "IR_BUSY", "IR_REST"}
  /\ panIsLocked \in BOOLEAN
  /\ pan \in -90 .. 90
  /\ timer \in [Timers -> TimerStates]
  /\ queue \in Seq(Tasks)

(* An entry is written, and at last mapIndex + 1 entries are reported:     *)
(* neither is more than the buffer of the client holds.                    *)
MapFits == state \in {"OD_CREATE_MAP", "OD_MAP_COMPLETE"} => mapIndex + 1 <= asked

(* A reading for the map is made in the direction that its entry stands    *)
(* for, after the servo has come to rest.                                  *)
ReadingsInDirection ==
  state = "OD_CREATE_MAP" /\ irState = "IR_BUSY" =>
    /\ pan = angle
    /\ angle = -90 + mapIndex * (SCAN_SPAN \div asked)
    /\ timer["panBusy"] # "armed"

(* A reading is on its way, or a timer that begins one.                    *)
Looking ==
  \/ irState = "IR_BUSY" \/ timer["odTimer"] # "off"
  \/ Queued(queue, "handleIRRanger") \/ (~StopCancels /\ Queued(queue, "odTimer"))

ServiceState ==
  IF state = "OD_IDLE" THEN "idle"
  ELSE IF state \in {"OD_CREATE_MAP", "OD_MAP_COMPLETE"} THEN "scanning"
  ELSE IF state = "OD_ALARM_ONE_TIME" THEN "once"
  ELSE IF Looking THEN "watching" ELSE "silent"

Service == INSTANCE ObstacleService WITH service <- ServiceState

(* Every alarm with a period takes a reading that raises it or leaves it   *)
(* silent, a silent alarm is never raised, and every map is delivered: the *)
(* service is implemented, for periods of 0 too.                           *)
ImplementsService == Service!Spec

(* "Look for obstacle distance in current path at every lookupPeriod"      *)
(* (ObstacleDetectionM.nc:57-59): while an alarm is set a reading is under *)
(* way or will be begun.  Broken when the event of the first reading stops *)
(* the timer that repeats it.                                              *)
KeepsLooking == state = "OD_ALARM" => Looking

(* "User wants obstacle distance only once" (ObstacleDetectionM.nc:155):   *)
(* an alarm of period 0 begins its reading when it is set.  Broken when it *)
(* is set while the ranger rests, as it is from the handler of an alarm.   *)
OnceLooks ==
  [][state # "OD_ALARM_ONE_TIME" /\ state' = "OD_ALARM_ONE_TIME"
       => irState' = "IR_BUSY"]_vars

=============================================================================
