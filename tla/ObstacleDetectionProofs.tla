---------------------- MODULE ObstacleDetectionProofs ----------------------
(***************************************************************************)
(* Proofs about ObstacleDetection for all readings, distances, periods and *)
(* sizes of maps, whether or not stopping a timer cancels an expiry that   *)
(* is already queued; that the service is implemented, for alarms whose    *)
(* period is not 0.                                                        *)
(***************************************************************************)
EXTENDS ObstacleDetection, SequenceTheorems, TLAPS

-----------------------------------------------------------------------------
(* Queues with no task of a set, and with t as the only one of it.         *)
NoneOf(q, S) == \A i \in 1 .. Len(q) : q[i] \notin S

OneOf(q, S, t) ==
  \E k \in 1 .. Len(q) : q[k] = t /\ \A i \in 1 .. Len(q) : i # k => q[i] \notin S

LEMMA PostNone ==
  ASSUME NEW q \in Seq(Tasks), NEW t \in Tasks, NEW S
  PROVE  NoneOf(Append(q, t), S) <=> NoneOf(q, S) /\ t \notin S
<1>1. /\ Len(q) \in Nat /\ Len(Append(q, t)) = Len(q) + 1
      /\ \A i \in 1 .. Len(q) : Append(q, t)[i] = q[i]
      /\ Append(q, t)[Len(q) + 1] = t
  BY AppendProperties, LenProperties
<1>2. QED
  BY <1>1 DEF NoneOf

LEMMA PostOne ==
  ASSUME NEW q \in Seq(Tasks), NEW t \in Tasks, NEW S
  PROVE  /\ NoneOf(q, S) => OneOf(Append(q, t), S, t)
         /\ \A u : OneOf(q, S, u) /\ t \notin S => OneOf(Append(q, t), S, u)
<1>1. /\ Len(q) \in Nat /\ Len(Append(q, t)) = Len(q) + 1
      /\ \A i \in 1 .. Len(q) : Append(q, t)[i] = q[i]
      /\ Append(q, t)[Len(q) + 1] = t
  BY AppendProperties, LenProperties
<1>2. ASSUME NoneOf(q, S) PROVE OneOf(Append(q, t), S, t)
  <2>1. /\ Len(q) + 1 \in 1 .. Len(Append(q, t))
        /\ \A i \in 1 .. Len(Append(q, t)) : i # Len(q) + 1 => i \in 1 .. Len(q)
    BY <1>1
  <2>2. QED
    BY <1>1, <1>2, <2>1 DEF NoneOf, OneOf
<1>3. ASSUME NEW u, OneOf(q, S, u), t \notin S PROVE OneOf(Append(q, t), S, u)
  <2>1. PICK k \in 1 .. Len(q) : q[k] = u /\ \A i \in 1 .. Len(q) : i # k => q[i] \notin S
    BY <1>3 DEF OneOf
  <2>2. k \in 1 .. Len(Append(q, t)) /\ Append(q, t)[k] = u
    BY <1>1, <2>1
  <2>3. ASSUME NEW i \in 1 .. Len(Append(q, t)), i # k PROVE Append(q, t)[i] \notin S
    <3>1. i = Len(q) + 1 \/ i \in 1 .. Len(q)
      BY <1>1
    <3>2. QED
      BY <1>1, <1>3, <2>1, <2>3, <3>1
  <2>4. QED
    BY <2>2, <2>3 DEF OneOf
<1>4. QED
  BY <1>2, <1>3

LEMMA TakeNone ==
  ASSUME NEW q \in Seq(Tasks), q # <<>>, NEW S
  PROVE  NoneOf(q, S) <=> Head(q) \notin S /\ NoneOf(Tail(q), S)
<1>1. /\ Len(q) \in Nat \ {0} /\ Len(Tail(q)) = Len(q) - 1 /\ Head(q) = q[1]
      /\ \A i \in 1 .. Len(Tail(q)) : Tail(q)[i] = q[i + 1]
  BY HeadTailProperties, EmptySeq
<1>2. ASSUME Head(q) \notin S, NoneOf(Tail(q), S), NEW i \in 1 .. Len(q) PROVE q[i] \notin S
  <2>1. i = 1 \/ (i - 1 \in 1 .. Len(Tail(q)) /\ Tail(q)[i - 1] = q[i])
    BY <1>1
  <2>2. QED
    BY <1>1, <1>2, <2>1 DEF NoneOf
<1>3. ASSUME NoneOf(q, S) PROVE Head(q) \notin S /\ NoneOf(Tail(q), S)
  BY <1>1, <1>3 DEF NoneOf
<1>4. QED
  BY <1>2, <1>3 DEF NoneOf

LEMMA TakeOne ==
  ASSUME NEW q \in Seq(Tasks), q # <<>>, NEW S, NEW u, OneOf(q, S, u)
  PROVE  \/ Head(q) = u /\ NoneOf(Tail(q), S)
         \/ Head(q) \notin S /\ OneOf(Tail(q), S, u)
<1>1. /\ Len(q) \in Nat \ {0} /\ Len(Tail(q)) = Len(q) - 1 /\ Head(q) = q[1]
      /\ \A i \in 1 .. Len(Tail(q)) : Tail(q)[i] = q[i + 1]
  BY HeadTailProperties, EmptySeq
<1>2. PICK k \in 1 .. Len(q) : q[k] = u /\ \A i \in 1 .. Len(q) : i # k => q[i] \notin S
  BY DEF OneOf
<1>3. CASE k = 1
  BY <1>1, <1>2, <1>3 DEF NoneOf
<1>4. CASE k # 1
  <2>1. Head(q) \notin S
    BY <1>1, <1>2, <1>4
  <2>2. k - 1 \in 1 .. Len(Tail(q)) /\ Tail(q)[k - 1] = u
    BY <1>1, <1>2, <1>4
  <2>3. ASSUME NEW i \in 1 .. Len(Tail(q)), i # k - 1 PROVE Tail(q)[i] \notin S
    BY <1>1, <1>2, <2>3
  <2>4. QED
    BY <2>1, <2>2, <2>3 DEF OneOf
<1>5. QED
  BY <1>3, <1>4

(* In the queue q no task of S is behind a task t.                         *)
NotBehind(q, t, S) == \A i, j \in 1 .. Len(q) : i < j /\ q[i] = t => q[j] \notin S

LEMMA PostBehind ==
  ASSUME NEW q \in Seq(Tasks), NEW t \in Tasks, NEW u, NEW S,
         NotBehind(q, u, S), t \notin S \/ NoneOf(q, {u})
  PROVE  NotBehind(Append(q, t), u, S)
<1>1. /\ Len(q) \in Nat /\ Len(Append(q, t)) = Len(q) + 1
      /\ \A i \in 1 .. Len(q) : Append(q, t)[i] = q[i]
      /\ Append(q, t)[Len(q) + 1] = t
  BY AppendProperties, LenProperties
<1>2. SUFFICES ASSUME NEW i \in 1 .. Len(Append(q, t)), NEW j \in 1 .. Len(Append(q, t)),
                      i < j, Append(q, t)[i] = u
               PROVE  Append(q, t)[j] \notin S
  BY DEF NotBehind
<1>3. i \in 1 .. Len(q) /\ q[i] = u
  BY <1>1, <1>2
<1>4. CASE j = Len(q) + 1
  BY <1>1, <1>3, <1>4 DEF NoneOf
<1>5. CASE j # Len(q) + 1
  <2>1. j \in 1 .. Len(q) /\ Append(q, t)[j] = q[j]
    BY <1>1, <1>5
  <2>2. QED
    BY <1>2, <1>3, <2>1 DEF NotBehind
<1>6. QED
  BY <1>4, <1>5

LEMMA TakeBehind ==
  ASSUME NEW q \in Seq(Tasks), q # <<>>, NEW u, NEW S, NotBehind(q, u, S)
  PROVE  /\ NotBehind(Tail(q), u, S)
         /\ Head(q) = u => NoneOf(Tail(q), S)
<1>1. /\ Len(q) \in Nat \ {0} /\ Len(Tail(q)) = Len(q) - 1 /\ Head(q) = q[1]
      /\ \A i \in 1 .. Len(Tail(q)) : Tail(q)[i] = q[i + 1]
  BY HeadTailProperties, EmptySeq
<1>2. ASSUME NEW i \in 1 .. Len(Tail(q)), NEW j \in 1 .. Len(Tail(q)), i < j, Tail(q)[i] = u
      PROVE  Tail(q)[j] \notin S
  <2>1. /\ i + 1 \in 1 .. Len(q) /\ j + 1 \in 1 .. Len(q) /\ i + 1 < j + 1
        /\ q[i + 1] = u /\ Tail(q)[j] = q[j + 1]
    BY <1>1, <1>2
  <2>2. QED
    BY <2>1 DEF NotBehind
<1>3. ASSUME Head(q) = u, NEW j \in 1 .. Len(Tail(q)) PROVE Tail(q)[j] \notin S
  <2>1. 1 \in 1 .. Len(q) /\ j + 1 \in 1 .. Len(q) /\ 1 < j + 1 /\ Tail(q)[j] = q[j + 1]
    BY <1>1
  <2>2. QED
    BY <1>1, <1>3, <2>1 DEF NotBehind
<1>4. QED
  BY <1>2, <1>3 DEF NotBehind, NoneOf

LEMMA QueuedIs ==
  ASSUME NEW q, NEW t
  PROVE  Queued(q, t) <=> ~NoneOf(q, {t})
  BY DEF Queued, NoneOf

-----------------------------------------------------------------------------
(* The tasks of the ranger and of the servo, and what is said of them.     *)
RangerTasks == {"odTimer", "irTimer", "handleIRRanger"}
PanTasks    == {"panBusy", "handlePanPositionChange"}

(* A reading is alone in the queue; a lookup is not behind it, and the     *)
(* pause of the ranger ends not before it.                                 *)
Ordered(q) ==
  /\ NotBehind(q, "handleIRRanger", {"odTimer", "handleIRRanger"})
  /\ NotBehind(q, "irTimer", {"irTimer", "handleIRRanger"})

RangerKept(q, r) ==
  /\ \A x \in RangerTasks : NoneOf(q, {x}) <=> NoneOf(r, {x})
  /\ Ordered(q) => Ordered(r)

PanKept(q, r) ==
  /\ NoneOf(q, PanTasks) => NoneOf(r, PanTasks)
  /\ \A t \in PanTasks : OneOf(q, PanTasks, t) => OneOf(r, PanTasks, t)

LEMMA TaskNames ==
  /\ RangerTasks \subseteq Tasks /\ PanTasks \subseteq Tasks
  /\ {"askAlarm", "askMap", "panLock"} \subseteq Tasks
  /\ RangerTasks \cap PanTasks = {}
  /\ {"askAlarm", "askMap", "panLock"} \cap (RangerTasks \cup PanTasks) = {}
  BY DEF Tasks, Timers, Handlers, RangerTasks, PanTasks

(* Taking the task at the head of the queue.                               *)
LEMMA Taken ==
  ASSUME TypeOK, NEW t \in Tasks, Dispatch(t)
  PROVE  /\ Rest \in Seq(Tasks)
         /\ \A S : NoneOf(queue, S) <=> t \notin S /\ NoneOf(Rest, S)
         /\ \A S : \A u \in S : OneOf(queue, S, u) =>
              IF t \in S THEN u = t /\ NoneOf(Rest, S) ELSE OneOf(Rest, S, u)
         /\ Ordered(queue) =>
              /\ Ordered(Rest)
              /\ t = "handleIRRanger" => NoneOf(Rest, {"odTimer", "handleIRRanger"})
              /\ t = "irTimer" => NoneOf(Rest, {"irTimer", "handleIRRanger"})
         /\ t \notin RangerTasks => RangerKept(queue, Rest)
         /\ t \notin PanTasks => PanKept(queue, Rest)
<1>1. queue \in Seq(Tasks) /\ queue # <<>> /\ Head(queue) = t
  BY DEF TypeOK, Dispatch
<1>2. Rest \in Seq(Tasks)
  BY <1>1, HeadTailProperties DEF Rest
<1>3. \A S : NoneOf(queue, S) <=> t \notin S /\ NoneOf(Rest, S)
  BY <1>1, TakeNone DEF Rest
<1>4. ASSUME NEW S, NEW u \in S, OneOf(queue, S, u)
      PROVE  IF t \in S THEN u = t /\ NoneOf(Rest, S) ELSE OneOf(Rest, S, u)
  <2>1. \/ t = u /\ NoneOf(Rest, S)
        \/ t \notin S /\ OneOf(Rest, S, u)
    BY <1>1, <1>4, TakeOne DEF Rest
  <2>2. QED
    BY <1>4, <2>1
<1>5. Ordered(queue) =>
        /\ Ordered(Rest)
        /\ t = "handleIRRanger" => NoneOf(Rest, {"odTimer", "handleIRRanger"})
        /\ t = "irTimer" => NoneOf(Rest, {"irTimer", "handleIRRanger"})
  BY <1>1, TakeBehind DEF Rest, Ordered
<1>6. t \notin RangerTasks => RangerKept(queue, Rest)
  BY <1>3, <1>5 DEF RangerKept
<1>7. t \notin PanTasks => PanKept(queue, Rest)
  BY <1>3, <1>4 DEF PanKept
<1>8. QED
  BY <1>2, <1>3, <1>4, <1>5, <1>6, <1>7

(* Posting a task.                                                         *)
LEMMA PostedTo ==
  ASSUME NEW q \in Seq(Tasks), NEW t \in Tasks
  PROVE  /\ Append(q, t) \in Seq(Tasks)
         /\ \A S : NoneOf(Append(q, t), S) <=> NoneOf(q, S) /\ t \notin S
         /\ \A S : NoneOf(q, S) => OneOf(Append(q, t), S, t)
         /\ t \notin RangerTasks => RangerKept(q, Append(q, t))
         /\ t \notin PanTasks => PanKept(q, Append(q, t))
<1>1. /\ Append(q, t) \in Seq(Tasks)
      /\ \A S : NoneOf(Append(q, t), S) <=> NoneOf(q, S) /\ t \notin S
      /\ \A S : NoneOf(q, S) => OneOf(Append(q, t), S, t)
  BY PostNone, PostOne, AppendProperties
<1>2. t \notin RangerTasks => RangerKept(q, Append(q, t))
  BY <1>1, PostBehind DEF RangerKept, RangerTasks, Ordered
<1>3. t \notin PanTasks => PanKept(q, Append(q, t))
  BY <1>1, PostOne DEF PanKept
<1>4. QED
  BY <1>1, <1>2, <1>3

(* The timers after a start, a stop and an expiry.                         *)
LEMMA TimersKept ==
  ASSUME NEW tm \in [Timers -> TimerStates], NEW id \in Timers
  PROVE  /\ TimerStart(tm, id) \in [Timers -> TimerStates]
         /\ TimerStop(tm, id) \in [Timers -> TimerStates]
         /\ TimerStart(tm, id)[id] = "armed"
         /\ TimerStop(tm, id)[id] = "off"
         /\ \A other \in Timers : other # id =>
              TimerStart(tm, id)[other] = tm[other] /\ TimerStop(tm, id)[other] = tm[other]
  BY DEF TimerStart, TimerStop, TimerStates

LEMMA ExpiryKept ==
  ASSUME NEW tm \in [Timers -> TimerStates], NEW id \in Timers
  PROVE  /\ AfterExpiry(tm, id, TRUE) \in [Timers -> TimerStates]
         /\ AfterExpiry(tm, id, FALSE) \in [Timers -> TimerStates]
         /\ AfterExpiry(tm, id, TRUE)[id] = IF tm[id] = "due" THEN "armed" ELSE tm[id]
         /\ AfterExpiry(tm, id, FALSE)[id] = IF tm[id] = "due" THEN "off" ELSE tm[id]
         /\ \A other \in Timers : other # id =>
              /\ AfterExpiry(tm, id, TRUE)[other] = tm[other]
              /\ AfterExpiry(tm, id, FALSE)[other] = tm[other]
  BY DEF AfterExpiry, TimerStates

LEMMA TimerNames ==
  "odTimer" \in Timers /\ "irTimer" \in Timers /\ "panLock" \in Timers /\ "panBusy" \in Timers
  BY DEF Timers

-----------------------------------------------------------------------------
(* The invariant.  The ranger rests until its pause ends; a reading is     *)
(* only queued while it rests, and is handled before the pause ends.       *)
Ranger ==
  /\ irState # "IR_REST" =>
       timer["irTimer"] = "off" /\ NoneOf(queue, {"irTimer"}) /\ NoneOf(queue, {"handleIRRanger"})
  /\ irState = "IR_REST" =>
       timer["irTimer"] = "due" \/ (timer["irTimer"] = "armed" /\ NoneOf(queue, {"irTimer"}))
  /\ Ordered(queue)

(* Readings are looked up for an alarm only, and not before the last one   *)
(* has been handled.                                                       *)
Lookups ==
  /\ state # "OD_ALARM" => timer["odTimer"] = "off" /\ NoneOf(queue, {"odTimer"})
  /\ timer["odTimer"] = "off" \/ NoneOf(queue, {"handleIRRanger"})

(* The servo moves for a map only: it is moving, or its coming to rest is  *)
(* queued, by which time the ranger is idle.                               *)
Resting == ~panIsLocked /\ timer["panBusy"] = "off"

PanMoves ==
  \/ timer["panBusy"] = "armed" /\ NoneOf(queue, PanTasks)
  \/ /\ ~panIsLocked /\ timer["panBusy"] = "due" /\ irState = "IR_IDLE"
     /\ OneOf(queue, PanTasks, "panBusy")
  \/ /\ Resting /\ irState = "IR_IDLE"
     /\ OneOf(queue, PanTasks, "handlePanPositionChange")

(* A map waits for the servo, for the ranger or for its reading to be      *)
(* handled, never for two of them.                                         *)
PanInv ==
  /\ panIsLocked => timer["panLock"] # "off"
  /\ state \in {"OD_IDLE", "OD_ALARM", "OD_ALARM_ONE_TIME"} => Resting /\ NoneOf(queue, PanTasks)
  /\ state = "OD_IDLE" => irState # "IR_BUSY" /\ NoneOf(queue, {"handleIRRanger"})
  /\ state = "OD_MAP_COMPLETE" => irState = "IR_IDLE" /\ PanMoves
  /\ state = "OD_CREATE_MAP" =>
       \/ irState # "IR_BUSY" /\ NoneOf(queue, {"handleIRRanger"}) /\ PanMoves
       \/ irState = "IR_BUSY" /\ Resting /\ NoneOf(queue, PanTasks)
       \/ ~NoneOf(queue, {"handleIRRanger"}) /\ Resting /\ NoneOf(queue, PanTasks)

(* The servo points to the entry that is next, and a reading is only made  *)
(* when there is an entry behind it.                                       *)
MapInv ==
  /\ state \in {"OD_CREATE_MAP", "OD_MAP_COMPLETE"} =>
       /\ asked \in DataPoints /\ angleInc = SCAN_SPAN \div asked /\ mapIndex < asked
       /\ angle = -90 + mapIndex * angleInc
  /\ state = "OD_CREATE_MAP" =>
       /\ pan = angle
       /\ irState = "IR_BUSY" \/ ~NoneOf(queue, {"handleIRRanger"}) => mapIndex + 1 < asked

ODInv == TypeOK /\ Ranger /\ Lookups /\ PanInv /\ MapInv

(* The entries of a map lie evenly spaced in the span.                     *)
LEMMA Span ==
  ASSUME NEW d \in DataPoints
  PROVE  /\ d \in UInt8 /\ d >= 2
         /\ SCAN_SPAN \div d \in 1 .. 90
         /\ d * (SCAN_SPAN \div d) = SCAN_SPAN
<1>1. d \in UInt8 /\ d >= 2 /\ 180 % d = 0
  BY ObstacleAssumption DEF SCAN_SPAN
<1>2. d \in Nat /\ 2 <= d /\ d <= 255
  BY <1>1 DEF UInt8
<1>3. ASSUME NEW e \in Nat, 2 <= e, e <= 255, 180 % e = 0
      PROVE  180 \div e \in 1 .. 90 /\ e * (180 \div e) = 180
  BY <1>3
<1>4. QED
  BY <1>1, <1>2, <1>3 DEF SCAN_SPAN

LEMMA EntryAngles ==
  ASSUME NEW d \in Nat, NEW k \in 1 .. 90, d * k = SCAN_SPAN, NEW m \in Nat
  PROVE  /\ (m + 1) * k = m * k + k
         /\ m * k \in Nat
         /\ m + 1 < d <=> m * k + k < SCAN_SPAN
         /\ m < d <=> m * k < SCAN_SPAN
<1>1. d * k = 180 /\ SCAN_SPAN = 180
  BY DEF SCAN_SPAN
<1>2. (m + 1) * k = m * k + k /\ m * k \in Nat
  OBVIOUS
<1>3. ASSUME NEW a \in Nat PROVE a < d <=> a * k < 180
  BY <1>1
<1>4. m + 1 \in Nat
  OBVIOUS
<1>5. QED
  BY <1>1, <1>2, <1>3, <1>4

LEMMA WrapKeeps ==
  ASSUME NEW n \in Int, -128 <= n, n <= 127
  PROVE  Wrap8(n) = n
  BY DEF Wrap8

-----------------------------------------------------------------------------
(* Each action keeps the invariant.                                        *)
LEMMA InitODInv == Init => ODInv
<1> SUFFICES ASSUME Init PROVE ODInv
  OBVIOUS
<1>1. TypeOK
  <2>1. "askAlarm" \in Tasks /\ "off" \in TimerStates /\ "OD_IDLE" \in ODStates
    BY TaskNames DEF TimerStates, ODStates
  <2>2. queue \in Seq(Tasks) /\ timer \in [Timers -> TimerStates]
    BY <2>1 DEF Init
  <2>3. 0 \in UInt8 /\ 0 \in Int8 /\ 0 \in -90 .. 90
    BY DEF UInt8, Int8
  <2>4. QED
    BY <2>1, <2>2, <2>3 DEF Init, TypeOK
<1>2. /\ \A S : "askAlarm" \notin S => NoneOf(queue, S)
      /\ Ordered(queue)
  BY DEF Init, NoneOf, Ordered, NotBehind
<1>3. \A id \in Timers : timer[id] = "off"
  BY DEF Init
<1>4. NoneOf(queue, {"irTimer"}) /\ NoneOf(queue, {"handleIRRanger"})
      /\ NoneOf(queue, {"odTimer"}) /\ NoneOf(queue, PanTasks)
  BY <1>2 DEF PanTasks
<1>5. Ranger /\ Lookups /\ PanInv /\ MapInv
  BY <1>2, <1>3, <1>4, TimerNames DEF Init, Ranger, Lookups, PanInv, MapInv, Resting
<1>6. QED
  BY <1>1, <1>5 DEF ODInv

LEMMA TurnOffAlarmKeeps ==
  ASSUME ODInv, TurnOffAlarm
  PROVE  ODInv'
<1>1. /\ timer' \in [Timers -> TimerStates] /\ timer'["odTimer"] = "off"
      /\ \A id \in Timers : id # "odTimer" => timer'[id] = timer[id]
  BY TimersKept, TimerNames DEF ODInv, TypeOK, TurnOffAlarm
<1>2. TypeOK'
  BY <1>1 DEF ODInv, TypeOK, TurnOffAlarm, odVars, panVars
<1>3. (Ranger /\ Lookups /\ PanInv)'
  BY <1>1, TimerNames
     DEF ODInv, TurnOffAlarm, odVars, panVars, Ranger, Lookups, PanInv, Resting, PanMoves
<1>4. MapInv'
  BY DEF ODInv, TurnOffAlarm, odVars, panVars, MapInv
<1>5. QED
  BY <1>2, <1>3, <1>4 DEF ODInv

(* Commands of the client, whose tasks are neither the ranger's nor the    *)
(* servo's.                                                                *)
LEMMA AskAlarmKeeps ==
  ASSUME ODInv, AskAlarm
  PROVE  ODInv'
<1>1. /\ queue' = Rest /\ Rest \in Seq(Tasks)
      /\ RangerKept(queue, Rest) /\ PanKept(queue, Rest)
  BY Taken, TaskNames DEF ODInv, AskAlarm
<1>2. /\ \A x \in RangerTasks : NoneOf(queue', {x}) <=> NoneOf(queue, {x})
      /\ Ordered(queue')
      /\ NoneOf(queue, PanTasks) => NoneOf(queue', PanTasks)
      /\ \A t \in PanTasks : OneOf(queue, PanTasks, t) => OneOf(queue', PanTasks, t)
  BY <1>1 DEF ODInv, Ranger, RangerKept, PanKept
<1>3. PICK dist \in Distances, period \in Periods : SetObstacleAlarm(dist, period)
  BY DEF AskAlarm
<1>4. UNCHANGED <<distance, panVars>>
  BY DEF AskAlarm
<1>5. CASE UNCHANGED <<odVars, irState, timer>>
  <2>1. TypeOK'
    BY <1>1, <1>4, <1>5 DEF ODInv, TypeOK, odVars, panVars
  <2>2. (Ranger /\ Lookups)'
    BY <1>2, <1>5 DEF ODInv, Ranger, Lookups, RangerTasks, odVars
  <2>3. (PanInv /\ MapInv)'
    BY <1>2, <1>4, <1>5
       DEF ODInv, PanInv, MapInv, Resting, PanMoves, PanTasks, RangerTasks, odVars, panVars
  <2>4. QED
    BY <2>1, <2>2, <2>3 DEF ODInv
<1>6. CASE ~UNCHANGED <<odVars, irState, timer>>
  <2>1. /\ state = "OD_IDLE" /\ state' \in {"OD_ALARM", "OD_ALARM_ONE_TIME"}
        /\ minDist' \in {minDist, dist} /\ asked' = dist
        /\ UNCHANGED <<angle, angleInc, mapIndex>>
        /\ GetDistance
        /\ \/ state' = "OD_ALARM_ONE_TIME" /\ timer' = timer
           \/ state' = "OD_ALARM" /\ timer' = TimerStart(timer, "odTimer")
    BY <1>3, <1>6 DEF SetObstacleAlarm
  <2>2. /\ timer' \in [Timers -> TimerStates]
        /\ \A id \in Timers : id # "odTimer" => timer'[id] = timer[id]
        /\ state' # "OD_ALARM" => timer'["odTimer"] = timer["odTimer"]
    BY <2>1, TimersKept, TimerNames DEF ODInv, TypeOK
  <2>3. (irState' = "IR_BUSY" /\ irState = "IR_IDLE") \/ irState' = irState
    BY <2>1 DEF GetDistance
  <2>4. TypeOK'
    <3>1. dist \in UInt8
      BY ObstacleAssumption
    <3>2. QED
      BY <1>1, <1>4, <2>1, <2>2, <2>3, <3>1 DEF ODInv, TypeOK, ODStates, panVars
  <2>5. Ranger'
    BY <1>2, <2>2, <2>3, TimerNames DEF ODInv, Ranger, RangerTasks
  <2>6. Lookups'
    BY <1>2, <2>1, <2>2 DEF ODInv, Lookups, PanInv, RangerTasks
  <2>7. (PanInv /\ MapInv)'
    BY <1>2, <1>4, <2>1, <2>2, TimerNames DEF ODInv, PanInv, MapInv, Resting, panVars
  <2>8. QED
    BY <2>4, <2>5, <2>6, <2>7 DEF ODInv
<1>7. QED
  BY <1>5, <1>6

(* The servo, which is not locked, begins to move.                         *)
LEMMA ServoTold ==
  ASSUME TypeOK, ~panIsLocked, NEW position \in -90 .. 90, SetPanPosition(position)
  PROVE  /\ panIsLocked' = TRUE /\ pan' = position
         /\ timer' \in [Timers -> TimerStates]
         /\ timer'["panLock"] = "armed" /\ timer'["panBusy"] = "armed"
         /\ timer'["odTimer"] = timer["odTimer"] /\ timer'["irTimer"] = timer["irTimer"]
<1> DEFINE locked == TimerStart(timer, "panLock")
<1>1. /\ panIsLocked' = TRUE /\ pan' = position
      /\ timer' = TimerStart(locked, "panBusy")
  BY DEF SetPanPosition
<1>2. timer \in [Timers -> TimerStates]
  BY DEF TypeOK
<1>3. /\ locked \in [Timers -> TimerStates] /\ locked["panLock"] = "armed"
      /\ locked["odTimer"] = timer["odTimer"] /\ locked["irTimer"] = timer["irTimer"]
  BY <1>2, TimersKept, TimerNames
<1> HIDE DEF locked
<1>4. QED
  BY <1>1, <1>3, TimersKept, TimerNames

LEMMA AskMapKeeps ==
  ASSUME ODInv, AskMap
  PROVE  ODInv'
<1>1. /\ queue' = Rest /\ Rest \in Seq(Tasks)
      /\ RangerKept(queue, Rest) /\ PanKept(queue, Rest)
  BY Taken, TaskNames DEF ODInv, AskMap
<1>2. /\ \A x \in RangerTasks : NoneOf(queue', {x}) <=> NoneOf(queue, {x})
      /\ Ordered(queue')
      /\ NoneOf(queue, PanTasks) => NoneOf(queue', PanTasks)
      /\ \A t \in PanTasks : OneOf(queue, PanTasks, t) => OneOf(queue', PanTasks, t)
  BY <1>1 DEF ODInv, Ranger, RangerKept, PanKept
<1>3. PICK d \in DataPoints : GetObstacleMap(d)
  BY DEF AskMap
<1>4. UNCHANGED <<distance, irState>>
  BY DEF AskMap
<1>5. CASE UNCHANGED <<odVars, panVars, timer>>
  <2>1. TypeOK'
    BY <1>1, <1>4, <1>5 DEF ODInv, TypeOK, odVars, panVars
  <2>2. (Ranger /\ Lookups)'
    BY <1>2, <1>4, <1>5 DEF ODInv, Ranger, Lookups, RangerTasks, odVars
  <2>3. (PanInv /\ MapInv)'
    BY <1>2, <1>4, <1>5
       DEF ODInv, PanInv, MapInv, Resting, PanMoves, PanTasks, RangerTasks, odVars, panVars
  <2>4. QED
    BY <2>1, <2>2, <2>3 DEF ODInv
<1>6. CASE ~UNCHANGED <<odVars, panVars, timer>>
  <2>1. /\ state = "OD_IDLE" /\ state' = "OD_CREATE_MAP"
        /\ angleInc' = Wrap8(SCAN_SPAN \div d) /\ angle' = -90 /\ mapIndex' = 0 /\ asked' = d
        /\ SetPanPosition(-90) /\ minDist' = minDist
    BY <1>3, <1>6 DEF GetObstacleMap
  <2>2. /\ d \in UInt8 /\ d >= 2
        /\ SCAN_SPAN \div d \in 1 .. 90
    BY Span
  <2>3. angleInc' = SCAN_SPAN \div d
    BY <2>1, <2>2, WrapKeeps
  <2>4. Resting /\ NoneOf(queue, PanTasks) /\ NoneOf(queue, {"handleIRRanger"}) /\ irState # "IR_BUSY"
    BY <2>1 DEF ODInv, PanInv
  <2>5. /\ panIsLocked' = TRUE /\ pan' = -90
        /\ timer' \in [Timers -> TimerStates]
        /\ timer'["panLock"] = "armed" /\ timer'["panBusy"] = "armed"
        /\ timer'["odTimer"] = timer["odTimer"] /\ timer'["irTimer"] = timer["irTimer"]
    <3>1. -90 \in -90 .. 90
      OBVIOUS
    <3>2. QED
      BY <2>1, <2>4, <3>1, ServoTold DEF ODInv, Resting
  <2>6. TypeOK'
    <3>1. 0 \in UInt8 /\ -90 \in Int8 /\ -90 \in -90 .. 90 /\ "OD_CREATE_MAP" \in ODStates
      BY DEF UInt8, Int8, ODStates
    <3>2. angleInc' \in Int8
      BY <2>2, <2>3 DEF Int8
    <3>3. QED
      BY <1>1, <1>4, <2>1, <2>2, <2>5, <3>1, <3>2 DEF ODInv, TypeOK
  <2>7. (Ranger /\ Lookups)'
    BY <1>2, <1>4, <2>1, <2>5 DEF ODInv, Ranger, Lookups, RangerTasks
  <2>8. NoneOf(queue', {"handleIRRanger"}) /\ NoneOf(queue', PanTasks)
    BY <1>2, <2>4 DEF RangerTasks
  <2>9. PanInv'
    BY <1>4, <2>1, <2>4, <2>5, <2>8 DEF PanInv, PanMoves
  <2>10. MapInv'
    <3>1. d \in Nat /\ 0 * (SCAN_SPAN \div d) = 0 /\ -90 = -90 + 0 /\ 0 < d
      BY <2>2 DEF UInt8
    <3>2. QED
      BY <1>4, <2>1, <2>3, <2>4, <2>5, <2>8, <3>1 DEF MapInv
  <2>11. QED
    BY <2>6, <2>7, <2>9, <2>10 DEF ODInv
<1>7. QED
  BY <1>5, <1>6

(* A reading was queued while the ranger rests; taking it makes way for    *)
(* the next one.                                                           *)
LEMMA HandleIRRangerKeeps ==
  ASSUME ODInv, HandleIRRanger
  PROVE  ODInv'
<1>1. /\ Rest \in Seq(Tasks)
      /\ ~NoneOf(queue, {"handleIRRanger"})
      /\ NoneOf(Rest, {"odTimer", "handleIRRanger"})
      /\ NoneOf(queue, {"irTimer"}) => NoneOf(Rest, {"irTimer"})
      /\ Ordered(Rest)
      /\ PanKept(queue, Rest)
  BY Taken, TaskNames DEF ODInv, Ranger, HandleIRRanger, RangerTasks, PanTasks
<1>2. NoneOf(Rest, {"odTimer"}) /\ NoneOf(Rest, {"handleIRRanger"})
  BY <1>1 DEF NoneOf
<1>3. /\ UNCHANGED <<distance, irState>>
      /\ irState = "IR_REST" /\ timer["odTimer"] = "off" /\ state # "OD_IDLE"
      /\ state # "OD_MAP_COMPLETE"
  BY <1>1 DEF HandleIRRanger, ODInv, Ranger, Lookups, PanInv
<1>4. Resting /\ NoneOf(queue, PanTasks)
  BY <1>1, <1>3 DEF ODInv, TypeOK, ODStates, PanInv
<1>5. NoneOf(Rest, PanTasks)
  BY <1>1, <1>4 DEF PanKept
<1>6. timer["irTimer"] = "due" \/ (timer["irTimer"] = "armed" /\ NoneOf(Rest, {"irTimer"}))
  BY <1>1, <1>3 DEF ODInv, Ranger
<1>7. CASE /\ state \in {"OD_ALARM", "OD_ALARM_ONE_TIME"} /\ distance < minDist
           /\ state' = "OD_IDLE"
           /\ \E t \in {"askAlarm", "askMap"} : queue' = Append(Rest, t)
           /\ UNCHANGED <<minDist, angle, angleInc, mapIndex, asked, panVars, timer>>
  <2>1. PICK t \in {"askAlarm", "askMap"} : queue' = Append(Rest, t)
    BY <1>7
  <2>2. t \in Tasks /\ t \notin RangerTasks /\ t \notin PanTasks
    BY TaskNames
  <2>3. /\ queue' \in Seq(Tasks) /\ Ordered(queue')
        /\ NoneOf(queue', {"odTimer"}) /\ NoneOf(queue', {"handleIRRanger"})
        /\ NoneOf(queue', PanTasks)
        /\ NoneOf(Rest, {"irTimer"}) => NoneOf(queue', {"irTimer"})
    BY <1>1, <1>2, <1>5, <2>1, <2>2, PostedTo DEF RangerKept, PanKept, RangerTasks
  <2>4. TypeOK'
    BY <1>3, <1>7, <2>3 DEF ODInv, TypeOK, ODStates, panVars
  <2>5. (Ranger /\ Lookups)'
    BY <1>3, <1>6, <1>7, <2>3 DEF Ranger, Lookups
  <2>6. (PanInv /\ MapInv)'
    BY <1>3, <1>4, <1>7, <2>3 DEF ODInv, PanInv, MapInv, Resting, panVars
  <2>7. QED
    BY <2>4, <2>5, <2>6 DEF ODInv
<1>8. CASE queue' = Rest /\ UNCHANGED <<odVars, panVars, timer>> /\ state # "OD_CREATE_MAP"
  <2>1. TypeOK'
    BY <1>1, <1>3, <1>8 DEF ODInv, TypeOK, odVars, panVars
  <2>2. (Ranger /\ Lookups)'
    BY <1>1, <1>2, <1>3, <1>6, <1>8 DEF Ranger, Lookups
  <2>3. (PanInv /\ MapInv)'
    BY <1>2, <1>3, <1>4, <1>5, <1>8 DEF ODInv, PanInv, MapInv, Resting, odVars, panVars
  <2>4. QED
    BY <2>1, <2>2, <2>3 DEF ODInv
<1>9. CASE /\ state = "OD_CREATE_MAP"
           /\ mapIndex' = mapIndex + 1
           /\ angle' = Wrap8(angle + angleInc)
           /\ SetPanPosition(angle')
           /\ queue' = Rest
           /\ UNCHANGED <<state, minDist, angleInc, asked>>
  <2>1. /\ asked \in DataPoints /\ angleInc = SCAN_SPAN \div asked
        /\ angle = -90 + mapIndex * angleInc /\ mapIndex + 1 < asked /\ mapIndex \in Nat
        /\ mapIndex \in UInt8
    BY <1>1, <1>9 DEF ODInv, TypeOK, MapInv, UInt8
  <2>2. angleInc \in 1 .. 90 /\ asked \in Nat /\ asked <= 255 /\ asked * angleInc = SCAN_SPAN
    BY <2>1, Span DEF UInt8
  <2>3. /\ (mapIndex + 1) * angleInc = mapIndex * angleInc + angleInc
        /\ mapIndex * angleInc \in Nat
        /\ mapIndex * angleInc + angleInc < SCAN_SPAN
    BY <2>1, <2>2, EntryAngles
  <2>4. /\ angle' = -90 + (mapIndex + 1) * angleInc
        /\ angle' \in -90 .. 90 /\ angle' \in Int8
    <3>1. angle + angleInc = -90 + (mapIndex + 1) * angleInc
      BY <2>1, <2>2, <2>3
    <3>2. angle + angleInc \in -90 .. 90
      BY <2>1, <2>2, <2>3 DEF SCAN_SPAN
    <3>3. QED
      BY <1>9, <3>1, <3>2, WrapKeeps DEF Int8
  <2>5. /\ panIsLocked' = TRUE /\ pan' = angle'
        /\ timer' \in [Timers -> TimerStates]
        /\ timer'["panLock"] = "armed" /\ timer'["panBusy"] = "armed"
        /\ timer'["odTimer"] = timer["odTimer"] /\ timer'["irTimer"] = timer["irTimer"]
    BY <1>4, <1>9, <2>4, ServoTold DEF ODInv, Resting
  <2>6. TypeOK'
    <3>1. mapIndex' \in UInt8
      BY <1>9, <2>1, <2>2 DEF UInt8
    <3>2. QED
      BY <1>1, <1>3, <1>9, <2>4, <2>5, <3>1 DEF ODInv, TypeOK
  <2>7. (Ranger /\ Lookups)'
    BY <1>1, <1>2, <1>3, <1>6, <1>9, <2>5 DEF Ranger, Lookups
  <2>8. PanInv'
    BY <1>2, <1>3, <1>5, <1>9, <2>5 DEF PanInv, PanMoves
  <2>9. MapInv'
    BY <1>2, <1>3, <1>9, <2>1, <2>4, <2>5 DEF MapInv
  <2>10. QED
    BY <2>6, <2>7, <2>8, <2>9 DEF ODInv
<1>10. QED
  BY <1>3, <1>7, <1>8, <1>9 DEF HandleIRRanger

(* The servo has come to rest: a reading begins, as the ranger is idle, or *)
(* the map is complete, or it is reported.                                 *)
LEMMA HandlePanPositionChangeKeeps ==
  ASSUME ODInv, HandlePanPositionChange
  PROVE  ODInv'
<1>1. /\ Rest \in Seq(Tasks)
      /\ ~NoneOf(queue, PanTasks)
      /\ ~OneOf(queue, PanTasks, "panBusy")
      /\ OneOf(queue, PanTasks, "handlePanPositionChange") => NoneOf(Rest, PanTasks)
      /\ RangerKept(queue, Rest)
  <2>1. /\ "handlePanPositionChange" \in Tasks /\ "handlePanPositionChange" \notin RangerTasks
        /\ "handlePanPositionChange" \in PanTasks /\ "panBusy" \in PanTasks
    BY TaskNames DEF PanTasks
  <2>2. QED
    BY <2>1, Taken DEF ODInv, HandlePanPositionChange
<1>2. /\ \A x \in RangerTasks : NoneOf(Rest, {x}) <=> NoneOf(queue, {x})
      /\ Ordered(Rest)
  BY <1>1 DEF ODInv, Ranger, RangerKept
<1>3. /\ state \in {"OD_CREATE_MAP", "OD_MAP_COMPLETE"}
      /\ irState = "IR_IDLE" /\ Resting /\ NoneOf(Rest, PanTasks)
      /\ NoneOf(queue, {"handleIRRanger"})
  <2>1. state \in {"OD_CREATE_MAP", "OD_MAP_COMPLETE"} /\ PanMoves
    BY <1>1 DEF ODInv, TypeOK, ODStates, PanInv
  <2>2. irState = "IR_IDLE" /\ Resting /\ NoneOf(Rest, PanTasks)
    BY <1>1, <2>1 DEF PanMoves
  <2>3. QED
    BY <2>1, <2>2 DEF ODInv, Ranger
<1>4. distance' = distance
  BY DEF HandlePanPositionChange
<1>5. /\ asked \in DataPoints /\ angleInc = SCAN_SPAN \div asked
      /\ angle = -90 + mapIndex * angleInc /\ mapIndex < asked /\ mapIndex \in Nat
  BY <1>3 DEF ODInv, TypeOK, MapInv, UInt8
<1>6. CASE /\ state = "OD_CREATE_MAP" /\ angle + angleInc < MAX_ANGLE
           /\ irState' = "IR_BUSY"
           /\ queue' = Rest
           /\ UNCHANGED <<odVars, panVars, timer>>
  <2>1. TypeOK'
    BY <1>1, <1>4, <1>6 DEF ODInv, TypeOK, odVars, panVars
  <2>2. (Ranger /\ Lookups)'
    BY <1>2, <1>3, <1>6 DEF ODInv, Ranger, Lookups, RangerTasks, odVars
  <2>3. PanInv'
    BY <1>3, <1>6 DEF ODInv, PanInv, Resting, odVars, panVars
  <2>4. mapIndex + 1 < asked
    <3>1. angleInc \in 1 .. 90 /\ asked \in Nat /\ asked * angleInc = SCAN_SPAN
      BY <1>5, Span DEF UInt8
    <3>2. mapIndex * angleInc \in Nat /\ (mapIndex * angleInc + angleInc < SCAN_SPAN => mapIndex + 1 < asked)
      BY <1>5, <3>1, EntryAngles
    <3>3. mapIndex * angleInc + angleInc < SCAN_SPAN
      BY <1>5, <1>6, <3>1, <3>2 DEF MAX_ANGLE, SCAN_SPAN
    <3>4. QED
      BY <3>2, <3>3
  <2>5. MapInv'
    BY <1>6, <2>4 DEF ODInv, MapInv, odVars, panVars
  <2>6. QED
    BY <2>1, <2>2, <2>3, <2>5 DEF ODInv
<1>7. CASE /\ state = "OD_CREATE_MAP"
           /\ SetPanPosition(0)
           /\ state' = "OD_MAP_COMPLETE"
           /\ queue' = Rest
           /\ UNCHANGED <<minDist, angle, angleInc, mapIndex, asked, irState>>
  <2>1. /\ panIsLocked' = TRUE /\ pan' = 0
        /\ timer' \in [Timers -> TimerStates]
        /\ timer'["panLock"] = "armed" /\ timer'["panBusy"] = "armed"
        /\ timer'["odTimer"] = timer["odTimer"] /\ timer'["irTimer"] = timer["irTimer"]
    <3>1. 0 \in -90 .. 90
      OBVIOUS
    <3>2. QED
      BY <1>3, <1>7, <3>1, ServoTold DEF ODInv, Resting
  <2>2. TypeOK'
    <3>1. 0 \in -90 .. 90
      OBVIOUS
    <3>2. QED
      BY <1>1, <1>4, <1>7, <2>1, <3>1 DEF ODInv, TypeOK, ODStates
  <2>3. (Ranger /\ Lookups)'
    BY <1>2, <1>7, <2>1 DEF ODInv, Ranger, Lookups, RangerTasks
  <2>4. PanInv'
    BY <1>3, <1>7, <2>1 DEF PanInv, PanMoves
  <2>5. MapInv'
    BY <1>5, <1>7 DEF MapInv
  <2>6. QED
    BY <2>2, <2>3, <2>4, <2>5 DEF ODInv
<1>8. CASE /\ state = "OD_MAP_COMPLETE"
           /\ state' = "OD_IDLE"
           /\ queue' = Append(Rest, "askAlarm")
           /\ UNCHANGED <<minDist, angle, angleInc, mapIndex, asked, irState, panVars, timer>>
  <2>1. /\ queue' \in Seq(Tasks)
        /\ RangerKept(Rest, queue') /\ NoneOf(queue', PanTasks)
    BY <1>1, <1>3, <1>8, PostedTo, TaskNames DEF PanKept
  <2>2. /\ \A x \in RangerTasks : NoneOf(queue', {x}) <=> NoneOf(queue, {x})
        /\ Ordered(queue')
    BY <1>2, <2>1 DEF RangerKept
  <2>3. TypeOK'
    BY <1>4, <1>8, <2>1 DEF ODInv, TypeOK, ODStates, panVars
  <2>4. (Ranger /\ Lookups)'
    BY <1>8, <2>2 DEF ODInv, Ranger, Lookups, RangerTasks
  <2>5. (PanInv /\ MapInv)'
    BY <1>3, <1>8, <2>1, <2>2 DEF ODInv, PanInv, MapInv, Resting, RangerTasks, panVars
  <2>6. QED
    BY <2>3, <2>4, <2>5 DEF ODInv
<1>9. QED
  BY <1>3, <1>6, <1>7, <1>8 DEF HandlePanPositionChange

(* A lookup is queued for an alarm only.                                   *)
LEMMA LookupTimerFiredKeeps ==
  ASSUME ODInv, LookupTimerFired
  PROVE  ODInv'
<1>1. /\ queue' = Rest /\ Rest \in Seq(Tasks)
      /\ ~NoneOf(queue, {"odTimer"})
      /\ NoneOf(queue, {"irTimer"}) => NoneOf(Rest, {"irTimer"})
      /\ NoneOf(queue, {"handleIRRanger"}) => NoneOf(Rest, {"handleIRRanger"})
      /\ Ordered(Rest)
      /\ NoneOf(queue, PanTasks) => NoneOf(Rest, PanTasks)
  BY Taken, TaskNames DEF ODInv, Ranger, LookupTimerFired, RangerTasks, PanTasks, PanKept
<1>2. /\ state = "OD_ALARM" /\ Resting /\ NoneOf(Rest, PanTasks)
      /\ UNCHANGED <<odVars, distance, panVars>>
  BY <1>1 DEF ODInv, Lookups, PanInv, LookupTimerFired
<1>3. /\ timer' \in [Timers -> TimerStates]
      /\ timer'["irTimer"] = timer["irTimer"] /\ timer'["panLock"] = timer["panLock"]
      /\ timer'["panBusy"] = timer["panBusy"]
      /\ timer'["odTimer"] = "off" <=> timer["odTimer"] = "off"
  BY ExpiryKept, TimerNames DEF ODInv, TypeOK, LookupTimerFired
<1>4. (irState' = "IR_BUSY" /\ irState = "IR_IDLE") \/ irState' = irState
  BY DEF LookupTimerFired, GetDistance
<1>5. TypeOK'
  BY <1>1, <1>2, <1>3, <1>4 DEF ODInv, TypeOK, odVars, panVars
<1>6. (Ranger /\ Lookups)'
  BY <1>1, <1>2, <1>3, <1>4 DEF ODInv, Ranger, Lookups, odVars
<1>7. (PanInv /\ MapInv)'
  BY <1>1, <1>2, <1>3 DEF ODInv, PanInv, MapInv, Resting, odVars, panVars
<1>8. QED
  BY <1>5, <1>6, <1>7 DEF ODInv

(* The pause of the ranger ends after its reading has been handled.        *)
LEMMA RangerTimerFiredKeeps ==
  ASSUME ODInv, RangerTimerFired
  PROVE  ODInv'
<1>1. /\ queue' = Rest /\ Rest \in Seq(Tasks)
      /\ ~NoneOf(queue, {"irTimer"})
      /\ NoneOf(Rest, {"irTimer", "handleIRRanger"})
      /\ NoneOf(queue, {"odTimer"}) => NoneOf(Rest, {"odTimer"})
      /\ \A S : NoneOf(queue, S) <=> "irTimer" \notin S /\ NoneOf(Rest, S)
      /\ Ordered(Rest)
      /\ PanKept(queue, Rest)
  BY Taken, TaskNames DEF ODInv, Ranger, RangerTimerFired, RangerTasks, PanTasks
<1>2. NoneOf(Rest, {"irTimer"}) /\ NoneOf(Rest, {"handleIRRanger"})
  BY <1>1 DEF NoneOf
<1>3. NoneOf(queue, {"handleIRRanger"})
  BY <1>1, <1>2
<1>4. /\ irState = "IR_REST" /\ timer["irTimer"] = "due"
      /\ UNCHANGED <<odVars, distance, panVars>>
  BY <1>1 DEF ODInv, Ranger, RangerTimerFired
<1>5. irState' = "IR_IDLE"
  BY <1>4 DEF RangerTimerFired, Delivered
<1>6. /\ timer' \in [Timers -> TimerStates] /\ timer'["irTimer"] = "off"
      /\ timer'["odTimer"] = timer["odTimer"] /\ timer'["panLock"] = timer["panLock"]
      /\ timer'["panBusy"] = timer["panBusy"]
  BY <1>4, ExpiryKept, TimerNames DEF ODInv, TypeOK, RangerTimerFired
<1>7. TypeOK'
  BY <1>1, <1>4, <1>5, <1>6 DEF ODInv, TypeOK, odVars, panVars
<1>8. (Ranger /\ Lookups)'
  BY <1>1, <1>2, <1>4, <1>5, <1>6 DEF ODInv, Ranger, Lookups, odVars
<1>9. PanInv'
  <2>1. state # "OD_MAP_COMPLETE"
    BY <1>4 DEF ODInv, PanInv
  <2>2. state = "OD_CREATE_MAP" => timer["panBusy"] = "armed" /\ NoneOf(queue, PanTasks)
    BY <1>3, <1>4 DEF ODInv, PanInv, PanMoves
  <2>3. QED
    BY <1>1, <1>2, <1>4, <1>5, <1>6, <2>1, <2>2
       DEF ODInv, PanInv, PanMoves, Resting, PanKept, odVars, panVars
<1>10. MapInv'
  BY <1>1, <1>2, <1>4, <1>5 DEF ODInv, MapInv, odVars, panVars
<1>11. QED
  BY <1>7, <1>8, <1>9, <1>10 DEF ODInv

LEMMA ServoUnlockedKeeps ==
  ASSUME ODInv, PanLockedTimerFired
  PROVE  ODInv'
<1>1. /\ queue' = Rest /\ Rest \in Seq(Tasks)
      /\ RangerKept(queue, Rest) /\ PanKept(queue, Rest)
  BY Taken, TaskNames DEF ODInv, PanLockedTimerFired
<1>2. /\ \A x \in RangerTasks : NoneOf(queue', {x}) <=> NoneOf(queue, {x})
      /\ Ordered(queue')
      /\ NoneOf(queue, PanTasks) => NoneOf(queue', PanTasks)
      /\ \A t \in PanTasks : OneOf(queue, PanTasks, t) => OneOf(queue', PanTasks, t)
  BY <1>1 DEF ODInv, Ranger, RangerKept, PanKept
<1>3. UNCHANGED <<odVars, distance, irState, pan>>
  BY DEF PanLockedTimerFired
<1>4. /\ timer' \in [Timers -> TimerStates]
      /\ timer'["odTimer"] = timer["odTimer"] /\ timer'["irTimer"] = timer["irTimer"]
      /\ timer'["panBusy"] = timer["panBusy"]
      /\ timer["panLock"] # "due" => timer'["panLock"] = timer["panLock"]
  BY ExpiryKept, TimerNames DEF ODInv, TypeOK, PanLockedTimerFired
<1>5. /\ panIsLocked' \in BOOLEAN
      /\ panIsLocked' => panIsLocked /\ timer["panLock"] # "due"
  BY DEF ODInv, TypeOK, PanLockedTimerFired, Delivered
<1>6. TypeOK'
  BY <1>1, <1>3, <1>4, <1>5 DEF ODInv, TypeOK, odVars
<1>7. (Ranger /\ Lookups)'
  BY <1>2, <1>3, <1>4 DEF ODInv, Ranger, Lookups, RangerTasks, odVars
<1>8. PanInv'
  BY <1>2, <1>3, <1>4, <1>5
     DEF ODInv, PanInv, PanMoves, Resting, PanTasks, RangerTasks, odVars
<1>9. MapInv'
  BY <1>2, <1>3 DEF ODInv, MapInv, RangerTasks, odVars
<1>10. QED
  BY <1>6, <1>7, <1>8, <1>9 DEF ODInv

(* The servo is told to be at rest once.                                   *)
LEMMA PanBusyTimerFiredKeeps ==
  ASSUME ODInv, PanBusyTimerFired
  PROVE  ODInv'
<1>1. /\ Rest \in Seq(Tasks)
      /\ ~NoneOf(queue, PanTasks)
      /\ ~OneOf(queue, PanTasks, "handlePanPositionChange")
      /\ OneOf(queue, PanTasks, "panBusy") => NoneOf(Rest, PanTasks)
      /\ RangerKept(queue, Rest)
  <2>1. /\ "panBusy" \in Tasks /\ "panBusy" \notin RangerTasks
        /\ "handlePanPositionChange" \in PanTasks /\ "panBusy" \in PanTasks
    BY TaskNames DEF PanTasks
  <2>2. QED
    BY <2>1, Taken DEF ODInv, PanBusyTimerFired
<1>2. /\ state \in {"OD_CREATE_MAP", "OD_MAP_COMPLETE"}
      /\ ~panIsLocked /\ timer["panBusy"] = "due" /\ irState = "IR_IDLE"
      /\ NoneOf(Rest, PanTasks)
  <2>1. state \in {"OD_CREATE_MAP", "OD_MAP_COMPLETE"} /\ PanMoves
    BY <1>1 DEF ODInv, TypeOK, ODStates, PanInv
  <2>2. QED
    BY <1>1, <2>1 DEF PanMoves
<1>3. /\ queue' = Append(Rest, "handlePanPositionChange")
      /\ UNCHANGED <<odVars, distance, irState, panVars>>
  BY <1>2 DEF PanBusyTimerFired, Delivered
<1>4. /\ queue' \in Seq(Tasks) /\ RangerKept(Rest, queue')
      /\ OneOf(queue', PanTasks, "handlePanPositionChange")
  <2>1. "handlePanPositionChange" \in Tasks /\ "handlePanPositionChange" \notin RangerTasks
    BY TaskNames DEF PanTasks
  <2>2. QED
    BY <1>1, <1>2, <1>3, <2>1, PostedTo
<1>5. /\ \A x \in RangerTasks : NoneOf(queue', {x}) <=> NoneOf(queue, {x})
      /\ Ordered(queue')
  BY <1>1, <1>4 DEF ODInv, Ranger, RangerKept
<1>6. /\ timer' \in [Timers -> TimerStates] /\ timer'["panBusy"] = "off"
      /\ timer'["odTimer"] = timer["odTimer"] /\ timer'["irTimer"] = timer["irTimer"]
      /\ timer'["panLock"] = timer["panLock"]
  BY <1>2, ExpiryKept, TimerNames DEF ODInv, TypeOK, PanBusyTimerFired
<1>7. TypeOK'
  BY <1>3, <1>4, <1>6 DEF ODInv, TypeOK, odVars, panVars
<1>8. (Ranger /\ Lookups)'
  BY <1>3, <1>5, <1>6 DEF ODInv, Ranger, Lookups, RangerTasks, odVars
<1>9. PanInv'
  <2>1. NoneOf(queue, {"handleIRRanger"})
    BY <1>2 DEF ODInv, Ranger
  <2>2. QED
    BY <1>2, <1>3, <1>4, <1>5, <1>6, <2>1
       DEF PanInv, PanMoves, Resting, RangerTasks, odVars, panVars
<1>10. MapInv'
  BY <1>3, <1>5 DEF ODInv, MapInv, RangerTasks, odVars, panVars
<1>11. QED
  BY <1>7, <1>8, <1>9, <1>10 DEF ODInv

(* A reading ends: it is the only one that is queued, and no lookup is     *)
(* armed while it is.                                                      *)
LEMMA InterruptKeeps ==
  ASSUME ODInv, NEW dist \in Readings, Interrupt4(dist)
  PROVE  ODInv'
<1>1. /\ irState = "IR_BUSY" /\ timer["panLock"] = "off" /\ irState' = "IR_REST"
      /\ distance' = dist /\ queue' = Append(queue, "handleIRRanger")
      /\ UNCHANGED <<odVars, panVars>>
  BY DEF Interrupt4
<1>2. /\ timer["irTimer"] = "off" /\ NoneOf(queue, {"irTimer"})
      /\ NoneOf(queue, {"handleIRRanger"}) /\ Ordered(queue) /\ queue \in Seq(Tasks)
  BY <1>1 DEF ODInv, Ranger, TypeOK
<1>3. /\ "handleIRRanger" \in Tasks /\ "handleIRRanger" \notin PanTasks
  BY TaskNames DEF RangerTasks
<1>4. /\ queue' \in Seq(Tasks)
      /\ NoneOf(queue', {"irTimer"}) /\ ~NoneOf(queue', {"handleIRRanger"})
      /\ NoneOf(queue, {"odTimer"}) => NoneOf(queue', {"odTimer"})
      /\ NoneOf(queue, PanTasks) => NoneOf(queue', PanTasks)
  BY <1>1, <1>2, <1>3, PostedTo DEF PanKept
<1>5. Ordered(queue')
  BY <1>1, <1>2, <1>3, PostBehind DEF Ordered
<1>6. /\ timer' \in [Timers -> TimerStates]
      /\ timer'["odTimer"] = "off" /\ timer'["irTimer"] = "armed"
      /\ timer'["panLock"] = timer["panLock"] /\ timer'["panBusy"] = timer["panBusy"]
  <2> DEFINE tm == IF state = "OD_ALARM" THEN TimerStop(timer, "odTimer") ELSE timer
  <2>1. timer' = TimerStart(tm, "irTimer")
    BY DEF Interrupt4
  <2>2. /\ tm \in [Timers -> TimerStates] /\ tm["odTimer"] = "off"
        /\ tm["panLock"] = timer["panLock"] /\ tm["panBusy"] = timer["panBusy"]
    <3>1. timer \in [Timers -> TimerStates] /\ (state # "OD_ALARM" => timer["odTimer"] = "off")
      BY DEF ODInv, TypeOK, Lookups
    <3>2. CASE state = "OD_ALARM"
      BY <3>1, <3>2, TimerNames DEF TimerStop, TimerStates
    <3>3. CASE state # "OD_ALARM"
      BY <3>1, <3>3
    <3>4. QED
      BY <3>2, <3>3
  <2> HIDE DEF tm
  <2>3. QED
    BY <2>1, <2>2, TimerNames DEF TimerStart, TimerStates
<1>7. TypeOK'
  BY <1>1, <1>4, <1>6, ObstacleAssumption DEF ODInv, TypeOK, odVars, panVars
<1>8. (Ranger /\ Lookups)'
  BY <1>1, <1>4, <1>5, <1>6 DEF ODInv, Ranger, Lookups, odVars
<1>9. (PanInv /\ MapInv)'
  <2>1. state = "OD_CREATE_MAP" => Resting /\ NoneOf(queue, PanTasks)
    BY <1>1, <1>2 DEF ODInv, PanInv
  <2>2. PanInv'
    BY <1>1, <1>4, <1>6, <2>1 DEF ODInv, PanInv, Resting, odVars, panVars
  <2>3. MapInv'
    BY <1>1 DEF ODInv, MapInv, odVars, panVars
  <2>4. QED
    BY <2>2, <2>3
<1>10. QED
  BY <1>7, <1>8, <1>9 DEF ODInv

(* A lookup is posted while no reading is queued, the servo comes to rest  *)
(* while the ranger is idle.                                               *)
LEMMA ExpireKeeps ==
  ASSUME ODInv, NEW id \in Timers, Expire(id)
  PROVE  ODInv'
<1>1. /\ timer[id] = "armed" /\ timer' = [timer EXCEPT ![id] = "due"]
      /\ queue' = Append(queue, id) /\ NoneOf(queue, {id})
      /\ UNCHANGED <<odVars, distance, irState, panVars>>
  BY QueuedIs DEF Expire
<1>2. /\ timer' \in [Timers -> TimerStates] /\ timer'[id] = "due"
      /\ \A other \in Timers : other # id => timer'[other] = timer[other]
  BY <1>1 DEF ODInv, TypeOK, TimerStates
<1>3. /\ queue \in Seq(Tasks) /\ Ordered(queue) /\ id \in Tasks
      /\ id = "odTimer" \/ id = "irTimer" \/ id = "panLock" \/ id = "panBusy"
  BY DEF ODInv, TypeOK, Ranger, Tasks, Timers
<1>4. /\ queue' \in Seq(Tasks)
      /\ \A S : NoneOf(queue', S) <=> NoneOf(queue, S) /\ id \notin S
      /\ id \notin PanTasks => PanKept(queue, queue')
      /\ NoneOf(queue, PanTasks) => OneOf(queue', PanTasks, id)
  BY <1>1, <1>3, PostedTo
<1>5. Ordered(queue')
  <2>1. id = "odTimer" => NoneOf(queue, {"handleIRRanger"})
    BY <1>1 DEF ODInv, Lookups
  <2>2. id # "handleIRRanger"
    BY <1>3
  <2>3. NotBehind(queue', "handleIRRanger", {"odTimer", "handleIRRanger"})
    BY <1>1, <1>3, <2>1, <2>2, PostBehind DEF Ordered
  <2>4. NotBehind(queue', "irTimer", {"irTimer", "handleIRRanger"})
    BY <1>1, <1>3, <2>2, PostBehind DEF Ordered
  <2>5. QED
    BY <2>3, <2>4 DEF Ordered
<1>6. TypeOK'
  BY <1>1, <1>2, <1>4 DEF ODInv, TypeOK, odVars, panVars
<1>7. Ranger'
  BY <1>1, <1>2, <1>3, <1>4, <1>5, TimerNames DEF ODInv, Ranger
<1>8. Lookups'
  BY <1>1, <1>2, <1>3, <1>4, TimerNames DEF ODInv, Lookups, odVars
<1>9. MapInv'
  BY <1>1, <1>3, <1>4 DEF ODInv, MapInv, odVars, panVars
<1>10. NoneOf(queue', {"handleIRRanger"}) <=> NoneOf(queue, {"handleIRRanger"})
  BY <1>3, <1>4
<1>11. PanInv'
  <2>1. CASE id = "panBusy"
    <3>1. timer["panBusy"] = "armed"
      BY <1>1, <2>1
    <3>2. /\ ~panIsLocked /\ irState = "IR_IDLE" /\ PanMoves
          /\ state \in {"OD_CREATE_MAP", "OD_MAP_COMPLETE"}
      BY <2>1, <3>1 DEF ODInv, TypeOK, ODStates, PanInv, Resting, Expire
    <3>3. NoneOf(queue, PanTasks)
      BY <3>1, <3>2 DEF PanMoves, Resting
    <3>4. NoneOf(queue', {"handleIRRanger"})
      BY <1>10, <3>2 DEF ODInv, Ranger
    <3>5. PanMoves'
      BY <1>1, <1>2, <1>4, <2>1, <3>2, <3>3 DEF PanMoves, panVars
    <3>6. QED
      BY <1>1, <3>2, <3>4, <3>5 DEF PanInv, odVars, panVars
  <2>2. CASE id # "panBusy"
    <3>1. /\ timer'["panBusy"] = timer["panBusy"]
          /\ timer["panLock"] # "off" => timer'["panLock"] # "off"
      BY <1>1, <1>2, <2>2, TimerNames
    <3>2. PanKept(queue, queue')
      BY <1>3, <1>4, <2>2 DEF PanTasks
    <3>3. PanMoves => PanMoves'
      BY <1>1, <3>1, <3>2 DEF PanMoves, PanKept, Resting, PanTasks, panVars
    <3>4. Resting => Resting'
      BY <1>1, <3>1 DEF Resting, panVars
    <3>5. NoneOf(queue, PanTasks) => NoneOf(queue', PanTasks)
      BY <3>2 DEF PanKept
    <3>6. QED
      BY <1>1, <1>10, <3>1, <3>3, <3>4, <3>5 DEF ODInv, PanInv, odVars, panVars
  <2>3. QED
    BY <2>1, <2>2
<1>12. QED
  BY <1>6, <1>7, <1>8, <1>9, <1>11 DEF ODInv

LEMMA NextODInv == ODInv /\ [Next]_vars => ODInv'
<1> SUFFICES ASSUME ODInv, [Next]_vars PROVE ODInv'
  OBVIOUS
<1>1. CASE UNCHANGED vars
  BY <1>1 DEF ODInv, TypeOK, Ranger, Lookups, PanInv, MapInv, PanMoves, Resting,
     vars, odVars, panVars
<1>2. CASE RunTask
  BY <1>2, AskAlarmKeeps, AskMapKeeps, HandleIRRangerKeeps, HandlePanPositionChangeKeeps,
     LookupTimerFiredKeeps, RangerTimerFiredKeeps, ServoUnlockedKeeps, PanBusyTimerFiredKeeps
     DEF RunTask
<1>3. QED
  BY <1>1, <1>2, TurnOffAlarmKeeps, InterruptKeeps, ExpireKeeps DEF Next, Interrupt

LEMMA Invariant == Spec => []ODInv
  BY InitODInv, NextODInv, PTL DEF Spec

-----------------------------------------------------------------------------
(* Every variable keeps its type; no angle that the servo is told is       *)
(* outside its range.                                                      *)
THEOREM TypeCorrect == Spec => []TypeOK
<1>1. ODInv => TypeOK
  BY DEF ODInv
<1>2. QED
  BY <1>1, Invariant, PTL

(* The map is never longer than the buffer of the client.                  *)
THEOREM MapsFit == Spec => []MapFits
<1>1. ODInv => MapFits
  <2> SUFFICES ASSUME ODInv, state \in {"OD_CREATE_MAP", "OD_MAP_COMPLETE"}
               PROVE  mapIndex + 1 <= asked
    BY DEF MapFits
  <2>1. mapIndex \in Nat /\ asked \in Nat /\ mapIndex < asked
    BY DEF ODInv, MapInv, TypeOK, UInt8
  <2>2. QED
    BY <2>1
<1>2. QED
  BY <1>1, Invariant, PTL

(* Readings for the map are made in the directions of their entries, after *)
(* the servo has come to rest.                                             *)
THEOREM ReadingsAimed == Spec => []ReadingsInDirection
<1>1. ODInv => ReadingsInDirection
  <2> SUFFICES ASSUME ODInv, state = "OD_CREATE_MAP", irState = "IR_BUSY"
               PROVE  /\ pan = angle
                      /\ angle = -90 + mapIndex * (SCAN_SPAN \div asked)
                      /\ timer["panBusy"] # "armed"
    BY DEF ReadingsInDirection
  <2>1. Resting
    BY DEF ODInv, Ranger, PanInv
  <2>2. QED
    BY <2>1 DEF ODInv, MapInv, Resting
<1>2. QED
  BY <1>1, Invariant, PTL

-----------------------------------------------------------------------------
(* The service.  A step that neither sets nor raises an alarm goes on      *)
(* looking, or stops looking for good.                                     *)
ServiceStep == [Service!Next]_ServiceState

LEMMA LooksNoMore ==
  ASSUME state' = state, Looking' => Looking
  PROVE  ServiceStep
<1>1. CASE ServiceState' = ServiceState
  BY <1>1 DEF ServiceStep
<1>2. CASE ServiceState' # ServiceState
  <2>1. ServiceState = "watching" /\ ServiceState' = "silent"
    BY <1>2 DEF ServiceState
  <2>2. QED
    BY <2>1 DEF ServiceStep, Service!Next, Service!Look
<1>3. QED
  BY <1>1, <1>2

LEMMA SetAlarmServes ==
  ASSUME ODInv, AskAlarm
  PROVE  ServiceStep
<1>1. PICK dist \in Distances, period \in Periods : SetObstacleAlarm(dist, period)
  BY DEF AskAlarm
<1>2. queue' = Rest /\ RangerKept(queue, Rest)
  BY Taken, TaskNames DEF ODInv, AskAlarm
<1>3. \A t \in RangerTasks : Queued(queue', t) <=> Queued(queue, t)
  BY <1>2, QueuedIs DEF RangerKept
<1>4. CASE UNCHANGED <<odVars, irState, timer>>
  <2>1. state' = state /\ (Looking' => Looking)
    BY <1>3, <1>4 DEF Looking, RangerTasks, odVars
  <2>2. QED
    BY <2>1, LooksNoMore
<1>5. CASE state = "OD_IDLE" /\ state' = "OD_ALARM" /\ timer' = TimerStart(timer, "odTimer")
  <2>1. timer'["odTimer"] # "off"
    BY <1>5, TimersKept, TimerNames DEF ODInv, TypeOK
  <2>2. ServiceState = "idle" /\ ServiceState' = "watching"
    BY <1>5, <2>1 DEF ServiceState, Looking
  <2>3. QED
    BY <2>2 DEF ServiceStep, Service!Next, Service!SetAlarm
<1>6. CASE state = "OD_IDLE" /\ state' = "OD_ALARM_ONE_TIME"
  <2>1. ServiceState = "idle" /\ ServiceState' = "once"
    BY <1>6 DEF ServiceState
  <2>2. QED
    BY <2>1 DEF ServiceStep, Service!Next, Service!SetOnce
<1>7. QED
  BY <1>1, <1>4, <1>5, <1>6 DEF SetObstacleAlarm

LEMMA AskMapServes ==
  ASSUME ODInv, AskMap
  PROVE  ServiceStep
<1>1. PICK d \in DataPoints : GetObstacleMap(d)
  BY DEF AskMap
<1>2. queue' = Rest /\ RangerKept(queue, Rest) /\ irState' = irState
  BY Taken, TaskNames DEF ODInv, AskMap
<1>3. CASE UNCHANGED <<odVars, panVars, timer>>
  <2>1. state' = state /\ (Looking' => Looking)
    BY <1>2, <1>3, QueuedIs DEF Looking, RangerKept, RangerTasks, odVars
  <2>2. QED
    BY <2>1, LooksNoMore
<1>4. CASE state = "OD_IDLE" /\ state' = "OD_CREATE_MAP"
  <2>1. ServiceState = "idle" /\ ServiceState' = "scanning"
    BY <1>4 DEF ServiceState
  <2>2. QED
    BY <2>1 DEF ServiceStep, Service!Next, Service!Scan
<1>5. QED
  BY <1>1, <1>3, <1>4 DEF GetObstacleMap

LEMMA HandleIRRangerServes ==
  ASSUME ODInv, HandleIRRanger
  PROVE  ServiceStep
<1>1. Queued(queue, "handleIRRanger")
  BY Taken, TaskNames, QueuedIs DEF ODInv, HandleIRRanger, RangerTasks
<1>2. Looking
  BY <1>1 DEF Looking
<1>3. CASE state' = state
  BY <1>2, <1>3, LooksNoMore
<1>4. CASE state' # state
  <2>1. state \in {"OD_ALARM", "OD_ALARM_ONE_TIME"} /\ state' = "OD_IDLE"
    BY <1>4 DEF HandleIRRanger, odVars
  <2>2. ServiceState \in {"watching", "once"} /\ ServiceState' = "idle"
    BY <1>2, <2>1 DEF ServiceState
  <2>3. QED
    BY <2>2 DEF ServiceStep, Service!Next, Service!Look, Service!LookOnce
<1>5. QED
  BY <1>3, <1>4

LEMMA HandlePanPositionChangeServes ==
  ASSUME ODInv, HandlePanPositionChange
  PROVE  ServiceStep
<1>1. state \in {"OD_CREATE_MAP", "OD_MAP_COMPLETE"}
  <2>1. ~NoneOf(queue, PanTasks)
    BY Taken, TaskNames DEF ODInv, HandlePanPositionChange, PanTasks
  <2>2. QED
    BY <2>1 DEF ODInv, TypeOK, ODStates, PanInv
<1>2. CASE state' \in {"OD_CREATE_MAP", "OD_MAP_COMPLETE"}
  BY <1>1, <1>2 DEF ServiceStep, ServiceState
<1>3. CASE state' \notin {"OD_CREATE_MAP", "OD_MAP_COMPLETE"}
  <2>1. state' = "OD_IDLE"
    BY <1>1, <1>3 DEF HandlePanPositionChange, odVars
  <2>2. ServiceState = "scanning" /\ ServiceState' = "idle"
    BY <1>1, <2>1 DEF ServiceState
  <2>3. QED
    BY <2>2 DEF ServiceStep, Service!Next, Service!Ready
<1>4. QED
  BY <1>2, <1>3

(* An expiry that is left over from before a stop looks once more if stop  *)
(* does not cancel it.                                                     *)
LEMMA LookupTimerFiredServes ==
  ASSUME ODInv, LookupTimerFired
  PROVE  ServiceStep
<1>1. /\ Queued(queue, "odTimer") /\ queue' = Rest
      /\ Queued(queue', "handleIRRanger") => Queued(queue, "handleIRRanger")
  BY Taken, TaskNames, QueuedIs DEF ODInv, LookupTimerFired, RangerTasks
<1>2. state' = state
  BY DEF LookupTimerFired, odVars
<1>3. CASE timer["odTimer"] = "due" \/ ~StopCancels
  <2>1. Looking
    BY <1>1, <1>3 DEF Looking
  <2>2. QED
    BY <1>2, <2>1, LooksNoMore
<1>4. CASE ~(timer["odTimer"] = "due" \/ ~StopCancels)
  <2>1. irState' = irState /\ timer' = timer
    BY <1>4 DEF LookupTimerFired, Delivered, AfterExpiry
  <2>2. Looking' => Looking
    BY <1>1, <1>4, <2>1 DEF Looking
  <2>3. QED
    BY <1>2, <2>2, LooksNoMore
<1>5. QED
  BY <1>3, <1>4

(* The timers of the ranger and of the servo say nothing of what is        *)
(* looked for.                                                             *)
LEMMA OtherTimerServes ==
  ASSUME ODInv, RangerTimerFired \/ PanLockedTimerFired \/ PanBusyTimerFired
  PROVE  ServiceStep
<1>1. PICK id \in {"irTimer", "panLock", "panBusy"} :
        /\ Dispatch(id) /\ timer' = AfterExpiry(timer, id, FALSE)
        /\ queue' = Rest \/ queue' = Append(Rest, "handlePanPositionChange")
  BY DEF RangerTimerFired, PanLockedTimerFired, PanBusyTimerFired
<1>2. state' = state /\ (irState' = "IR_BUSY" => irState = "IR_BUSY")
  BY DEF RangerTimerFired, PanLockedTimerFired, PanBusyTimerFired, odVars
<1>3. timer'["odTimer"] = timer["odTimer"]
  <2>1. timer \in [Timers -> TimerStates] /\ id \in Timers /\ id # "odTimer"
    BY DEF ODInv, TypeOK, Timers
  <2>2. QED
    BY <1>1, <2>1, ExpiryKept, TimerNames
<1>4. \A t \in {"odTimer", "handleIRRanger"} : Queued(queue', t) => Queued(queue, t)
  <2>1. /\ Rest \in Seq(Tasks)
        /\ \A S : NoneOf(queue, S) => NoneOf(Rest, S)
    <3>1. id \in Tasks
      BY TaskNames DEF RangerTasks, PanTasks
    <3>2. QED
      BY <1>1, <3>1, Taken DEF ODInv
  <2>2. /\ "handlePanPositionChange" \in Tasks
        /\ \A t \in {"odTimer", "handleIRRanger"} : "handlePanPositionChange" \notin {t}
    BY TaskNames DEF PanTasks
  <2>3. \A t \in {"odTimer", "handleIRRanger"} : NoneOf(queue, {t}) => NoneOf(queue', {t})
    <3>1. CASE queue' = Rest
      BY <2>1, <3>1
    <3>2. CASE queue' = Append(Rest, "handlePanPositionChange")
      <4>1. ASSUME NEW t \in {"odTimer", "handleIRRanger"}, NoneOf(queue, {t})
            PROVE  NoneOf(Append(Rest, "handlePanPositionChange"), {t})
        BY <2>1, <2>2, <4>1, PostedTo
      <4>2. QED
        BY <3>2, <4>1
    <3>3. QED
      BY <1>1, <3>1, <3>2
  <2>4. QED
    BY <2>3, QueuedIs
<1>5. Looking' => Looking
  BY <1>2, <1>3, <1>4 DEF Looking
<1>6. QED
  BY <1>2, <1>5, LooksNoMore

LEMMA InterruptServes ==
  ASSUME ODInv, NEW dist \in Readings, Interrupt4(dist)
  PROVE  ServiceStep
<1>1. state' = state /\ Looking
  BY DEF Interrupt4, odVars, Looking
<1>2. QED
  BY <1>1, LooksNoMore

LEMMA ExpireServes ==
  ASSUME ODInv, NEW id \in Timers, Expire(id)
  PROVE  ServiceStep
<1>1. state' = state /\ irState' = irState /\ queue' = Append(queue, id)
      /\ timer[id] = "armed" /\ timer' = [timer EXCEPT ![id] = "due"]
  BY DEF Expire, odVars
<1>2. CASE id = "odTimer"
  BY <1>1, <1>2, LooksNoMore DEF Looking
<1>3. CASE id # "odTimer"
  <2>1. timer'["odTimer"] = timer["odTimer"]
    BY <1>1, <1>3, TimerNames DEF ODInv, TypeOK
  <2>2. id \in Tasks /\ id # "handleIRRanger"
    BY DEF Tasks, Timers
  <2>3. \A t \in {"odTimer", "handleIRRanger"} : NoneOf(queue, {t}) => NoneOf(queue', {t})
    BY <1>1, <1>3, <2>2, PostedTo DEF ODInv, TypeOK
  <2>4. Looking' => Looking
    BY <1>1, <2>1, <2>3, QueuedIs DEF Looking
  <2>5. QED
    BY <1>1, <2>4, LooksNoMore
<1>4. QED
  BY <1>2, <1>3

LEMMA NextServes ==
  ASSUME ODInv, [Next]_vars
  PROVE  ServiceStep
<1>1. CASE UNCHANGED vars
  <2>1. state' = state /\ (Looking' <=> Looking)
    BY <1>1 DEF vars, odVars, Looking, Queued
  <2>2. QED
    BY <2>1, LooksNoMore
<1>2. CASE TurnOffAlarm
  <2>1. timer'["odTimer"] = "off"
    BY <1>2, TimersKept, TimerNames DEF ODInv, TypeOK, TurnOffAlarm
  <2>2. state' = state /\ (Looking' => Looking)
    BY <1>2, <2>1 DEF TurnOffAlarm, odVars, Looking
  <2>3. QED
    BY <2>2, LooksNoMore
<1>3. QED
  BY <1>1, <1>2, SetAlarmServes, AskMapServes, HandleIRRangerServes,
     HandlePanPositionChangeServes, LookupTimerFiredServes, OtherTimerServes, InterruptServes,
     ExpireServes DEF Next, RunTask, Interrupt

(* What obstacle detection promises is kept by every step, for every       *)
(* period: an alarm that is set looks for an obstacle, is raised only      *)
(* while it looks and, when it has fallen silent, does not begin again; an *)
(* alarm that looks once is left only by being raised; nothing interferes  *)
(* with a map.                                                             *)
THEOREM ServiceKept == Spec => Service!Safety
<1>1. Init => Service!Init
  BY DEF Init, Service!Init, ServiceState
<1>2. ODInv /\ [Next]_vars => [Service!Next]_ServiceState
  BY NextServes DEF ServiceStep
<1>3. QED
  BY <1>1, <1>2, Invariant, PTL DEF Spec, Service!Safety
=============================================================================
