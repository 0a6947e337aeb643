# Ragobots in TLA+

This directory holds TLA+ models of the Ragobot software (`src/robot/sw/code` and
the game in `src/server`), the TLC configurations that check them, and proofs
about them for TLAPS.  A Ragobot is a small robot with three processors: the
*brain*, a mote whose firmware exists twice, for TinyOS 1.x in nesC and for SOS
in C; the *body*, IRMAN, which drives the wheels and looks out for edges; and
IRIS, which hears infrared messages.  They share an I2C bus.  In the treasure
hunt, players steer robots over a game server.

1. [The system](#1-the-system): components, state, operations, what is hard
2. [The modules](#2-the-modules) and how they correspond to the code
3. [The runs](#3-the-runs): what each checks, shows, and is bounded by
4. [What the code does not do](#4-what-the-code-does-not-do)
5. [The proofs](#5-the-proofs)
6. [What is only model-checked, and what is not modelled](#6-limits)
7. [Plan](#7-plan)

## 1. The system

Paths below are relative to `src/robot/sw/code/tinyos` unless they begin with
`src/`.  `system` and `mica2` stand for `tos/system` and `tos/platform/mica2`.

### How the pieces run

TinyOS has one FIFO queue of tasks.  A task runs to completion; only interrupt
handlers preempt it.  Commands are function calls downwards, events are function
calls upwards, in the context of whoever signals them: an event that a driver
signals from its interrupt runs in that interrupt, all the way up.  A timer that
expires posts a task, so an expiry waits in the queue like everything else, and
in TinyOS 1.x stopping the timer does not take the expiry back.  Everything hard
in this firmware follows from these sentences.

SOS dispatches messages one at a time, in their order; modules post messages to
each other and share one I2C driver, which refuses a second client; interrupts
come between any two instructions.  IRMAN and IRIS have no system: a main loop
and interrupt routines over global variables.  The game server has a Java thread
per connection, one that accepts and one that receives from the motes.

```
 brain under TinyOS                              brain under SOS
  TreasureHunt, Explorer, RFIDPursuit, ...        applications    LightShow
        |                        |                     |              |
    Navigation ---- Orient       |               MotorControl       CB2Bus
     |     |   \      |  |       |                 |     ^         (lights, rails)
     |     |    \     |  |       |                 |  MSG_HIPRI_INT
 Obstacle  |   Localization   RFIDController       |     |
 Detection |     |      |        |                 |  HipriInt
  |     |  |     |    Compass    |                 |     |
 IR   Pan/ |     |               |                =+=====+=== I2C =====+====
 Ranger Tilt    UART0 -----------+                 |     ^             |
         MotionControl                             v     | alert line  |
              |                                  IRMAN --+           IRIS LOWER
      DualMotorController -- UART1 -- motor chip   |                   |
                                           wheels, cliff sensors   IRIS UPPER

 game:  RagobotClient ==socket== RagobotServer (listener, handlers) == mote == robot
```

### Components

| component (file) | state | operations and events | correct if |
|---|---|---|---|
| Motor driver (`mica2/DualMotorControllerM.nc`) | `dmcState`, pointer to the client's parameter block | `changeMotorParams`, `reset`, the transmit interrupt `putDone`, `Timer.fired` | a frame of four bytes belongs to one command; nothing is sent for 100 ms after a reset |
| Motion control (`system/MotionControlM.nc`) | `mState`, distance, degree, `params`, two timers | `move`, `turnRobot`, `abortMove`; `motorParamsChanged`, two `Timer.fired`; `moveDone`, `turnDone` | one motion at a time, the wheels do what the state says, every motion accepted ends and is reported once |
| Navigation (`system/NavigationM.nc`) | `state`, destination, map, timer | `moveTo`, `abort`; tasks for each event of the services below | in every state something is on its way that leaves it; the robot moves only on a leg that was begun |
| Orientation (`system/OrientM.nc`) | `state`, goal, timer | `orient`, `abort`; `location`, `turnDone` | it turns the shorter way, and stops turning |
| Obstacle detection (`system/ObstacleDetectionM.nc`) | `state`, `minDist`, `angle`, `angleInc`, `mapIndex` | `setObstacleAlarm`, `turnOffAlarm`, `getObstacleMap`; readings and positions | an alarm looks, a map is delivered and fits the client's buffer |
| IR ranger (`mica2/IRRangerM.nc`) | `IR_IDLE/BUSY/REST` | `getDistance`; interrupt 4, timer | one reading at a time |
| Pan and tilt (`mica2/PanTiltControllerM.nc`) | lock flags, positions, four timers | `setPanPosition`, `setTiltPosition` | a move that is reported has ended |
| Localization (`system/LocalizationM.nc`) | `ibState`, six bytes, `reqs`, `reqFlag` | `getLocation`; bytes of the badge, heading | a location is made of one message; whoever asks is told |
| Compass (`mica2/CompassM.nc`) | `state`, counts and sums of two axes | `getHeading`; `dataReady` of each axis | each axis contributes as many samples as are averaged |
| Serial lines (`mica2/UART0M.nc`, `UART1M.nc`) | registers only | `init`, `put`, `enableRx`; receive and transmit interrupts | - |
| RFID controller (`mica2/M1_RFIDControllerM.nc`) | `rfidState`, packet and receive buffers, `IDtable` | `findTags`, `readTag`, `writeTag`; bytes, `Timer.fired`, `parseResponse` | the answer is to the command; the reader gets 12 ms between commands |
| IRMAN (`src/robot/sw/code/IRMAN`) | one-byte mailbox, main loop, wheels and their timer, state and readings of the cliff detector, alert line | I2C interrupt, converter's interrupt, `i2c_parse`, `move`, `cliff_avoidance` | who drives looks out; an edge stops the robot; the last command is obeyed; the alert is a pulse |
| SOS alert driver (`src/robot/sw/code/sos-1.x/.../hipri_int.c`) | `state`, packet, table of registered modules; outside: a port expander behind a flip-flop | messages of I2C and timer, interrupt 7, register and deregister | an alert reaches who is registered; the flip-flop is ready for the next |
| SOS motor control (`.../motorcontrol.c`) | `speed` | `MSG_CHANGE_SPEED`, `MSG_HIPRI_INT` | what was accepted arrives; an alert clears the speed |
| SOS CB2 bus (`.../cb2bus.c`, `cb2bus_hardware.c`) | `config`, the virtual ports | lights, rails, status bar, `MSG_LOAD` | a load carries whole changes |
| Light show (`.../lightshow.c`) | what is enabled, `count` | start, stop, enable; timer | its lights move one at a time |
| IRIS (`src/robot/sw/code/IRIS`) | LOWER: symbols per channel, a ring of frames, `i2c_state`; UPPER: samples of the receivers | interrupts of the serial line and of I2C, main loop | a frame stays whole on the wire; the ring is emptied |
| Game server (`src/server/RagobotServer`) | `chList`, a slot per robot; threads | accept, forward a click, print a tag | a robot has one player and obeys him in order |
| Game client (`src/server/RagobotClient`) | lists of hints and treasures, a socket | connect, click, read a line, draw | - |
| Treasure hunt (`apps/TreasureHunt`) | state, a list of places, tags found | navigates, looks for tags, sends what it read | it goes on after every outcome |
| Other applications (`apps/*`) | - | demonstrations and hardware tests | - |
| Servo and gripper drivers | PWM registers | set a position | - |
| IR receiver and transmitter (`system/IR*M.nc`) | a byte being received or sent, timers | send, received | - |
| CB2 bus of TinyOS (`mica2/CB2BusM.nc`) | four virtual ports | as under SOS | - |
| Other SOS drivers (`sos-1.x`; `sos` is their first version) | as the TinyOS drivers | RFID, battery, inertial sensor, servos | - |
| Badge receiver (`src/server/motecomm`) | a serial port, a socket | passes locations on | - |
| DDSC (`src/robot/sw/code/DDSC`) | display contents | I2C | - |
| Image localization (`src/server/localization`) | images | image processing, vendored libraries | - |
| SCAAT filter, VOR game server (`src/scaat`, `src/vor_gameserver`) | Kalman filter | numerics, sockets | - |
| Hardware and publications (`src/robot/hw`, `src/publications`) | no program | | |

### What is hard here

`PROJECT.json` lists each hazard at its line, with the properties that would
catch it.  They are of six kinds:

- **Interrupts between steps.**  The driver reads its client's parameter block one
  byte per interrupt while the client goes on; a reset may fall between two bytes;
  a ranger interrupt stops a timer that a task has just started; the converter
  goes on while `move` restarts the detector; interrupt 7 comes between a test and
  the assignment that follows.
- **Expiries that outlive their timer.**  A timer is stopped or restarted, and
  the expiry that was queued before is delivered anyway, to a component that has
  gone on to something else.
- **Results that nobody looks at.**  `changeMotorParams`, `orient`,
  `setPanPosition` and `post` return FAIL and are called as statements; a speed is
  kept although the bus refused it.
- **States left by one event only.**  Each component is a little state machine;
  if the event that leaves a state does not come, or comes in another state, the
  robot stands still for good.
- **Shared things with two users.**  One I2C driver for two modules, one set of
  virtual ports for everyone who switches a light, one ring for two interrupts and
  a loop, one list of connections for three kinds of threads.
- **Signed bytes and fixed tables.**  Angles in `int8_t`, a negation in 16 bits,
  five table entries, a byte of 255 that doubles as a start byte, a count that
  wraps at 256.

## 2. The modules

| module | models | composes |
|---|---|---|
| `TinyOS` | external: task queue and `TimerC` | |
| `DualMotorController` | the driver, UART 1 and the chip | `TinyOS` |
| `MotionControl` | motion control on the driver | `DualMotorController` |
| `MotionService` | abstract: what `MotionControl` promises | |
| `Navigation` | `NavigationM` and `OrientM` over abstract services | `TinyOS` |
| `Orientation` | the angles of `OrientM` | |
| `ObstacleDetection` | `ObstacleDetectionM`, `IRRangerM`, `PanTiltControllerM` | `TinyOS` |
| `ObstacleService` | abstract: what `ObstacleDetection` promises | |
| `Localization` | `LocalizationM`, the receiver of `UART0M`, `CompassM` | `TinyOS` |
| `RFIDController` | `M1_RFIDControllerM` and the reader | `TinyOS` |
| `Irman` | IRMAN: main loop, two interrupts | |
| `SosKernel`, `SosI2C` | external: message queue and I2C driver of SOS | |
| `HipriInt` | the SOS alert driver and the register it reads | `SosI2C` |
| `AlertPath` | motor control on the same bus | `HipriInt` |
| `CB2Bus` | the SOS driver of the lights | `SosKernel` |
| `LightShow` | the light show, with other users of the lights | `CB2Bus` |
| `Iris` | the lower processor of IRIS | |
| `GameServer` | server, clients, sockets | |
| `MCMotionControl`, `MCOrientation`, `MCLightShow` | argument sets for TLC | |
| `MotionControlProofs`, `RFIDControllerProofs`, `GameServerProofs`, `LocalizationProofs`, `ObstacleDetectionProofs`, `IrisProofs` | proofs about the module of that name | |
| `NavigationProofs` | proofs about `Navigation` and `Orientation` | |
| `BodyProofs` | proofs about `Irman`, `AlertPath` and `LightShow` | |

Variables and actions keep the names of the source: `mState` is
`MotionControlM.mState`, the action `MoveTimerFired` is `mfTimer.fired`, and so
on; `map` in `PROJECT.json` gives the lines of each definition.  Definitions
marked "Wrong" or "Mutant" in a comment are plausible mistakes, used to see that
each property notices one.

**A step.**  A command or a task that no interrupt can tell apart is one step.
`MotionControl` is cut finer: `mState = IDLE` and the reset of the driver that
follows it are two steps (`AbortMove`, `MoveTimerFired` or `TurnTimerFired`, then
`FinishReset`, with the reason in `resetFor`), because the transmit interrupt may
come between them.  In the other modules the handlers that run in interrupts
(`UartGet`, `ADCDataReady`, `Interrupt4`) are steps of their own.

**`TinyOS`** models the library from how the firmware uses it.  A timer is "off",
"armed" or "due" (expired, its task still queued).  The constant `StopCancels`
says whether `stop` and a second `start` take a queued expiry back.  `FALSE` is
TinyOS 1.x, and every configuration has it.  The theorems are for both values.

**`DualMotorController`** has no `Next`: `MotionControl` is its only client and
composes its operators into actions.  The chip is modelled as the datasheet
constants in `DualMotorControl.h` describe its protocol: 0x80 starts a frame, the
fourth byte sets a wheel, and for 100 ms after a reset (`recovering`) bytes are
ignored.  `early` is history: since the last reset the driver has gone on while the
chip was recovering, which an expiry from before that reset makes it do.

**`Navigation`** sees motion, localization and the alarm as services that answer
at some time: `motion` is the phase of `MotionService`, `reqs` the requests of
`Localization`, `alarm` the states of `ObstacleService`.  What is near and what is
aligned is a choice.  `aborted` is a history variable for the properties.

**`Localization`** identifies a byte by its message and its place, so that a
location put together from two messages is visible.  `StartBytes` gives the
places at which a coordinate has a byte of value 255.

**`ObstacleDetection`** has the client of `apps/TestObstacleMap` and of
navigation: it sets an alarm, then asks for a map or sets the alarm again.
Task `handlePanPositionChange` waits for the ranger in a loop; the action is
disabled while it would loop and the task remains at the head of the queue,
which is what the loop does to all other tasks.  `ObstacleService` promises only
what the code keeps: an alarm with a period looks once and is raised or silent from
then on, and an alarm of period 0 may not look at all.  What the comments of the code
promise beyond that is stated as `KeepsLooking` and `OnceLooks`, which are false.

**`RFIDController`** has the serial line to the reader: a frame is on it for a while
(`line`), sent out of the packet buffer as that then is, so that a command accepted
meanwhile is mixed with it; an answer is one step.  `reader`, `next` and `inField` are
the external reader, which reports the tags of an inventory one by one and does not
know that a report was garbled: it goes on, under whatever state the controller then
has.  `pending`, the command the client waits for, and `astray` are history: a report of
a tag was garbled, or written behind `IDtable`.

**`Irman`** keeps a speed as its direction and a reading as whether it reaches its
threshold.  `main` is the place of the main loop: `move` is two steps, the wheels
and then the detector, because the converter's interrupt may come between them.
The converter runs freely, so that the conversion under way is of the channel
selected before the last interrupt (`adc.channel`, `ADMUX`).  A reading has two
bytes, which are read without a lock: while the converter is on, a look may find
either answer (`SeesEdge`, `SeesNone`).  The brain sends commands at any time, but
calibrates only a robot that stands and is left alone until the end.

**`HipriInt`** has the port expander with it: `latch` is the flip-flop that keeps an
alert, `seen` its value when last read, and the interrupt line falls when the two
begin to differ.  The handlers are one step, except that the assignment of `IDLE`
after the test for `RESET_REG2` is a step of its own (`deciding`).  `overlooked` is
history: interrupt 7 came where the driver looks no more.  `AlertPath` adds motor
control, the body, and another module in the table of registered modules, which
may leave it.  A change of speed is a command for one wheel, for both, or a byte that
names no side; it may drive forward, in reverse or stop (`Told`; gears of one direction
are one).  `onWay` is history: the speeds that the byte has had since the transfer of the
last accepted change began.

**`LightShow`** puts the messages of a step in the queue as the code posts them, one
by one, so that an application's message or load may come between steps but not
between the messages of one step.

**`Iris`** counts frames, so that a byte on the wire belongs to one of them.  The two
bits of a symbol and its start are real; the bits of a byte are counted and not
kept.  Faults are answers of the bus that are not an acknowledgement, and other
masters that address this processor.  Its ring for received bytes is left out:
nothing reads it.

**`GameServer`** cuts the threads where another thread can tell: the listener
between the construction of a handler, which starts it, and the assignment of
`chList`; the receiver between its three reads of `chList`.  A click is a number,
a line is its kind and robot.  Robots are those of the mote ids that have a slot.

## 3. The runs

| run | states | checks |
|---|---|---|
| `motion` | 63 852 | `FrameIntegrity WheelsMatchState StartingIsServed TimerOfMotion`, `MotionEnds` and `ImplementsService` under fairness |
| `reset_pause` | violation | `ResetRespected` |
| `navigation` | 90 597 | `NavigatingIsServed OrientingIsServed MovingIsServed`, `KeepsMoving` |
| `orientation` | 15 006 | `AngleIsShortest OneTurnIsEnough` |
| `obstacles` | 2 025 | `MapFits ReadingsInDirection`, `ImplementsService` |
| `localization` | 80 331 | `LocationIsWhole RequestsAreServed SamplesAreCounted`, `RequestsAreTold` |
| `rfid` | 344 547 | `AnswersMatch ReaderIsExpected TagsCountedOnce`, `CommandsEnd` |
| `irman` | 27 570 | `TurningIsWatched TimerServesWheels`, `EdgeStopsRobot CommandsTakeEffect AlertEnds` |
| `alert` | 1 927 108 | `RestMeansReady AcceptedSpeedArrives`, `AlertStopsSpeed` |
| `cb2bus` | 2 408 809 | `OneDecklight HeadlightsAgree` |
| `iris` | 137 430 | `FramesStayWhole`, `ReportsGetOut` |
| `gameserver` | 171 892 | `OneSteerer OnlyFirstHintIsMistaken`, `MovesInOrder`, `ClicksArePassedOn FreeRobotIsGiven` |

**`motion`**, with the timers of TinyOS 1.x.  The parameter block is shared without a
lock and read byte by byte, and an expiry from before a reset may send a command to a
chip that still recovers.  Still no part of a frame is taken for part of another
(`FrameIntegrity`), because a new motion is refused until the old one has ended
in a reset, and a reset throws away what the chip has of a frame; and what is lost is a
whole command: a wheel does what `mState` says or, after an early expiry, stands still
(`WheelsMatchState`).  Nobody waits for an event that will not come, and each motion
that is not aborted is reported exactly once, in order (`ImplementsService`, a
refinement with liveness, which maps the completion of a motion to the step that posts
its report, and the reports owed to those in the queue).  Arguments are both signs, zero
and -32768, the 16-bit degree that is its own negation.  `Backlog = 2` bounds the
zero-length requests, whose reports are the only tasks a client can pile up;
two are enough for a report to wait before and after an expiry.

**`reset_pause`** is the same instance and shows that the pause itself, 100 ms
without a byte after a reset, is not kept (section 4).

**`navigation`** lets a client call `moveTo` and `abort` between any two tasks.
An accepted destination always has its first location on the way, whatever an
abort left behind (`NavigatingIsServed`).  The other three say what each state
waits for, and hold until the first abort; after one they do not (section 4).
`Backlog = 3` bounds the tasks that services may have posted; a service takes
tenths of a second and a task less than a millisecond.

**`orientation`**: headings 0 to 360 (both ends occur) in steps of seven and
around the points at which the computation changes.  A turn may miss by -5, 0 or
5 degrees; with these one turn suffices.

**`obstacles`**: three readings below, between and above two alarm distances, and
maps of 5 and of 10 points, the sizes that the applications use.  Alarms have period 0
or 100, the smallest that repeats; periods are otherwise untimed.  `Expire` carries
the only timing assumption: a servo move of 300 ms is longer than the lock of
0 ms and than the 72 ms of a reading.

**`localization`**: two clients, as on the robot, `MaxCnt = 4` samples per axis
instead of 20 (each sample is the same step), three bytes dropped by the receiver
while it is enabled, no two of them in a row, and any number before.  Three are enough
to spoil a message, its successor and the one after; a bound there must be for
`RequestsAreTold`, since a badge that loses a byte of every message is never understood.

**`rfid`**: searches for one tag, two, and six (refused), reads and writes; up to six
tags in the field, one more than `IDtable` has entries; any answer may be garbled.
A garbled answer that ends a command, the last of an inventory too, does no harm:
the client is told of its own command and the reader gets the next one in time.  A
garbled report within an inventory, or a sixth tag, ends the claims of the properties
(`astray`), because the code then mixes up commands, or writes behind its table (section 4).

**`irman`**: four commands, enough for one in the mailbox during a retreat, one that
replaces it, and one before and after.  Both sensors come over an edge and leave it
as the robot drives, and leave it as it backs away.

**`alert`**: three inputs, at most two of them alerts and at most two changes of speed.
A second alert may come in every state of the first; a change competes with alerts for
the bus, and a second one may be refused while the first is on its way, or after it has
arrived.  The table has two entries, the number of listeners.  The changes asked for are one
of both wheels, in reverse, one of a single wheel, which stops, and one that names no
side.  The byte is read again as it goes out: `AcceptedSpeedArrives` says that what
arrives is the accepted speed, or a later value of the byte during that transfer, and
nothing else.

**`cb2bus`**: the show over the wrap of its count, two messages of applications at any
place among a stop, a start, a light switched or cleared, the status bar, and the
reset of the magnetometer, which loads.  One expiry waits at a time: with a second
one in the queue the messages of two steps follow each other, each with its load.

**`iris`**: two channels, bytes of two bits, three frames in a ring of four bytes, so
that it overruns, and two faults.  A fault at each byte of a frame, and one after
another fault, is what two are for.

**`gameserver`**: two players and one robot, so that the second gets the slot only if
the first has left, in whatever state he left it; three tags, one for each of the
receiver's ways; two clicks, the least that can be out of order.  The lists of a
client have two entries, so that they fill.  A click of a player who stays and was not
turned away is read by his own handler (`ClicksArePassedOn`); those of a player who
leaves are lost, as `HandlerEnds` has it.  Nobody is turned away who is next in the
backlog when some robot has no live handler (`FreeRobotIsGiven`).

**Deadlock** is checked except where the system really stops: in `navigation` a robot
that has arrived or was stopped may wait for its client, in `obstacles` a silent alarm
waits for ever, in `rfid` a controller whose command was mixed with another on the line
waits for an answer that nobody gives, and in `irman`, `alert`, `cb2bus`, `iris` and `gameserver` everything
may be done when commands, alerts, messages, frames and clicks are used up.

**Fairness.**  Every `FairSpec` assumes that the task queue is served, interrupts
are taken and timers expire.  This is what the scheduler does: it runs the queue
in order, tasks end (the one loop that waits is modelled as such), and the
hardware timer does not stop.  The badge, the reader and the ranger are assumed
to answer; where the code has no timeout for them this is an assumption about
them, not about the code.  In `MotionControl` the queue has strong fairness:
`FinishReset`, the second half of a task, disables `RunTask` for a moment, again
and again if clients abort again and again.  Clients owe nothing: no `MoveTo`,
`Move` or `Abort` is fair.

In `Irman` the main loop and the converter run, a robot that backs away leaves the
edge (that is the world, not the code), and a look at the readings is strongly fair:
it may be torn by the interrupt, but not every time, since the loop takes a few
instructions and a conversion over a hundred.  `AlertPath` assumes that messages are
dispatched, the bus finishes its transfers and the interrupt is taken; `Iris` that
the loop goes round and the unit finishes what it does; `GameServer` that the
threads of the server run, while players need not do anything.  The light show has
no liveness property and no fairness.

## 4. What the code does not do

The run `reset_pause` checks what a comment of the code says and finds it broken.  For four
more such comments the claim is stated in the module and false; TLC finds the
counterexample when the definition named below is added to the invariants (or, `OnceLooks`,
to the properties) of the module's configuration.  The rest was seen while the models were
written, and is built into assumptions, into the constants of a configuration, or into
the wording of a property.

Motion, navigation and sensors (TinyOS):

- `DualMotorControllerM.nc:154`: `Timer.fired` starts the pending command without
  asking whose expiry it is.  Abort, wait until the reset timer has expired but not
  yet been delivered, move and abort again, move: the old expiry ends the new reset
  at once, and the command is sent to a chip that is not listening.  The comment (`:151`)
  says "Need to wait 100 ms before sending out a command." (run `reset_pause`)
- The first reading of an obstacle alarm stops the repeating lookup timer, whether
  something was near or not (`ObstacleDetectionM.nc:199`), while the comment (`:57-59`)
  has it look "at every lookupPeriod" (`KeepsLooking`).
- `setObstacleAlarm` with period 0 does not store the distance
  (`ObstacleDetectionM.nc:155-157`), and takes no reading, then or later, if the
  ranger rests (`:172`), where the comment says "once" (`OnceLooks`).
- The sixth tag in the field is written behind `IDtable` and counted
  (`M1_RFIDControllerM.nc:88`; `IdsFit`, from the comment at `:312`).
- A garbled report of a tag ends the search for the client, while the reader goes on:
  its later reports and the end of the inventory come under the next command, which
  they answer and whose frame they may meet (`M1_RFIDControllerM.nc:97-101`, `:138`;
  `BusyIsRefused`, from the comment at `:330`).
- `handleObstacleAlarm` (`NavigationM.nc`) acts only in the state `OBS_DETECT`, which
  is assigned nowhere.  The alarm has stopped the move, so nothing is left that
  leaves `MOVING`, and `moveTo` fails from then on.
- A coordinate with a byte of 255 is taken for a lost byte, again and again
  (`LocalizationM.nc:158`): `RequestsAreTold` fails when `Localization.cfg` has
  `StartBytes = {4}`.
- An abort does not stop a turn (`NavigationM.nc:205-208`).  If the next leg is
  reached while the robot still turns, its `move` is refused, the result is not
  looked at, and `MOVING` is never left.
- After an abort in `MOVING` a `navTimer` that was left running asks for a
  location during the next move; the turn that follows is refused, and `Orient`
  stays in `ORIENT` (`NavigationM.nc:220-225`, `OrientM.nc:111`).
- `mapIndex + 1` entries are reported, one more than was written (`:108`), and
  sizes that do not divide 180 make more entries than were asked for (`:86`).
- A map asked for within 300 ms of boot after an alarm would wait in the loop of
  `ObstacleDetectionM.nc:100` for ever.
- Two dropped badge bytes, if they are the start bytes of the next message, join
  two messages (`LocalizationM.nc:147`).
- `tellLocation` wipes a request made from its own event
  (`LocalizationM.nc:78-83`).
- A garbled answer to a search for a single tag is not reported
  (`M1_RFIDControllerM.nc:153-156`; `CommandsEnd` says so), and no answer at all
  leaves the controller busy.
- A write whose length is not a multiple of four puts its checksum in the wrong
  place (`M1_RFIDControllerM.nc:411`, `:420`).
- `UART0M.init` disables the receive interrupt, and only `LocalizationM` enables
  it (`UART0M.nc:92-93`): an RFID application without localization hears nothing.
- `Compass.heading` has another signature where it is signalled
  (`CompassM.nc:109`), and applications handle `MotionControl.abortDone`, which
  the interface does not have.

Body, brain and bus (IRMAN, SOS, IRIS):

- A calibration of a robot that drives ends with the detector switched off while its
  wheels turn (`IRMAN/ircomm.c:141`); the test led is the pin of the alert line
  (`irman.h`), so that a led command during a retreat would end the alert.  It cannot:
  a retreat reads no commands.
- Interrupt 7 is lost when it comes between the test for `RESET_REG2` and the
  assignment of `IDLE` (`hipri_int.c:161`), or after a read that found the flip-flop
  clear and before the driver is told (`:194`).  The line stays pulled, there is no
  further edge, and no alert reaches the brain again.  `AlertStopsSpeed` excuses
  exactly these (`overlooked`).
- `motorcontrol.c:110` answers `-EBUSY` after it has changed `speed`; brain and body
  then differ until the next change, unless an accepted change is still on its way, in
  whose place the refused one is sent.  `MOTOR_STOP` itself is 0xC0, which is no
  command of the body: a change that names no motor does not stop it.
- The count of the light show wraps in the middle of the U, and light 1 stays on for
  some steps (`lightshow.c:87`).
- `CB2_init` and the messages `HEAD0` to `FOOT1` write behind `config` (`cb2bus.c:291`).
- After a lost arbitration IRIS sends the rest of a frame as if it began one
  (`IRIS/LOWER/i2c.c:269`), an overrun of the ring cuts a frame (`:112`), and a START
  asked for is forgotten when another master addresses the processor just then, after
  which nothing is sent any more (`:286`).  `FramesStayWhole` and `ReportsGetOut` excuse
  them by name.  The byte of symbols is packed two bits per channel and unpacked one
  bit per channel (`ircomm_l.c:197`), and channels that complete different bytes at
  once are reported with the byte of the lowest one (`:351`).
- `rfid.c:163` of SOS assigns where it compares (`s->state = FINDTAGSSINGLE`), and
  `iris_u.c:117` waits for `PIND & (_BV(2) == 0x00)`, which is never true.

Game:

- A hint can be printed as a treasure when the slot is filled between two reads of
  `chList` (`ConnectionListener.java:68-79`); only as the first line of a client
  (`OnlyFirstHintIsMistaken`).
- A client for whom there is no slot gets no answer and its socket stays open.
- A line that arrives before the client has allocated its lists, and a full list,
  end the client (`ClientUI.java`).

## 5. The proofs

TLAPS proves these for every value of the constants, from the assumptions that
the modules name.

| module | theorem | states |
|---|---|---|
| `MotionControlProofs` | `TypeCorrect` | `Spec => []TypeOK` |
| | `StartingServed`, `OwnTimer` | `StartingIsServed`, `TimerOfMotion` are invariant, whatever a stop does to a queued expiry |
| | `FramesIntact`, `WheelsMatch` | `[]FrameIntegrity`, `[]WheelsMatchState`, for both kinds of timers |
| | `ServiceKept` | `Spec => Service!Spec`: the steps of `MotionService` are implemented, for both kinds of timers |
| `RFIDControllerProofs` | `TypeCorrect`, `AnswersMatched`, `ReaderExpected` | `[]TypeOK`, `[]AnswersMatch`, `[]ReaderIsExpected` |
| | `TagsCounted` | `[]TagsCountedOnce`, for any number of tags in the field |
| `LocalizationProofs` | `TypeCorrect`, `RequestsServed`, `SamplesCounted` | `[]TypeOK`, `[]RequestsAreServed`, `[]SamplesAreCounted` |
| | `LocationsWhole` | `MaxRow <= 1` and `Spec` imply `[]LocationIsWhole`, for every `MaxLost` |
| `NavigationProofs` | `TypeCorrect`, `NavigatingServed`, `OrientingServed`, `MovingServed` | `[]TypeOK`, `[]NavigatingIsServed`, `[]OrientingIsServed`, `[]MovingIsServed` |
| | `ShortestAngle`, `OneTurn` | `[]AngleIsShortest`, `[]OneTurnIsEnough` for all headings and goals |
| `ObstacleDetectionProofs` | `TypeCorrect`, `MapsFit`, `ReadingsAimed` | `[]TypeOK`, `[]MapFits`, `[]ReadingsInDirection` |
| | `ServiceKept` | `Spec => Service!Safety`: the steps of `ObstacleService` are implemented, for alarms of any period |
| `BodyProofs` | `TypeCorrect`, `RobotIsWatched`, `ClockServesWheels` | of `Irman`: `[]TypeOK`, `[]TurningIsWatched`, `[]TimerServesWheels` |
| | `AlertTypes`, `ReadyAtRest`, `SpeedArrives` | of `AlertPath`: `[]AlertTypeOK`, `[]RestMeansReady`, `[]AcceptedSpeedArrives` |
| | `HeadlightsOneColour`, `OneLightOfU` | of `LightShow`: `[]HeadlightsAgree`, `[]OneDecklight` |
| `IrisProofs` | `FramesWhole` | `[]FramesStayWhole` |
| `GameServerProofs` | `TypeCorrect`, `OnePlayer`, `OwnLines`, `FirstHintOnly` | `[]TypeOK`, `[]OneSteerer`, `[]LinesOfOwnRobot`, `[]OnlyFirstHintIsMistaken` |
| | `MovesOrdered` | `MovesInOrder`, an action property |

**Motion.**  `TypeOK` is inductive by itself.  `StartingIsServed` and
`TimerOfMotion` are not: from `CMD_PENDING` with a command of the second motor
the driver would start a frame that no state waits for, and a driver's timer that
is due while a frame is under way would put an end to it.  `ControlInv` adds that
the driver's timer is pending only while the driver waits for it, and at most once
in the queue, that a pending command is the first of a motion, and which timers
are off between the two halves of a task.  It holds for both kinds of timers; the
left-over expiry does harm only in `RESETED` and `CMD_PENDING`, where it comes too
early.  `WireInv`, on top of it, relates the driver's state to the bytes on the
wire, what the chip has of a frame, the parameter block and the wheel that already
turns.  It holds for both kinds of timers as well: an expiry that is left over makes the
driver send while the chip recovers, which `early` records until the next reset, and then
what the chip has of the frame is that of the command or nothing, and the wheel turns as
told or not at all.  `ControlStep` and
`WireStep` have one step per action.  Facts about the task queue (`QueuedAppend`,
`QueuedTail`, `OnceAppend`, `OnceTail`) come first.

`ServiceKept` needs of `ControlInv` only that no motion is under way while the driver is
being reset.  What is owed to the clients is read off the task queue: the k-th report is
the one before which, itself included, k reports are queued (`ReportsUpTo`), a definition
without recursion, so that `OwedAppend` and `OwedTail` can be proved from cardinalities.
Then each action is a step of the service or none: a command requests, a byte engages
or does nothing, the end of the reset completes, a report taken is signalled.

**RFID.**  None of the properties is inductive: that an answer matches the
command depends on which answer lies in the receive buffer while its task is
queued, and that the reader is not disturbed on the expiry that is queued.
`ProtocolInv` says for each state what the queue, the timer, the line, the reader and
the client are at: a command that was accepted is on the line, or worked on, or its answer
queued, and only one of these (`CommandSent`), and while the reader pauses exactly one
expiry is to come (`ReaderPauses`).  It follows that an expiry is never left over here, so
that the theorems hold for both kinds of timers.  All of this ends when a report of a tag
is garbled or written behind `IDtable`, which is why `Orderly` is conditional on `~astray`
and a step into `astray` has nothing to prove.  `TagsAreCounted` adds up the entries of
`IDtable`, the tag in the receive buffer and the tags to come.

**Localization.**  `RequestInv` follows a request through its phases: bytes are
received, the heading is measured, the clients are about to be told (`Phases`, each
with its tasks and the state of the compass); the interrupt is enabled exactly while
somebody waits and the message is not complete (`Receiving`, from which
`RequestsAreServed` follows), and an axis whose conversions go on has samples to come
(`Sampling`).  `LocationIsWhole` is the one invariant here about data.  A receiver
that was disabled keeps two stale bytes, and the message goes on behind a gap of any
length.  `InOrder` says where this gap can be: behind the second stale byte, which is
at most the second start byte, so that none of the four bytes of a location is
before it.  What remains are dropped bytes of which no two are in a row: of two
neighbours in the receiver one at most is missing between them (`Follows`), and `row`
tells whether one is missing before what the badge sends next (`IsLast`).  A location
cannot get over such a gap without a byte of value 255 where none is.  With two bytes
dropped in a row the invariant is false, and TLC shows it; hence the assumption.

**Navigation.**  None of the three properties is inductive.  `Phase` lists, for each
state of `NavigationM` together with that of `OrientM`, the one thing that is to
come: a request, a task, a timer, a turn or a leg (`Asked`, `Posted`, `Waits`, `Moves`),
and that the others are not.  It holds as long as nothing was aborted, for an abort
leaves tasks of both components behind; `FirstLocation` and `Reading` (at most one
reading is queued, and it finds the alarm raised) hold always.  The theorems are for
every backlog of the services and for both kinds of timers.

**Orientation.**  `TurnInv` says that after the first turn the remaining angle is
within the allowed variation: `CalculateTurnAngle` of a heading near the goal is
small also across 0/360, which is `NearIsAligned`.

**Obstacle detection.**  `PanInv` says that a map waits for the servo, for the ranger
or for its reading to be handled, and never for two of them; for this it has to know
that a servo that may still move has exactly one expiry or task to come
(`PanMoves`) and that the timer of the lock runs while the servo is locked.  `MapInv`
says that the angle asked for is that of entry `mapIndex`, hence within the range of
`int8_t` (`Wrap8` is the identity there, `WrapKeeps`), and that a reading is made
only when an entry is left.  Together they give `ReadingsInDirection` and `MapFits` for all sizes that
divide the span.  From the same invariant each action is a step of `ObstacleService` or
none; for an alarm of period 0, whose only reading may be refused, the service promises
none.

**IRMAN.**  `TurningIsWatched` is not inductive: it needs to know what `move` will
find.  `IInv` adds that `robot_state` is what the wheels do (`StateOfWheels`), that a
robot that is calibrated stands and has no move under way (`CalibratedStands`: the
end of a calibration switches the detector off), and that the lamp is on before the
detector is started (`LitBeforeStart`).

**Alerts.**  `RestMeansReady` is about one byte of the driver and one flip-flop at the
other end of a bus.  `AlertInv` says what of a round (write the reset, read twice,
write the reset back) is still on the bus: `PacketOfState`, which packet is under way in
each state; `Rounds` and `Findings`, that what the driver has yet to be told of its
reads comes after the writes before and before those after them, and that a read that
found an alert is followed by none that does not, because the flip-flop can only be
set then; and that a flip-flop held in reset has what ends this still to come.
The bus is serial, which is what all of it rests on.  `AcceptedSpeedArrives` needs
that one transfer at a time is under way, and that while it is motor control's every
value the byte takes, by a change, accepted or refused, or by an alert, is in `onWay`.

**Light show.**  `HeadlightsAgree` speaks of `outputs`, but is decided when a step is put into the
queue: the four messages of a step stay together and in order until the driver has
handled them (`Together`), and of a step under way the messages left tell
how far `config` has been changed (`ChangedSoFar`).  What applications send goes
between steps, never within one, as long as they do not touch the headlights.

`OneDecklight` needs more, because light 1 is still on for four steps after the count has
wrapped and an expiry that waits makes the count run ahead of the lights.  `Numbers` numbers
the steps from the first of the show on: those already posted and not yet handled are
`m .. a-1`, in order and each together up to its load (`StepsInOrder`), the expiries that
wait will post `a .. a+n-1` (`Expiries`), and each step switches the light before it off
(`SwitchedOff`, from `ShowSteps` about the four lists of messages).  `count` is `a % 256`.
An expiry that is before a message of step j in the queue was already there when step j was
posted, so its number is less than `j + MaxTimeouts` (`Waited`), and hence
`a <= m + MaxTimeouts`: the outputs show step `m-1`, which the count has left behind by at
most `MaxTimeouts + 1`.  That is where the bound in `OneDecklight` comes from.  Only the
timer of the show posts `MSG_TIMER_TIMEOUT`, the kernel's message, which is an assumption on
`Asks`.

**Infrared receiver.**  `RingInv` says that frames begin in even slots of the ring, that
a direction is followed by the byte of its frame, and that what is taken was put in
(`Taken`, for a ring of any even length).  `WireInv` relates the tail of the ring to
the bytes heard: unless a frame was cut, the unit begins to read at an even slot, and the
byte it sends goes on where the bytes heard end.

**Game server.**  `IInv` has three parts besides the types.  `ServerInv`: a client is in
one place, the backlog, the listener's hands or a slot (`Queued`, `ListenerInv`,
`Entries`), and a live handler is in the slot of its robot or just being put there
(`SlotOwner`), from which `OneSteerer` follows.  `LineInv`: whoever was told something
had a slot (`ToldHasSlot`), the receiver prints to an entry that exists
(`PrintsToHandler`), and a hint that is past its first test was tested against an
empty slot and nobody who now has it was told anything (`NobodyTold`).  `ClickInv`:
clicks in a socket are ascending and not above the count (`ClicksNumbered`), and the
last move of a robot is older than the clicks that its player has still to come, or
its player's handler is dead (`MovesAreOld`); `MovesInOrder` is what a step from such
a state does.

## 6. Limits

Only model-checked, on the instances above: all liveness (`MotionEnds`, `KeepsMoving`,
`RequestsAreTold`, `CommandsEnd`, `EdgeStopsRobot`, `CommandsTakeEffect`, `AlertEnds`,
`AlertStopsSpeed`, `ReportsGetOut`, `ClicksArePassedOn`, `FreeRobotIsGiven`) and the liveness half of the two
refinements, because the provers know no fairness and no ENABLED.  `LocationsWhole` is
proved under the assumption of the table, which TLC's run makes as well.

What the properties do not claim: after a garbled report of a tag, or a sixth one, nothing
about the RFID controller any more (`astray`); nothing about bytes of the
badge of which two in a row are lost; that a player is answered when every robot has a
live handler.

Not modelled, by component, is in `PROJECT.json` with the reason.  In short:

- distances written into a map and the geometry of `moveToLocation`; `processMap`,
  which follows a map that is never asked for; the contents and checksums of RFID
  frames; the shifting of bits into registers and PWM; the trigonometry of the
  compass; what is drawn in a window;
- durations, except that where an order of two events is fixed by their durations the
  guard says so; the length limit of the queues, since no result of `post` is
  checked by the code and the applications post fewer than fit;
- the applications over navigation and RFID; the TinyOS driver of the lights, which
  the SOS one repeats; the other SOS drivers, which repeat the TinyOS ones or only
  move bytes over the same I2C driver; the upper processor of IRIS and the display
  controller DDSC, which sample pins and write to a display;
- `src/scaat`, `src/vor_gameserver` and `src/server/localization`, which are numerics
  over vendored libraries and make up most of the lines of the repository.

Assumptions about the outside: motes have the ids for which the server has slots; the
server is up before the first player; the robot is calibrated at rest; the kernel of
SOS runs a handler to its end (interrupts come between handlers, and in the one place
named in section 2).

## 7. Plan

Done, in this order: motion stack, navigation, orientation, obstacle detection,
localization, RFID; body controller, alert path, lights and light show, infrared
receiver, game server; proofs for motion, orientation, RFID, the body controller and
the game server; for localization, navigation, obstacle detection with its service,
alerts, the light show and the infrared receiver.

What would add most next:

1. `TreasureHunt` over services like `MotionService` for `Navigation` and
   `RFIDController`: the outcomes of `findTags` and `readTag`, retransmission by
   `RFIDTimer`; after every outcome the hunt goes on.
2. The serial line that RFID and localization share: who enables the receive
   interrupt and who gets whose bytes.
3. Body and brain together: `Irman` and `AlertPath` over one bus, to replace the body
   of `AlertPath` and the brain of `Irman`.
4. Proofs: the types of `LightShow` and `Iris` as theorems of their own.
