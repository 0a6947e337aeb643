------------------------ MODULE DualMotorController ------------------------
(***************************************************************************)
(* DualMotorControllerM: the driver that sends four-byte commands to the   *)
(* motor controller chip over UART 1, one byte per transmit interrupt, and *)
(* resets the chip through a pin to stop both motors.                      *)
(*                                                                         *)
(* The driver keeps a pointer to its client's parameter block and reads    *)
(* the block when the bytes are sent; its only client is MotionControlM,   *)
(* whose block is the variable params, so the pointer is params itself.    *)
(*                                                                         *)
(* The UART and the chip are hardware: tx holds the bytes handed to the    *)
(* UART that have not left it.                                             *)
(***************************************************************************)
EXTENDS TinyOS

VARIABLES
  dmcState,  \* DMCState
  params,    \* MotionControlM.params, which currentParams points to
  tx,        \* bytes in the UART's shift register and its buffer
  frame,     \* the controller: the part of a command it has received,
  wheels,    \*   the velocity of each wheel,
  recovering,\*   and whether its last reset is less than 100 ms ago
  early      \* history: since that reset, the driver has gone on too early

chipVars == <<frame, wheels, recovering, early>>
dmcVars  == <<dmcState, params, tx, frame, wheels, recovering, early>>

NUM_MOTORS_SUPPORTED == 2
MAX_SPEED            == 127
MTR_CTR_START_BYTE   == 128
MTR_CTR_DEV_TYPE     == 0
BACKWARD             == 0
FORWARD              == 1

SentStates == {"START_SENT", "CTRID_SENT", "MOTORID_DIR_SENT", "SPEED_SENT"}
DMCStates  == {"IDLE", "RESETED", "CMD_PENDING"} \cup SentStates

Motors      == 0 .. NUM_MOTORS_SUPPORTED - 1
Directions  == {BACKWARD, FORWARD}
Speeds      == {n \in Nat : n <= MAX_SPEED}
MotorParams == [motorID : Motors, dir : Directions, speed : Speeds]

(* No byte of a command but the first has its high bit set.                *)
WireByte   == Speeds \cup {MTR_CTR_START_BYTE}
Velocities == {n \in Int : -MAX_SPEED <= n /\ n <= MAX_SPEED}

(* The arguments that changeMotorParams accepts.                           *)
ValidParams(p) == p.motorID < NUM_MOTORS_SUPPORTED /\ p.speed <= MAX_SPEED

(* The third byte of a command.                                            *)
(* (Wrong: direction and motor swapped.)                                   *)
MotorByteSwapped(p) == p.dir * 2 + p.motorID

MotorByte(p) == p.motorID * 2 + p.dir

Velocity(dir, speed) == IF dir = FORWARD THEN speed ELSE -speed

Stopped == [m \in Motors |-> 0]

-----------------------------------------------------------------------------
(* The chip.  While it recovers from a reset it ignores what it receives;  *)
(* 0x80 starts a frame, and the fourth byte of a frame sets one wheel.     *)
ChipReceives(b) ==
  /\ \/ /\ ~recovering
        /\ b = MTR_CTR_START_BYTE
        /\ frame' = <<b>>
        /\ UNCHANGED wheels
     \/ /\ ~recovering
        /\ b # MTR_CTR_START_BYTE
        /\ Len(frame) \in 1 .. 2
        /\ frame' = Append(frame, b)
        /\ UNCHANGED wheels
     \/ /\ ~recovering
        /\ b # MTR_CTR_START_BYTE
        /\ Len(frame) = 3
        /\ frame' = <<>>
        /\ wheels' = [wheels EXCEPT ![frame[3] \div 2] = Velocity(frame[3] % 2, b)]
     \/ /\ recovering \/ (b # MTR_CTR_START_BYTE /\ Len(frame) \notin 1 .. 3)
        /\ UNCHANGED <<frame, wheels>>
  /\ UNCHANGED <<recovering, early>>

-----------------------------------------------------------------------------
(* The state after init: the driver has waited 100 ms for the chip.        *)
DmcInit ==
  /\ dmcState = "IDLE"
  /\ params = [motorID |-> 0, dir |-> BACKWARD, speed |-> 0]
  /\ tx = <<>>
  /\ frame = <<>>
  /\ wheels = Stopped
  /\ recovering = FALSE
  /\ early = FALSE

(* changeMotorParams(p), called when the driver is in state s and the UART *)
(* holds the bytes t.  A driver that is recovering from a reset notes that *)
(* a command is pending before it looks at the arguments.                  *)
ChangeMotorParams(p, s, t) ==
  /\ params' = p
  /\ \/ /\ s = "IDLE" /\ ValidParams(p)
        /\ tx' = Append(t, MTR_CTR_START_BYTE)     \* startCmd
        /\ dmcState' = "START_SENT"
     \/ /\ s = "RESETED"
        /\ dmcState' = "CMD_PENDING"
        /\ tx' = t
     \/ /\ s \notin {"IDLE", "RESETED"} \/ (s = "IDLE" /\ ~ValidParams(p))
        /\ dmcState' = s
        /\ tx' = t

(* The transmit interrupt in the middle of a command: the next byte.       *)
PutNextByte ==
  /\ \/ /\ dmcState = "START_SENT"
        /\ tx' = <<MTR_CTR_DEV_TYPE>>
        /\ dmcState' = "CTRID_SENT"
     \/ /\ dmcState = "CTRID_SENT"
        /\ tx' = <<MotorByte(params)>>
        /\ dmcState' = "MOTORID_DIR_SENT"
     \/ /\ dmcState = "MOTORID_DIR_SENT"
        /\ tx' = <<params.speed>>
        /\ dmcState' = "SPEED_SENT"
  /\ UNCHANGED params

(* The transmit interrupt when no command is in progress.                  *)
PutDoneIgnored ==
  /\ dmcState \notin SentStates
  /\ tx' = <<>>
  /\ UNCHANGED <<dmcState, params>>

(* reset: the pin is pulsed and the state set in one atomic section.       *)
DmcReset ==
  /\ dmcState' = "RESETED"
  /\ frame' = <<>>
  /\ wheels' = Stopped
  /\ recovering' = TRUE
  /\ early' = FALSE
  /\ UNCHANGED <<params, tx>>

(* Timer.fired: the command that waited is started, or the driver idles.   *)
(* An expiry from before the reset comes while the chip recovers.          *)
(* (Wrong: the command that waited is forgotten.)                          *)
DmcTimerFiredForgetful ==
  /\ dmcState' = "IDLE"
  /\ early' = (early \/ recovering)
  /\ UNCHANGED <<tx, params, frame, wheels, recovering>>

DmcTimerFired ==
  /\ \/ /\ dmcState = "CMD_PENDING"
        /\ tx' = Append(tx, MTR_CTR_START_BYTE)    \* startCmd
        /\ dmcState' = "START_SENT"
     \/ /\ dmcState # "CMD_PENDING"
        /\ dmcState' = "IDLE"
        /\ tx' = tx
  /\ early' = (early \/ recovering)
  /\ UNCHANGED <<params, frame, wheels, recovering>>
=============================================================================
