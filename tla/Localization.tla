---------------------------- MODULE Localization ----------------------------
(***************************************************************************)
(* LocalizationM over the receiver of UART0M and CompassM.  The badge that *)
(* knows the position of the robot sends it again and again, as two start  *)
(* bytes of value 255 and the two bytes of each coordinate.  On a request  *)
(* the receive interrupt is enabled; when a message is complete it is      *)
(* disabled, the heading is averaged over samples of the two axes of the   *)
(* compass, and all who wait are told.                                     *)
(*                                                                         *)
(* A byte is identified by its message and its place in it.  The receiver  *)
(* buffers two bytes, also while its interrupt is disabled, and drops what *)
(* arrives when they have not been read.                                   *)
(***************************************************************************)
EXTENDS TinyOS

CONSTANTS
  Clients,    \* who ask for their location
  MaxCnt,     \* MAX_CNT, the samples that are averaged, 20 in the source
  StartBytes, \* the places, from 3 to 6, at which a coordinate has a byte 255
  MaxLost,    \* bytes dropped while the interrupt is enabled, in a whole behaviour
  MaxRow      \* bytes dropped then in a row, without one that is buffered

ASSUME LocalizationAssumption ==
  /\ MaxCnt \in Nat \ {0}
  /\ StartBytes \subseteq 3 .. 6
  /\ MaxLost \in Nat /\ MaxRow \in Nat

VARIABLES
  ibState,
  bytes,   \* the bytes of localizationInfo received since the start bytes
  reqs, reqFlag,
  rxOn,    \* the receive interrupt is enabled
  fifo,    \* the bytes in the receiver
  next,    \* the byte that the badge sends next
  lost, row, \* bytes dropped, and those since one was buffered
  compass, \* CompassM.state
  cnt,     \* xCnt and yCnt
  adc,     \* the axes that are sampled
  queue

badge       == <<fifo, next, lost, row>>
compassVars == <<compass, cnt, adc>>
vars == <<ibState, bytes, reqs, reqFlag, rxOn, badge, compassVars, queue>>

IBStates == {"IDLE", "SB1", "SB2", "X1", "X2", "Y1", "Y2"}
Axes     == {"x", "y"}

(* Messages are told apart from the ones before and after them.            *)
Bytes == [msg : 0 .. 2, at : 1 .. 6]

NoSamples == [a \in Axes |-> 0]

Init ==
  /\ ibState = "IDLE" /\ bytes = <<>>
  /\ reqs = {} /\ reqFlag = FALSE
  /\ rxOn = FALSE /\ fifo = <<>>
  /\ next \in [msg : {0}, at : 1 .. 6]
  /\ lost = 0 /\ row = 0
  /\ compass = "IDLE" /\ cnt = NoSamples /\ adc = {}
  /\ queue = <<>>

-----------------------------------------------------------------------------
(* LocalizationM and the receiver.                                         *)

(* (Wrong: the interrupt is enabled when somebody already waits.)          *)
GetLocationLater(id) ==
  /\ rxOn' = (rxOn \/ reqFlag)
  /\ reqFlag' = TRUE
  /\ reqs' = reqs \cup {id}
  /\ UNCHANGED <<ibState, bytes, badge, compassVars, queue>>

GetLocation(id) ==
  /\ rxOn' = (rxOn \/ ~reqFlag)
  /\ reqFlag' = TRUE
  /\ reqs' = reqs \cup {id}
  /\ UNCHANGED <<ibState, bytes, badge, compassVars, queue>>

SendByte ==
  /\ next' = IF next.at = 6 THEN [msg |-> (next.msg + 1) % 3, at |-> 1]
                            ELSE [next EXCEPT !.at = next.at + 1]
  /\ \/ Len(fifo) < 2 /\ fifo' = Append(fifo, next) /\ row' = 0 /\ UNCHANGED lost
     \/ Len(fifo) = 2 /\ ~rxOn /\ UNCHANGED <<fifo, lost, row>>
     \/ /\ Len(fifo) = 2 /\ rxOn /\ lost < MaxLost /\ row < MaxRow
        /\ lost' = lost + 1 /\ row' = row + 1 /\ UNCHANGED fifo
  /\ UNCHANGED <<ibState, bytes, reqs, reqFlag, rxOn, compassVars, queue>>

(* (Wrong: a start byte among the coordinates is one of them.)             *)
AfterByteAny(st, isStart) ==
  LET successor == [IDLE |-> "SB1", SB1 |-> "SB2", SB2 |-> "X1",
                    X1 |-> "X2", X2 |-> "Y1", Y1 |-> "Y2", Y2 |-> "IDLE"]
  IN  IF st \in {"IDLE", "SB1"} /\ ~isStart THEN "IDLE" ELSE successor[st]

(* ibState after a byte: the first two must be start bytes, the others     *)
(* must not.                                                               *)
AfterByte(st, isStart) ==
  LET successor == [IDLE |-> "SB1", SB1 |-> "SB2", SB2 |-> "X1",
                    X1 |-> "X2", X2 |-> "Y1", Y1 |-> "Y2", Y2 |-> "IDLE"]
  IN  IF isStart = (st \in {"IDLE", "SB1"}) THEN successor[st] ELSE "IDLE"

(* Compass.getHeading: refused while a heading is being measured.          *)
GetHeading ==
  IF compass = "IDLE"
    THEN compass' = "WAITXY" /\ cnt' = NoSamples /\ adc' = Axes
    ELSE UNCHANGED compassVars

(* UART.get in the receive interrupt.                                      *)
UartGet ==
  LET isStart == Head(fifo).at \in {1, 2} \cup StartBytes
  IN  /\ rxOn /\ fifo # <<>>
      /\ fifo' = Tail(fifo)
      /\ ibState' = AfterByte(ibState, isStart)
      /\ bytes' = IF ibState' \in {"X1", "X2", "Y1", "Y2"} THEN Append(bytes, Head(fifo)) ELSE <<>>
      /\ \/ ibState' = "Y2" /\ rxOn' = FALSE /\ GetHeading
         \/ ibState' # "Y2" /\ UNCHANGED <<rxOn, compassVars>>
      /\ UNCHANGED <<reqs, reqFlag, next, lost, row, queue>>

(* (Wrong: one who waits is told.)                                         *)
TellLocationOnce ==
  /\ queue # <<>> /\ Head(queue) = "tellLocation"
  /\ queue' = Tail(queue)
  /\ ibState' = "IDLE" /\ bytes' = <<>>
  /\ reqs' = reqs \ {CHOOSE id \in reqs : TRUE}
  /\ reqFlag' = FALSE
  /\ UNCHANGED <<rxOn, badge, compassVars>>

(* tellLocation: who is told does not ask again before it has returned.    *)
TellLocation ==
  /\ queue # <<>> /\ Head(queue) = "tellLocation"
  /\ queue' = Tail(queue)
  /\ ibState' = "IDLE" /\ bytes' = <<>>
  /\ reqs' = {}
  /\ reqFlag' = FALSE
  /\ UNCHANGED <<rxOn, badge, compassVars>>

-----------------------------------------------------------------------------
(* CompassM.                                                               *)

(* (Wrong: the axis that comes last is sampled once more.)                 *)
ADCDataReadyMore(a) ==
  /\ a \in adc
  /\ cnt' = [cnt EXCEPT ![a] = cnt[a] + 1]
  /\ IF cnt'[a] < MaxCnt
       THEN UNCHANGED <<compass, adc, queue>>
       ELSE /\ adc' = IF compass = "WAITXY" THEN adc \ {a} ELSE adc
            /\ compass' = IF compass # "WAITXY" THEN "GOTXY"
                          ELSE IF a = "x" THEN "GOTX_WAITY" ELSE "GOTY_WAITX"
            /\ queue' = IF compass' = "GOTXY" THEN Append(queue, "calHeading") ELSE queue
  /\ UNCHANGED <<ibState, bytes, reqs, reqFlag, rxOn, badge>>

(* ADCX.dataReady and ADCY.dataReady: the last sample of an axis ends its  *)
(* conversions, that of both axes the measurement.                         *)
ADCDataReady(a) ==
  /\ a \in adc
  /\ cnt' = [cnt EXCEPT ![a] = cnt[a] + 1]
  /\ IF cnt'[a] < MaxCnt
       THEN UNCHANGED <<compass, adc, queue>>
       ELSE /\ adc' = adc \ {a}
            /\ compass' = IF compass # "WAITXY" THEN "GOTXY"
                          ELSE IF a = "x" THEN "GOTX_WAITY" ELSE "GOTY_WAITX"
            /\ queue' = IF compass' = "GOTXY" THEN Append(queue, "calHeading") ELSE queue
  /\ UNCHANGED <<ibState, bytes, reqs, reqFlag, rxOn, badge>>

(* calHeading, and Compass.heading of LocalizationM.                       *)
CalHeading ==
  /\ queue # <<>> /\ Head(queue) = "calHeading"
  /\ compass' = IF compass = "GOTXY" THEN "IDLE" ELSE compass
  /\ queue' = IF compass = "GOTXY" /\ ibState = "Y2"
                THEN Append(Tail(queue), "tellLocation") ELSE Tail(queue)
  /\ UNCHANGED <<ibState, bytes, reqs, reqFlag, rxOn, badge, cnt, adc>>

-----------------------------------------------------------------------------
RunTask == TellLocation \/ CalHeading

Next ==
  \/ \E id \in Clients : GetLocation(id)
  \/ SendByte \/ UartGet
  \/ \E a \in Axes : ADCDataReady(a)
  \/ RunTask

Spec == Init /\ [][Next]_vars

(* The badge sends, interrupts are taken and the queue is served.          *)
FairSpec ==
  /\ Spec
  /\ WF_vars(SendByte) /\ WF_vars(UartGet) /\ WF_vars(RunTask)
  /\ \A a \in Axes : WF_vars(ADCDataReady(a))

-----------------------------------------------------------------------------
(* Properties.                                                             *)

TypeOK ==
  /\ ibState \in IBStates
  /\ bytes \in Seq(Bytes) /\ Len(bytes) <= 4
  /\ reqs \subseteq Clients /\ reqFlag \in BOOLEAN
  /\ rxOn \in BOOLEAN
  /\ fifo \in Seq(Bytes) /\ Len(fifo) <= 2
  /\ next \in Bytes
  /\ lost \in 0 .. MaxLost /\ row \in 0 .. MaxRow
  /\ compass \in {"IDLE", "WAITXY", "GOTX_WAITY", "GOTY_WAITX", "GOTXY"}
  /\ cnt \in [Axes -> 0 .. MaxCnt]
  /\ adc \subseteq Axes
  /\ queue \in Seq({"calHeading", "tellLocation"}) /\ Len(queue) <= 1

(* A location is made of the four coordinate bytes of one message, in      *)
(* their order, although bytes may have been dropped, again and again but  *)
(* never two in a row: two start bytes dropped would join two messages.    *)
LocationIsWhole ==
  ibState = "Y2" =>
    \E m \in 0 .. 2 : bytes = [i \in 1 .. 4 |-> [msg |-> m, at |-> i + 2]]

(* Whoever waits is waiting for a message, for the heading that completes  *)
(* it, or for tellLocation; no request is made in vain.                    *)
RequestsAreServed ==
  /\ reqFlag = (reqs # {})
  /\ reqs # {} => rxOn \/ (ibState = "Y2" /\ (compass # "IDLE" \/ Queued(queue, "tellLocation")))

(* An axis is sampled only when CompassM counts its samples: a sample in   *)
(* another state would put an end to the measurement.                      *)
SamplesAreCounted ==
  /\ "x" \in adc => compass \in {"WAITXY", "GOTY_WAITX"} /\ cnt["x"] < MaxCnt
  /\ "y" \in adc => compass \in {"WAITXY", "GOTX_WAITY"} /\ cnt["y"] < MaxCnt
  /\ compass = "GOTXY" => \A a \in Axes : cnt[a] = MaxCnt

(* Everyone who asks is told.                                              *)
RequestsAreTold == \A id \in Clients : id \in reqs ~> id \notin reqs
=============================================================================
