------------------------- MODULE LocalizationProofs -------------------------
(***************************************************************************)
(* Proofs about Localization for every set of clients, every number of     *)
(* samples and every content of the messages; that a location is whole is  *)
(* proved for any number of dropped bytes of which no two are in a row.    *)
(***************************************************************************)
EXTENDS Localization, SequenceTheorems, TLAPS

(* A request goes through three phases: bytes are received, the heading is *)
(* measured, and the clients are about to be told.                         *)
Phases ==
  \/ ibState # "Y2" /\ compass = "IDLE" /\ queue = <<>>
  \/ ibState = "Y2" /\ compass \in {"WAITXY", "GOTX_WAITY", "GOTY_WAITX"} /\ queue = <<>>
  \/ ibState = "Y2" /\ compass = "GOTXY" /\ queue = <<"calHeading">>
  \/ ibState = "Y2" /\ compass = "IDLE" /\ queue = <<"tellLocation">>

(* The interrupt is enabled exactly while somebody waits for a message.    *)
Receiving ==
  /\ reqFlag = (reqs # {})
  /\ rxOn <=> (reqFlag /\ ibState # "Y2")
  /\ ibState = "Y2" => reqFlag
  /\ ~rxOn /\ ibState # "Y2" => ibState = "IDLE"

(* The state of CompassM names the axes that have had all their samples.   *)
Sampling ==
  /\ compass \in {"IDLE", "GOTXY"} => adc = {}
  /\ compass = "WAITXY" => adc = Axes
  /\ compass = "GOTX_WAITY" => adc = {"y"} /\ cnt["x"] = MaxCnt
  /\ compass = "GOTY_WAITX" => adc = {"x"} /\ cnt["y"] = MaxCnt
  /\ compass = "GOTXY" => cnt["x"] = MaxCnt /\ cnt["y"] = MaxCnt
  /\ \A a \in adc : cnt[a] < MaxCnt

BytesSoFar ==
  Len(bytes) = CASE ibState = "X1" -> 1
                 [] ibState = "X2" -> 2
                 [] ibState = "Y1" -> 3
                 [] ibState = "Y2" -> 4
                 [] OTHER -> 0

RequestInv == TypeOK /\ Phases /\ Receiving /\ Sampling /\ BytesSoFar

LEMMA EmptyQueues ==
  /\ <<>> \in Seq(Bytes)
  /\ <<>> \in Seq({"calHeading", "tellLocation"})
  /\ Len(<<>>) = 0
  OBVIOUS

LEMMA OneTask ==
  ASSUME NEW t \in {"calHeading", "tellLocation"}
  PROVE  <<t>> \in Seq({"calHeading", "tellLocation"}) /\ Len(<<t>>) = 1
  OBVIOUS

LEMMA RequestInit == Init => RequestInv
<1> SUFFICES ASSUME Init PROVE RequestInv
  OBVIOUS
<1>1. next \in Bytes /\ cnt \in [Axes -> 0 .. MaxCnt]
  BY LocalizationAssumption DEF Init, Bytes, NoSamples
<1>2. TypeOK
  <2>1. /\ ibState = "IDLE" /\ bytes = <<>> /\ reqs = {} /\ reqFlag = FALSE /\ rxOn = FALSE
        /\ fifo = <<>> /\ lost = 0 /\ row = 0 /\ compass = "IDLE" /\ adc = {} /\ queue = <<>>
    BY DEF Init
  <2>2. lost \in 0 .. MaxLost /\ row \in 0 .. MaxRow
    BY <2>1, LocalizationAssumption
  <2>3. bytes \in Seq(Bytes) /\ Len(bytes) <= 4
    BY <2>1, EmptyQueues
  <2>4. fifo \in Seq(Bytes) /\ Len(fifo) <= 2
    BY <2>1, EmptyQueues
  <2>5. queue \in Seq({"calHeading", "tellLocation"}) /\ Len(queue) <= 1
    BY <2>1, EmptyQueues
  <2>6. QED
    BY <1>1, <2>1, <2>2, <2>3, <2>4, <2>5 DEF TypeOK, IBStates
<1>3. Phases /\ Receiving /\ Sampling /\ BytesSoFar
  BY DEF Init, Phases, Receiving, Sampling, BytesSoFar
<1>4. QED
  BY <1>2, <1>3 DEF RequestInv

LEMMA GetLocationKeeps ==
  ASSUME RequestInv, NEW id \in Clients, GetLocation(id)
  PROVE  RequestInv'
<1>1. TypeOK'
  BY DEF RequestInv, TypeOK, GetLocation, badge, compassVars
<1>2. Receiving'
  BY DEF RequestInv, TypeOK, Receiving, GetLocation
<1>3. Phases' /\ Sampling' /\ BytesSoFar'
  BY DEF RequestInv, Phases, Sampling, BytesSoFar, GetLocation, badge, compassVars
<1>4. QED
  BY <1>1, <1>2, <1>3 DEF RequestInv

LEMMA SendByteKeeps ==
  ASSUME RequestInv, SendByte
  PROVE  RequestInv'
<1>1. next' \in Bytes
  <2>1. next' = IF next.at = 6 THEN [msg |-> (next.msg + 1) % 3, at |-> 1]
                               ELSE [next EXCEPT !.at = next.at + 1]
    BY DEF SendByte
  <2>2. next \in [msg : 0 .. 2, at : 1 .. 6]
    BY DEF RequestInv, TypeOK, Bytes
  <2>3. CASE next.at = 6
    <3>1. (next.msg + 1) % 3 \in 0 .. 2
      BY <2>2
    <3>2. QED
      BY <2>1, <2>3, <3>1 DEF Bytes
  <2>4. CASE next.at # 6
    <3>1. next.at + 1 \in 1 .. 6
      BY <2>2, <2>4
    <3>2. QED
      BY <2>1, <2>2, <2>4, <3>1 DEF Bytes
  <2>5. QED
    BY <2>3, <2>4
<1>2. fifo' \in Seq(Bytes) /\ Len(fifo') <= 2
  <2>1. fifo \in Seq(Bytes) /\ Len(fifo) <= 2 /\ next \in Bytes
    BY DEF RequestInv, TypeOK
  <2>2. fifo' = fifo \/ (Len(fifo) < 2 /\ fifo' = Append(fifo, next))
    BY DEF SendByte
  <2>3. QED
    BY <2>1, <2>2
<1>3. lost' \in 0 .. MaxLost /\ row' \in 0 .. MaxRow
  BY LocalizationAssumption DEF RequestInv, TypeOK, SendByte
<1>4. TypeOK'
  BY <1>1, <1>2, <1>3 DEF RequestInv, TypeOK, SendByte, compassVars
<1>5. Phases' /\ Receiving' /\ Sampling' /\ BytesSoFar'
  BY DEF RequestInv, Phases, Receiving, Sampling, BytesSoFar, SendByte, compassVars
<1>6. QED
  BY <1>4, <1>5 DEF RequestInv

(* A byte either takes the message on or brings it down.                   *)
LEMMA AfterByteIs ==
  ASSUME NEW st \in IBStates, NEW isStart \in BOOLEAN
  PROVE  /\ AfterByte(st, isStart) =
              IF isStart = (st \in {"IDLE", "SB1"})
                THEN CASE st = "IDLE" -> "SB1" [] st = "SB1" -> "SB2" [] st = "SB2" -> "X1"
                       [] st = "X1" -> "X2" [] st = "X2" -> "Y1" [] st = "Y1" -> "Y2"
                       [] st = "Y2" -> "IDLE"
                ELSE "IDLE"
         /\ AfterByte(st, isStart) \in IBStates
  BY DEF AfterByte, IBStates

LEMMA UartGetKeeps ==
  ASSUME RequestInv, UartGet
  PROVE  RequestInv'
<1> DEFINE isStart == Head(fifo).at \in {1, 2} \cup StartBytes
<1>1. /\ rxOn /\ fifo # <<>> /\ ibState \in IBStates /\ ibState # "Y2"
      /\ isStart \in BOOLEAN /\ ibState' = AfterByte(ibState, isStart)
  BY DEF RequestInv, TypeOK, Receiving, UartGet
<1> HIDE DEF isStart
<1>2. /\ ibState' \in IBStates
      /\ ibState' = "X1" => ibState = "SB2"
      /\ ibState' = "X2" => ibState = "X1"
      /\ ibState' = "Y1" => ibState = "X2"
      /\ ibState' = "Y2" => ibState = "Y1"
  BY <1>1, AfterByteIs DEF IBStates
<1>3. fifo' \in Seq(Bytes) /\ Len(fifo') <= 2 /\ Head(fifo) \in Bytes
  <2>1. fifo \in Seq(Bytes) /\ Len(fifo) <= 2 /\ fifo' = Tail(fifo)
    BY DEF RequestInv, TypeOK, UartGet
  <2>2. QED
    BY <1>1, <2>1
<1>4. CASE ibState' \in {"X1", "X2", "Y1", "Y2"}
  <2>1. bytes' = Append(bytes, Head(fifo))
    BY <1>4 DEF UartGet
  <2>2. bytes' \in Seq(Bytes) /\ Len(bytes') = Len(bytes) + 1
    BY <1>3, <2>1 DEF RequestInv, TypeOK
  <2>3. BytesSoFar' /\ Len(bytes') <= 4
    BY <1>2, <1>4, <2>2 DEF RequestInv, BytesSoFar
  <2>4. CASE ibState' = "Y2"
    <3>1. compass = "IDLE" /\ queue = <<>>
      BY <1>1 DEF RequestInv, Phases
    <3>2. /\ compass' = "WAITXY" /\ cnt' = NoSamples /\ adc' = Axes
          /\ rxOn' = FALSE /\ UNCHANGED <<reqs, reqFlag, next, lost, row, queue>>
      BY <2>4, <3>1 DEF UartGet, GetHeading
    <3>3. cnt' \in [Axes -> 0 .. MaxCnt] /\ \A a \in Axes : cnt'[a] < MaxCnt
      BY <3>2, LocalizationAssumption DEF NoSamples
    <3>4. TypeOK'
      BY <1>2, <1>3, <2>2, <2>3, <3>2, <3>3 DEF RequestInv, TypeOK
    <3>5. Phases' /\ Receiving' /\ Sampling'
      BY <1>1, <2>4, <3>1, <3>2, <3>3 DEF RequestInv, Phases, Receiving, Sampling
    <3>6. QED
      BY <2>3, <3>4, <3>5 DEF RequestInv
  <2>5. CASE ibState' # "Y2"
    <3>1. UNCHANGED <<rxOn, compass, cnt, adc, reqs, reqFlag, next, lost, row, queue>>
      BY <2>5 DEF UartGet, compassVars
    <3>2. TypeOK'
      BY <1>2, <1>3, <2>2, <2>3, <3>1 DEF RequestInv, TypeOK
    <3>3. Phases' /\ Receiving' /\ Sampling'
      BY <1>1, <2>5, <3>1 DEF RequestInv, Phases, Receiving, Sampling
    <3>4. QED
      BY <2>3, <3>2, <3>3 DEF RequestInv
  <2>6. QED
    BY <2>4, <2>5
<1>5. CASE ibState' \notin {"X1", "X2", "Y1", "Y2"}
  <2>1. bytes' = <<>>
    BY <1>5 DEF UartGet
  <2>2. UNCHANGED <<rxOn, compass, cnt, adc, reqs, reqFlag, next, lost, row, queue>>
    BY <1>5 DEF UartGet, compassVars
  <2>3. TypeOK' /\ BytesSoFar'
    BY <1>2, <1>3, <1>5, <2>1, <2>2 DEF RequestInv, TypeOK, BytesSoFar
  <2>4. Phases' /\ Receiving' /\ Sampling'
    BY <1>1, <1>5, <2>2 DEF RequestInv, Phases, Receiving, Sampling
  <2>5. QED
    BY <2>3, <2>4 DEF RequestInv
<1>6. QED
  BY <1>4, <1>5

LEMMA TellLocationKeeps ==
  ASSUME RequestInv, TellLocation
  PROVE  RequestInv'
<1>1. ibState = "Y2" /\ compass = "IDLE" /\ queue = <<"tellLocation">> /\ ~rxOn
  BY DEF RequestInv, Phases, Receiving, TypeOK, TellLocation
<1>2. queue' = <<>>
  BY <1>1 DEF TellLocation
<1>3. TypeOK'
  <2>1. /\ ibState' = "IDLE" /\ bytes' = <<>> /\ reqs' = {} /\ reqFlag' = FALSE
        /\ UNCHANGED <<rxOn, fifo, next, lost, row, compass, cnt, adc>>
    BY DEF TellLocation, badge, compassVars
  <2>2. bytes' \in Seq(Bytes) /\ Len(bytes') <= 4
    BY <2>1, EmptyQueues
  <2>3. queue' \in Seq({"calHeading", "tellLocation"}) /\ Len(queue') <= 1
    BY <1>2, EmptyQueues
  <2>4. QED
    BY <2>1, <2>2, <2>3 DEF RequestInv, TypeOK, IBStates
<1>4. Phases' /\ Receiving' /\ Sampling' /\ BytesSoFar'
  BY <1>1, <1>2
     DEF RequestInv, Phases, Receiving, Sampling, BytesSoFar, TellLocation, compassVars
<1>5. QED
  BY <1>3, <1>4 DEF RequestInv

LEMMA ADCDataReadyKeeps ==
  ASSUME RequestInv, NEW a \in Axes, ADCDataReady(a)
  PROVE  RequestInv'
<1>1. /\ a \in adc /\ cnt \in [Axes -> 0 .. MaxCnt] /\ cnt[a] < MaxCnt
      /\ compass \in {"WAITXY", "GOTX_WAITY", "GOTY_WAITX"}
      /\ cnt' = [cnt EXCEPT ![a] = cnt[a] + 1]
  BY DEF RequestInv, TypeOK, Sampling, ADCDataReady
<1>2. /\ cnt' \in [Axes -> 0 .. MaxCnt] /\ cnt'[a] = cnt[a] + 1
      /\ \A b \in Axes : b # a => cnt'[b] = cnt[b]
  BY <1>1, LocalizationAssumption
<1>3. ibState = "Y2" /\ queue = <<>>
  BY <1>1 DEF RequestInv, Phases
<1>4. UNCHANGED <<ibState, bytes, reqs, reqFlag, rxOn, fifo, next, lost, row>>
  BY DEF ADCDataReady, badge
<1>5. Receiving' /\ BytesSoFar'
  BY <1>4 DEF RequestInv, Receiving, BytesSoFar
<1>6. CASE cnt'[a] < MaxCnt
  <2>1. UNCHANGED <<compass, adc, queue>>
    BY <1>6 DEF ADCDataReady
  <2>2. TypeOK' /\ Phases'
    BY <1>2, <1>4, <2>1 DEF RequestInv, TypeOK, Phases
  <2>3. Sampling'
    BY <1>1, <1>2, <1>6, <2>1 DEF RequestInv, Sampling, Axes
  <2>4. QED
    BY <1>5, <2>2, <2>3 DEF RequestInv
<1>7. CASE ~(cnt'[a] < MaxCnt)
  <2>1. cnt'[a] = MaxCnt
    BY <1>1, <1>2, <1>7, LocalizationAssumption
  <2>2. /\ adc' = adc \ {a}
        /\ compass' = IF compass # "WAITXY" THEN "GOTXY"
                      ELSE IF a = "x" THEN "GOTX_WAITY" ELSE "GOTY_WAITX"
        /\ queue' = IF compass' = "GOTXY" THEN <<"calHeading">> ELSE <<>>
    BY <1>3, <1>7 DEF ADCDataReady
  <2>3. Phases'
    BY <1>1, <1>3, <1>4, <2>2 DEF Phases
  <2>4. TypeOK'
    <3>1. /\ compass' \in {"GOTX_WAITY", "GOTY_WAITX", "GOTXY"} /\ adc' \subseteq Axes
          /\ queue' \in {<<"calHeading">>, <<>>}
      BY <2>2 DEF RequestInv, TypeOK
    <3>2. queue' \in Seq({"calHeading", "tellLocation"}) /\ Len(queue') <= 1
      <4>1. CASE queue' = <<"calHeading">>
        BY <4>1, OneTask
      <4>2. CASE queue' = <<>>
        BY <4>2, EmptyQueues
      <4>3. QED
        BY <3>1, <4>1, <4>2
    <3>3. QED
      BY <1>2, <1>4, <3>1, <3>2 DEF RequestInv, TypeOK
  <2>5. ASSUME compass = "WAITXY" PROVE Sampling'
    BY <1>1, <1>2, <2>1, <2>2, <2>5 DEF RequestInv, Sampling, Axes
  <2>6. ASSUME compass = "GOTX_WAITY" PROVE Sampling'
    BY <1>1, <1>2, <2>1, <2>2, <2>6 DEF RequestInv, Sampling, Axes
  <2>7. ASSUME compass = "GOTY_WAITX" PROVE Sampling'
    BY <1>1, <1>2, <2>1, <2>2, <2>7 DEF RequestInv, Sampling, Axes
  <2>8. QED
    BY <1>1, <1>5, <2>3, <2>4, <2>5, <2>6, <2>7 DEF RequestInv
<1>8. QED
  BY <1>6, <1>7

LEMMA CalHeadingKeeps ==
  ASSUME RequestInv, CalHeading
  PROVE  RequestInv'
<1>1. ibState = "Y2" /\ compass = "GOTXY" /\ queue = <<"calHeading">>
  BY DEF RequestInv, Phases, CalHeading
<1>2. queue' = <<"tellLocation">> /\ compass' = "IDLE"
  BY <1>1 DEF CalHeading
<1>3. TypeOK'
  BY <1>2 DEF RequestInv, TypeOK, CalHeading, badge
<1>4. Phases' /\ Receiving' /\ Sampling' /\ BytesSoFar'
  BY <1>1, <1>2
     DEF RequestInv, Phases, Receiving, Sampling, BytesSoFar, CalHeading
<1>5. QED
  BY <1>3, <1>4 DEF RequestInv

LEMMA RequestStutter ==
  ASSUME RequestInv, UNCHANGED vars
  PROVE  RequestInv'
  BY DEF RequestInv, TypeOK, Phases, Receiving, Sampling, BytesSoFar, vars, badge, compassVars

LEMMA RequestCorrect == Spec => []RequestInv
<1>1. RequestInv /\ [Next]_vars => RequestInv'
  BY GetLocationKeeps, SendByteKeeps, UartGetKeeps, TellLocationKeeps, ADCDataReadyKeeps,
     CalHeadingKeeps, RequestStutter
     DEF Next, RunTask
<1>2. QED
  BY <1>1, RequestInit, PTL DEF Spec

(* Every variable keeps its type; the task queue holds one task at most.   *)
THEOREM TypeCorrect == Spec => []TypeOK
<1>1. RequestInv => TypeOK
  BY DEF RequestInv
<1>2. QED
  BY <1>1, RequestCorrect, PTL

(* Whoever asks for a location is on the way to being told.                *)
THEOREM RequestsServed == Spec => []RequestsAreServed
<1>1. RequestInv => RequestsAreServed
  <2> SUFFICES ASSUME RequestInv PROVE RequestsAreServed
    OBVIOUS
  <2>1. queue = <<"tellLocation">> => Queued(queue, "tellLocation")
    BY DEF Queued
  <2>2. QED
    BY <2>1 DEF RequestInv, TypeOK, Phases, Receiving, RequestsAreServed
<1>2. QED
  BY <1>1, RequestCorrect, PTL

(* No sample of the compass is taken that CompassM does not count.         *)
THEOREM SamplesCounted == Spec => []SamplesAreCounted
<1>1. RequestInv => SamplesAreCounted
  BY DEF RequestInv, TypeOK, Sampling, SamplesAreCounted, Axes
<1>2. QED
  BY <1>1, RequestCorrect, PTL

-----------------------------------------------------------------------------
(* What the badge sends after the byte b.                                  *)
After(b) == IF b.at = 6 THEN [msg |-> (b.msg + 1) % 3, at |-> 1]
                        ELSE [b EXCEPT !.at = b.at + 1]

(* c follows b, or one byte between them was dropped.                      *)
Follows(b, c) == c \in {After(b), After(After(b))}

(* The badge is about to send what follows b, which was buffered last.     *)
IsLast(b) == next = IF row = 0 THEN After(b) ELSE After(After(b))

(* The coordinate bytes received so far are of one message and in order.   *)
Coordinates ==
  /\ \A i \in 1 .. Len(bytes) : bytes[i].at \in 3 .. 6
  /\ \A i, j \in 1 .. Len(bytes) :
       i < j => bytes[i].msg = bytes[j].msg /\ bytes[i].at < bytes[j].at

(* After two start bytes, what is in the receiver and what comes next      *)
(* follow on the bytes received.  Bytes that stayed in the receiver while  *)
(* the interrupt was disabled may be followed by a gap: a gap is behind    *)
(* the second of them, thus not behind the second start byte.              *)
InOrder ==
  rxOn /\ ibState # "IDLE" =>
    /\ Len(fifo) = 2 => IsLast(fifo[2])
    /\ ibState # "SB1" /\ Len(fifo) = 2 => Follows(fifo[1], fifo[2])
    /\ ibState # "SB1" /\ Len(fifo) = 1 => IsLast(fifo[1])
    /\ bytes # <<>> /\ fifo = <<>> => IsLast(bytes[Len(bytes)])
    /\ bytes # <<>> /\ fifo # <<>> => Follows(bytes[Len(bytes)], fifo[1])

WholeInv == Coordinates /\ InOrder

(* What is left when a byte is read from a receiver that holds two or one. *)
LEMMA UpToTwo ==
  ASSUME NEW n \in Nat, n <= 2
  PROVE  n = 0 \/ n = 1 \/ n = 2
  OBVIOUS

LEMMA NotEmpty ==
  ASSUME NEW q, Len(q) = 1 \/ Len(q) = 2
  PROVE  q # <<>>
  OBVIOUS

LEMMA NoneLeft ==
  ASSUME NEW q \in Seq(Bytes), Len(q) = 0
  PROVE  q = <<>>
  BY EmptySeq

LEMMA TailOfTwo ==
  ASSUME NEW q \in Seq(Bytes), Len(q) = 2
  PROVE  Tail(q) # <<>> /\ Len(Tail(q)) = 1 /\ Tail(q)[1] = q[2]
<1>1. q # <<>>
  BY NotEmpty
<1>2. /\ Tail(q) \in Seq(Bytes) /\ Len(Tail(q)) = Len(q) - 1
      /\ \A i \in 1 .. Len(Tail(q)) : Tail(q)[i] = q[i + 1]
  BY <1>1, HeadTailProperties
<1>3. Len(Tail(q)) = 1
  BY <1>2
<1>4. Tail(q)[1] = q[2]
  BY <1>2, <1>3
<1>5. Tail(q) # <<>>
  BY <1>3, NotEmpty
<1>6. QED
  BY <1>3, <1>4, <1>5

LEMMA TailOfOne ==
  ASSUME NEW q \in Seq(Bytes), Len(q) = 1
  PROVE  Tail(q) = <<>> /\ Len(Tail(q)) = 0
<1>1. q # <<>>
  BY NotEmpty
<1>2. Tail(q) \in Seq(Bytes) /\ Len(Tail(q)) = 0
  BY <1>1, HeadTailProperties
<1>3. QED
  BY <1>2, NoneLeft

(* A coordinate byte soon after another one is of the same message.        *)
LEMMA SameMessage ==
  ASSUME NEW b \in Bytes, NEW c \in Bytes,
         b.at \in 3 .. 6, c.at \in 3 .. 6, Follows(b, c)
  PROVE  b.msg = c.msg /\ b.at < c.at
<1>1. b.at \in Int /\ c.at \in Int /\ DOMAIN b = {"msg", "at"}
  BY DEF Bytes
<1>2. CASE b.at = 6
  <2>1. After(b).at = 1 /\ After(After(b)).at = 2
    BY <1>2 DEF After
  <2>2. QED
    BY <2>1 DEF Follows
<1>3. CASE b.at = 5
  <2>1. After(b).at = 6 /\ After(b).msg = b.msg /\ After(After(b)).at = 1
    BY <1>3 DEF After, Bytes
  <2>2. QED
    BY <1>3, <2>1 DEF Follows
<1>4. CASE b.at \in {3, 4}
  <2>1. /\ After(b).at = b.at + 1 /\ After(b).msg = b.msg
        /\ After(After(b)).at = b.at + 2 /\ After(After(b)).msg = b.msg
    BY <1>4 DEF After, Bytes
  <2>2. QED
    BY <1>4, <2>1 DEF Follows
<1>5. QED
  BY <1>2, <1>3, <1>4

LEMMA WholeInit == Init => WholeInv
  BY DEF Init, WholeInv, Coordinates, InOrder

(* The interrupt is enabled only before the first byte of a message.       *)
LEMMA GetLocationOrder ==
  ASSUME RequestInv, WholeInv, NEW id \in Clients, GetLocation(id)
  PROVE  WholeInv'
<1>1. UNCHANGED <<ibState, bytes, fifo, next, row>>
  BY DEF GetLocation, badge
<1>2. rxOn' /\ ~rxOn => ibState = "IDLE"
  BY DEF RequestInv, Receiving, GetLocation
<1>3. QED
  BY <1>1, <1>2 DEF RequestInv, TypeOK, WholeInv, Coordinates, InOrder, IsLast

(* No two bytes are dropped in a row.                                      *)
LEMMA SendByteOrder ==
  ASSUME MaxRow <= 1, RequestInv, WholeInv, SendByte
  PROVE  WholeInv'
<1>1. UNCHANGED <<ibState, bytes, rxOn>> /\ next' = After(next)
  BY DEF SendByte, After
<1>2. fifo \in Seq(Bytes) /\ Len(fifo) <= 2 /\ row \in {0, 1}
  BY LocalizationAssumption DEF RequestInv, TypeOK
<1>3. Coordinates'
  BY <1>1 DEF WholeInv, Coordinates
<1>4. CASE Len(fifo) = 0 /\ fifo' = Append(fifo, next) /\ row' = 0
  <2>1. fifo = <<>> /\ Len(fifo') = 1 /\ fifo'[1] = next /\ fifo' # <<>>
    BY <1>2, <1>4
  <2>2. QED
    BY <1>1, <1>2, <1>3, <1>4, <2>1 DEF WholeInv, InOrder, Follows, IsLast
<1>5. CASE Len(fifo) = 1 /\ fifo' = Append(fifo, next) /\ row' = 0
  <2>1. /\ Len(Append(fifo, next)) = Len(fifo) + 1
        /\ \A i \in 1 .. Len(fifo) : Append(fifo, next)[i] = fifo[i]
        /\ Append(fifo, next)[Len(fifo) + 1] = next
    BY <1>2
  <2>2. fifo # <<>> /\ Len(fifo') = 2 /\ fifo'[1] = fifo[1] /\ fifo'[2] = next /\ fifo' # <<>>
    BY <1>5, <2>1
  <2>3. QED
    BY <1>1, <1>2, <1>3, <1>5, <2>2 DEF WholeInv, InOrder, Follows, IsLast
<1>6. CASE Len(fifo) = 2 /\ ~rxOn
  BY <1>1, <1>3, <1>6 DEF WholeInv, InOrder
<1>7. CASE Len(fifo) = 2 /\ rxOn /\ row < MaxRow /\ row' = row + 1 /\ UNCHANGED fifo
  <2>1. row = 0 /\ row' = 1 /\ fifo # <<>>
    BY <1>2, <1>7, LocalizationAssumption
  <2>2. ASSUME NEW b, IsLast(b) PROVE next' = IF row' = 0 THEN After(b) ELSE After(After(b))
    BY <1>1, <2>1, <2>2 DEF IsLast
  <2>3. QED
    BY <1>1, <1>3, <1>7, <2>1, <2>2 DEF WholeInv, InOrder, IsLast
<1>8. Len(fifo) = 0 \/ Len(fifo) = 1 \/ Len(fifo) = 2
  <2>1. Len(fifo) \in Nat
    BY <1>2, LenProperties
  <2>2. QED
    BY <1>2, <2>1, UpToTwo
<1>9. CASE Len(fifo) < 2 /\ fifo' = Append(fifo, next) /\ row' = 0
  BY <1>4, <1>5, <1>8, <1>9
<1>10. QED
  BY <1>6, <1>7, <1>9 DEF SendByte

LEMMA UartGetOrder ==
  ASSUME RequestInv, WholeInv, UartGet
  PROVE  WholeInv'
<1> DEFINE b == Head(fifo)
           isStart == b.at \in {1, 2} \cup StartBytes
<1>1. /\ rxOn /\ fifo # <<>> /\ fifo' = Tail(fifo) /\ UNCHANGED <<next, row>>
      /\ ibState \in IBStates /\ ibState # "Y2" /\ isStart \in BOOLEAN
      /\ ibState' = AfterByte(ibState, isStart)
      /\ bytes' = IF ibState' \in {"X1", "X2", "Y1", "Y2"} THEN Append(bytes, b) ELSE <<>>
  BY DEF RequestInv, TypeOK, Receiving, UartGet
<1>2. /\ fifo \in Seq(Bytes) /\ b \in Bytes /\ b = fifo[1]
      /\ Len(fifo) = 1 \/ Len(fifo) = 2
      /\ Len(fifo) = 1 => fifo' = <<>> /\ Len(fifo') = 0
      /\ Len(fifo) = 2 => fifo'[1] = fifo[2] /\ fifo' # <<>> /\ Len(fifo') = 1
      /\ bytes \in Seq(Bytes) /\ Len(bytes) \in Nat
  <2>1. fifo \in Seq(Bytes) /\ Len(fifo) <= 2 /\ fifo # <<>> /\ fifo' = Tail(fifo)
    BY <1>1 DEF RequestInv, TypeOK
  <2>2. bytes \in Seq(Bytes) /\ Len(bytes) \in Nat
    BY DEF RequestInv, TypeOK
  <2>3. Len(fifo) \in Nat /\ Len(fifo) # 0
    BY <2>1, EmptySeq
  <2>4. Len(fifo) = 1 \/ Len(fifo) = 2
    BY <2>1, <2>3, UpToTwo
  <2>5. b = fifo[1] /\ b \in Bytes
    BY <2>1, HeadTailProperties
  <2>6. QED
    BY <2>1, <2>2, <2>4, <2>5, TailOfOne, TailOfTwo
<1>3. b.at \in 1 .. 6
  BY <1>2 DEF Bytes
<1>4. /\ ibState' \in IBStates
      /\ ibState' = "SB2" => ibState = "SB1"
      /\ ibState' \in {"X1", "X2", "Y1", "Y2"} => ~isStart /\ ibState \notin {"IDLE", "SB1"}
  <2> HIDE DEF isStart
  <2>1. QED
    BY <1>1, AfterByteIs DEF IBStates
<1>5. CASE ibState' = "IDLE" \/ ibState' = "SB1" \/ ibState' = "SB2"
  <2>1. bytes' = <<>>
    BY <1>1, <1>5
  <2>2. Coordinates'
    BY <2>1 DEF Coordinates
  <2>3. InOrder'
    <3>1. CASE Len(fifo) = 1
      BY <1>2, <2>1, <3>1 DEF InOrder
    <3>2. CASE Len(fifo) = 2
      BY <1>1, <1>2, <1>5, <1>4, <2>1, <3>2 DEF WholeInv, InOrder, IsLast
    <3>3. QED
      BY <1>2, <3>1, <3>2
  <2>4. QED
    BY <2>2, <2>3 DEF WholeInv
<1>6. CASE ibState' \in {"X1", "X2", "Y1", "Y2"}
  <2>1. ~isStart /\ ibState \notin {"IDLE", "SB1"}
    BY <1>6, <1>4
  <2>2. b.at \in 3 .. 6
    BY <1>3, <2>1
  <2>3. bytes' = Append(bytes, b)
    BY <1>1, <1>6
  <2>4. /\ Len(bytes') = Len(bytes) + 1 /\ bytes' # <<>> /\ bytes'[Len(bytes')] = b
        /\ \A i \in 1 .. Len(bytes) : bytes'[i] = bytes[i]
    BY <1>2, <2>3
  <2>5. InOrder'
    <3>1. CASE Len(fifo) = 1
      <4>1. next' = IF row' = 0 THEN After(b) ELSE After(After(b))
        BY <1>1, <1>2, <2>1, <3>1 DEF WholeInv, InOrder, IsLast
      <4>2. QED
        BY <1>2, <2>4, <3>1, <4>1 DEF InOrder, IsLast
    <3>2. CASE Len(fifo) = 2
      BY <1>1, <1>2, <2>1, <2>4, <3>2 DEF WholeInv, InOrder, IsLast
    <3>3. QED
      BY <1>2, <3>1, <3>2
  <2>6. ASSUME NEW i \in 1 .. Len(bytes)
        PROVE  bytes[i].msg = b.msg /\ bytes[i].at < b.at
    <3> DEFINE l == bytes[Len(bytes)]
    <3>1. Len(bytes) \in 1 .. Len(bytes) /\ bytes # <<>> /\ l \in Bytes /\ bytes[i] \in Bytes
      BY <1>2, <2>6
    <3>2. Follows(l, b)
      BY <1>1, <1>2, <2>1, <3>1 DEF WholeInv, InOrder
    <3>3. l.at \in 3 .. 6 /\ bytes[i].at \in 3 .. 6
      BY <3>1 DEF WholeInv, Coordinates
    <3>4. l.msg = b.msg /\ l.at < b.at
      BY <1>2, <2>2, <3>1, <3>2, <3>3, SameMessage
    <3>5. i = Len(bytes) \/ (bytes[i].msg = l.msg /\ bytes[i].at < l.at)
      BY <1>2, <3>1 DEF WholeInv, Coordinates
    <3>6. QED
      BY <2>2, <3>3, <3>4, <3>5
  <2>7. Coordinates'
    <3>1. \A i \in 1 .. Len(bytes') : bytes'[i].at \in 3 .. 6
      BY <1>2, <2>2, <2>4 DEF WholeInv, Coordinates
    <3>2. ASSUME NEW i \in 1 .. Len(bytes'), NEW j \in 1 .. Len(bytes'), i < j
          PROVE  bytes'[i].msg = bytes'[j].msg /\ bytes'[i].at < bytes'[j].at
      <4>1. i \in 1 .. Len(bytes) /\ bytes'[i] = bytes[i]
        BY <1>2, <2>4, <3>2
      <4>2. CASE j = Len(bytes')
        BY <2>4, <2>6, <4>1, <4>2
      <4>3. CASE j # Len(bytes')
        <5>1. j \in 1 .. Len(bytes) /\ bytes'[j] = bytes[j]
          BY <1>2, <2>4, <4>3
        <5>2. QED
          BY <3>2, <4>1, <5>1 DEF WholeInv, Coordinates
      <4>4. QED
        BY <4>2, <4>3
    <3>3. QED
      BY <3>1, <3>2 DEF Coordinates
  <2>8. QED
    BY <2>5, <2>7 DEF WholeInv
<1>7. QED
  BY <1>5, <1>6, <1>4 DEF IBStates

(* Nothing else touches the bytes until the clients are told.              *)
LEMMA OthersOrder ==
  ASSUME RequestInv, WholeInv,
         TellLocation \/ CalHeading \/ (\E a \in Axes : ADCDataReady(a)) \/ UNCHANGED vars
  PROVE  WholeInv'
<1>1. CASE TellLocation
  <2>1. bytes' = <<>> /\ ibState' = "IDLE"
    BY <1>1 DEF TellLocation
  <2>2. QED
    BY <2>1 DEF WholeInv, Coordinates, InOrder
<1>2. CASE ~TellLocation
  <2>1. UNCHANGED <<ibState, bytes, rxOn, fifo, next, row>>
    BY <1>2 DEF CalHeading, ADCDataReady, vars, badge
  <2>2. QED
    BY <2>1 DEF WholeInv, Coordinates, InOrder, IsLast
<1>3. QED
  BY <1>1, <1>2

(* A location is made of the bytes of one message although the receiver    *)
(* drops bytes while it is not read, and others besides, any number of     *)
(* them but no two in a row.                                               *)
THEOREM LocationsWhole ==
  ASSUME MaxRow <= 1
  PROVE  Spec => []LocationIsWhole
<1>1. RequestInv /\ WholeInv /\ [Next]_vars => WholeInv'
  BY GetLocationOrder, SendByteOrder, UartGetOrder, OthersOrder DEF Next, RunTask
<1>2. RequestInv /\ WholeInv => LocationIsWhole
  <2> SUFFICES ASSUME RequestInv, WholeInv, ibState = "Y2"
               PROVE  \E m \in 0 .. 2 : bytes = [i \in 1 .. 4 |-> [msg |-> m, at |-> i + 2]]
    BY DEF LocationIsWhole
  <2>1. bytes \in Seq(Bytes) /\ Len(bytes) = 4
    BY DEF RequestInv, TypeOK, BytesSoFar
  <2>2. \A i \in 1 .. 4 : bytes[i] \in Bytes /\ bytes[i].at \in 3 .. 6
    <3>1. \A i \in 1 .. 4 : bytes[i] \in Bytes
      BY <2>1, ElementOfSeq
    <3>2. QED
      BY <2>1, <3>1 DEF WholeInv, Coordinates
  <2>3. /\ bytes[1].at < bytes[2].at /\ bytes[2].at < bytes[3].at /\ bytes[3].at < bytes[4].at
        /\ \A i \in 2 .. 4 : bytes[1].msg = bytes[i].msg
    BY <2>1 DEF WholeInv, Coordinates
  <2>4. bytes[1].at = 3 /\ bytes[2].at = 4 /\ bytes[3].at = 5 /\ bytes[4].at = 6
    BY <2>2, <2>3
  <2> DEFINE m == bytes[1].msg
  <2>5. m \in 0 .. 2 /\ \A i \in 1 .. 4 : bytes[i].msg = m /\ bytes[i].at = i + 2
    BY <2>2, <2>3, <2>4 DEF Bytes
  <2>6. \A i \in 1 .. 4 : bytes[i] = [msg |-> m, at |-> i + 2]
    BY <2>2, <2>5 DEF Bytes
  <2>7. bytes = [i \in 1 .. 4 |-> [msg |-> m, at |-> i + 2]]
    BY <2>1, <2>6
  <2>8. QED
    BY <2>5, <2>7
<1>3. QED
  BY <1>1, <1>2, WholeInit, RequestCorrect, PTL DEF Spec
=============================================================================
