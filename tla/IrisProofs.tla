------------------------------ MODULE IrisProofs ------------------------------
(***************************************************************************)
(* Proofs about Iris for any number of channels, any even length of the    *)
(* ring, and any number of reports and of faults of the bus.               *)
(***************************************************************************)
EXTENDS Iris, SequenceTheorems, TLAPS

Slots == 0 .. MAX_BUFFER_LEN - 1
Bytes == [what : {"direction", "data", "nothing"}, frame : Nat]

-----------------------------------------------------------------------------
(* The ring's arithmetic.                                                  *)
LEMMA ModSmall ==
  ASSUME NEW m \in Nat \ {0}, NEW a \in Int, 0 <= a, a < m
  PROVE  a % m = a
  OBVIOUS

LEMMA ModOnce ==
  ASSUME NEW m \in Nat \ {0}, NEW a \in Int, m <= a, a < 2 * m
  PROVE  a % m = a - m
  OBVIOUS

LEMMA ModBelow ==
  ASSUME NEW m \in Nat \ {0}, NEW a \in Int, -m <= a, a < 0
  PROVE  a % m = a + m
  OBVIOUS

LEMMA RingSize ==
  /\ MAX_BUFFER_LEN \in Nat \ {0} /\ MAX_BUFFER_LEN >= 2
  /\ MAX_BUFFER_LEN % 2 = 0
<1>1. MAX_BUFFER_LEN \in Nat \ {0} /\ MAX_BUFFER_LEN % 2 = 0
  BY IrisAssumption
<1>2. ASSUME NEW n \in Nat \ {0}, n % 2 = 0 PROVE n >= 2
  BY <1>2
<1>3. QED
  BY <1>1, <1>2

LEMMA Onwards ==
  ASSUME NEW i \in Slots, NEW n \in 0 .. 2
  PROVE  (i + n) % MAX_BUFFER_LEN
           = IF i + n < MAX_BUFFER_LEN THEN i + n ELSE i + n - MAX_BUFFER_LEN
<1>1. CASE i + n < MAX_BUFFER_LEN
  BY <1>1, RingSize, ModSmall DEF Slots
<1>2. CASE i + n >= MAX_BUFFER_LEN
  BY <1>2, RingSize, ModOnce DEF Slots
<1>3. QED
  BY <1>1, <1>2, RingSize DEF Slots

LEMMA CountOf ==
  ASSUME NEW h \in Slots, NEW t \in Slots
  PROVE  i2c_count(h, t) = IF t <= h THEN h - t ELSE h - t + MAX_BUFFER_LEN
<1>1. CASE t <= h
  BY <1>1, RingSize, ModSmall DEF Slots, i2c_count
<1>2. CASE h < t
  BY <1>2, RingSize, ModBelow DEF Slots, i2c_count
<1>3. QED
  BY <1>1, <1>2, RingSize DEF Slots

-----------------------------------------------------------------------------
(* Sequences of up to two elements.                                        *)
LEMMA FirstAppended ==
  ASSUME NEW S, NEW b \in S
  PROVE  /\ Append(<<>>, b) = <<b>>
         /\ <<b>> \in Seq(S) /\ Len(<<b>>) = 1 /\ <<b>>[1] = b
  OBVIOUS

LEMMA SecondAppended ==
  ASSUME NEW S, NEW q \in Seq(S), Len(q) = 1, NEW b \in S
  PROVE  /\ q[1] \in S
         /\ Append(q, b) \in Seq(S) /\ Len(Append(q, b)) = 2
         /\ Append(q, b)[1] = q[1] /\ Append(q, b)[2] = b
<1>1. 1 \in 1 .. Len(q)
  OBVIOUS
<1>2. QED
  <2>1. q[1] \in S
    BY <1>1, ElementOfSeq
  <2>2. Append(q, b) \in Seq(S) /\ Len(Append(q, b)) = Len(q) + 1
    BY AppendProperties
  <2>3. Append(q, b)[1] = q[1] /\ Append(q, b)[Len(q) + 1] = b
    BY <1>1, AppendProperties
  <2>4. QED
    BY <2>1, <2>2, <2>3

-----------------------------------------------------------------------------
(* The invariant.                                                          *)

(* A slot of the ring that is taken: its byte has been put in and not yet  *)
(* taken out.                                                              *)
Taken(i) ==
  IF i2c_tail <= i2c_head THEN i2c_tail <= i /\ i < i2c_head ELSE i2c_tail <= i \/ i < i2c_head

(* The ring: frames begin in even slots, and what is taken was put in.     *)
RingInv ==
  /\ i2c_buffer \in [Slots -> Bytes]
  /\ i2c_head \in Slots /\ i2c_tail \in Slots
  /\ i2c_head % 2 = 0
  /\ reports \in Nat
  /\ torn \in BOOLEAN
  /\ \A i \in Slots : i % 2 = 0 /\ i2c_buffer[i].what # "nothing" =>
       i2c_buffer[i].what = "direction" /\ i2c_buffer[i + 1] = Data(i2c_buffer[i].frame)
  /\ \A i \in Slots : Taken(i) => i2c_buffer[i].what # "nothing"

(* The status that awaits the interrupt routine agrees with what the unit  *)
(* is in.                                                                  *)
UnitInv ==
  /\ unit \in {"free", "address", "byte", "slave"}
  /\ TWSR \in {"none", "0x08", "0x18", "0x20", "0x28", "0x30", "0x38", "0x60", "0x80", "0x88", "0xA0"}
  /\ TWSR = "0x08" => unit = "free"
  /\ TWSR \in {"0x18", "0x20"} => unit = "address"
  /\ TWSR \in {"0x28", "0x30"} => unit = "byte"
  /\ TWSR = "0x38" => unit \in {"address", "byte"}
  /\ TWSR \in {"0x60", "0x80", "0x88", "0xA0"} => unit = "slave"

(* The byte that begins the frame under way.                               *)
First == i2c_buffer[i2c_tail - 1]

(* The bytes heard are those of a frame.                                   *)
Whole(bytes) ==
  /\ Len(bytes) > 0 => bytes[1].what = "direction"
  /\ Len(bytes) = 2 => bytes[2] = Data(bytes[1].frame)

(* Unless a frame was cut: outside of a transfer of bytes the ring is read *)
(* at the beginning of a frame, and within one the byte being sent goes on *)
(* where the bytes heard end.                                              *)
WireInv ==
  /\ heard \in Seq(Bytes) /\ Len(heard) <= 2 /\ TWDR \in Bytes
  /\ unit = "address" \/ TWSR = "0x08" => Len(heard) = 0
  /\ unit = "byte" /\ TWSR = "0x38" => torn
  /\ ~torn =>
     /\ Whole(heard)
     /\ unit # "byte" => i2c_tail % 2 = 0
     /\ unit = "byte" /\ TWSR = "none" =>
          \/ /\ i2c_tail % 2 = 1 /\ TWDR = First /\ First.what = "direction"
             /\ Len(heard) = 0 \/ Len(heard) = 2
          \/ /\ i2c_tail % 2 = 0 /\ Len(heard) = 1
             /\ TWDR = Data(heard[1].frame)
     /\ unit = "byte" /\ TWSR \in {"0x28", "0x30"} =>
          \/ i2c_tail % 2 = 1 /\ Len(heard) = 1 /\ heard[1] = First /\ First.what = "direction"
          \/ i2c_tail % 2 = 0 /\ Len(heard) = 2

IrisInv == RingInv /\ UnitInv /\ WireInv

(* The number of bytes in the ring is odd exactly within a frame.          *)
LEMMA Counted ==
  ASSUME RingInv
  PROVE  /\ Count \in 0 .. MAX_BUFFER_LEN - 1
         /\ Count = IF i2c_tail <= i2c_head THEN i2c_head - i2c_tail
                                            ELSE i2c_head - i2c_tail + MAX_BUFFER_LEN
         /\ Count % 2 = i2c_tail % 2
<1>1. /\ i2c_tail \in Nat /\ i2c_tail < MAX_BUFFER_LEN /\ i2c_head \in Nat
      /\ i2c_head < MAX_BUFFER_LEN /\ i2c_head % 2 = 0
  BY RingSize DEF RingInv, Slots
<1>2. Count = IF i2c_tail <= i2c_head THEN i2c_head - i2c_tail
                                      ELSE i2c_head - i2c_tail + MAX_BUFFER_LEN
  BY CountOf DEF RingInv, Count
<1>3. Count \in 0 .. MAX_BUFFER_LEN - 1
  BY <1>1, <1>2, RingSize
<1>4. Count % 2 = i2c_tail % 2
  BY <1>1, <1>2, RingSize
<1>5. QED
  BY <1>2, <1>3, <1>4

(* Taking n bytes that are there.                                          *)
LEMMA TailMoves ==
  ASSUME RingInv, NEW n \in 0 .. 2, n <= Count,
         i2c_tail' = After(n), UNCHANGED <<i2c_buffer, i2c_head, reports, torn>>
  PROVE  /\ RingInv'
         /\ i2c_tail' % 2 = (i2c_tail + n) % 2
         /\ i2c_tail' = IF i2c_tail + n < MAX_BUFFER_LEN THEN i2c_tail + n
                                                        ELSE i2c_tail + n - MAX_BUFFER_LEN
<1>1. /\ i2c_tail \in Nat /\ i2c_tail < MAX_BUFFER_LEN /\ i2c_head \in Nat
      /\ i2c_head < MAX_BUFFER_LEN
  BY RingSize DEF RingInv, Slots
<1>2. i2c_tail' = IF i2c_tail + n < MAX_BUFFER_LEN THEN i2c_tail + n
                                                  ELSE i2c_tail + n - MAX_BUFFER_LEN
  BY Onwards DEF After, RingInv
<1>3. i2c_tail' \in Slots
  BY <1>1, <1>2, RingSize DEF Slots
<1>4. i2c_tail' % 2 = (i2c_tail + n) % 2
  BY <1>1, <1>2, RingSize
<1>5. ASSUME NEW i \in Slots, Taken(i)' PROVE Taken(i)
  BY <1>1, <1>2, <1>5, Counted, RingSize DEF Taken, Slots
<1>6. RingInv'
  BY <1>3, <1>5 DEF RingInv
<1>7. QED
  BY <1>2, <1>4, <1>6

(* A frame is put in the ring: what is sent of another one is still there, *)
(* unless it was cut.                                                      *)
LEMMA FrameEnters ==
  ASSUME RingInv, NEW n \in Nat, reports' \in Nat,
         EnqueueFrame(Direction(n), Data(n)), i2c_tail' = i2c_tail
  PROVE  /\ RingInv'
         /\ torn => torn'
         /\ ~torn' /\ i2c_tail % 2 = 1 => First' = First
<1> DEFINE next == i2c_head + 1
<1>1. /\ i2c_tail \in Nat /\ i2c_tail < MAX_BUFFER_LEN /\ i2c_head \in Nat
      /\ i2c_head < MAX_BUFFER_LEN /\ i2c_head % 2 = 0
  BY RingSize DEF RingInv, Slots
<1>2. i2c_head + 2 <= MAX_BUFFER_LEN
  BY <1>1, RingSize
<1>3. next \in Slots /\ next % 2 = 1 /\ i2c_head \in Slots /\ next # i2c_head
  <2>1. next \in Nat /\ next < MAX_BUFFER_LEN /\ MAX_BUFFER_LEN \in Nat
    BY <1>1, <1>2, RingSize
  <2>2. QED
    BY <1>1, <2>1 DEF Slots
<1>4. /\ (i2c_head + 1) % MAX_BUFFER_LEN = next
      /\ (i2c_head + 2) % MAX_BUFFER_LEN
           = IF i2c_head + 2 < MAX_BUFFER_LEN THEN i2c_head + 2 ELSE 0
  <2>1. 1 \in 0 .. 2 /\ 2 \in 0 .. 2 /\ MAX_BUFFER_LEN \in Nat
    BY RingSize
  <2>2. (i2c_head + 1) % MAX_BUFFER_LEN = next
    BY <1>1, <1>2, <1>3, <2>1, Onwards
  <2>3. (i2c_head + 2) % MAX_BUFFER_LEN
          = IF i2c_head + 2 < MAX_BUFFER_LEN THEN i2c_head + 2 ELSE i2c_head + 2 - MAX_BUFFER_LEN
    BY <1>3, <2>1, Onwards
  <2>4. QED
    BY <1>1, <1>2, <2>1, <2>2, <2>3
<1>5. /\ i2c_buffer' = [i2c_buffer EXCEPT ![i2c_head] = Direction(n), ![next] = Data(n)]
      /\ i2c_head' = IF i2c_head + 2 < MAX_BUFFER_LEN THEN i2c_head + 2 ELSE 0
      /\ torn' = (torn \/ Count = MAX_BUFFER_LEN - 1)
  BY <1>4 DEF EnqueueFrame
<1>6. i2c_head' \in Slots /\ i2c_head' % 2 = 0
  <2>1. MAX_BUFFER_LEN \in Nat \ {0}
    BY RingSize
  <2>2. (i2c_head + 2) % 2 = 0 /\ 0 % 2 = 0
    BY <1>1
  <2>3. QED
    BY <1>1, <1>2, <1>5, <2>1, <2>2 DEF Slots
<1> HIDE DEF next
<1>7. /\ i2c_buffer \in [Slots -> Bytes]
      /\ Direction(n) \in Bytes /\ Data(n) \in Bytes
  BY DEF RingInv, Direction, Data, Bytes
<1>8. /\ i2c_buffer' \in [Slots -> Bytes]
      /\ i2c_buffer'[i2c_head] = Direction(n) /\ i2c_buffer'[next] = Data(n)
      /\ \A i \in Slots : i # i2c_head /\ i # next => i2c_buffer'[i] = i2c_buffer[i]
  BY <1>3, <1>5, <1>7
<1>9. ASSUME NEW i \in Slots, i % 2 = 0, i2c_buffer'[i].what # "nothing"
      PROVE  i2c_buffer'[i].what = "direction" /\ i2c_buffer'[i + 1] = Data(i2c_buffer'[i].frame)
  <2>1. CASE i = i2c_head
    BY <1>8, <2>1 DEF next, Direction
  <2>2. CASE i # i2c_head
    <3>1. i + 1 \in Slots /\ i # next /\ i + 1 # next /\ i + 1 # i2c_head
      BY <1>1, <1>3, <1>9, <2>2, RingSize DEF Slots, next
    <3>2. i2c_buffer'[i] = i2c_buffer[i] /\ i2c_buffer'[i + 1] = i2c_buffer[i + 1]
      BY <1>8, <2>2, <3>1
    <3>3. QED
      BY <1>9, <3>2 DEF RingInv
  <2>3. QED
    BY <2>1, <2>2
<1>10. ASSUME NEW i \in Slots, Taken(i)' PROVE i2c_buffer'[i].what # "nothing"
  <2>1. CASE i = i2c_head \/ i = next
    BY <1>8, <2>1 DEF Direction, Data
  <2>2. CASE i # i2c_head /\ i # next
    <3>1. Taken(i)
      BY <1>1, <1>2, <1>5, <1>10, <2>2, RingSize DEF Taken, Slots, next
    <3>2. QED
      BY <1>8, <2>2, <3>1 DEF RingInv
  <2>3. QED
    BY <2>1, <2>2
<1>11. RingInv'
  BY <1>5, <1>6, <1>8, <1>9, <1>10 DEF RingInv
<1>12. ASSUME ~torn', i2c_tail % 2 = 1 PROVE First' = First
  <2>1. Count # MAX_BUFFER_LEN - 1
    BY <1>5, <1>12
  <2>2. i2c_tail - 1 \in Slots /\ i2c_tail - 1 # i2c_head /\ i2c_tail - 1 # next
    BY <1>1, <1>2, <1>12, <2>1, Counted, RingSize DEF Slots, next
  <2>3. QED
    BY <1>8, <2>2 DEF First
<1>13. QED
  BY <1>5, <1>11, <1>12

LEMMA RingKept ==
  ASSUME RingInv, UNCHANGED <<ring, reports, torn>>
  PROVE  RingInv' /\ First' = First
  BY DEF RingInv, Taken, ring, First

-----------------------------------------------------------------------------
(* Each action keeps the invariant.                                        *)
LEMMA InitIris == Init => IrisInv
<1> SUFFICES ASSUME Init PROVE IrisInv
  OBVIOUS
<1>1. 0 \in Slots /\ 0 % 2 = 0 /\ Nothing \in Bytes
  <2>1. 0 \in Nat /\ 0 < MAX_BUFFER_LEN /\ MAX_BUFFER_LEN \in Nat
    BY RingSize
  <2>2. QED
    BY <2>1 DEF Slots, Nothing, Bytes
<1>2. RingInv
  <2>1. i2c_buffer \in [Slots -> Bytes] /\ \A i \in Slots : i2c_buffer[i].what = "nothing"
    BY <1>1 DEF Init, Slots, Nothing
  <2>2. \A i \in Slots : ~Taken(i)
    BY RingSize DEF Init, Taken, Slots
  <2>3. QED
    BY <1>1, <2>1, <2>2 DEF Init, RingInv
<1>3. UnitInv
  BY DEF Init, UnitInv
<1>4. WireInv
  <2>1. heard \in Seq(Bytes) /\ Len(heard) = 0
    BY EmptySeq DEF Init
  <2>2. QED
    BY <1>1, <2>1 DEF Init, WireInv, Whole
<1>5. QED
  BY <1>2, <1>3, <1>4 DEF IrisInv

(* The main loop and the end of a STOP: the ring is only looked at.        *)
LEMMA MainLoopKeeps ==
  ASSUME IrisInv, MainLoop \/ Stopped \/ UNCHANGED vars
  PROVE  IrisInv'
<1>1. UNCHANGED <<ring, reports, torn, wire>>
  BY DEF MainLoop, ReadHead, ReadTail, Send, SendStart, Stopped, unmoved, still, vars, air, ring, wire
<1>2. RingInv' /\ First' = First
  BY <1>1, RingKept DEF IrisInv
<1>3. UnitInv' /\ WireInv'
  BY <1>1, <1>2 DEF IrisInv, UnitInv, WireInv, Whole, wire, ring
<1>4. QED
  BY <1>2, <1>3 DEF IrisInv

(* The interrupt of the serial line, at any time.                          *)
LEMMA ReceiveKeeps ==
  ASSUME IrisInv, NEW symbols, Receive(symbols)
  PROVE  IrisInv'
<1>1. UNCHANGED wire
  BY DEF Receive
<1>2. \/ UNCHANGED <<ring, torn, reports>>
      \/ /\ reports' = reports + 1 /\ i2c_tail' = i2c_tail
         /\ EnqueueFrame(Direction(reports'), Data(reports'))
  BY DEF Receive
<1>3. /\ RingInv' /\ (torn => torn')
      /\ i2c_tail' = i2c_tail
      /\ ~torn' /\ i2c_tail % 2 = 1 => First' = First
  <2>1. CASE UNCHANGED <<ring, torn, reports>>
    BY <2>1, RingKept DEF IrisInv, ring
  <2>2. CASE /\ reports' = reports + 1 /\ i2c_tail' = i2c_tail
             /\ EnqueueFrame(Direction(reports'), Data(reports'))
    <3>1. reports' \in Nat
      BY <2>2 DEF IrisInv, RingInv
    <3>2. QED
      BY <2>2, <3>1, FrameEnters DEF IrisInv
  <2>3. QED
    BY <1>2, <2>1, <2>2
<1>4. torn \in BOOLEAN /\ torn' \in BOOLEAN
  BY <1>3 DEF IrisInv, RingInv
<1>5. UnitInv' /\ WireInv'
  BY <1>1, <1>3, <1>4 DEF IrisInv, UnitInv, WireInv, Whole, wire
<1>6. QED
  BY <1>3, <1>5 DEF IrisInv

(* The bus, outside of a transfer of bytes.                                *)
LEMMA UnitKeeps ==
  ASSUME IrisInv, Started \/ AddressAnswered \/ Addressed \/ SlaveByte
  PROVE  IrisInv'
<1>1. UNCHANGED <<ring, reports, torn>>
  BY DEF Started, AddressAnswered, Addressed, SlaveByte, still, air
<1>2. RingInv' /\ First' = First
  BY <1>1, RingKept DEF IrisInv
<1>3. UnitInv'
  BY DEF IrisInv, UnitInv, Started, AddressAnswered, Addressed, SlaveByte
<1>4. WireInv'
  <2>1. CASE Started
    <3>1. heard' \in Seq(Bytes) /\ Len(heard') = 0
      BY <2>1, EmptySeq DEF Started
    <3>2. QED
      BY <1>1, <2>1, <3>1 DEF IrisInv, UnitInv, WireInv, Whole, Started, ring
  <2>2. CASE AddressAnswered \/ Addressed \/ SlaveByte
    <3>1. heard' = heard /\ TWDR' = TWDR
      BY <2>2 DEF AddressAnswered, Addressed, SlaveByte
    <3>2. QED
      BY <1>1, <2>2, <3>1
         DEF IrisInv, UnitInv, WireInv, Whole, AddressAnswered, Addressed, SlaveByte, ring
  <2>3. QED
    BY <2>1, <2>2
<1>5. QED
  BY <1>2, <1>3, <1>4 DEF IrisInv

(* The byte under way has been heard, by a receiver that goes on or not.   *)
LEMMA ByteAnsweredKeeps ==
  ASSUME IrisInv, ByteAnswered
  PROVE  IrisInv'
<1>1. /\ UNCHANGED <<ring, reports, unit, TWDR>> /\ unit = "byte" /\ TWSR = "none"
      /\ TWSR' \in {"0x28", "0x30", "0x38"}
      /\ torn' = (torn \/ TWSR' = "0x38")
      /\ heard' = IF Len(heard) = 2 THEN <<TWDR>> ELSE Append(heard, TWDR)
  BY DEF ByteAnswered, still, air
<1>2. RingInv' /\ First' = First /\ i2c_tail' = i2c_tail
  BY <1>1 DEF IrisInv, RingInv, Taken, First, ring
<1>3. UnitInv'
  BY <1>1 DEF IrisInv, UnitInv
<1>4. WireInv'
  <2>1. /\ heard \in Seq(Bytes) /\ Len(heard) \in Nat /\ Len(heard) <= 2
        /\ TWDR \in Bytes /\ torn \in BOOLEAN
    BY LenProperties DEF IrisInv, WireInv, RingInv
  <2>2. heard' \in Seq(Bytes) /\ Len(heard') <= 2
    <3>1. CASE Len(heard) = 2
      BY <1>1, <2>1, <3>1, FirstAppended
    <3>2. CASE Len(heard) \in {0, 1}
      <4>1. heard' = Append(heard, TWDR)
        <5>1. Len(heard) # 2
          BY <3>2
        <5>2. QED
          BY <1>1, <5>1
      <4>2. heard' \in Seq(Bytes) /\ Len(heard') = Len(heard) + 1
        BY <2>1, <4>1, AppendProperties
      <4>3. Len(heard) + 1 <= 2
        BY <3>2
      <4>4. QED
        BY <4>2, <4>3
    <3>3. Len(heard) = 2 \/ Len(heard) \in {0, 1}
      <4>1. ASSUME NEW k \in Nat, k <= 2 PROVE k = 2 \/ k \in {0, 1}
        BY <4>1
      <4>2. QED
        BY <2>1, <4>1
    <3>4. QED
      BY <3>1, <3>2, <3>3
  <2>3. ASSUME ~torn'
        PROVE  \/ /\ i2c_tail % 2 = 1 /\ Len(heard') = 1 /\ heard'[1] = First
                  /\ First.what = "direction"
               \/ /\ i2c_tail % 2 = 0 /\ Len(heard') = 2
                  /\ heard'[1].what = "direction" /\ heard'[2] = Data(heard'[1].frame)
    <3>1. ~torn
      BY <1>1, <2>3
    <3>2. CASE /\ i2c_tail % 2 = 1 /\ TWDR = First /\ First.what = "direction"
               /\ Len(heard) = 0 \/ Len(heard) = 2
      <4>1. heard' = <<TWDR>>
        <5>1. CASE Len(heard) = 2
          BY <1>1, <5>1
        <5>2. CASE Len(heard) = 0
          <6>1. heard = <<>>
            BY <2>1, <5>2, EmptySeq
          <6>2. heard' = Append(<<>>, TWDR)
            BY <1>1, <5>2, <6>1
          <6>3. QED
            BY <2>1, <6>2, FirstAppended
        <5>3. QED
          BY <3>2, <5>1, <5>2
      <4>2. QED
        BY <2>1, <3>2, <4>1, FirstAppended
    <3>3. CASE /\ i2c_tail % 2 = 0 /\ Len(heard) = 1
               /\ TWDR = Data(heard[1].frame)
      <4>2. heard[1].what = "direction"
        BY <3>1, <3>3 DEF IrisInv, WireInv, Whole
      <4>3. heard' = Append(heard, TWDR)
        BY <1>1, <3>3
      <4>4. Len(heard') = 2 /\ heard'[1] = heard[1] /\ heard'[2] = TWDR
        BY <2>1, <3>3, <4>3, SecondAppended
      <4>5. QED
        BY <3>3, <4>2, <4>4
    <3>4. QED
      BY <1>1, <3>1, <3>2, <3>3 DEF IrisInv, WireInv
  <2>4. ~torn' => Whole(heard')
    BY <2>3 DEF Whole
  <2>5. /\ TWDR' \in Bytes
        /\ unit' = "byte" /\ TWSR' # "none" /\ TWSR' # "0x08"
        /\ TWSR' = "0x38" => torn'
    BY <1>1, <2>1
  <2>6. TWSR' \in {"0x28", "0x30"} /\ ~torn' =>
          \/ /\ i2c_tail' % 2 = 1 /\ Len(heard') = 1 /\ heard'[1] = First'
             /\ First'.what = "direction"
          \/ i2c_tail' % 2 = 0 /\ Len(heard') = 2
    BY <1>2, <2>3
  <2>7. QED
    BY <2>2, <2>4, <2>5, <2>6 DEF WireInv
<1>5. QED
  BY <1>2, <1>3, <1>4 DEF IrisInv

(* The interrupt routine where it takes nothing from the ring.             *)
LEMMA InterruptKeeps ==
  ASSUME IrisInv, SendAddress \/ LostArbitration \/ ReceiveByte \/ OtherStatus
  PROVE  IrisInv'
<1>1. UNCHANGED <<ring, reports, torn, heard>> /\ TWSR' = "none"
  BY DEF SendAddress, LostArbitration, ReceiveByte, OtherStatus, unread, air, ring
<1>2. RingInv' /\ First' = First
  BY <1>1, RingKept DEF IrisInv
<1>3. unit' \in {"address", "free", "slave"}
  BY DEF SendAddress, LostArbitration, ReceiveByte, OtherStatus, Stop
<1>4. UnitInv'
  BY <1>1, <1>3 DEF IrisInv, UnitInv
<1>5. TWDR' \in Bytes /\ (unit' = "address" => Len(heard) = 0)
  <2>1. CASE SendAddress
    BY <2>1 DEF IrisInv, WireInv, SendAddress, Nothing, Bytes
  <2>2. CASE LostArbitration \/ ReceiveByte \/ OtherStatus
    BY <2>2 DEF IrisInv, WireInv, LostArbitration, ReceiveByte, OtherStatus, Stop
  <2>3. QED
    BY <2>1, <2>2
<1>6. ~torn => unit # "byte"
  BY DEF IrisInv, UnitInv, WireInv, SendAddress, LostArbitration, ReceiveByte, OtherStatus
<1>7. WireInv'
  BY <1>1, <1>3, <1>5, <1>6 DEF IrisInv, WireInv, Whole, ring
<1>8. QED
  BY <1>2, <1>4, <1>7 DEF IrisInv

(* The end of a transfer: the ring is left at the beginning of a frame.    *)
LEMMA EndKeeps ==
  ASSUME IrisInv, RingInv', Stop, TWSR' = "none", UNCHANGED <<heard, torn, TWDR>>,
         ~torn => i2c_tail' % 2 = 0
  PROVE  IrisInv'
<1>1. unit' = "free"
  BY DEF Stop
<1>2. UnitInv'
  BY <1>1 DEF UnitInv
<1>3. WireInv'
  BY <1>1 DEF IrisInv, WireInv, Whole
<1>4. QED
  BY <1>2, <1>3 DEF IrisInv

LEMMA RefusalKeeps ==
  ASSUME IrisInv, RefusedAddress \/ RefusedByte
  PROVE  IrisInv'
<1>1. /\ UNCHANGED <<i2c_buffer, i2c_head, reports, torn, heard, TWDR>>
      /\ TWSR' = "none" /\ Stop
  BY DEF RefusedAddress, RefusedByte, unread, air
<1>2. /\ Count \in Nat /\ i2c_tail \in Nat
      /\ Count % 2 = i2c_tail % 2 /\ Count % 2 \in 0 .. 1 /\ Count % 2 <= Count
  <2>1. Count \in Nat /\ i2c_tail \in Nat /\ Count % 2 = i2c_tail % 2
    BY Counted, RingSize DEF IrisInv, RingInv, Slots
  <2>2. QED
    BY <2>1
<1>3. RingInv' /\ (~torn => i2c_tail' % 2 = 0)
  <2>1. CASE RefusedAddress /\ Count >= 2
    <3> DEFINE n == 2 - (Count % 2)
    <3>1. n \in 0 .. 2 /\ n <= Count /\ (i2c_tail + n) % 2 = 0
      BY <1>2, <2>1
    <3>2. i2c_tail' = After(n)
      BY <2>1 DEF RefusedAddress
    <3> HIDE DEF n
    <3>3. QED
      BY <1>1, <3>1, <3>2, TailMoves DEF IrisInv
  <2>2. CASE RefusedAddress /\ ~(Count >= 2)
    <3>1. UNCHANGED ring /\ unit # "byte"
      BY <1>1, <2>2 DEF RefusedAddress, ring, IrisInv, UnitInv
    <3>2. QED
      BY <1>1, <3>1, RingKept DEF IrisInv, WireInv, ring
  <2>3. CASE RefusedByte
    <3> DEFINE n == Count % 2
    <3>1. n \in 0 .. 2 /\ n <= Count /\ (i2c_tail + n) % 2 = 0
      BY <1>2
    <3>2. i2c_tail' = After(n)
      BY <2>3 DEF RefusedByte
    <3> HIDE DEF n
    <3>3. QED
      BY <1>1, <3>1, <3>2, TailMoves DEF IrisInv
  <2>4. QED
    BY <2>1, <2>2, <2>3
<1>4. QED
  BY <1>1, <1>3, EndKeeps

(* The next byte goes out, or the transfer ends.                           *)
LEMMA SendByteKeeps ==
  ASSUME IrisInv, SendByte
  PROVE  IrisInv'
<1>1. /\ UNCHANGED <<i2c_buffer, i2c_head, reports, torn, heard>>
      /\ TWSR' = "none" /\ TWSR \in {"0x18", "0x28"}
  BY DEF SendByte, unread, air
<1>2. /\ Count \in Nat /\ i2c_tail \in Nat /\ i2c_tail < MAX_BUFFER_LEN
      /\ MAX_BUFFER_LEN \in Nat /\ MAX_BUFFER_LEN % 2 = 0
      /\ Count % 2 = i2c_tail % 2
  BY Counted, RingSize DEF IrisInv, RingInv, Slots
<1>3. CASE Count > 0
  <2>1. TWDR' = i2c_buffer[i2c_tail] /\ i2c_tail' = After(1) /\ unit' = "byte"
    BY <1>3 DEF SendByte
  <2>2. /\ RingInv' /\ i2c_tail' % 2 = (i2c_tail + 1) % 2
        /\ i2c_tail' = IF i2c_tail + 1 < MAX_BUFFER_LEN THEN i2c_tail + 1
                                                       ELSE i2c_tail + 1 - MAX_BUFFER_LEN
    <3>1. 1 \in 0 .. 2 /\ 1 <= Count
      BY <1>2, <1>3
    <3>2. QED
      BY <1>1, <2>1, <3>1, TailMoves DEF IrisInv
  <2>3. UnitInv'
    BY <1>1, <2>1 DEF UnitInv
  <2>4. i2c_buffer[i2c_tail] \in Bytes /\ i2c_buffer[i2c_tail].what # "nothing"
    <3>1. i2c_head \in Nat /\ i2c_head < MAX_BUFFER_LEN
      BY RingSize DEF IrisInv, RingInv, Slots
    <3>2. Taken(i2c_tail)
      BY <1>2, <1>3, <3>1, Counted DEF Taken, IrisInv
    <3>3. QED
      BY <3>2 DEF IrisInv, RingInv
  <2>5. ASSUME ~torn
        PROVE  \/ /\ i2c_tail' % 2 = 1 /\ TWDR' = First' /\ First'.what = "direction"
                  /\ Len(heard) = 0 \/ Len(heard) = 2
               \/ /\ i2c_tail' % 2 = 0 /\ Len(heard) = 1
                  /\ TWDR' = Data(heard[1].frame)
    <3>1. CASE i2c_tail % 2 = 0
      <4>1. i2c_tail' % 2 = 1 /\ i2c_tail' - 1 = i2c_tail
        BY <1>2, <2>2, <3>1
      <4>2. i2c_buffer[i2c_tail].what = "direction"
        BY <2>4, <3>1 DEF IrisInv, RingInv
      <4>3. Len(heard) = 0 \/ Len(heard) = 2
        BY <1>1, <2>5, <3>1 DEF IrisInv, UnitInv, WireInv
      <4>4. QED
        BY <1>1, <2>1, <4>1, <4>2, <4>3 DEF First
    <3>2. CASE i2c_tail % 2 = 1
      <4>1. Len(heard) = 1 /\ heard[1] = First /\ First.what = "direction"
        BY <1>1, <2>5, <3>2 DEF IrisInv, UnitInv, WireInv
      <4>2. i2c_tail - 1 \in Slots /\ (i2c_tail - 1) % 2 = 0
        BY <1>2, <3>2 DEF Slots
      <4>3. i2c_buffer[i2c_tail - 1 + 1] = Data(First.frame)
        BY <4>1, <4>2 DEF IrisInv, RingInv, First
      <4>4. i2c_tail - 1 + 1 = i2c_tail /\ i2c_tail' % 2 = 0
        BY <1>2, <2>2, <3>2
      <4>5. QED
        BY <2>1, <4>1, <4>3, <4>4
    <3>3. QED
      BY <1>2, <3>1, <3>2
  <2>6. heard' = heard /\ torn' = torn /\ TWDR' \in Bytes
    BY <1>1, <2>1, <2>4
  <2>7. WireInv'
    BY <1>1, <2>1, <2>5, <2>6 DEF IrisInv, WireInv, Whole
  <2>8. QED
    BY <2>2, <2>3, <2>7 DEF IrisInv
<1>4. CASE ~(Count > 0)
  <2>1. Stop /\ UNCHANGED <<TWDR, i2c_tail>>
    BY <1>4 DEF SendByte
  <2>2. i2c_tail' % 2 = 0
    BY <1>2, <1>4, <2>1
  <2>3. RingInv'
    BY <1>1, <2>1, RingKept DEF IrisInv, ring
  <2>4. QED
    BY <1>1, <2>1, <2>2, <2>3, EndKeeps
<1>5. QED
  BY <1>3, <1>4

LEMMA NextIris == IrisInv /\ [Next]_vars => IrisInv'
<1> SUFFICES ASSUME IrisInv, [Next]_vars PROVE IrisInv'
  OBVIOUS
<1>1. CASE \E symbols \in [Channels -> 0 .. 3] : Receive(symbols)
  BY <1>1, ReceiveKeeps
<1>2. CASE MainLoop \/ Stopped \/ UNCHANGED vars
  BY <1>2, MainLoopKeeps
<1>3. CASE Started \/ AddressAnswered \/ Addressed \/ SlaveByte
  BY <1>3, UnitKeeps
<1>4. CASE ByteAnswered
  BY <1>4, ByteAnsweredKeeps
<1>5. CASE SendAddress \/ LostArbitration \/ ReceiveByte \/ OtherStatus
  BY <1>5, InterruptKeeps
<1>6. CASE RefusedAddress \/ RefusedByte
  BY <1>6, RefusalKeeps
<1>7. CASE SendByte
  BY <1>7, SendByteKeeps
<1>8. QED
  BY <1>1, <1>2, <1>3, <1>4, <1>5, <1>6, <1>7 DEF Next, Unit, SIG_TWI

-----------------------------------------------------------------------------
(* Theorems.                                                               *)

(* The ring keeps its frames together, whatever is refused, lost or run    *)
(* over, and the unit's status agrees with what it does.                   *)
THEOREM RingAligned == Spec => []IrisInv
BY InitIris, NextIris, PTL DEF Spec

(* The bytes on the wire are whole frames, unless one was cut (the drops   *)
(* of SIG_TWI keep the ring aligned).                                      *)
THEOREM FramesWhole == Spec => []FramesStayWhole
<1>1. IrisInv => FramesStayWhole
  <2> SUFFICES ASSUME IrisInv, ~torn
               PROVE  /\ heard # <<>> => heard[1].what = "direction"
                      /\ Len(heard) = 2 => heard[2] = Data(heard[1].frame)
    BY DEF FramesStayWhole
  <2>1. heard \in Seq(Bytes) /\ Whole(heard)
    BY DEF IrisInv, WireInv
  <2>2. Len(heard) \in Nat /\ (heard # <<>> => Len(heard) # 0)
    BY <2>1, EmptySeq, LenProperties
  <2>3. QED
    BY <2>1, <2>2 DEF Whole
<1>2. QED
  BY <1>1, RingAligned, PTL
=============================================================================
