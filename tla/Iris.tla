---------------------------------- MODULE Iris ----------------------------------
(***************************************************************************)
(* The lower processor of the infrared receiver                            *)
(* (src/robot/sw/code/IRIS/LOWER): it assembles the symbols of its         *)
(* channels into bytes, puts a frame of two bytes, the channels and the    *)
(* byte, in a ring, and sends frames to another processor of the robot as  *)
(* a master of the I2C bus.  The ring is filled by the interrupt of the    *)
(* serial line, emptied by that of the I2C unit, and looked at by the main *)
(* loop; other masters of the bus may address this processor at any time.  *)
(***************************************************************************)
EXTENDS Integers, Sequences, FiniteSetsExt

CONSTANTS
  NUM__OF_CHANNELS,  \* of the seven, those in the byte of the symbols received last
  BITS,              \* bits of a byte on the air (8)
  MAX_BUFFER_LEN,    \* slots of the ring (250)
  MaxReports,        \* bound: frames put in the ring
  MaxFaults          \* bound: refusals, lost arbitrations, commands of other masters

ASSUME IrisAssumption ==
  /\ NUM__OF_CHANNELS \in 1 .. 4 /\ BITS \in Nat \ {0}
  /\ MAX_BUFFER_LEN \in Nat \ {0} /\ MAX_BUFFER_LEN % 2 = 0
  /\ MaxReports \in Nat /\ MaxFaults \in Nat

VARIABLES
  channel,                     \* per channel: p_state and p_count
  i2c_buffer, i2c_head, i2c_tail,
  i2c_state,                   \* "IDLE" or "BUSY"
  TWCR,                        \* its bits: sta and sto, a START or a STOP is asked for; ea, acknowledge
  TWSR,                        \* the status that awaits the interrupt routine, or "none"
  TWDR,                        \* the byte being sent
  unit,                        \* what the I2C unit is in: "free", "address", "byte", "slave"
  pc, seen,                    \* where the main loop is; the head it has read
  heard,                       \* bytes of the frame under way that are on the wire
  reports, faults,             \* counted for the bounds
  torn,                        \* history: a frame was cut: arbitration was lost within it, or
                               \* the ring ran over into it
  forgotten                    \* history: a START asked for was forgotten

ring  == <<i2c_buffer, i2c_head, i2c_tail>>
main  == <<pc, seen>>
wire  == <<TWSR, TWDR, unit, heard>>
air   == <<channel, reports>>
vars  == <<air, ring, i2c_state, TWCR, wire, main, faults, torn, forgotten>>

Channels == 0 .. NUM__OF_CHANNELS - 1

\* The two bytes of the n-th frame put in the ring.
Direction(n) == [what |-> "direction", frame |-> n]
Data(n)      == [what |-> "data", frame |-> n]
Nothing      == [what |-> "nothing", frame |-> 0]

Init ==
  /\ channel = [c \in Channels |-> [state |-> "S0", count |-> 0]]
  /\ i2c_buffer = [i \in 0 .. MAX_BUFFER_LEN - 1 |-> Nothing]
  /\ i2c_head = 0 /\ i2c_tail = 0 /\ i2c_state = "IDLE"
  /\ TWCR = [sta |-> FALSE, sto |-> FALSE, ea |-> TRUE]
  /\ TWSR = "none" /\ TWDR = Nothing /\ unit = "free" /\ heard = <<>>
  /\ pc = "count" /\ seen = 0
  /\ reports = 0 /\ faults = 0
  /\ torn = FALSE /\ forgotten = FALSE

-----------------------------------------------------------------------------
(* The ring, as its functions leave it.                                     *)

i2c_count(head, tail) == (head - tail) % MAX_BUFFER_LEN
Count == i2c_count(i2c_head, i2c_tail)

\* The tail after n bytes have been taken.
After(n) == (i2c_tail + n) % MAX_BUFFER_LEN

\* Two bytes are put in, with interrupts off; nothing keeps them from running over
\* those that have not been sent.
EnqueueFrame(first, second) ==
  LET next == (i2c_head + 1) % MAX_BUFFER_LEN
  IN  /\ i2c_buffer' = [i2c_buffer EXCEPT ![i2c_head] = first, ![next] = second]
      /\ i2c_head' = (i2c_head + 2) % MAX_BUFFER_LEN
      /\ torn' = (torn \/ Count = MAX_BUFFER_LEN - 1)

-----------------------------------------------------------------------------
(* The symbols of the air.                                                  *)

SYM_0_Q == 1
SYM_1_Q == 2
SYM_START_Q == 3

\* The upper processor packs a symbol of two bits per channel into a byte ...
Packed(symbols) == SumSet({symbols[c] * 4^c : c \in Channels})

\* ... and here the byte is shifted by one bit per channel.
iris_unpack(position, datain) == (datain \div 2^position) % 4

\* iris_byte_assembly, on symbol s: a START begins a byte, anything but a bit ends it,
\* and so does its last bit.
iris_byte_assembly(ch, s) ==
  IF s = SYM_START_Q THEN [state |-> "S2", count |-> 0]
  ELSE IF ch.state = "S2" /\ s \in {SYM_0_Q, SYM_1_Q} /\ ch.count + 1 < BITS
       THEN [ch EXCEPT !.count = @ + 1]
       ELSE [state |-> "S0", count |-> 0]

\* The channels that complete a byte with these symbols.
Complete(symbol) == {c \in Channels : /\ channel[c].state = "S2" /\ channel[c].count + 1 = BITS
                                      /\ symbol[c] \in {SYM_0_Q, SYM_1_Q}}

\* USRT_DATA_RX_ISR: one frame names all the channels that complete a byte, and has the
\* byte of the lowest of them.
Receive(symbols) ==
  LET symbol == [c \in Channels |-> iris_unpack(c, Packed(symbols))]
  IN  /\ channel' = [c \in Channels |-> iris_byte_assembly(channel[c], symbol[c])]
      /\ IF Complete(symbol) = {} THEN UNCHANGED <<ring, torn, reports>>
         ELSE /\ reports < MaxReports /\ reports' = reports + 1
              /\ EnqueueFrame(Direction(reports'), Data(reports'))
              /\ UNCHANGED i2c_tail
      /\ UNCHANGED <<i2c_state, TWCR, wire, main, faults, forgotten>>

-----------------------------------------------------------------------------
(* The main loop; an interrupt that waits is taken first.                   *)

unmoved == <<air, ring, wire, faults, torn, forgotten>>

\* i2c_count reads the head ...
ReadHead ==
  /\ pc = "count" /\ TWSR = "none"
  /\ seen' = i2c_head /\ pc' = "compare"
  /\ UNCHANGED <<unmoved, i2c_state, TWCR>>

\* ... and then the tail.
ReadTail ==
  /\ pc = "compare" /\ TWSR = "none"
  /\ pc' = IF i2c_count(seen, i2c_tail) > 0 THEN "send" ELSE "count"
  /\ UNCHANGED <<unmoved, i2c_state, TWCR, seen>>

\* I2C_send.
Send ==
  /\ pc = "send" /\ TWSR = "none"
  /\ IF i2c_state = "IDLE" /\ ~TWCR.sto THEN i2c_state' = "BUSY" /\ pc' = "start"
                                       ELSE pc' = "count" /\ UNCHANGED i2c_state
  /\ UNCHANGED <<unmoved, TWCR, seen>>

\* ... and its write of TWCR.
SendStart ==
  /\ pc = "start" /\ TWSR = "none"
  /\ TWCR' = [sta |-> TRUE, sto |-> FALSE, ea |-> TRUE] /\ pc' = "count"
  /\ UNCHANGED <<unmoved, i2c_state, seen>>

-----------------------------------------------------------------------------
(* The bus: the unit finishes what it does, and raises the interrupt.       *)

still == <<air, ring, i2c_state, main>>

\* The bus is free, and the START asked for goes out.
Started ==
  /\ TWSR = "none" /\ unit = "free" /\ TWCR.sta
  /\ TWSR' = "0x08" /\ heard' = <<>>
  /\ UNCHANGED <<still, TWCR, TWDR, unit, faults, torn, forgotten>>

Stopped ==
  /\ TWSR = "none" /\ TWCR.sto /\ TWCR' = [TWCR EXCEPT !.sto = FALSE]
  /\ UNCHANGED <<still, wire, faults, torn, forgotten>>

\* An answer that is not an acknowledgement is a fault.
Fault(answer, good) ==
  IF answer = good THEN UNCHANGED faults ELSE faults < MaxFaults /\ faults' = faults + 1

\* The receiver acknowledges its address or not, or arbitration is lost.
AddressAnswered ==
  /\ TWSR = "none" /\ unit = "address"
  /\ TWSR' \in {"0x18", "0x20", "0x38"} /\ Fault(TWSR', "0x18")
  /\ UNCHANGED <<still, TWCR, TWDR, unit, heard, torn, forgotten>>

\* The same for a byte of data.
ByteAnswered ==
  /\ TWSR = "none" /\ unit = "byte"
  /\ TWSR' \in {"0x28", "0x30", "0x38"} /\ Fault(TWSR', "0x28")
  /\ heard' = IF Len(heard) = 2 THEN <<TWDR>> ELSE Append(heard, TWDR)
  /\ torn' = (torn \/ TWSR' = "0x38")
  /\ UNCHANGED <<still, TWCR, TWDR, unit, forgotten>>

\* Another master has the bus, and addresses this processor.
Addressed ==
  /\ TWSR = "none" /\ unit = "free" /\ ~TWCR.sto
  /\ faults < MaxFaults /\ faults' = faults + 1
  /\ TWSR' = "0x60" /\ unit' = "slave"
  /\ UNCHANGED <<still, TWCR, TWDR, heard, torn, forgotten>>

\* It sends a byte, or stops.
SlaveByte ==
  /\ TWSR = "none" /\ unit = "slave"
  /\ TWSR' \in {IF TWCR.ea THEN "0x80" ELSE "0x88", "0xA0"}
  /\ UNCHANGED <<still, TWCR, TWDR, unit, heard, faults, torn, forgotten>>

-----------------------------------------------------------------------------
(* The interrupt of the I2C unit, SIG_TWI, by its status.                   *)

Continue == TWCR' = [sta |-> FALSE, sto |-> FALSE, ea |-> TRUE] /\ UNCHANGED i2c_state
Stop     == TWCR' = [sta |-> FALSE, sto |-> TRUE, ea |-> TRUE] /\ i2c_state' = "IDLE" /\ unit' = "free"

unread == <<air, i2c_buffer, i2c_head, main, heard, faults, torn>>

SendAddress ==
  /\ TWSR = "0x08" /\ TWSR' = "none"
  /\ TWDR' = Nothing /\ unit' = "address" /\ Continue
  /\ UNCHANGED <<unread, i2c_tail, forgotten>>

\* The next byte, or the end of the transfer.
SendByte ==
  /\ TWSR \in {"0x18", "0x28"} /\ TWSR' = "none"
  /\ IF Count > 0 THEN /\ TWDR' = i2c_buffer[i2c_tail] /\ i2c_tail' = After(1)
                       /\ unit' = "byte" /\ Continue
                  ELSE Stop /\ UNCHANGED <<TWDR, i2c_tail>>
  /\ UNCHANGED <<unread, forgotten>>

\* Mutant: after a refused address, the unit stays busy.
RefusedAddressStaysBusy ==
  /\ TWSR = "0x20" /\ TWSR' = "none"
  /\ i2c_tail' = IF Count >= 2 THEN After(2 - (Count % 2)) ELSE i2c_tail
  /\ TWCR' = [sta |-> FALSE, sto |-> TRUE, ea |-> TRUE] /\ unit' = "free"
  /\ UNCHANGED <<unread, TWDR, forgotten, i2c_state>>

\* The frame will get old: it is dropped.
RefusedAddress ==
  /\ TWSR = "0x20" /\ TWSR' = "none"
  /\ i2c_tail' = IF Count >= 2 THEN After(2 - (Count % 2)) ELSE i2c_tail
  /\ Stop
  /\ UNCHANGED <<unread, TWDR, forgotten>>

\* Mutant: the rest of the frame is not dropped.
RefusedByteKeepsRest ==
  /\ TWSR = "0x30" /\ TWSR' = "none"
  /\ Stop
  /\ UNCHANGED <<unread, i2c_tail, TWDR, forgotten>>

\* The rest of the frame is dropped.
RefusedByte ==
  /\ TWSR = "0x30" /\ TWSR' = "none"
  /\ i2c_tail' = After(Count % 2)
  /\ Stop
  /\ UNCHANGED <<unread, TWDR, forgotten>>

LostArbitration ==
  /\ TWSR = "0x38" /\ TWSR' = "none"
  /\ i2c_state' = "IDLE" /\ unit' = "free"
  /\ TWCR' = [sta |-> FALSE, sto |-> FALSE, ea |-> TRUE]
  /\ UNCHANGED <<unread, i2c_tail, TWDR, forgotten>>

\* As a slave: two bytes, the second of which is not acknowledged, into a ring that
\* nothing reads.  The write of TWCR forgets a START that was asked for.
ReceiveByte ==
  /\ TWSR \in {"0x60", "0x80", "0x88"} /\ TWSR' = "none"
  /\ TWCR' = [sta |-> FALSE, sto |-> FALSE, ea |-> TWSR # "0x80"]
  /\ unit' = IF TWSR = "0x88" THEN "free" ELSE "slave"
  /\ forgotten' = (forgotten \/ TWCR.sta)
  /\ UNCHANGED <<unread, i2c_tail, TWDR, i2c_state>>

OtherStatus ==
  /\ TWSR = "0xA0" /\ TWSR' = "none"
  /\ Stop
  /\ UNCHANGED <<unread, i2c_tail, TWDR, forgotten>>

SIG_TWI == SendAddress \/ SendByte \/ RefusedAddress \/ RefusedByte \/ LostArbitration
           \/ ReceiveByte \/ OtherStatus

-----------------------------------------------------------------------------
MainLoop == ReadHead \/ ReadTail \/ Send \/ SendStart
Unit == Started \/ Stopped \/ AddressAnswered \/ ByteAnswered \/ SlaveByte

Next == \/ \E symbols \in [Channels -> 0 .. 3] : Receive(symbols)
        \/ MainLoop \/ Unit \/ Addressed \/ SIG_TWI

\* The main loop goes round, the unit finishes what it does, its interrupt is taken.
Spec == Init /\ [][Next]_vars /\ WF_vars(MainLoop) /\ WF_vars(Unit) /\ WF_vars(SIG_TWI)

-----------------------------------------------------------------------------
(* Properties.                                                              *)

\* On the wire, whatever is refused and however the ring runs over, a frame is the
\* channels and the byte that were put in the ring together (ircomm_l.c:368-371 and the
\* drops of SIG_TWI keep the ring aligned), unless one was cut in the middle by a lost
\* arbitration, after which no byte is dropped (i2c.c:269-272), or by an overrun.
FramesStayWhole ==
  ~torn => /\ heard # <<>> => heard[1].what = "direction"
           /\ Len(heard) = 2 => heard[2] = Data(heard[1].frame)

\* What is in the ring is sent or dropped in the end, unless a START was forgotten: it was
\* asked for when another master took the bus to address this processor, and i2c_state
\* stays BUSY (i2c.c:286-301).
ReportsGetOut == Count > 0 ~> Count = 0 \/ forgotten
=============================================================================
