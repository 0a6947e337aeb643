-------------------------------- MODULE HipriInt --------------------------------
(***************************************************************************)
(* The driver of the alert line between the body and the brain             *)
(* (src/robot/sw/code/sos-1.x/modules/hardware/micax/hipri_int), with the  *)
(* alert register it reads over I2C: a port expander behind a flip-flop    *)
(* that keeps an alert until it is reset.  The expander pulls the          *)
(* interrupt line while its inputs differ from what was last read.         *)
(***************************************************************************)
EXTENDS SosI2C, Naturals, SequencesExt

CONSTANTS MAXREGMOD,   \* modules that can be registered
          MaxAlerts    \* bound: alerts of the body

ASSUME AlertsAssumption == MAXREGMOD \in Nat \ {0} /\ MaxAlerts \in Nat

VARIABLES
  state,       \* hipri_int_state_t.state
  i2c_packet,  \* what i2c_packet holds: "config", "low", "high", "request"
  registered,  \* registered_modules, in their order
  timer,       \* the back-off timer runs
  deciding,    \* MSG_I2C_SEND_DONE has found RESET_REG2, and is yet to assign
  overlooked,  \* history: interrupt 7 has come when nothing looks at it again
  int7,        \* the flag of interrupt 7
  latch,       \* the flip-flop of the alert
  seen,        \* its value when the input register was last read
  released,    \* the reset output is high
  pointer,     \* register the next read returns
  alerts       \* alerts so far

driver == <<state, i2c_packet, timer, deciding>>
register == <<latch, seen, released, pointer>>
hipriVars == <<driver, overlooked, registered, int7, register, alerts>>

HipriInit ==
  /\ state = "INIT" /\ i2c_packet = "config" /\ timer = FALSE /\ deciding = FALSE
  /\ overlooked = FALSE /\ int7 = FALSE
  /\ latch \in BOOLEAN /\ seen = latch /\ released = TRUE /\ pointer = "input"
  /\ alerts = 0

-----------------------------------------------------------------------------
(* The alert register.                                                      *)

\* A falling edge of the interrupt line.
Falls(l, s) == int7' = (int7 \/ (latch = seen /\ l # s))

\* The body pulls irman_hi: the flip-flop takes it unless it is being reset.
Alert ==
  /\ alerts < MaxAlerts
  /\ alerts' = alerts + 1
  /\ latch' = (latch \/ released)
  /\ Falls(latch', seen)
  /\ UNCHANGED <<driver, overlooked, registered, seen, released, pointer>>

\* The bytes of the driver's packet reach the expander.
WriteRegister ==
  /\ i2c = Transfer("hipri", "send")
  /\ i2c' = [i2c EXCEPT !.stage = "end"]
  /\ pointer' = CASE i2c_packet = "config"  -> "config"
                  [] i2c_packet = "request" -> "input"
                  [] OTHER                  -> "output"
  /\ released' = CASE i2c_packet = "low"  -> FALSE
                   [] i2c_packet = "high" -> TRUE
                   [] OTHER               -> released
  /\ latch' = (latch /\ released')
  /\ Falls(latch', seen)
  /\ UNCHANGED <<driver, overlooked, registered, seen, alerts, queue>>

\* The end of a write: the bus is free, the driver is told.
WriteDone ==
  /\ i2c = [Transfer("hipri", "send") EXCEPT !.stage = "end"]
  /\ i2c' = Idle
  /\ queue' = Append(queue, Message("hipri", "MSG_I2C_SEND_DONE", ""))
  /\ UNCHANGED hipriVars

\* Bit 0 of the register read; the output and configuration registers have it
\* set.  Reading the input register releases the interrupt line.
ReadRegister ==
  /\ i2c = Transfer("hipri", "read")
  /\ i2c' = Idle
  /\ queue' = Append(queue, Message("hipri", "MSG_I2C_READ_DONE",
                      IF pointer = "input" /\ ~latch THEN "clear" ELSE "alert"))
  /\ seen' = IF pointer = "input" THEN latch ELSE seen
  /\ UNCHANGED <<driver, overlooked, registered, int7, latch, released, pointer, alerts>>

-----------------------------------------------------------------------------
(* The driver.                                                              *)

\* ker_i2c_send_data or ker_i2c_read_data; when the bus is taken, the back-off
\* timer is started.
Try(kind) ==
  IF Busy THEN timer' = TRUE /\ UNCHANGED i2c
          ELSE i2c' = Transfer("hipri", kind) /\ UNCHANGED timer

\* Go to state s by sending packet p.
Send(s, p) == state' = s /\ i2c_packet' = p /\ Try("send")

\* hipri_int_broadcast.
Broadcast == [k \in DOMAIN registered |->
                Message(registered[k], "MSG_HIPRI_INT", "")]

\* hipri_int_register, called by other modules: a full table refuses.
RegisterIn(pid) == registered' = IF Len(registered) = MAXREGMOD
                                 THEN registered ELSE Append(registered, pid)

\* hipri_int_deregister: the first entry of pid goes.
DeregisterFrom(pid) ==
  \/ pid \notin Range(registered) /\ UNCHANGED registered
  \/ \E k \in DOMAIN registered :
       /\ registered[k] = pid /\ \A j \in 1 .. k - 1 : registered[j] # pid
       /\ registered' = RemoveAt(registered, k)

\* MSG_INIT.
StartDriver ==
  /\ Next_is("hipri", "MSG_INIT")
  /\ Dispatch(<<>>)
  /\ Send("INIT", "config")
  /\ UNCHANGED <<deciding, overlooked, registered, int7, register, alerts>>

SendDone ==
  /\ ~deciding /\ Next_is("hipri", "MSG_I2C_SEND_DONE")
  /\ Dispatch(<<>>)
  /\ \/ state = "INIT" /\ Send("RESET_REG1", "low") /\ UNCHANGED deciding
     \/ state = "RESET_REG1" /\ Send("REQUEST_READ", "request") /\ UNCHANGED deciding
     \/ /\ state = "REQUEST_READ"
        /\ state' = "READ_REGISTER" /\ Try("read")
        /\ UNCHANGED <<i2c_packet, deciding>>
     \/ /\ state = "RESET_REG2"
        /\ deciding' = TRUE
        /\ UNCHANGED <<state, i2c_packet, timer, i2c>>
     \/ /\ state \in {"IDLE", "READ_REGISTER"}
        /\ UNCHANGED <<driver, i2c>>
  /\ UNCHANGED <<overlooked, registered, int7, register, alerts>>

\* ... and the assignment that follows the test for RESET_REG2; interrupts are on.
BackToIdle ==
  /\ deciding
  /\ deciding' = FALSE /\ state' = "IDLE"
  /\ UNCHANGED <<i2c_packet, timer, overlooked, registered, int7, register, alerts, queue, i2c>>

\* Mutant: a read that finds the flip-flop clear ends the sequence.
ReadDoneAtRest ==
  /\ ~deciding /\ Next_is("hipri", "MSG_I2C_READ_DONE")
  /\ IF Head(queue).data = "alert"
     THEN queue' = Broadcast \o Tail(queue) /\ Send("RESET_REG1", "low")
     ELSE Dispatch(<<>>) /\ state' = "IDLE" /\ UNCHANGED <<i2c_packet, timer, i2c>>
  /\ UNCHANGED <<deciding, overlooked, registered, int7, register, alerts>>

\* MSG_I2C_READ_DONE: an alert is broadcast, ahead of other messages, and the
\* flip-flop reset until a read finds it clear.
ReadDone ==
  /\ ~deciding /\ Next_is("hipri", "MSG_I2C_READ_DONE")
  /\ IF Head(queue).data = "alert"
     THEN queue' = Broadcast \o Tail(queue) /\ Send("RESET_REG1", "low")
     ELSE Dispatch(<<>>) /\ Send("RESET_REG2", "high")
  /\ UNCHANGED <<deciding, overlooked, registered, int7, register, alerts>>

\* The back-off timer expires.
TimerExpires ==
  /\ timer /\ timer' = FALSE
  /\ queue' = Append(queue, Message("hipri", "MSG_TIMER_TIMEOUT", ""))
  /\ UNCHANGED <<state, i2c_packet, deciding, overlooked, registered, int7, register, alerts, i2c>>

Timeout ==
  /\ ~deciding /\ Next_is("hipri", "MSG_TIMER_TIMEOUT")
  /\ Dispatch(<<>>)
  /\ Try(IF state = "READ_REGISTER" THEN "read" ELSE "send")
  /\ UNCHANGED <<state, i2c_packet, deciding, overlooked, registered, int7, register, alerts>>

\* A state in which the interrupt routine and what follows look no more: between the
\* test for RESET_REG2 and the assignment, and when a read that found the flip-flop
\* clear is yet to be told.
NotLookedAt == deciding \/ \E k \in DOMAIN queue : queue[k].data = "clear"

\* Mutant: the interrupt counts only when the driver is idle.
Interrupt7WhenIdle ==
  /\ int7 /\ int7' = FALSE
  /\ overlooked' = (overlooked \/ NotLookedAt)
  /\ IF state = "IDLE"
     THEN Send("REQUEST_READ", "request")
     ELSE UNCHANGED <<state, i2c_packet, timer, i2c>>
  /\ UNCHANGED <<deciding, registered, register, alerts, queue>>

\* SIG_INTERRUPT7, between any two steps of the rest.
Interrupt7 ==
  /\ int7 /\ int7' = FALSE
  /\ overlooked' = (overlooked \/ NotLookedAt)
  /\ IF state \in {"IDLE", "RESET_REG2"}
     THEN Send("REQUEST_READ", "request")
     ELSE UNCHANGED <<state, i2c_packet, timer, i2c>>
  /\ UNCHANGED <<deciding, registered, register, alerts, queue>>

Handlers == StartDriver \/ SendDone \/ BackToIdle \/ ReadDone \/ Timeout
Bus == WriteRegister \/ WriteDone \/ ReadRegister
HipriStep == Handlers \/ Bus \/ TimerExpires \/ Interrupt7
=============================================================================
