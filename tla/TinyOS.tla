------------------------------- MODULE TinyOS -------------------------------
(***************************************************************************)
(* The part of the TinyOS 1.x run time that the robot's components rely    *)
(* on and that is not in this repository: the FIFO queue of tasks and the  *)
(* timers of TimerC.                                                       *)
(*                                                                         *)
(* A task runs to completion; only interrupt handlers preempt it.  Events  *)
(* Timer.fired are signalled from a task that TimerC posts when the timer  *)
(* expires, so an expiry waits in the task queue like any other task.  A   *)
(* timer is "off", "armed", or "due" (expired, its task still queued).     *)
(***************************************************************************)
EXTENDS Integers, Sequences

CONSTANT StopCancels
  (* TRUE: stopping or restarting a timer also cancels an expiry that is   *)
  (* already queued.  FALSE: the expiry stays queued and is delivered even *)
  (* though the timer was stopped, as in TimerM of TinyOS 1.x, whose stop  *)
  (* does not look at the queue of timers that have fired.                 *)

ASSUME StopCancelsAssumption == StopCancels \in BOOLEAN

(* The integer types of the processor.                                     *)
Int8  == {n \in Int : -128 <= n /\ n <= 127}
Int16 == {n \in Int : -32768 <= n /\ n <= 32767}
UInt8 == {n \in Nat : n <= 255}

TimerStates == {"off", "armed", "due"}

(* The task t is somewhere in the queue q.                                 *)
Queued(q, t) == \E i \in 1 .. Len(q) : q[i] = t

(* The task t is in the queue q at most once.                              *)
AtMostOnce(q, t) ==
  \A i, j \in 1 .. Len(q) : q[i] = t /\ q[j] = t => i = j

(* Timer.start and Timer.stop on the timers tm.                            *)
TimerStart(tm, id) == [tm EXCEPT ![id] = "armed"]
TimerStop(tm, id)  == [tm EXCEPT ![id] = "off"]

(* The expiry at the head of the queue is signalled to its component.      *)
Delivered(tm, id) == tm[id] = "due" \/ ~StopCancels

(* The timers after the expiry of id has been taken from the queue: a      *)
(* repeating timer runs on, a one-shot timer is off; an expiry left over   *)
(* from before a stop or a restart changes nothing.                        *)
AfterExpiry(tm, id, repeat) ==
  IF tm[id] = "due"
    THEN [tm EXCEPT ![id] = IF repeat THEN "armed" ELSE "off"]
    ELSE tm
=============================================================================
