--------------------------- MODULE MotionService ---------------------------
(***************************************************************************)
(* What MotionControl promises to its clients, without drivers and timers: *)
(* one motion at a time, engaged before it ends, and for each motion that  *)
(* is not aborted, and each zero-length one, exactly one moveDone or       *)
(* turnDone, in the order in which the motions ended.                      *)
(***************************************************************************)
EXTENDS Sequences

VARIABLES
  phase,   \* "idle", "starting" or "running"
  motion,  \* the kind of the motion in progress, "none" if there is none
  owed     \* completions not yet signalled to the clients

vars == <<phase, motion, owed>>

Motion == {"move", "turn"}

Init == phase = "idle" /\ motion = "none" /\ owed = <<>>

(* A command of length zero: nothing to do, but the completion is owed.    *)
RequestNothing(k) ==
  phase = "idle" /\ owed' = Append(owed, k) /\ UNCHANGED <<phase, motion>>

Request(k) ==
  phase = "idle" /\ phase' = "starting" /\ motion' = k /\ UNCHANGED owed

Engage ==
  phase = "starting" /\ phase' = "running" /\ UNCHANGED <<motion, owed>>

Complete ==
  /\ phase = "running"
  /\ phase' = "idle"
  /\ motion' = "none"
  /\ owed' = Append(owed, motion)

Abort ==
  phase # "idle" /\ phase' = "idle" /\ motion' = "none" /\ UNCHANGED owed

Signal == owed # <<>> /\ owed' = Tail(owed) /\ UNCHANGED <<phase, motion>>

Next ==
  \/ \E k \in Motion : RequestNothing(k) \/ Request(k)
  \/ Engage \/ Complete \/ Abort \/ Signal

(* A motion accepted ends, and a completion owed is signalled.             *)
Spec == Init /\ [][Next]_vars

FairSpec == Spec /\ WF_vars(Engage) /\ WF_vars(Complete) /\ WF_vars(Signal)
=============================================================================
