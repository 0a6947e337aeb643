-------------------------- MODULE ObstacleService --------------------------
(***************************************************************************)
(* What obstacle detection does for its client.  An alarm that was set     *)
(* with a period looks once, and either is raised or is silent from then   *)
(* on: that it looks again at every period, as the comment over the code   *)
(* has it, is not kept and not promised here (KeepsLooking).  An          *)
(* alarm that was set to look only once may be raised, with no more        *)
(* promised.  A map that has been asked for is delivered.                  *)
(***************************************************************************)

VARIABLE service \* "idle", "watching", "silent", "once" or "scanning"

Init == service = "idle"

SetAlarm == service = "idle" /\ service' = "watching"
SetOnce  == service = "idle" /\ service' = "once"
Scan     == service = "idle" /\ service' = "scanning"

Look     == service = "watching" /\ service' \in {"idle", "silent"}
LookOnce == service = "once" /\ service' = "idle"
Ready    == service = "scanning" /\ service' = "idle"

Next == SetAlarm \/ SetOnce \/ Scan \/ Look \/ LookOnce \/ Ready

(* What it never does, and what it does at last.                           *)
Safety == Init /\ [][Next]_service

Spec == Safety /\ WF_service(Look) /\ WF_service(Ready)
=============================================================================
