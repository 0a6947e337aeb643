------------------------------- MODULE SosKernel -------------------------------
(***************************************************************************)
(* What the SOS modules of the robot (src/robot/sw/code/sos-1.x/modules)   *)
(* use of the SOS kernel, which is not part of this repository: messages   *)
(* are dispatched one at a time in their order, urgent ones first.         *)
(***************************************************************************)
EXTENDS Sequences

VARIABLE queue  \* messages to be dispatched

Message(to, type, data) == [to |-> to, type |-> type, data |-> data]

\* The message dispatched next.
Next_is(to, type) == queue # <<>> /\ Head(queue).to = to /\ Head(queue).type = type

\* The handler of that message posts msgs.
Dispatch(msgs) == queue' = Tail(queue) \o msgs
=============================================================================
