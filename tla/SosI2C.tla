-------------------------------- MODULE SosI2C --------------------------------
(***************************************************************************)
(* The I2C driver of the SOS kernel, which is not part of this repository: *)
(* it serves one client at a time, refuses the others, reads the client's  *)
(* buffer while it sends, and posts a message at the end.                  *)
(***************************************************************************)
EXTENDS SosKernel

VARIABLE i2c  \* the transfer under way: its client, its kind, its stage

Idle == [client |-> "none", kind |-> "none", stage |-> "none"]
Busy == i2c # Idle

\* A transfer that has been accepted.
Transfer(client, kind) == [client |-> client, kind |-> kind, stage |-> "start"]
=============================================================================
