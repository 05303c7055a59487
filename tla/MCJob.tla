-------------------------------- MODULE MCJob --------------------------------
(* Job for TLC: two users who hold the handle, beside producer, worker, Purge. *)
EXTENDS Job

CONSTANTS u1, u2

TwoUsers == {u1, u2}
AllStorages == {"mem", "ack", "plain"}
Acknowledging == {"ack"}
AnyOutcome == {"ok", "fail"}
OnlyOk == {"ok"}
=============================================================================
