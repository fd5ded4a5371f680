---------------------------- MODULE MCOutboxRelay -----------------------------
(* Two workers, and rows of which the second cannot be sent. *)
EXTENDS OutboxRelay

CONSTANTS w1, w2

MCWorkers == {w1, w2}
MCSkipped == {2}
===============================================================================
