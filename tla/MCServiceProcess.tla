--------------------------- MODULE MCServiceProcess ---------------------------
(* Any of the four processes in turn. *)
EXTENDS ServiceProcess

CONSTANTS svc, m1, r1

MCServices == {svc}
MCMsgs == {m1}
MCReqs == {r1}
===============================================================================
