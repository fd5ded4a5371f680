----------------------------- MODULE AtLeastOnce -----------------------------
(***************************************************************************)
(* What a queue and its consumer promise together: a message accepted      *)
(* stays in the backlog until a handler has given its final word on it,    *)
(* and one final word removes at most one copy.  A word that is forgotten  *)
(* (the connection or the process is gone) leaves the message where it is. *)
(***************************************************************************)
EXTENDS Naturals

CONSTANTS Services, Msgs, None

VARIABLES backlog,   \* backlog[s][m]: copies of m the broker still owes to s
          verdict    \* the message the handler of s has finished with, or None

Init ==
  /\ backlog = [s \in Services |-> [m \in Msgs |-> 0]]
  /\ verdict = [s \in Services |-> None]

Accept(s, m) ==
  /\ backlog' = [backlog EXCEPT ![s][m] = @ + 1]
  /\ UNCHANGED verdict

Decide(s, m) ==
  /\ verdict[s] = None
  /\ verdict' = [verdict EXCEPT ![s] = m]
  /\ UNCHANGED backlog

Remove(s, m) ==
  /\ verdict[s] = m
  /\ backlog[s][m] > 0
  /\ backlog' = [backlog EXCEPT ![s][m] = @ - 1]
  /\ verdict' = [verdict EXCEPT ![s] = None]

Forget(s) ==
  /\ verdict' = [verdict EXCEPT ![s] = None]
  /\ UNCHANGED backlog

Next ==
  \E s \in Services :
    \/ Forget(s)
    \/ \E m \in Msgs : Accept(s, m) \/ Decide(s, m) \/ Remove(s, m)

Spec == Init /\ [][Next]_<<backlog, verdict>>
===============================================================================
