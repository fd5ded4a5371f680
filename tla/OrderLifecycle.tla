---------------------------- MODULE OrderLifecycle ----------------------------
(***************************************************************************)
(* What the order store promises, whoever calls it and whatever fails: an  *)
(* order comes into being PENDING, complete, and from then on its status   *)
(* moves along CanTransitionTo, one atomic step at a time.                 *)
(***************************************************************************)
EXTENDS OrderDomain

CONSTANT Orders

VARIABLE status

Init == status = [o \in Orders |-> NoOrder]

Create(o) ==
  /\ status[o] = NoOrder
  /\ status' = [status EXCEPT ![o] = "PENDING"]

Transition(o, t) ==
  /\ CanTransitionTo(status[o], t)
  /\ status' = [status EXCEPT ![o] = t]

Next == \E o \in Orders : Create(o) \/ \E t \in Statuses : Transition(o, t)

Spec == Init /\ [][Next]_status
===============================================================================
