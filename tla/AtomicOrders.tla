----------------------------- MODULE AtomicOrders -----------------------------
(***************************************************************************)
(* A store of orders with nothing in between: a call is answered in one    *)
(* step, and the answer is true of the order at that moment.  "ok" means   *)
(* that the call moves the order in this very step, "notFound" and         *)
(* "invalid" that the order is missing, or cannot make the move; only      *)
(* after "error" the order may have moved or not.                          *)
(***************************************************************************)
EXTENDS OrderDomain

CONSTANTS Calls, Orders

VARIABLES status,   \* status of each order
          answer    \* what a call was told, of which order and which move

Unanswered == <<>>

Init ==
  /\ status = [o \in Orders |-> NoOrder]
  /\ answer = [c \in Calls |-> Unanswered]

Answer(c, verdict, o, t) ==
  /\ answer[c] = Unanswered
  /\ answer' = [answer EXCEPT ![c] = <<verdict, o, t>>]

\* The creation of an order, or a move of its life cycle.
Legal(s, t) == (s = NoOrder /\ t = "PENDING") \/ CanTransitionTo(s, t)

Move(o, t) == Legal(status[o], t) /\ status' = [status EXCEPT ![o] = t]

Succeed(c, o, t) == Answer(c, "ok", o, t) /\ Move(o, t)

Fail(c, o, t) == Answer(c, "error", o, t) /\ (Move(o, t) \/ UNCHANGED status)

FindNothing(c, o, t) ==
  /\ status[o] = NoOrder
  /\ Answer(c, "notFound", o, t)
  /\ UNCHANGED status

Refuse(c, o, t) ==
  /\ status[o] # NoOrder /\ ~ CanTransitionTo(status[o], t)
  /\ Answer(c, "invalid", o, t)
  /\ UNCHANGED status

Next ==
  \E c \in Calls, o \in Orders, t \in Statuses :
    Succeed(c, o, t) \/ Fail(c, o, t) \/ FindNothing(c, o, t) \/ Refuse(c, o, t)

Spec == Init /\ [][Next]_<<status, answer>>
===============================================================================
