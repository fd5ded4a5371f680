----------------------------- MODULE OrderDomain -----------------------------
(***************************************************************************)
(* internal/order/domain/order.go: the states of an order and the moves    *)
(* between them.  Every module that touches an order's status uses these.  *)
(***************************************************************************)

\* The four values of domain.OrderStatus.
Statuses == {"PENDING", "PAID", "CANCELLED", "COMPLETED"}

\* The status of an id the orders table has no row for.
NoOrder == "none"

\* Order.CanTransitionTo: CANCELLED and COMPLETED are terminal, and so is
\* every string the switch does not name.
CanTransitionTo(from, to) ==
  <<from, to>> \in { <<"PENDING", "PAID">>, <<"PENDING", "CANCELLED">>,
                     <<"PAID", "COMPLETED">>, <<"PAID", "CANCELLED">> }
===============================================================================
