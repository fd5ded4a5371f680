----------------------------- MODULE MCOrderFlow -----------------------------
(* OrderFlow on one or two orders. *)
EXTENDS OrderFlow

CONSTANTS o1, o2

MCServices == {"order", "payment"}
MCOneOrder == {o1}
MCTwoOrders == {o1, o2}
===============================================================================
