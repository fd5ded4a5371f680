----------------------------- MODULE MCOrderStore -----------------------------
(* OrderStore on four concurrent calls. *)
EXTENDS OrderStore

CONSTANTS c1, c2, c3, c4, o1, o2

MCCalls == {c1, c2, c3, c4}
MCOrders == {o1, o2}

\* o1 is made with one item, o2 with two.
MCSize == [o \in Orders |-> IF o = o1 THEN 1 ELSE 2]
===============================================================================
