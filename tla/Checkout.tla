------------------------------- MODULE Checkout -------------------------------
(***************************************************************************)
(* What the order and payment services promise together: an order is made, *)
(* then charged, and becomes PAID at most once and only after a charge.    *)
(* Nothing more can be promised of the number of charges: deliveries are   *)
(* repeated after a failure, and the payment service does not notice.      *)
(***************************************************************************)
EXTENDS OrderDomain, Naturals

CONSTANT Orders

VARIABLES status,    \* status of each order
          charged    \* times the customer has been charged for it

Init ==
  /\ status = [o \in Orders |-> NoOrder]
  /\ charged = [o \in Orders |-> 0]

Place(o) ==
  /\ status[o] = NoOrder
  /\ status' = [status EXCEPT ![o] = "PENDING"]
  /\ UNCHANGED charged

Charge(o) ==
  /\ status[o] # NoOrder
  /\ charged' = [charged EXCEPT ![o] = @ + 1]
  /\ UNCHANGED status

Pay(o) ==
  /\ status[o] = "PENDING"
  /\ charged[o] > 0
  /\ status' = [status EXCEPT ![o] = "PAID"]
  /\ UNCHANGED charged

Next == \E o \in Orders : Place(o) \/ Charge(o) \/ Pay(o)

Spec == Init /\ [][Next]_<<status, charged>>
===============================================================================
