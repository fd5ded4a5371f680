----------------------------- MODULE MCOrderRows ------------------------------
(* Two orders made at the same time, with two items and three, an older one  *)
(* without items and a younger one with one; and an id that is not stored.   *)
(* A unit is 14 nanos, and an int32 has room for two units in nanos but not  *)
(* for three, as in the code.                                                *)
EXTENDS Storefront

CONSTANTS p1, p2, good, long, amount

MCIds == 1..5
MCStored == 1..4
MCItemsOf == <<{11, 12}, {21, 22, 23}, {}, {41}>>
MCItems == {11, 12, 21, 22, 23, 41}
MCCreatedAt == <<2, 2, 1, 3>>

Free(q) == [quantity |-> q, units |-> 0, nanos |-> 0]
Cost(q, u, m) == [quantity |-> q, units |-> u, nanos |-> m]

\* Without a price as the handler calls, then around a carry, at the greatest
\* int64 and beyond it.
MCLines == {Free(1), Free(31), Free(32), Cost(1, 0, 13), Cost(1, 0, 1), Cost(3, 0, 13), Cost(2, 1, 7),
            Cost(1, 36, 7), Cost(3, 36, 7)}
MCCarts ==
  {<<>>} \cup {<<a>> : a \in MCLines} \cup {<<a, b>> : a, b \in MCLines}
    \cup {<<a, a, b>> : a \in {Cost(1, 0, 13)}, b \in {Free(1), Cost(2, 1, 7), Cost(1, 0, 13)}}

MCProducts == {p1, p2}
MCNames == {good, long}
MCPrices == {amount}
MCTooLong == {long}
MCCurrencies == {"IDR", "USD"}

\* The two parts share no state: one at a time is enough.
MCNext ==
  \/ ValuesNext /\ UNCHANGED catalogVars /\ shown = [p \in Products |-> Absent]
       /\ catalog = shown /\ mishaps = 0
  \/ CatalogNext /\ UNCHANGED valueVars /\ stage = "call" /\ pos = 0

MCSpec == StorefrontInit /\ [][MCNext]_<<valueVars, catalogVars>>
===============================================================================
