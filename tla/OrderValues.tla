------------------------------ MODULE OrderValues ------------------------------
(***************************************************************************)
(* What becomes of the numbers of an order: from the call of CreateOrder   *)
(* through the sum that PlaceOrder computes, the rows it is stored in and  *)
(* the event that is published of it, to the answer of GetOrder and        *)
(* ListOrders, whose rows OrderRows reads.                                 *)
(*                                                                         *)
(* The gRPC handler, the only caller of PlaceOrder, sets no price, so that *)
(* what it makes is free of charge; PlaceOrder itself takes any price, and *)
(* is modelled for any that is not negative.  A currency only travels      *)
(* along and is left out.                                                  *)
(***************************************************************************)
EXTENDS OrderRows, Integers

CONSTANTS Base,           \* 10^9 nanos are a unit
          Max32, Max64,   \* the greatest int32 and int64
          Carts,          \* the items of a call, one sequence for each call
          MaxItems,       \* bound on their number
          NewId,          \* the uuid that PlaceOrder makes
          NoRow, NoEvent

Int32 == (- Max32 - 1) .. Max32
Int64 == (- Max64 - 1) .. Max64
Money == [units : Int64, nanos : Int32]

\* An order in memory, and what is published of it.
Order == [id : Ids \cup {NewId}, total : Money]

\* An item of a call.  Prices are not negative.
Line == [quantity : Nat, units : Nat, nanos : 0 .. (Base - 1)]

ASSUME ValuesAssumption ==
  /\ Base \in Nat \ {0} /\ Max32 \in Nat /\ Max64 \in Nat
  /\ 2 * Base <= Max32 + 2 /\ Max32 <= Max64
  /\ MaxItems \in Nat /\ \A c \in Carts : c \in Seq(Line)
  /\ NewId \notin Ids

VARIABLES mine,           \* the id the database gives to the order
          rowIds,         \* the ids it gives to the rows of its items
          cart,           \* the items of the call
          stage,          \* how far the call is
          pos,            \* items that are summed up, then items inserted
          total,          \* TotalPrice
          exact, fits,    \* history: the true sum in nanos; int64 was enough for it
          id,             \* order.ID: a new uuid until the row has its own
          orderRow,       \* the total in the row of orders
          itemRows,       \* the rows of order_items
          event           \* what was published: the id and the total

placing == <<mine, rowIds, cart>>
sums == <<total, exact, fits>>
tables == <<orderRow, itemRows>>
placeVars == <<placing, stage, pos, sums, id, tables, event>>
valueVars == <<vars, placeVars>>

Zero == [units |-> 0, nanos |-> 0]

ValuesInit ==
  /\ Init
  /\ mine \in Stored
  /\ \E k \in 0 .. MaxItems :
       /\ cart \in {c \in Carts : Len(c) = k}
       /\ rowIds \in {f \in [1 .. k -> ItemsOf[mine]] : IsInjective(f) /\ Range(f) = ItemsOf[mine]}
  /\ stage = "call" /\ pos = 0
  /\ total = Zero /\ exact = 0 /\ fits = TRUE
  /\ id = NewId
  /\ orderRow = NoRow /\ itemRows = [i \in Items |-> NoRow]
  /\ event = NoEvent

------------------------------------------------------------------------------
(* PlaceOrder *)

\* Two's complement.
Wrap(x, max) == ((x + max + 1) % (2 * max + 2)) - max - 1

\* Go's division rounds towards zero.
Quot(x) == IF x >= 0 THEN x \div Base ELSE - ((- x) \div Base)
Rem(x) == x - Base * Quot(x)

\* price * quantity, in nanos.
Worth(line) == (line.units * Base + line.nanos) * line.quantity

\* Mutated form: one unit in nanos is not carried.
AddLate(t, line) ==
  LET worth == Wrap(Worth(line), Max64)
      units == Wrap(t.units + Quot(worth), Max64)
      nanos == Wrap(t.nanos + Rem(worth), Max32)
  IN IF nanos > Base
       THEN [units |-> Wrap(units + Quot(nanos), Max64), nanos |-> Rem(nanos)]
       ELSE [units |-> units, nanos |-> nanos]

\* The body of the loop.
Add(t, line) ==
  LET worth == Wrap(Worth(line), Max64)
      units == Wrap(t.units + Quot(worth), Max64)
      nanos == Wrap(t.nanos + Rem(worth), Max32)
  IN IF nanos >= Base
       THEN [units |-> Wrap(units + Quot(nanos), Max64), nanos |-> Rem(nanos)]
       ELSE [units |-> units, nanos |-> nanos]

\* OrderHandler.CreateOrder requires at least one item.  With items, the
\* transaction may fail to begin or the order to be inserted.
Refuse ==
  /\ stage = "call" /\ pos = Len(cart)
  /\ stage' = "refused"
  /\ UNCHANGED <<placing, pos, sums, id, tables, event>>

SumUp ==
  /\ stage = "call" /\ cart # <<>> /\ pos < Len(cart)
  /\ pos' = pos + 1
  /\ total' = Add(total, cart[pos'])
  /\ exact' = exact + Worth(cart[pos'])
  /\ fits' = (fits /\ Worth(cart[pos']) <= Max64 /\ exact' \div Base <= Max64)
  /\ UNCHANGED <<placing, stage, id, tables, event>>

------------------------------------------------------------------------------
(* repo.CreateOrder: one transaction, its rows are seen when it has committed *)

\* Mutated form: the id that INSERT returns is not scanned.
InsertOrderBlind ==
  /\ stage = "call" /\ cart # <<>> /\ pos = Len(cart)
  /\ stage' = "items" /\ pos' = 0
  /\ orderRow' = total
  /\ UNCHANGED <<placing, sums, id, itemRows, event>>

InsertOrder ==
  /\ stage = "call" /\ cart # <<>> /\ pos = Len(cart)
  /\ stage' = "items" /\ pos' = 0
  /\ id' = mine
  /\ orderRow' = total
  /\ UNCHANGED <<placing, sums, itemRows, event>>

\* Mutated form: the rows are made of the last item, as with a pointer to the
\* variable of the loop.
InsertItemLast ==
  /\ stage = "items" /\ pos < Len(cart)
  /\ pos' = pos + 1
  /\ cart[Len(cart)].quantity <= Max32
  /\ itemRows' = [itemRows EXCEPT ![rowIds[pos']] = cart[Len(cart)]]
  /\ UNCHANGED <<placing, stage, sums, id, orderRow, event>>

\* Mutated form: the column takes any quantity.
InsertItemUnchecked ==
  /\ stage = "items" /\ pos < Len(cart)
  /\ pos' = pos + 1
  /\ itemRows' = [itemRows EXCEPT ![rowIds[pos']] = cart[pos']]
  /\ UNCHANGED <<placing, stage, sums, id, orderRow, event>>

\* A column of type INT takes no quantity beyond an int32.
InsertItem ==
  /\ stage = "items" /\ pos < Len(cart)
  /\ pos' = pos + 1
  /\ cart[pos'].quantity <= Max32
  /\ itemRows' = [itemRows EXCEPT ![rowIds[pos']] = cart[pos']]
  /\ UNCHANGED <<placing, stage, sums, id, orderRow, event>>

Commit ==
  /\ stage = "items" /\ pos = Len(cart)
  /\ stage' = "saved"
  /\ UNCHANGED <<placing, pos, sums, id, tables, event>>

\* A later statement fails; the one whose quantity is too large always does.  The
\* COMMIT may have taken effect.
SaveFails ==
  /\ stage = "items"
  /\ stage' \in {"failed"} \cup (IF pos = Len(cart) THEN {"unpublished"} ELSE {})
  /\ UNCHANGED <<placing, pos, sums, id, tables, event>>

\* The event is the order as it is in memory.
PublishEvent ==
  /\ stage = "saved"
  /\ stage' = "created"
  /\ event' = [id |-> id, total |-> total]
  /\ UNCHANGED <<placing, pos, sums, id, tables>>

PublishEventFails ==
  /\ stage = "saved"
  /\ stage' = "unpublished"
  /\ UNCHANGED <<placing, pos, sums, id, tables, event>>

------------------------------------------------------------------------------
(* GetOrder and ListOrders *)

IsStored == stage \in {"saved", "created", "unpublished"}

\* mapOrderToPb, of an item and of the order.
PbItem(i) == itemRows[i]
PbOrder == [total |-> orderRow, items |-> [k \in DOMAIN items[mine] |-> PbItem(items[mine][k])]]

\* The query sees the order once it is committed.
Read == IsStored /\ Next /\ UNCHANGED placeVars

Place ==
  \/ Refuse \/ SumUp \/ InsertOrder \/ InsertItem \/ Commit \/ SaveFails
  \/ PublishEvent \/ PublishEventFails

ValuesNext == (Place /\ UNCHANGED vars) \/ Read

ValuesSpec == ValuesInit /\ [][ValuesNext]_valueVars

------------------------------------------------------------------------------
(* Properties *)

\* Every variable has its type: money and quantities keep their widths.
ValuesTypeOK ==
  /\ mine \in Stored /\ id \in {NewId, mine} /\ [id |-> id, total |-> total] \in Order
  /\ cart \in Seq(Line) /\ pos \in 0 .. Len(cart)
  /\ stage \in {"call", "refused", "items", "failed", "saved", "created", "unpublished"}
  /\ orderRow \in Money \cup {NoRow} /\ event \in Order \cup {NoEvent}
  /\ exact \in Nat /\ fits \in BOOLEAN
  /\ \A i \in Items :
       itemRows[i] # NoRow => itemRows[i] \in Line /\ itemRows[i].quantity <= Max32

\* Carry and widths: as long as each item's worth and the sum are within an
\* int64, the total is the exact sum, and its nanos are less than a unit.
TotalIsExact ==
  fits => total.units * Base + total.nanos = exact /\ total.nanos \in 0 .. (Base - 1)

\* The payment service hears the id and the amount that the database has: not
\* the uuid that PlaceOrder made, and never of an order that is not stored.
EventNamesTheRow ==
  event # NoEvent => IsStored /\ event = [id |-> mine, total |-> orderRow]

\* What GetOrder and ListOrders show of an order is what was asked for: the sum
\* as it was computed, and each item with its own quantity and price, in
\* whatever order its rows come back.
ReadsBack ==
  answer = "ok" /\ mine \in Asked =>
    /\ PbOrder.total = total
    /\ \A j \in DOMAIN items[mine] :
         \E k \in DOMAIN cart : rowIds[k] = items[mine][j] /\ PbOrder.items[j] = cart[k]
===============================================================================
