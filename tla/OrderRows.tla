------------------------------ MODULE OrderRows -------------------------------
(***************************************************************************)
(* internal/order/repository: ListOrders and getOrder make orders out of   *)
(* the rows of orders LEFT JOIN order_items.  The database returns the     *)
(* rows of a list newest order first and is free in everything else, so    *)
(* that the rows of orders made at the same time may be mixed.             *)
(*                                                                         *)
(* One query is one snapshot: the stored orders do not change while its    *)
(* rows are read.                                                          *)
(***************************************************************************)
EXTENDS Naturals, Sequences, Functions

CONSTANTS Ids,            \* order ids, stored or not
          Items,          \* order items
          Stored,         \* the orders that have a row, all of one user
          ItemsOf,        \* the items of a stored order
          CreatedAt,      \* its time of creation
          All, NoItem     \* no single order is asked for; no item in a row

ASSUME RowsAssumption ==
  /\ Stored \subseteq Ids /\ All \notin Ids /\ NoItem \notin Items
  /\ ItemsOf \in [Stored -> SUBSET Items]
  /\ CreatedAt \in [Stored -> Nat]

VARIABLES want,           \* the id of GetOrder, or All for ListOrders
          left,           \* rows the database has not returned yet
          found,          \* orderIDs, or the one order of getOrder
          items,          \* the items of each order made so far
          answer          \* the outcome

vars == <<want, left, found, items, answer>>

\* LEFT JOIN: an order without items has one row without an item.
Join(orders) ==
  UNION {{<<o, i>> : i \in IF ItemsOf[o] = {} THEN {NoItem} ELSE ItemsOf[o]} : o \in orders}

Init ==
  /\ want \in Ids \cup {All}
  /\ left = Join(IF want = All THEN Stored ELSE Stored \cap {want})
  /\ found = <<>>
  /\ items = [o \in Ids |-> <<>>]
  /\ answer = "none"

\* ORDER BY o.created_at DESC; getOrder has one order, and any order of rows.
IsNext(row) == row \in left /\ \A r \in left : CreatedAt[r[1]] <= CreatedAt[row[1]]

AddItem(row) ==
  items' = IF row[2] = NoItem THEN items ELSE [items EXCEPT ![row[1]] = Append(@, row[2])]

\* Mutated form: a row starts a new order unless it belongs to the last one.
ListRowAdjacent(row) ==
  /\ want = All
  /\ found' = IF found # <<>> /\ found[Len(found)] = row[1] THEN found
              ELSE Append(found, row[1])
  /\ AddItem(row)

\* ListOrders: the map tells whether the order was met before.
ListRow(row) ==
  /\ want = All
  /\ found' = IF row[1] \in Range(found) THEN found ELSE Append(found, row[1])
  /\ AddItem(row)

\* getOrder: the first row makes the order.
GetRow(row) ==
  /\ want # All
  /\ found' = IF found = <<>> THEN <<row[1]>> ELSE found
  /\ AddItem(row)

TakeRow ==
  /\ answer = "none"
  /\ \E row \in left :
       /\ IsNext(row)
       /\ left' = left \ {row}
       /\ ListRow(row) \/ GetRow(row)
  /\ UNCHANGED <<want, answer>>

\* rows.Scan or rows.Err reports an error.
RowsFail ==
  /\ answer = "none"
  /\ answer' = "error"
  /\ UNCHANGED <<want, left, found, items>>

\* A list may be empty, an order may not be missing.
Return ==
  /\ answer = "none" /\ left = {}
  /\ answer' = IF want # All /\ found = <<>> THEN "notFound" ELSE "ok"
  /\ UNCHANGED <<want, left, found, items>>

Next == TakeRow \/ RowsFail \/ Return

Spec == Init /\ [][Next]_vars

------------------------------------------------------------------------------
(* Properties *)

Asked == IF want = All THEN Stored ELSE Stored \cap {want}

\* Every variable has its type; no order is made twice.
TypeOK ==
  /\ want \in Ids \cup {All}
  /\ left \subseteq Join(Stored)
  /\ found \in Seq(Stored) /\ IsInjective(found)
  /\ items \in [Ids -> Seq(Items)]
  /\ answer \in {"none", "ok", "notFound", "error"}

\* However the rows are mixed, a successful answer holds each order asked for
\* once, newest first, and each of them has each of its items once and no other;
\* an order that is stored is never reported missing.
AnswerIsComplete ==
  /\ answer = "ok" =>
       /\ Range(found) = Asked /\ IsInjective(found)
       /\ \A m, n \in 1..Len(found) : m <= n => CreatedAt[found[m]] >= CreatedAt[found[n]]
       /\ \A o \in Asked : Range(items[o]) = ItemsOf[o] /\ IsInjective(items[o])
  /\ answer = "notFound" => want \notin Stored
===============================================================================
