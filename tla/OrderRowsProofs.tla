---------------------------- MODULE OrderRowsProofs ----------------------------
(***************************************************************************)
(* For any contents of the database and any order in which it returns the  *)
(* rows: an answer has each order asked for once, with each of its items.  *)
(* For any call of CreateOrder, any prices and any width of integers: the  *)
(* sum is exact as long as it fits, and what is read back is what was sent.*)
(* For any products and failures: what is told of one is what is stored.   *)
(***************************************************************************)
EXTENDS Storefront, FiniteSetTheorems, TLAPS

\* The rows that were taken.
Taken == Join(Asked) \ left

\* What was made of them: their orders, and nothing else.
FoundIsTaken ==
  /\ found \in Seq(Asked) /\ IsInjective(found)
  /\ \A o \in Ids, i \in Items \cup {NoItem} : <<o, i>> \in Taken => o \in Range(found)

\* And their items, once each.
ItemsAreTaken ==
  \A o \in Ids :
    /\ items[o] \in Seq(Items) /\ IsInjective(items[o])
    /\ \A i \in Items : i \in Range(items[o]) <=> <<o, i>> \in Taken

\* Newest first, and what is left is no newer.
Sorted ==
  /\ \A m, n \in 1..Len(found) : m <= n => CreatedAt[found[m]] >= CreatedAt[found[n]]
  /\ \A m \in 1..Len(found), row \in left : CreatedAt[found[m]] >= CreatedAt[row[1]]

Outcome ==
  /\ answer \in {"ok", "notFound"} => left = {}
  /\ answer = "notFound" => want # All /\ found = <<>>

IInv ==
  /\ want \in Ids \cup {All} /\ left \subseteq Join(Asked)
  /\ items \in [Ids -> Seq(Items)]
  /\ answer \in {"none", "ok", "notFound", "error"}
  /\ FoundIsTaken /\ ItemsAreTaken /\ Sorted /\ Outcome

------------------------------------------------------------------------------
(* Sequences without repetition *)

LEMMA RangeAppend ==
  ASSUME NEW S, NEW s \in Seq(S), NEW e \in S
  PROVE  Append(s, e) \in Seq(S) /\ Range(Append(s, e)) = Range(s) \cup {e}
<1>1. /\ Append(s, e) \in Seq(S)
      /\ Len(Append(s, e)) = Len(s) + 1 /\ Len(s) \in Nat
      /\ \A k \in 1..Len(s) : Append(s, e)[k] = s[k]
      /\ Append(s, e)[Len(s) + 1] = e
  OBVIOUS
<1>2. DOMAIN s = 1..Len(s) /\ DOMAIN Append(s, e) = 1..(Len(s) + 1)
  BY <1>1
<1>3. 1..(Len(s) + 1) = (1..Len(s)) \cup {Len(s) + 1}
  BY <1>1
<1> QED
  BY <1>1, <1>2, <1>3 DEF Range

LEMMA InjectiveAppend ==
  ASSUME NEW S, NEW s \in Seq(S), NEW e \in S, IsInjective(s), e \notin Range(s)
  PROVE  IsInjective(Append(s, e))
<1>1. /\ Len(Append(s, e)) = Len(s) + 1 /\ Len(s) \in Nat
      /\ \A k \in 1..Len(s) : Append(s, e)[k] = s[k]
      /\ Append(s, e)[Len(s) + 1] = e
  OBVIOUS
<1>2. DOMAIN s = 1..Len(s) /\ DOMAIN Append(s, e) = 1..(Len(s) + 1)
  BY <1>1
<1>3. \A k \in 1..Len(s) : s[k] # e
  BY <1>2 DEF Range
<1> QED
  BY <1>1, <1>2, <1>3 DEF IsInjective

------------------------------------------------------------------------------
(* The rows of the join *)

LEMMA JoinRows ==
  ASSUME NEW A \in SUBSET Stored
  PROVE  /\ \A row \in Join(A) : /\ row = <<row[1], row[2]>>
                                 /\ row[1] \in A /\ row[1] \in Ids
                                 /\ row[2] \in Items \cup {NoItem}
         /\ \A o \in A, i \in Items : <<o, i>> \in Join(A) <=> i \in ItemsOf[o]
         /\ \A o \in A : \E i \in Items \cup {NoItem} : <<o, i>> \in Join(A)
         /\ \A o, i : <<o, i>> \in Join(A) => o \in A
BY RowsAssumption DEF Join

LEMMA AskedStored == want \in Ids \cup {All} => Asked \in SUBSET Stored
  BY DEF Asked

LEMMA InitInv == Init => IInv
<1> SUFFICES ASSUME Init PROVE IInv
  OBVIOUS
<1>1. left = Join(Asked) /\ Taken = {}
  BY DEF Init, Asked, Taken
<1>2. <<>> \in Seq(Asked) /\ <<>> \in Seq(Items) /\ Range(<<>>) = {} /\ IsInjective(<<>>)
  BY DEF Range, IsInjective
<1> QED
  BY <1>1, <1>2 DEF Init, IInv, FoundIsTaken, ItemsAreTaken, Sorted, Outcome
------------------------------------------------------------------------------
(* Taking a row *)

\* A list and a single order differ in how they tell that an order is new only.
LEMMA FoundGrows ==
  ASSUME IInv, NEW row \in left, ListRow(row) \/ GetRow(row)
  PROVE  \/ row[1] \in Range(found) /\ found' = found
         \/ row[1] \notin Range(found) /\ found' = Append(found, row[1])
<1> USE DEF IInv, FoundIsTaken
<1>1. CASE ListRow(row)
  BY <1>1 DEF ListRow
<1>2. CASE GetRow(row) /\ found = <<>>
  <2>1. Range(found) = {} /\ found' = <<row[1]>>
    BY <1>2 DEF GetRow, Range
  <2> QED
    BY <1>2, <2>1
<1>3. CASE GetRow(row) /\ found # <<>>
  <2>1. want # All /\ found' = found /\ Asked \subseteq {want}
    BY <1>3 DEF GetRow, Asked
  <2>2. 1 \in DOMAIN found /\ found[1] \in Asked
    BY <1>3
  <2>3. row[1] \in Asked
    BY JoinRows, AskedStored
  <2> QED
    BY <2>1, <2>2, <2>3 DEF Range
<1> QED
  BY <1>1, <1>2, <1>3

LEMMA TakeRowStep ==
  ASSUME IInv, TakeRow
  PROVE  IInv'
<1> USE DEF IInv
<1>1. PICK row \in left : /\ IsNext(row)
                          /\ left' = left \ {row}
                          /\ ListRow(row) \/ GetRow(row)
  BY DEF TakeRow
<1>2. want' = want /\ answer' = answer /\ answer = "none" /\ Asked' = Asked
  BY DEF TakeRow, Asked
<1> DEFINE o == row[1]
           i == row[2]
<1>3. /\ row = <<o, i>> /\ row \in Join(Asked) /\ row \notin Taken
      /\ o \in Asked /\ o \in Ids /\ i \in Items \cup {NoItem}
  BY JoinRows, AskedStored DEF Taken
<1>4. Taken' = Taken \cup {row} /\ left' \subseteq Join(Asked)
  <2>1. Join(Asked)' = Join(Asked)
    BY <1>2 DEF Join
  <2> QED
    BY <1>1, <1>2, <1>3, <2>1 DEF Taken
<1>5. AddItem(row)
  BY <1>1 DEF ListRow, GetRow
<1>6. \/ o \in Range(found) /\ found' = found
      \/ o \notin Range(found) /\ found' = Append(found, o)
  BY <1>1, FoundGrows
<1>7. FoundIsTaken'
  <2>1. found' \in Seq(Asked) /\ IsInjective(found') /\ Range(found') = Range(found) \cup {o}
    <3>1. found \in Seq(Asked) /\ IsInjective(found) /\ o \in Asked
      BY <1>3 DEF FoundIsTaken
    <3> HIDE DEF o
    <3>2. CASE o \in Range(found) /\ found' = found
      BY <3>1, <3>2
    <3>3. CASE o \notin Range(found) /\ found' = Append(found, o)
      <4>1. Append(found, o) \in Seq(Asked) /\ Range(Append(found, o)) = Range(found) \cup {o}
        BY <3>1, RangeAppend
      <4>2. IsInjective(Append(found, o))
        BY <3>1, <3>3, InjectiveAppend
      <4> QED
        BY <3>3, <4>1, <4>2
    <3> QED
      BY <1>6, <3>2, <3>3
  <2>2. \A p \in Ids, j \in Items \cup {NoItem} : <<p, j>> \in Taken' => p \in Range(found')
    <3> SUFFICES ASSUME NEW p \in Ids, NEW j \in Items \cup {NoItem}, <<p, j>> \in Taken'
                 PROVE  p \in Range(found')
      OBVIOUS
    <3>1. CASE <<p, j>> = row
      BY <2>1, <3>1
    <3>2. CASE <<p, j>> \in Taken
      BY <2>1, <3>2 DEF FoundIsTaken
    <3> QED
      BY <1>4, <3>1, <3>2
  <2> QED
    BY <1>2, <2>1, <2>2 DEF FoundIsTaken
<1>8. ItemsAreTaken' /\ items' \in [Ids -> Seq(Items)]
  <2>1. CASE i = NoItem
    <3>1. items' = items
      BY <1>5, <2>1 DEF AddItem
    <3>2. \A p \in Ids, j \in Items : <<p, j>> \in Taken' <=> <<p, j>> \in Taken
      BY <1>3, <1>4, <2>1, RowsAssumption
    <3> QED
      BY <3>1, <3>2 DEF ItemsAreTaken
  <2>2. CASE i \in Items
    <3>1. items' = [items EXCEPT ![o] = Append(items[o], i)]
      BY <1>5, <2>2, RowsAssumption DEF AddItem
    <3>2. items[o] \in Seq(Items) /\ IsInjective(items[o]) /\ i \notin Range(items[o])
      BY <1>3, <2>2 DEF ItemsAreTaken
    <3>3. /\ Append(items[o], i) \in Seq(Items)
          /\ IsInjective(Append(items[o], i))
          /\ Range(Append(items[o], i)) = Range(items[o]) \cup {i}
      BY <2>2, <3>2, RangeAppend, InjectiveAppend
    <3>4. items' \in [Ids -> Seq(Items)] /\ items'[o] = Append(items[o], i)
          /\ \A p \in Ids \ {o} : items'[p] = items[p]
      BY <1>3, <3>1, <3>3
    <3>5. \A p \in Ids, j \in Items :
            <<p, j>> \in Taken' <=> <<p, j>> \in Taken \/ (p = o /\ j = i)
      BY <1>3, <1>4
    <3>6. \A p \in Ids : /\ items'[p] \in Seq(Items) /\ IsInjective(items'[p])
                         /\ \A j \in Items : j \in Range(items'[p]) <=> <<p, j>> \in Taken'
      <4> SUFFICES ASSUME NEW p \in Ids
                   PROVE  /\ items'[p] \in Seq(Items) /\ IsInjective(items'[p])
                          /\ \A j \in Items : j \in Range(items'[p]) <=> <<p, j>> \in Taken'
        OBVIOUS
      <4>1. CASE p = o
        BY <1>3, <3>3, <3>4, <3>5, <4>1 DEF ItemsAreTaken
      <4>2. CASE p # o
        BY <3>4, <3>5, <4>2 DEF ItemsAreTaken
      <4> QED
        BY <4>1, <4>2
    <3> QED
      BY <3>4, <3>6 DEF ItemsAreTaken
  <2> QED
    BY <1>3, <2>1, <2>2
<1>9. Sorted'
  <2>1. \A r \in left : CreatedAt[r[1]] <= CreatedAt[o]
    BY <1>1 DEF IsNext
  <2>2. \A m \in 1..Len(found) : CreatedAt[found[m]] >= CreatedAt[o]
    BY DEF Sorted
  <2>3. CASE found' = found
    BY <1>1, <2>3 DEF Sorted
  <2>4. CASE found' = Append(found, o)
    <3>1. /\ Len(found') = Len(found) + 1 /\ Len(found) \in Nat
          /\ \A k \in 1..Len(found) : found'[k] = found[k]
          /\ found'[Len(found) + 1] = o
      BY <1>3, <2>4 DEF FoundIsTaken
    <3>2. CreatedAt[o] \in Nat
      BY <1>3, AskedStored, RowsAssumption
    <3>3. \A m, n \in 1..Len(found') : m <= n => CreatedAt[found'[m]] >= CreatedAt[found'[n]]
      BY <2>2, <3>1, <3>2 DEF Sorted
    <3>4. \A m \in 1..Len(found'), r \in left' : CreatedAt[found'[m]] >= CreatedAt[r[1]]
      BY <1>1, <2>1, <3>1 DEF Sorted
    <3> QED
      BY <3>3, <3>4 DEF Sorted
  <2> QED
    BY <1>6, <2>3, <2>4
<1>10. Outcome'
  BY <1>2 DEF Outcome
<1> QED
  BY <1>2, <1>4, <1>7, <1>8, <1>9, <1>10

LEMMA Step == IInv /\ [Next]_vars => IInv'
<1> SUFFICES ASSUME IInv, [Next]_vars PROVE IInv'
  OBVIOUS
<1>1. CASE TakeRow
  BY <1>1, TakeRowStep
<1>2. CASE RowsFail
  BY <1>2 DEF RowsFail, IInv, FoundIsTaken, ItemsAreTaken, Sorted, Outcome, Taken, Asked, Join
<1>3. CASE Return
  BY <1>3 DEF Return, IInv, FoundIsTaken, ItemsAreTaken, Sorted, Outcome, Taken, Asked, Join
<1>4. CASE UNCHANGED vars
  BY <1>4 DEF vars, IInv, FoundIsTaken, ItemsAreTaken, Sorted, Outcome, Taken, Asked, Join
<1> QED
  BY <1>1, <1>2, <1>3, <1>4 DEF Next

LEMMA Inductive == Spec => []IInv
  BY InitInv, Step, PTL DEF Spec

\* ListOrders and getOrder: each order is made once and holds items only.
THEOREM RowsTypeCorrect == Spec => []TypeOK
<1>1. IInv => TypeOK
  <2> SUFFICES ASSUME IInv PROVE TypeOK
    OBVIOUS
  <2>1. Asked \subseteq Stored
    BY AskedStored DEF IInv
  <2>2. left \subseteq Join(Stored)
    BY <2>1 DEF IInv, Join
  <2>3. found \in Seq(Stored) /\ IsInjective(found)
    BY <2>1 DEF IInv, FoundIsTaken
  <2> QED
    BY <2>2, <2>3 DEF IInv, TypeOK
<1> QED
  BY Inductive, <1>1, PTL

------------------------------------------------------------------------------
(* An answer *)

\* When no row is left, everything that was asked for was made.
LEMMA AllRowsTaken ==
  ASSUME IInv, left = {}
  PROVE  /\ Range(found) = Asked
         /\ \A o \in Asked : Range(items[o]) = ItemsOf[o] /\ IsInjective(items[o])
<1> USE DEF IInv
<1>1. Taken = Join(Asked) /\ Asked \in SUBSET Stored
  BY AskedStored DEF Taken
<1>2. Range(found) \subseteq Asked
  BY DEF FoundIsTaken, Range
<1>3. ASSUME NEW o \in Asked
      PROVE  /\ o \in Range(found)
             /\ Range(items[o]) = ItemsOf[o] /\ IsInjective(items[o])
  <2>1. o \in Ids /\ ItemsOf[o] \subseteq Items
    BY <1>1, <1>3, RowsAssumption
  <2>2. o \in Range(found)
    <3>1. PICK i \in Items \cup {NoItem} : <<o, i>> \in Taken
      BY <1>1, <1>3, JoinRows
    <3> QED
      BY <2>1, <3>1 DEF FoundIsTaken
  <2>3. \A i \in Items : i \in Range(items[o]) <=> i \in ItemsOf[o]
    BY <1>1, <1>3, <2>1, JoinRows DEF ItemsAreTaken
  <2>4. Range(items[o]) \subseteq Items /\ IsInjective(items[o])
    BY <2>1 DEF ItemsAreTaken, Range
  <2> QED
    BY <2>1, <2>2, <2>3, <2>4
<1> QED
  BY <1>2, <1>3

\* ListOrders and getOrder: whatever is stored, and in whatever order the
\* database returns the rows of orders that are equally old, a successful answer
\* has each order asked for once, newest first, with each of its items once, and
\* a stored order is never reported missing.
THEOREM AnswersComplete == Spec => []AnswerIsComplete
<1>1. IInv => AnswerIsComplete
  <2> SUFFICES ASSUME IInv PROVE AnswerIsComplete
    OBVIOUS
  <2>1. ASSUME answer = "notFound" PROVE want \notin Stored
    <3>1. left = {} /\ want # All /\ Range(found) = {}
      BY <2>1 DEF IInv, Outcome, Range
    <3>2. Asked = {}
      BY <3>1, AllRowsTaken
    <3> QED
      BY <3>1, <3>2 DEF Asked
  <2>2. ASSUME answer = "ok" PROVE left = {}
    BY <2>2 DEF IInv, Outcome
  <2>3. \A m, n \in 1..Len(found) : m <= n => CreatedAt[found[m]] >= CreatedAt[found[n]]
    BY DEF IInv, Sorted
  <2>4. IsInjective(found)
    BY DEF IInv, FoundIsTaken
  <2>5. ASSUME answer = "ok"
        PROVE  /\ Range(found) = Asked
               /\ \A o \in Asked : Range(items[o]) = ItemsOf[o] /\ IsInjective(items[o])
    BY <2>2, <2>5, AllRowsTaken
  <2> QED
    BY <2>1, <2>3, <2>4, <2>5 DEF AnswerIsComplete
<1> QED
  BY Inductive, <1>1, PTL

------------------------------------------------------------------------------
(* Integers *)

LEMMA WrapType ==
  ASSUME NEW x \in Int, NEW max \in Nat
  PROVE  Wrap(x, max) \in (- max - 1) .. max
<1> DEFINE m == 2 * max + 2
<1>1. m \in Nat \ {0} /\ x + max + 1 \in Int
  OBVIOUS
<1> HIDE DEF m
<1>2. (x + max + 1) % m \in 0 .. (m - 1)
  BY <1>1
<1> QED
  BY <1>2 DEF Wrap, m

LEMMA WrapFits ==
  ASSUME NEW max \in Nat, NEW x \in (- max - 1) .. max
  PROVE  Wrap(x, max) = x
<1> DEFINE m == 2 * max + 2
<1>1. m \in Nat \ {0} /\ x + max + 1 \in 0 .. (m - 1)
  OBVIOUS
<1> HIDE DEF m
<1>2. (x + max + 1) % m = x + max + 1
  BY <1>1
<1> QED
  BY <1>2 DEF Wrap, m

\* A worth is whole units and what is left of it.
LEMMA DivMod ==
  ASSUME NEW x \in Nat
  PROVE  Quot(x) \in Nat /\ Rem(x) \in 0 .. (Base - 1) /\ x = Quot(x) * Base + Rem(x)
<1>1. Base \in Nat \ {0}
  BY ValuesAssumption
<1>2. x \div Base \in Nat /\ x - Base * (x \div Base) \in 0 .. (Base - 1)
  BY <1>1
<1> QED
  BY <1>1, <1>2 DEF Quot, Rem

LEMMA DivUnique ==
  ASSUME NEW u \in Nat, NEW r \in 0 .. (Base - 1)
  PROVE  (u * Base + r) \div Base = u
<1>1. Base \in Nat \ {0}
  BY ValuesAssumption
<1>2. u * Base \in Nat
  BY <1>1
<1> QED
  BY <1>1, <1>2

\* The loop of PlaceOrder adds an item exactly, if the item and the sum fit.
LEMMA AddExact ==
  ASSUME NEW t \in [units : Nat, nanos : 0 .. (Base - 1)], NEW line \in Line,
         Worth(line) <= Max64,
         (t.units * Base + t.nanos + Worth(line)) \div Base <= Max64
  PROVE  /\ Add(t, line) \in [units : Nat, nanos : 0 .. (Base - 1)]
         /\ Add(t, line).units * Base + Add(t, line).nanos = t.units * Base + t.nanos + Worth(line)
<1>1. Base \in Nat \ {0} /\ Max32 \in Nat /\ Max64 \in Nat /\ 2 * Base <= Max32 + 2
  BY ValuesAssumption
<1>2. Worth(line) \in Nat
  <2>1. line.units \in Nat /\ line.nanos \in Nat /\ line.quantity \in Nat
    BY <1>1 DEF Line
  <2>2. line.units * Base \in Nat
    BY <1>1, <2>1
  <2> QED
    BY <2>1, <2>2 DEF Worth
<1> DEFINE w == Worth(line)
           q == Quot(w)
           r == Rem(w)
           u == t.units + q
           v == t.nanos + r
<1>3. Wrap(w, Max64) = w
  BY <1>1, <1>2, WrapFits
<1>4. q \in Nat /\ r \in 0 .. (Base - 1) /\ w = q * Base + r
  BY <1>2, DivMod
<1>5. u \in Nat /\ v \in 0 .. (2 * Base - 2)
  BY <1>1, <1>4
<1>6. u * Base + v = t.units * Base + t.nanos + w
  <2>1. u * Base = t.units * Base + q * Base
    BY <1>1, <1>4
  <2>2. t.units * Base \in Nat /\ q * Base \in Nat
    BY <1>1, <1>4
  <2> QED
    BY <1>1, <1>4, <2>1, <2>2
<1>7. Wrap(v, Max32) = v
  BY <1>1, <1>5, WrapFits
<1> HIDE DEF w, q, r, u, v
<1>8. CASE v < Base
  <2>1. v \in 0 .. (Base - 1)
    BY <1>1, <1>5, <1>8
  <2>2. u <= Max64
    BY <1>5, <1>6, <2>1, DivUnique DEF w
  <2>3. Wrap(u, Max64) = u
    BY <1>1, <1>5, <2>2, WrapFits
  <2>4. Add(t, line) = [units |-> u, nanos |-> v]
    BY <1>1, <1>3, <1>5, <1>7, <1>8, <2>3 DEF Add, w, q, r, u, v
  <2> QED
    BY <1>5, <1>6, <2>1, <2>4 DEF w
<1>9. CASE v >= Base
  <2>1. v - Base \in 0 .. (Base - 1) /\ v = 1 * Base + (v - Base)
    BY <1>1, <1>5, <1>9
  <2>2. v \div Base = 1
    BY <2>1, DivUnique
  <2>3. Quot(v) = 1 /\ Rem(v) = v - Base
    BY <1>1, <1>5, <2>2 DEF Quot, Rem
  <2>4. (u + 1) * Base = u * Base + Base /\ u * Base \in Nat
    BY <1>1, <1>5
  <2>5. (u + 1) * Base + (v - Base) = t.units * Base + t.nanos + w
    BY <1>1, <1>5, <1>6, <2>4
  <2>6. u + 1 <= Max64
    BY <1>5, <2>1, <2>5, DivUnique DEF w
  <2>7. Wrap(u, Max64) = u /\ Wrap(u + 1, Max64) = u + 1
    BY <1>1, <1>5, <2>6, WrapFits
  <2>8. Add(t, line) = [units |-> u + 1, nanos |-> v - Base]
    BY <1>1, <1>3, <1>5, <1>7, <1>9, <2>3, <2>7 DEF Add, w, q, r, u, v
  <2> QED
    BY <1>5, <2>1, <2>5, <2>8 DEF w
<1> QED
  BY <1>1, <1>5, <1>8, <1>9

\* And it keeps to the widths of its variables in any case.
LEMMA AddType ==
  ASSUME NEW t \in Money, NEW line \in Line
  PROVE  Add(t, line) \in Money
<1>1. Base \in Nat \ {0} /\ Max32 \in Nat /\ Max64 \in Nat /\ 2 * Base <= Max32 + 2
  BY ValuesAssumption
<1>2. \A x \in Int : Quot(x) \in Int
  BY <1>1 DEF Quot
<1>3. \A x \in Int : Rem(x) \in Int
  BY <1>1, <1>2 DEF Rem
<1>4. Worth(line) \in Int
  BY <1>1 DEF Worth, Line
<1> DEFINE w == Wrap(Worth(line), Max64)
           u == Wrap(t.units + Quot(w), Max64)
           v == Wrap(t.nanos + Rem(w), Max32)
<1>5. w \in Int
  BY <1>1, <1>4, WrapType
<1>6. u \in Int64 /\ v \in Int32
  <2>1. t.units + Quot(w) \in Int /\ t.nanos + Rem(w) \in Int
    BY <1>1, <1>2, <1>3, <1>5 DEF Money, Int64, Int32
  <2> HIDE DEF w
  <2> QED
    BY <1>1, <2>1, WrapType DEF Int64, Int32
<1> HIDE DEF w, u, v
<1>7. CASE v >= Base
  <2>1. v \in Nat /\ u \in Int
    BY <1>1, <1>6, <1>7 DEF Int64, Int32
  <2>2. Rem(v) \in Int32
    BY <1>1, <2>1, DivMod DEF Int32
  <2>3. Wrap(u + Quot(v), Max64) \in Int64
    BY <1>1, <1>2, <2>1, WrapType DEF Int64
  <2>4. Add(t, line) = [units |-> Wrap(u + Quot(v), Max64), nanos |-> Rem(v)]
    BY <1>7 DEF Add, w, u, v
  <2> QED
    BY <2>2, <2>3, <2>4 DEF Money
<1>8. CASE ~ (v >= Base)
  <2>1. Add(t, line) = [units |-> u, nanos |-> v]
    BY <1>8 DEF Add, w, u, v
  <2> QED
    BY <1>6, <2>1 DEF Money
<1> QED
  BY <1>7, <1>8

------------------------------------------------------------------------------
(* A call of CreateOrder, and the tables it leaves *)

CallType ==
  /\ mine \in Stored /\ cart \in Seq(Line) /\ pos \in 0 .. Len(cart)
  /\ rowIds \in [1 .. Len(cart) -> Items] /\ IsInjective(rowIds)
  /\ Range(rowIds) = ItemsOf[mine]
  /\ stage \in {"call", "refused", "items", "failed", "saved", "created", "unpublished"}

SumType == total \in Money /\ exact \in Nat /\ fits \in BOOLEAN

SumExact ==
  fits => /\ total \in [units : Nat, nanos : 0 .. (Base - 1)]
          /\ total.units * Base + total.nanos = exact

\* The rows inserted so far.
Inserted == IF IsStored THEN 1 .. Len(cart) ELSE IF stage = "items" THEN 1 .. pos ELSE {}

RowsInserted ==
  /\ id \in {NewId, mine}
  /\ stage \notin {"call", "refused"} => id = mine /\ orderRow = total
  /\ orderRow \in Money \cup {NoRow}
  /\ itemRows \in [Items -> Line \cup {NoRow}]
  /\ \A i \in Items : itemRows[i] # NoRow => itemRows[i].quantity <= Max32
  /\ \A k \in Inserted : itemRows[rowIds[k]] = cart[k]

Published == event # NoEvent => stage = "created" /\ event = [id |-> mine, total |-> total]

\* Nothing is read before the order is stored.
ReadLater == answer # "none" => IsStored

VInv == CallType /\ SumType /\ SumExact /\ RowsInserted /\ Published /\ ReadLater

LEMMA ValuesInitInv == ValuesInit => VInv
<1> SUFFICES ASSUME ValuesInit PROVE VInv
  OBVIOUS
<1>1. PICK k \in 0 .. MaxItems :
        /\ cart \in {c \in Carts : Len(c) = k}
        /\ rowIds \in {f \in [1 .. k -> ItemsOf[mine]] : IsInjective(f) /\ Range(f) = ItemsOf[mine]}
  BY DEF ValuesInit
<1>2. cart \in Seq(Line) /\ Len(cart) = k /\ k \in Nat
  BY <1>1, ValuesAssumption
<1>3. ItemsOf[mine] \subseteq Items /\ mine \in Stored
  BY RowsAssumption DEF ValuesInit
<1>4. CallType
  BY <1>1, <1>2, <1>3 DEF ValuesInit, CallType
<1>5. SumType /\ SumExact
  BY ValuesAssumption DEF ValuesInit, SumType, SumExact, Zero, Money, Int32, Int64
<1>6. RowsInserted
  BY DEF ValuesInit, RowsInserted, Inserted, IsStored
<1>7. Published /\ ReadLater
  BY DEF ValuesInit, Init, Published, ReadLater
<1> QED
  BY <1>4, <1>5, <1>6, <1>7 DEF VInv

LEMMA SumUpStep ==
  ASSUME VInv, SumUp, UNCHANGED vars
  PROVE  VInv'
<1> USE DEF VInv
<1>1. pos' \in 1 .. Len(cart) /\ cart[pos'] \in Line
  BY DEF SumUp, CallType
<1>2. CallType'
  BY <1>1 DEF SumUp, CallType, placing
<1>3. SumType'
  <2>1. total' \in Money
    BY <1>1, AddType DEF SumUp, SumType
  <2>2. Worth(cart[pos']) \in Nat
    <3>1. Base \in Nat
      BY ValuesAssumption
    <3> QED
      BY <1>1, <3>1 DEF Worth, Line
  <2>3. exact' \in Nat /\ fits' \in BOOLEAN
    BY <2>2 DEF SumUp, SumType
  <2> QED
    BY <2>1, <2>3 DEF SumType
<1>4. SumExact'
  <2> SUFFICES ASSUME fits'
               PROVE  /\ total' \in [units : Nat, nanos : 0 .. (Base - 1)]
                      /\ total'.units * Base + total'.nanos = exact'
    BY DEF SumExact
  <2>1. fits /\ Worth(cart[pos']) <= Max64 /\ exact' \div Base <= Max64
    BY DEF SumUp
  <2>2. /\ total \in [units : Nat, nanos : 0 .. (Base - 1)]
        /\ total.units * Base + total.nanos = exact
    BY <2>1 DEF SumExact
  <2>3. exact' = total.units * Base + total.nanos + Worth(cart[pos'])
    BY <2>2 DEF SumUp
  <2> QED
    BY <1>1, <2>1, <2>2, <2>3, AddExact DEF SumUp
<1>5. RowsInserted'
  <2>1. Inserted' = {} /\ stage' = "call"
    BY DEF SumUp, Inserted, IsStored
  <2> QED
    BY <2>1 DEF SumUp, RowsInserted, placing, tables
<1>6. Published' /\ ReadLater'
  BY DEF SumUp, Published, ReadLater, IsStored, vars
<1> QED
  BY <1>2, <1>3, <1>4, <1>5, <1>6

LEMMA InsertItemStep ==
  ASSUME VInv, InsertItem, UNCHANGED vars
  PROVE  VInv'
<1> USE DEF VInv
<1>1. pos' \in 1 .. Len(cart) /\ cart[pos'] \in Line /\ rowIds[pos'] \in Items
  BY DEF InsertItem, CallType
<1>2. CallType' /\ SumType' /\ SumExact'
  BY <1>1 DEF InsertItem, CallType, SumType, SumExact, placing, sums
<1>3. RowsInserted'
  <2>1. /\ itemRows' \in [Items -> Line \cup {NoRow}] /\ itemRows'[rowIds[pos']] = cart[pos']
        /\ \A i \in Items \ {rowIds[pos']} : itemRows'[i] = itemRows[i]
    BY <1>1 DEF InsertItem, RowsInserted
  <2>2. \A i \in Items : itemRows'[i] # NoRow => itemRows'[i].quantity <= Max32
    BY <1>1, <2>1 DEF InsertItem, RowsInserted
  <2>3. Inserted' = Inserted \cup {pos'} /\ Inserted \subseteq DOMAIN rowIds /\ pos' \notin Inserted
    BY <1>1 DEF InsertItem, Inserted, IsStored, CallType, placing
  <2>4. \A k \in Inserted : rowIds[k] # rowIds[pos'] /\ rowIds[k] \in Items
    BY <1>1, <2>3 DEF CallType, IsInjective
  <2>5. \A k \in Inserted' : itemRows'[rowIds[k]] = cart[k]
    BY <2>1, <2>3, <2>4 DEF RowsInserted
  <2> QED
    BY <2>1, <2>2, <2>5 DEF InsertItem, RowsInserted, placing, sums
<1>4. Published' /\ ReadLater'
  BY DEF InsertItem, Published, ReadLater, IsStored, vars
<1> QED
  BY <1>2, <1>3, <1>4

LEMMA ValuesStep == VInv /\ [ValuesNext]_valueVars => VInv'
<1> SUFFICES ASSUME VInv, [ValuesNext]_valueVars PROVE VInv'
  OBVIOUS
<1> USE DEF VInv
<1>1. CASE UNCHANGED placeVars /\ (answer' = answer \/ IsStored)
  BY <1>1 DEF placeVars, placing, sums, tables, CallType, SumType, SumExact, RowsInserted, Inserted,
    IsStored, Published, ReadLater
<1>2. CASE Read
  BY <1>1, <1>2 DEF Read
<1>3. CASE SumUp /\ UNCHANGED vars
  BY <1>3, SumUpStep
<1>4. CASE InsertItem /\ UNCHANGED vars
  BY <1>4, InsertItemStep
<1>5. CASE (Refuse \/ InsertOrder \/ Commit \/ SaveFails \/ PublishEvent \/ PublishEventFails)
             /\ UNCHANGED vars
  <2>1. CallType'
    BY <1>5 DEF Refuse, InsertOrder, Commit, SaveFails, PublishEvent, PublishEventFails, CallType,
      placing
  <2>2. SumType' /\ SumExact'
    BY <1>5 DEF Refuse, InsertOrder, Commit, SaveFails, PublishEvent, PublishEventFails, SumType,
      SumExact, sums
  <2>3. RowsInserted'
    <3>1. Inserted' \subseteq Inserted
      BY <1>5 DEF Refuse, InsertOrder, Commit, SaveFails, PublishEvent, PublishEventFails, Inserted,
        IsStored, placing, CallType
    <3>2. UNCHANGED <<placing, total, itemRows>>
      BY <1>5 DEF Refuse, InsertOrder, Commit, SaveFails, PublishEvent, PublishEventFails, sums, tables
    <3>3. id' \in {NewId, mine} /\ (stage' \notin {"call", "refused"} => id' = mine /\ orderRow' = total)
      BY <1>5 DEF Refuse, InsertOrder, Commit, SaveFails, PublishEvent, PublishEventFails, tables,
        RowsInserted
    <3>4. orderRow' \in {orderRow, total} /\ total \in Money
      BY <1>5 DEF Refuse, InsertOrder, Commit, SaveFails, PublishEvent, PublishEventFails, tables,
        SumType
    <3> QED
      BY <3>1, <3>2, <3>3, <3>4 DEF RowsInserted, placing
  <2>4. Published' /\ ReadLater'
    BY <1>5 DEF Refuse, InsertOrder, Commit, SaveFails, PublishEvent, PublishEventFails, Published,
      ReadLater, IsStored, RowsInserted, placing, sums, vars
  <2> QED
    BY <2>1, <2>2, <2>3, <2>4
<1>6. CASE UNCHANGED valueVars
  BY <1>1, <1>6 DEF valueVars, vars
<1> QED
  BY <1>2, <1>3, <1>4, <1>5, <1>6 DEF ValuesNext, Place

LEMMA StorefrontStep ==
  [StorefrontNext]_<<valueVars, catalogVars>> => /\ [ValuesNext]_valueVars
                                                /\ [Next]_vars
                                                /\ [CatalogNext]_catalogVars
BY DEF StorefrontNext, ValuesNext, Read, valueVars

LEMMA ValuesInductive == StorefrontSpec => []VInv
<1>1. StorefrontInit => VInv
  BY ValuesInitInv DEF StorefrontInit
<1> QED
  BY <1>1, ValuesStep, StorefrontStep, PTL DEF StorefrontSpec

\* Reading orders in the course of everything else is reading them as OrderRows
\* says, so that its theorems hold of the whole.
THEOREM StorefrontReadsRows == StorefrontSpec => Spec
<1>1. StorefrontInit => Init
  BY DEF StorefrontInit, ValuesInit
<1> QED
  BY <1>1, StorefrontStep, PTL DEF StorefrontSpec, Spec

\* Money and quantities keep their widths in memory and in the tables.
THEOREM ValuesTypeCorrect == StorefrontSpec => []ValuesTypeOK
<1>1. VInv => ValuesTypeOK
  <2> SUFFICES ASSUME VInv PROVE ValuesTypeOK
    OBVIOUS
  <2>1. mine \in Ids /\ [id |-> id, total |-> total] \in Order
    BY RowsAssumption DEF VInv, CallType, SumType, RowsInserted, Order
  <2>2. event \in Order \cup {NoEvent}
    BY <2>1 DEF VInv, SumType, Published, Order
  <2> QED
    BY <2>1, <2>2 DEF VInv, CallType, SumType, RowsInserted, ValuesTypeOK
<1> QED
  BY <1>1, ValuesInductive, PTL

\* For any number of nanos in a unit and any widths in which the nanos of two
\* items do not overflow: the total of PlaceOrder is the exact sum, unless an
\* item or the sum itself is too large.
THEOREM TotalsExact == StorefrontSpec => []TotalIsExact
<1>1. VInv => TotalIsExact
  BY DEF VInv, SumExact, TotalIsExact
<1> QED
  BY <1>1, ValuesInductive, PTL

\* The event carries the id and the amount of a committed row, for any call.
THEOREM EventsNameRows == StorefrontSpec => []EventNamesTheRow
<1>1. VInv => EventNamesTheRow
  BY DEF VInv, Published, RowsInserted, EventNamesTheRow, IsStored
<1> QED
  BY <1>1, ValuesInductive, PTL

\* GetOrder and ListOrders show what CreateOrder was asked for, whatever the
\* items, the ids of their rows and the order in which the rows come.
THEOREM OrdersReadBack == StorefrontSpec => []ReadsBack
<1>1. IInv /\ VInv => ReadsBack
  <2> SUFFICES ASSUME IInv, VInv, answer = "ok", mine \in Asked,
                      NEW j \in DOMAIN items[mine]
               PROVE  /\ orderRow = total
                      /\ \E k \in DOMAIN cart : rowIds[k] = items[mine][j]
                                               /\ itemRows[items[mine][j]] = cart[k]
    <3>1. IInv /\ VInv /\ answer = "ok" => orderRow = total
      BY DEF VInv, ReadLater, IsStored, RowsInserted
    <3> QED
      BY <3>1 DEF ReadsBack, PbOrder, PbItem
  <2>1. Range(items[mine]) = ItemsOf[mine]
    BY AllRowsTaken DEF IInv, Outcome
  <2>2. PICK k \in 1 .. Len(cart) : rowIds[k] = items[mine][j]
    BY <2>1 DEF VInv, CallType, Range
  <2>3. IsStored
    BY DEF VInv, ReadLater
  <2>4. k \in Inserted /\ k \in DOMAIN cart
    BY <2>2, <2>3 DEF Inserted, VInv, CallType
  <2> QED
    BY <2>2, <2>3, <2>4 DEF VInv, RowsInserted, IsStored
<1>2. StorefrontSpec => []IInv
  BY StorefrontReadsRows, Inductive, PTL
<1> QED
  BY <1>1, <1>2, ValuesInductive, PTL

------------------------------------------------------------------------------
(* Products *)

\* What is told of a product is what its row says.
ToldOfRows ==
  /\ \A p \in Products :
       created[p] # Absent => catalog[p] # Absent /\ created[p] = PbOf(catalog[p], TRUE)
  /\ \A p \in Products :
       shown[p] \notin {Absent, NotFound} =>
         catalog[p] # Absent /\ shown[p] = PbOf(catalog[p], FALSE)

Missed == {p \in Products : created[p] # Absent /\ shown[p] = NotFound}

MissedIsCounted == IsFiniteSet(Missed) /\ Cardinality(Missed) <= mishaps

CInv == CatalogTypeOK /\ ToldOfRows /\ MissedIsCounted

\* What is stored of a valid request is a row, and what is told of a row is a product.
LEMMA RowType ==
  ASSUME NEW req \in CreateProductRequest, Valid(req)
  PROVE  Row(req) \in ProductRow /\ PbOf(req, TRUE) = PbOf(Row(req), TRUE)
BY DEF CreateProductRequest, HttpProduct, Valid, Validate, Row, ProductRow, PbOf

LEMMA PbType ==
  ASSUME NEW row \in ProductRow, NEW active \in BOOLEAN
  PROVE  PbOf(row, active) \in PbProduct
BY DEF ProductRow, PbOf, PbProduct

\* The parts of a step that a product told of as missing depends on.
LEMMA MissedStep ==
  ASSUME CatalogTypeOK, MissedIsCounted,
         \/ Missed' \subseteq Missed /\ mishaps' \in {mishaps, mishaps + 1}
         \/ \E p \in Products : Missed' \subseteq Missed \cup {p} /\ mishaps' = mishaps + 1
  PROVE  MissedIsCounted'
<1>1. mishaps \in Nat /\ IsFiniteSet(Missed) /\ Cardinality(Missed) \in Nat
  BY CatalogAssumption, FS_CardinalityType DEF CatalogTypeOK, MissedIsCounted
<1>2. CASE Missed' \subseteq Missed /\ mishaps' \in {mishaps, mishaps + 1}
  <2>1. /\ IsFiniteSet(Missed') /\ Cardinality(Missed') \in Nat
        /\ Cardinality(Missed') <= Cardinality(Missed)
    BY <1>1, <1>2, FS_Subset, FS_CardinalityType
  <2> QED
    BY <1>1, <1>2, <2>1 DEF MissedIsCounted
<1>3. CASE \E p \in Products : Missed' \subseteq Missed \cup {p} /\ mishaps' = mishaps + 1
  <2>1. PICK p \in Products : Missed' \subseteq Missed \cup {p} /\ mishaps' = mishaps + 1
    BY <1>3
  <2>2. /\ IsFiniteSet(Missed \cup {p})
        /\ \/ Cardinality(Missed \cup {p}) = Cardinality(Missed)
           \/ Cardinality(Missed \cup {p}) = Cardinality(Missed) + 1
    BY <1>1, FS_AddElement
  <2>3. /\ IsFiniteSet(Missed') /\ Cardinality(Missed') \in Nat
        /\ Cardinality(Missed') <= Cardinality(Missed \cup {p})
    BY <2>1, <2>2, FS_Subset, FS_CardinalityType
  <2> QED
    BY <1>1, <2>1, <2>2, <2>3 DEF MissedIsCounted
<1> QED
  BY <1>2, <1>3

LEMMA CreateProductStep ==
  ASSUME CInv, NEW p \in Products, NEW req \in CreateProductRequest, CreateProduct(req, p)
  PROVE  CInv'
<1>1. Valid(req) /\ catalog[p] = Absent
  BY DEF CreateProduct
<1>2. Row(req) \in ProductRow /\ PbOf(req, TRUE) = PbOf(Row(req), TRUE)
  BY <1>1, RowType
<1>3. PbOf(req, TRUE) \in PbProduct
  BY <1>2, PbType
<1>4. Row(req) # Absent /\ PbOf(req, TRUE) # Absent /\ NotFound # Absent
  BY <1>2, <1>3, CatalogAssumption
<1>5. CatalogTypeOK'
  BY <1>2, <1>3 DEF CInv, CatalogTypeOK, CreateProduct
<1>6. ToldOfRows'
  <2>1. \A q \in Products :
          /\ catalog'[q] = IF q = p THEN Row(req) ELSE catalog[q]
          /\ created'[q] = IF q = p THEN PbOf(req, TRUE) ELSE created[q]
          /\ shown'[q] = IF q = p THEN Absent ELSE shown[q]
    BY DEF CInv, CatalogTypeOK, CreateProduct
  <2> QED
    BY <1>2, <1>4, <2>1 DEF CInv, ToldOfRows
<1>7. MissedIsCounted'
  <2>1. Missed' \subseteq Missed /\ mishaps' = mishaps
    BY <1>4 DEF CInv, CatalogTypeOK, CreateProduct, Missed
  <2> QED
    BY <2>1, MissedStep DEF CInv
<1> QED
  BY <1>5, <1>6, <1>7 DEF CInv

LEMMA CreateFailsStep ==
  ASSUME CInv, NEW p \in Products, NEW req \in CreateProductRequest, CreateFails(req, p)
  PROVE  CInv'
<1>1. Valid(req) /\ catalog[p] = Absent /\ UNCHANGED <<created, shown>>
  BY DEF CreateFails
<1>2. Row(req) \in ProductRow /\ Row(req) # Absent
  BY <1>1, RowType, CatalogAssumption
<1>3. catalog' = catalog \/ catalog' = [catalog EXCEPT ![p] = Row(req)]
  BY DEF CreateFails
<1>4. mishaps' = mishaps + 1 /\ mishaps < MaxMishaps
  BY DEF CreateFails, Mishap
<1>5. CatalogTypeOK'
  BY <1>1, <1>2, <1>3, <1>4, CatalogAssumption DEF CInv, CatalogTypeOK
<1>6. ToldOfRows'
  BY <1>1, <1>2, <1>3 DEF CInv, CatalogTypeOK, ToldOfRows
<1>7. MissedIsCounted'
  <2>1. Missed' \subseteq Missed
    BY <1>1 DEF Missed
  <2> QED
    BY <2>1, <1>4, MissedStep DEF CInv
<1> QED
  BY <1>5, <1>6, <1>7 DEF CInv

LEMMA GetProductStep ==
  ASSUME CInv, NEW p \in Products, GetProduct(p) \/ GetFails(p)
  PROVE  CInv'
<1>1. UNCHANGED <<catalog, created>>
  BY DEF GetProduct, GetFails
<1>2. PICK told \in PbProduct \cup {NotFound} :
        /\ shown' = [shown EXCEPT ![p] = told]
        /\ told # NotFound => catalog[p] # Absent /\ told = PbOf(catalog[p], FALSE)
        /\ \/ mishaps' = mishaps /\ (told = NotFound => catalog[p] = Absent)
           \/ mishaps' = mishaps + 1 /\ mishaps < MaxMishaps
  <2>1. CASE GetProduct(p) /\ catalog[p] = Absent
    BY <2>1 DEF GetProduct, Found
  <2>2. CASE GetProduct(p) /\ catalog[p] # Absent
    <3>1. PbOf(catalog[p], FALSE) \in PbProduct
      BY <2>2, PbType DEF CInv, CatalogTypeOK
    <3>2. PbOf(catalog[p], FALSE) # NotFound
      BY <3>1, CatalogAssumption
    <3> QED
      BY <2>2, <3>1, <3>2 DEF GetProduct, Found
  <2>3. CASE GetFails(p)
    BY <2>3 DEF GetFails, Mishap
  <2> QED
    BY <2>1, <2>2, <2>3
<1>3. CatalogTypeOK'
  BY <1>1, <1>2, CatalogAssumption DEF CInv, CatalogTypeOK
<1>4. ToldOfRows'
  <2>1. \A q \in Products : shown'[q] = IF q = p THEN told ELSE shown[q]
    BY <1>2 DEF CInv, CatalogTypeOK
  <2> QED
    BY <1>1, <1>2, <2>1 DEF CInv, ToldOfRows
<1>5. MissedIsCounted'
  <2>1. \A q \in Products : shown'[q] = IF q = p THEN told ELSE shown[q]
    BY <1>2 DEF CInv, CatalogTypeOK
  <2>2. Missed' \subseteq Missed \cup {p}
    BY <1>1, <2>1 DEF Missed
  <2>3. CASE mishaps' = mishaps /\ (told = NotFound => catalog[p] = Absent)
    <3>1. Missed' \subseteq Missed
      BY <1>1, <2>1, <2>3 DEF Missed, CInv, ToldOfRows
    <3> QED
      BY <2>3, <3>1, MissedStep DEF CInv
  <2>4. CASE mishaps' = mishaps + 1
    BY <2>2, <2>4, MissedStep DEF CInv
  <2> QED
    BY <1>2, <2>3, <2>4
<1> QED
  BY <1>3, <1>4, <1>5 DEF CInv

LEMMA CatalogInitInv == CatalogInit => CInv
<1> SUFFICES ASSUME CatalogInit PROVE CInv
  OBVIOUS
<1>1. Missed = {} /\ mishaps = 0
  BY DEF CatalogInit, Missed
<1>2. MissedIsCounted
  BY <1>1, FS_EmptySet DEF MissedIsCounted
<1> QED
  BY <1>2, CatalogAssumption DEF CInv, CatalogInit, CatalogTypeOK, ToldOfRows

LEMMA CatalogStep == CInv /\ [CatalogNext]_catalogVars => CInv'
<1> SUFFICES ASSUME CInv, [CatalogNext]_catalogVars PROVE CInv'
  OBVIOUS
<1>1. CASE UNCHANGED catalogVars
  BY <1>1 DEF catalogVars, CInv, CatalogTypeOK, ToldOfRows, MissedIsCounted, Missed
<1>2. CASE CatalogNext
  BY <1>2, GetProductStep, CreateProductStep, CreateFailsStep DEF CatalogNext
<1> QED
  BY <1>1, <1>2

LEMMA CatalogInductive == StorefrontSpec => []CInv
<1>1. StorefrontInit => CInv
  BY CatalogInitInv DEF StorefrontInit
<1> QED
  BY <1>1, CatalogStep, StorefrontStep, PTL DEF StorefrontSpec

\* Only rows of valid requests are stored, and only products are told of.
THEOREM CatalogTypeCorrect == StorefrontSpec => []CatalogTypeOK
<1>1. CInv => CatalogTypeOK
  BY DEF CInv
<1> QED
  BY <1>1, CatalogInductive, PTL

\* For any products: what is read of one is what its creator was told, but
\* that it is active.
THEOREM ProductsReadBack == StorefrontSpec => []ProductReadsBack
<1>1. CInv => ProductReadsBack
  <2> SUFFICES ASSUME CInv, NEW p \in Products, created[p] # Absent, shown[p] \notin {Absent, NotFound}
               PROVE  /\ created[p].active /\ ~ shown[p].active
                      /\ \A c \in {"name", "currency", "price"} : shown[p][c] = created[p][c]
    BY DEF ProductReadsBack
  <2>1. created[p] = PbOf(catalog[p], TRUE) /\ shown[p] = PbOf(catalog[p], FALSE)
    BY DEF CInv, ToldOfRows
  <2> QED
    BY <2>1 DEF PbOf
<1> QED
  BY <1>1, CatalogInductive, PTL

\* For any number of failures: a product that its creator was told of is not
\* found at most once for each of them.
THEOREM ProductsFound == StorefrontSpec => []ProductIsFound
<1>1. CInv => ProductIsFound
  BY DEF CInv, ToldOfRows, MissedIsCounted, Missed, ProductIsFound
<1> QED
  BY <1>1, CatalogInductive, PTL
===============================================================================
