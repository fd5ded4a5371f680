------------------------------ MODULE OrderStore ------------------------------
(***************************************************************************)
(* The order service's database operations, run by concurrent goroutines:  *)
(* repository.CreateOrder, which inserts an order and its items in one     *)
(* transaction, and orderService.UpdateStatus, which checks a transition   *)
(* twice: once on an unlocked read, and again in repository.UpdateStatus   *)
(* on a row held by SELECT ... FOR UPDATE.                                 *)
(*                                                                         *)
(* A call is one invocation and runs once; one whose first statement fails *)
(* touches nothing and is as good as never started.  PostgreSQL is external: a      *)
(* transaction's writes are kept with its call until COMMIT, a row lock is *)
(* held from FOR UPDATE to the end of the transaction, and a lock waiter   *)
(* reads the row as it is when the lock is granted.                        *)
(***************************************************************************)
EXTENDS OrderDomain, Naturals

CONSTANTS Calls,     \* invocations of CreateOrder and UpdateStatus
          Orders,    \* order ids the database can generate
          Size,      \* Size[o]: number of items in the request that makes o
          None       \* no call holds the lock

\* OrderHandler.CreateOrder refuses a request with no items.
ASSUME SizeAssumption == Size \in [Orders -> Nat \ {0}]
ASSUME NoneAssumption == None \notin Calls /\ None \notin Orders

VARIABLES status,    \* committed status of each order, NoOrder without a row
          rows,      \* committed order_items rows of each order
          rowLock,   \* the call whose transaction holds the order's row lock
          pc,        \* where each call is, and its outcome once it returned
          arg,       \* the order a call works on
          to,        \* the status a call is to give it
          seen,      \* the status a call last read
          staged     \* item rows inserted by a call's open transaction

vars == <<status, rows, rowLock, pc, arg, to, seen, staged>>

Active == {"insert", "lock", "validate", "commit"}
Final == {"ok", "notFound", "invalid", "error"}

Init ==
  /\ status = [o \in Orders |-> NoOrder]
  /\ rows = [o \in Orders |-> 0]
  /\ rowLock = [o \in Orders |-> None]
  /\ pc = [c \in Calls |-> "idle"]
  /\ arg = [c \in Calls |-> None]
  /\ to = [c \in Calls |-> NoOrder]
  /\ seen = [c \in Calls |-> NoOrder]
  /\ staged = [c \in Calls |-> 0]

Goto(c, l) == pc' = [pc EXCEPT ![c] = l]

\* The end of a transaction frees the lock its call holds, if it holds one.
Release(c) == rowLock' = [o \in Orders |-> IF rowLock[o] = c THEN None ELSE rowLock[o]]

------------------------------------------------------------------------------
(* repository.CreateOrder *)

\* BeginTx and the INSERT of the order row; the database generates the id.
BeginCreate(c, o) ==
  /\ pc[c] = "idle"
  /\ status[o] = NoOrder
  /\ \A d \in Calls : ~ (pc[d] = "insert" /\ arg[d] = o)
  /\ Goto(c, "insert")
  /\ arg' = [arg EXCEPT ![c] = o]
  /\ to' = [to EXCEPT ![c] = "PENDING"]
  /\ UNCHANGED <<status, rows, rowLock, seen, staged>>

\* One turn of the item loop.
InsertItem(c) ==
  /\ pc[c] = "insert"
  /\ staged[c] < Size[arg[c]]
  /\ staged' = [staged EXCEPT ![c] = @ + 1]
  /\ UNCHANGED <<status, rows, rowLock, pc, arg, to, seen>>

\* Mutated form: the transaction is committed inside the item loop.
CommitCreateInLoop(c) ==
  /\ pc[c] = "insert"
  /\ staged[c] > 0
  /\ \E outcome \in {"ok", "error"} : Goto(c, outcome)
  /\ status' = [status EXCEPT ![arg[c]] = "PENDING"]
  /\ rows' = [rows EXCEPT ![arg[c]] = staged[c]]
  /\ UNCHANGED <<rowLock, arg, to, seen, staged>>

\* COMMIT.  A connection lost after the server committed makes tx.Commit
\* return an error although the order is there.
CommitCreate(c) ==
  /\ pc[c] = "insert"
  /\ staged[c] = Size[arg[c]]
  /\ \E outcome \in {"ok", "error"} : Goto(c, outcome)
  /\ status' = [status EXCEPT ![arg[c]] = "PENDING"]
  /\ rows' = [rows EXCEPT ![arg[c]] = staged[c]]
  /\ UNCHANGED <<rowLock, arg, to, seen, staged>>

------------------------------------------------------------------------------
(* orderService.UpdateStatus, then repository.UpdateStatus *)

\* The service's own read takes no lock.  It turns away a missing order and
\* a transition that is illegal at that moment.
PreCheck(c, o, t) ==
  /\ pc[c] = "idle"
  /\ Goto(c, IF status[o] = NoOrder THEN "notFound"
             ELSE IF CanTransitionTo(status[o], t) THEN "lock" ELSE "invalid")
  /\ arg' = [arg EXCEPT ![c] = o]
  /\ to' = [to EXCEPT ![c] = t]
  /\ seen' = [seen EXCEPT ![c] = status[o]]
  /\ UNCHANGED <<status, rows, rowLock, staged>>

\* Mutated form: the read is not FOR UPDATE.
AcquireLockPlainRead(c) ==
  /\ pc[c] = "lock"
  /\ seen' = [seen EXCEPT ![c] = status[arg[c]]]
  /\ Goto(c, "validate")
  /\ UNCHANGED <<status, rows, rowLock, arg, to, staged>>

\* Mutated form: the row is locked, but the order the service read is checked.
AcquireLockOldRead(c) ==
  /\ pc[c] = "lock"
  /\ rowLock[arg[c]] = None
  /\ rowLock' = [rowLock EXCEPT ![arg[c]] = c]
  /\ Goto(c, "validate")
  /\ UNCHANGED <<status, rows, arg, to, seen, staged>>

\* getOrder(ctx, tx, id, true): waits for the row lock, then reads the row.
AcquireLock(c) ==
  /\ pc[c] = "lock"
  /\ rowLock[arg[c]] = None
  /\ rowLock' = [rowLock EXCEPT ![arg[c]] = c]
  /\ seen' = [seen EXCEPT ![c] = status[arg[c]]]
  /\ Goto(c, "validate")
  /\ UNCHANGED <<status, rows, arg, to, staged>>

\* Mutated form: the locked read is made on r.db instead of tx, so its lock
\* ends with the statement.
ValidateOutsideTx(c) ==
  /\ pc[c] = "validate"
  /\ Goto(c, IF CanTransitionTo(seen[c], to[c]) THEN "commit" ELSE "invalid")
  /\ Release(c)
  /\ UNCHANGED <<status, rows, arg, to, seen, staged>>

\* Mutated form: the early return leaves the transaction open.
ValidateNoRollback(c) ==
  /\ pc[c] = "validate"
  /\ Goto(c, IF CanTransitionTo(seen[c], to[c]) THEN "commit" ELSE "invalid")
  /\ UNCHANGED <<status, rows, rowLock, arg, to, seen, staged>>

\* Mutated form: the service's check is trusted.
ValidateSkipped(c) ==
  /\ pc[c] = "validate"
  /\ Goto(c, "commit")
  /\ UNCHANGED <<status, rows, rowLock, arg, to, seen, staged>>

\* The second check, and the UPDATE when it passes; when it fails the
\* deferred Rollback ends the transaction.
Validate(c) ==
  /\ pc[c] = "validate"
  /\ IF CanTransitionTo(seen[c], to[c])
       THEN Goto(c, "commit") /\ UNCHANGED rowLock
       ELSE Goto(c, "invalid") /\ Release(c)
  /\ UNCHANGED <<status, rows, arg, to, seen, staged>>

\* COMMIT of the UPDATE, with the same unknown outcome as CommitCreate.
CommitUpdate(c) ==
  /\ pc[c] = "commit"
  /\ \E outcome \in {"ok", "error"} : Goto(c, outcome)
  /\ status' = [status EXCEPT ![arg[c]] = to[c]]
  /\ Release(c)
  /\ UNCHANGED <<rows, arg, to, seen, staged>>

\* A statement fails, the context is cancelled, or the process dies: the
\* transaction is rolled back.
Abort(c) ==
  /\ pc[c] \in Active
  /\ Goto(c, "error")
  /\ Release(c)
  /\ UNCHANGED <<status, rows, arg, to, seen, staged>>

------------------------------------------------------------------------------
Start(c) == \E o \in Orders : BeginCreate(c, o) \/ \E t \in Statuses : PreCheck(c, o, t)

Continue(c) ==
  \/ InsertItem(c) \/ CommitCreate(c)
  \/ AcquireLock(c) \/ Validate(c) \/ CommitUpdate(c)

Next == \E c \in Calls : Start(c) \/ Continue(c) \/ Abort(c)

Spec == Init /\ [][Next]_vars

\* A call that was started keeps running: goroutines are scheduled, and a
\* PostgreSQL lock queue is first come, first served.  Nothing forces a call
\* to start or to fail.
Fairness == \A c \in Calls : WF_vars(Continue(c))

LiveSpec == Spec /\ Fairness

------------------------------------------------------------------------------
(* Properties *)

\* Every variable has its type; an open transaction never holds more item
\* rows than its request has items.
TypeOK ==
  /\ status \in [Orders -> Statuses \cup {NoOrder}]
  /\ rows \in [Orders -> Nat]
  /\ rowLock \in [Orders -> Calls \cup {None}]
  /\ pc \in [Calls -> {"idle"} \cup Active \cup Final]
  /\ arg \in [Calls -> Orders \cup {None}]
  /\ to \in [Calls -> Statuses \cup {NoOrder}]
  /\ seen \in [Calls -> Statuses \cup {NoOrder}]
  /\ staged \in [Calls -> Nat]
  /\ \A c \in Calls : pc[c] # "idle" => arg[c] \in Orders /\ to[c] \in Statuses
  /\ \A c \in Calls : staged[c] <= IF pc[c] = "idle" THEN 0 ELSE Size[arg[c]]

\* The check made under the lock is not stale when it is used: while a call
\* stands between its locked read and its COMMIT, the status it read is the
\* status of the row, and no other call stands there for the same order.
LockedReadIsCurrent ==
  \A c \in Calls : pc[c] \in {"validate", "commit"} =>
    /\ seen[c] = status[arg[c]]
    /\ \A d \in Calls : pc[d] \in {"validate", "commit"} /\ arg[d] = arg[c] => d = c

\* Of all the calls that ask for the same move of the same order, however
\* they interleave, at most one is told that it made the move.
OneSuccessPerMove ==
  \A c, d \in Calls :
    pc[c] = "ok" /\ pc[d] = "ok" /\ arg[c] = arg[d] /\ to[c] = to[d] => c = d

\* A reader never meets an order without all its items, whatever failed in
\* the transaction that inserted them.
OrderHasAllItems ==
  \A o \in Orders : rows[o] = IF status[o] = NoOrder THEN 0 ELSE Size[o]

\* Every call returns: an update that waits for a row lock gets it, so no
\* path out of a transaction keeps its lock.
CallsReturn == \A c \in Calls : pc[c] \in Active ~> pc[c] \in Final

\* The store implements the abstract life cycle: no interleaving of the two
\* checks, the locks, the commits and the failures makes an illegal move.
Lifecycle == INSTANCE OrderLifecycle
ImplementsLifecycle == Lifecycle!Spec

\* To its callers the store is atomic: however calls interleave, each takes
\* effect in the step in which it is answered, and is told what is true of the
\* order then; a refusal never rests on a status that has changed since.
Answers == [c \in Calls |-> IF pc[c] \in Final THEN <<pc[c], arg[c], to[c]>> ELSE <<>>]
Atomic == INSTANCE AtomicOrders WITH answer <- Answers
CallsAreAtomic == Atomic!Spec
===============================================================================
