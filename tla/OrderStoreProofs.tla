--------------------------- MODULE OrderStoreProofs ---------------------------
(***************************************************************************)
(* Theorems of OrderStore, for every set of calls and orders and every     *)
(* order size.  The strengthening IInv says what makes the double check    *)
(* safe: the row lock belongs to the call between its locked read and its  *)
(* COMMIT, and a move once made leaves the order at or past its target, so *)
(* it cannot be made again.                                                *)
(***************************************************************************)
EXTENDS OrderStore, TLAPS

\* The statuses an order can have once it has been t.
AtOrAfter(t) ==
  { s \in Statuses : \/ s = t
                     \/ t = "PENDING"
                     \/ t = "PAID" /\ s # "PENDING" }

Locked == {"validate", "commit"}

LockInv ==
  \A c \in Calls : pc[c] \in Locked =>
    rowLock[arg[c]] = c /\ seen[c] = status[arg[c]]

CommitLegal ==
  \A c \in Calls : pc[c] = "commit" => CanTransitionTo(seen[c], to[c])

UpdateFindsOrder ==
  \A c \in Calls : pc[c] \in {"lock"} \cup Locked => status[arg[c]] # NoOrder

CreateIsFirst ==
  \A c \in Calls : pc[c] = "insert" =>
    /\ to[c] = "PENDING"
    /\ status[arg[c]] = NoOrder
    /\ \A d \in Calls : pc[d] = "insert" /\ arg[d] = arg[c] => d = c

MoveIsPast ==
  \A c \in Calls : pc[c] = "ok" => status[arg[c]] \in AtOrAfter(to[c])

IInv ==
  /\ TypeOK
  /\ LockInv
  /\ CommitLegal
  /\ UpdateFindsOrder
  /\ CreateIsFirst
  /\ MoveIsPast
  /\ OneSuccessPerMove
  /\ OrderHasAllItems

------------------------------------------------------------------------------
(* Facts about the transition relation *)

\* A move stays at or past everything its source was at or past.
LEMMA AtOrAfterClosed ==
  ASSUME NEW s \in Statuses, NEW u \in Statuses, NEW t \in Statuses,
         s \in AtOrAfter(t), CanTransitionTo(s, u)
  PROVE  u \in AtOrAfter(t)
  BY DEF AtOrAfter, CanTransitionTo, Statuses

\* No move leads to a status the order already is at or past.
LEMMA NoReturn ==
  ASSUME NEW s \in Statuses, NEW t \in Statuses, CanTransitionTo(s, t)
  PROVE  s \notin AtOrAfter(t) /\ t \in AtOrAfter(t)
  BY DEF AtOrAfter, CanTransitionTo, Statuses

\* An id with no row is at or past nothing, and has no legal move.
LEMMA NoOrderIsNowhere ==
  ASSUME NEW t
  PROVE  NoOrder \notin AtOrAfter(t) /\ ~ CanTransitionTo(NoOrder, t)
  BY DEF AtOrAfter, CanTransitionTo, Statuses, NoOrder

------------------------------------------------------------------------------
LEMMA InitIInv == Init => IInv
  <1> SUFFICES ASSUME Init PROVE IInv
    OBVIOUS
  <1>1. TypeOK
    BY SizeAssumption, NoneAssumption DEF Init, TypeOK
  <1>2. QED
    BY <1>1 DEF Init, IInv, LockInv, CommitLegal, UpdateFindsOrder, CreateIsFirst,
      MoveIsPast, OneSuccessPerMove, OrderHasAllItems, Locked

\* Type correctness is inductive on its own.
LEMMA TypeStep == TypeOK /\ [Next]_vars => TypeOK'
  <1> SUFFICES ASSUME TypeOK, [Next]_vars PROVE TypeOK'
    OBVIOUS
  <1> USE SizeAssumption, NoneAssumption DEF TypeOK, Goto, Release, Active, Final
  <1>1. ASSUME NEW c \in Calls, NEW o \in Orders, BeginCreate(c, o) PROVE TypeOK'
    BY <1>1 DEF BeginCreate, Statuses
  <1>2. ASSUME NEW c \in Calls, NEW o \in Orders, NEW t \in Statuses, PreCheck(c, o, t)
        PROVE  TypeOK'
    BY <1>2 DEF PreCheck
  <1>3. ASSUME NEW c \in Calls, InsertItem(c) PROVE TypeOK'
    BY <1>3 DEF InsertItem
  <1>4. ASSUME NEW c \in Calls, CommitCreate(c) PROVE TypeOK'
    BY <1>4 DEF CommitCreate, Statuses
  <1>5. ASSUME NEW c \in Calls, AcquireLock(c) PROVE TypeOK'
    BY <1>5 DEF AcquireLock
  <1>6. ASSUME NEW c \in Calls, Validate(c) PROVE TypeOK'
    BY <1>6 DEF Validate
  <1>7. ASSUME NEW c \in Calls, CommitUpdate(c) PROVE TypeOK'
    BY <1>7 DEF CommitUpdate
  <1>8. ASSUME NEW c \in Calls, Abort(c) PROVE TypeOK'
    BY <1>8 DEF Abort
  <1>9. CASE UNCHANGED vars
    BY <1>9 DEF vars
  <1>10. QED
    BY <1>1, <1>2, <1>3, <1>4, <1>5, <1>6, <1>7, <1>8, <1>9 DEF Next, Start, Continue

------------------------------------------------------------------------------
(* The other parts of IInv, one lemma per action *)

LEMMA BeginCreateStep ==
  ASSUME IInv, NEW c \in Calls, NEW o \in Orders, BeginCreate(c, o), TypeOK'
  PROVE  IInv'
  <1> USE NoneAssumption DEF IInv, BeginCreate, Goto
  <1>1. LockInv'
    BY DEF LockInv, Locked, TypeOK
  <1>2. CommitLegal'
    BY DEF CommitLegal, TypeOK
  <1>3. UpdateFindsOrder'
    BY DEF UpdateFindsOrder, Locked, TypeOK
  <1>4. CreateIsFirst'
    BY DEF CreateIsFirst, TypeOK
  <1>5. MoveIsPast'
    BY DEF MoveIsPast, TypeOK
  <1>6. OneSuccessPerMove'
    BY DEF OneSuccessPerMove, TypeOK
  <1>7. OrderHasAllItems'
    BY DEF OrderHasAllItems
  <1>8. QED
    BY <1>1, <1>2, <1>3, <1>4, <1>5, <1>6, <1>7

LEMMA InsertItemStep ==
  ASSUME IInv, NEW c \in Calls, InsertItem(c), TypeOK'
  PROVE  IInv'
  BY DEF IInv, InsertItem, LockInv, CommitLegal, UpdateFindsOrder, CreateIsFirst,
    MoveIsPast, OneSuccessPerMove, OrderHasAllItems

\* The only inserter of an id commits it: nobody can have seen the order yet.
LEMMA CommitCreateStep ==
  ASSUME IInv, NEW c \in Calls, CommitCreate(c), TypeOK'
  PROVE  IInv'
  <1> USE NoneAssumption DEF IInv, CommitCreate, Goto
  <1> DEFINE o == arg[c]
  <1>0. o \in Orders /\ to[c] = "PENDING" /\ status[o] = NoOrder
    BY DEF CreateIsFirst, TypeOK
  <1>1. LockInv'
    BY <1>0 DEF LockInv, UpdateFindsOrder, Locked, TypeOK
  <1>2. CommitLegal'
    BY DEF CommitLegal, TypeOK
  <1>3. UpdateFindsOrder'
    BY <1>0 DEF UpdateFindsOrder, Locked, TypeOK, NoOrder
  <1>4. CreateIsFirst'
    BY <1>0 DEF CreateIsFirst, TypeOK
  <1>5. \A d \in Calls : pc[d] = "ok" => arg[d] # o
    BY <1>0, NoOrderIsNowhere DEF MoveIsPast
  <1>6. MoveIsPast'
    BY <1>0, <1>5 DEF MoveIsPast, TypeOK, AtOrAfter, Statuses
  <1>7. OneSuccessPerMove'
    BY <1>5 DEF OneSuccessPerMove, TypeOK
  <1>8. OrderHasAllItems'
    BY <1>0 DEF OrderHasAllItems, TypeOK, NoOrder
  <1>9. QED
    BY <1>1, <1>2, <1>3, <1>4, <1>6, <1>7, <1>8

\* An update that passed the check knows an order that exists.
LEMMA PreCheckStep ==
  ASSUME IInv, NEW c \in Calls, NEW o \in Orders, NEW t \in Statuses,
         PreCheck(c, o, t), TypeOK'
  PROVE  IInv'
  <1> USE NoneAssumption DEF IInv, PreCheck, Goto
  <1>1. LockInv'
    BY DEF LockInv, Locked, TypeOK
  <1>2. CommitLegal'
    BY DEF CommitLegal, TypeOK
  <1>3. UpdateFindsOrder'
    BY DEF UpdateFindsOrder, Locked, TypeOK
  <1>4. CreateIsFirst'
    BY DEF CreateIsFirst, TypeOK
  <1>5. MoveIsPast'
    BY DEF MoveIsPast, TypeOK
  <1>6. OneSuccessPerMove'
    BY DEF OneSuccessPerMove, TypeOK
  <1>7. OrderHasAllItems'
    BY DEF OrderHasAllItems
  <1>8. QED
    BY <1>1, <1>2, <1>3, <1>4, <1>5, <1>6, <1>7

LEMMA AcquireLockStep ==
  ASSUME IInv, NEW c \in Calls, AcquireLock(c), TypeOK'
  PROVE  IInv'
  <1> USE NoneAssumption DEF IInv, AcquireLock, Goto
  <1>1. LockInv'
    BY DEF LockInv, Locked, TypeOK
  <1>2. CommitLegal'
    BY DEF CommitLegal, TypeOK
  <1>3. UpdateFindsOrder'
    BY DEF UpdateFindsOrder, Locked, TypeOK
  <1>4. CreateIsFirst'
    BY DEF CreateIsFirst, TypeOK
  <1>5. MoveIsPast'
    BY DEF MoveIsPast, TypeOK
  <1>6. OneSuccessPerMove'
    BY DEF OneSuccessPerMove, TypeOK
  <1>7. OrderHasAllItems'
    BY DEF OrderHasAllItems
  <1>8. QED
    BY <1>1, <1>2, <1>3, <1>4, <1>5, <1>6, <1>7

LEMMA ValidateStep ==
  ASSUME IInv, NEW c \in Calls, Validate(c), TypeOK'
  PROVE  IInv'
  <1> USE NoneAssumption DEF IInv, Validate, Goto, Release
  <1>1. LockInv'
    BY DEF LockInv, Locked, TypeOK
  <1>2. CommitLegal'
    BY DEF CommitLegal, TypeOK
  <1>3. UpdateFindsOrder'
    BY DEF UpdateFindsOrder, Locked, TypeOK
  <1>4. CreateIsFirst'
    BY DEF CreateIsFirst, TypeOK
  <1>5. MoveIsPast'
    BY DEF MoveIsPast, TypeOK
  <1>6. OneSuccessPerMove'
    BY DEF OneSuccessPerMove, TypeOK
  <1>7. OrderHasAllItems'
    BY DEF OrderHasAllItems
  <1>8. QED
    BY <1>1, <1>2, <1>3, <1>4, <1>5, <1>6, <1>7

\* The row lock makes the check current, so the move is legal; a legal move
\* was never made before and undoes no move that was.
LEMMA CommitUpdateStep ==
  ASSUME IInv, NEW c \in Calls, CommitUpdate(c), TypeOK'
  PROVE  IInv'
  <1> USE NoneAssumption DEF IInv, CommitUpdate, Goto, Release
  <1> DEFINE o == arg[c]
             t == to[c]
  <1>0. o \in Orders /\ t \in Statuses /\ status[o] \in Statuses
    BY DEF TypeOK, UpdateFindsOrder, Locked, Active, Final
  <1>1. rowLock[o] = c /\ CanTransitionTo(status[o], t)
    BY DEF LockInv, CommitLegal, Locked
  <1>2. LockInv'
    BY <1>0, <1>1 DEF LockInv, Locked, TypeOK
  <1>3. CommitLegal'
    BY DEF CommitLegal, TypeOK
  <1>4. UpdateFindsOrder'
    BY <1>0 DEF UpdateFindsOrder, Locked, TypeOK, Statuses, NoOrder
  <1>5. CreateIsFirst'
    <2>1. \A d \in Calls : pc[d] = "insert" => arg[d] # o
      BY <1>0 DEF CreateIsFirst, Statuses, NoOrder
    <2>2. QED
      BY <2>1 DEF CreateIsFirst, TypeOK
  <1>6. MoveIsPast'
    <2> SUFFICES ASSUME NEW d \in Calls, pc'[d] = "ok"
                 PROVE  status'[arg[d]] \in AtOrAfter(to[d])
      BY DEF MoveIsPast
    <2>1. CASE d = c
      BY <2>1, <1>0, <1>1, NoReturn DEF TypeOK
    <2>2. CASE d # c /\ arg[d] # o
      BY <2>2 DEF MoveIsPast, TypeOK
    <2>3. CASE d # c /\ arg[d] = o
      <3>1. pc[d] = "ok" /\ to[d] \in Statuses /\ status[o] \in AtOrAfter(to[d])
        BY <2>3 DEF MoveIsPast, TypeOK
      <3>2. t \in AtOrAfter(to[d])
        BY <3>1, <1>0, <1>1, AtOrAfterClosed
      <3>3. QED
        BY <3>2, <2>3, <1>0 DEF TypeOK
    <2>4. QED
      BY <2>1, <2>2, <2>3
  <1>7. OneSuccessPerMove'
    <2>1. \A d \in Calls : pc[d] = "ok" /\ arg[d] = o => to[d] # t
      BY <1>0, <1>1, NoReturn DEF MoveIsPast
    <2>2. QED
      BY <2>1 DEF OneSuccessPerMove, TypeOK
  <1>8. OrderHasAllItems'
    BY <1>0 DEF OrderHasAllItems, TypeOK, Statuses, NoOrder
  <1>9. QED
    BY <1>2, <1>3, <1>4, <1>5, <1>6, <1>7, <1>8

LEMMA AbortStep ==
  ASSUME IInv, NEW c \in Calls, Abort(c), TypeOK'
  PROVE  IInv'
  <1> USE NoneAssumption DEF IInv, Abort, Goto, Release
  <1>1. LockInv'
    BY DEF LockInv, Locked, TypeOK
  <1>2. CommitLegal'
    BY DEF CommitLegal, TypeOK
  <1>3. UpdateFindsOrder'
    BY DEF UpdateFindsOrder, Locked, TypeOK
  <1>4. CreateIsFirst'
    BY DEF CreateIsFirst, TypeOK
  <1>5. MoveIsPast'
    BY DEF MoveIsPast, TypeOK
  <1>6. OneSuccessPerMove'
    BY DEF OneSuccessPerMove, TypeOK
  <1>7. OrderHasAllItems'
    BY DEF OrderHasAllItems
  <1>8. QED
    BY <1>1, <1>2, <1>3, <1>4, <1>5, <1>6, <1>7

LEMMA StutterStep ==
  ASSUME IInv, UNCHANGED vars
  PROVE  IInv'
  BY DEF IInv, vars, TypeOK, LockInv, CommitLegal, UpdateFindsOrder, CreateIsFirst,
    MoveIsPast, OneSuccessPerMove, OrderHasAllItems

LEMMA IInvStep == IInv /\ [Next]_vars => IInv'
  <1> SUFFICES ASSUME IInv, [Next]_vars PROVE IInv'
    OBVIOUS
  <1>1. TypeOK'
    BY TypeStep DEF IInv
  <1>2. QED
    BY <1>1, BeginCreateStep, InsertItemStep, CommitCreateStep, PreCheckStep,
      AcquireLockStep, ValidateStep, CommitUpdateStep, AbortStep, StutterStep
      DEF Next, Start, Continue

LEMMA IInvHolds == Spec => []IInv
  BY InitIInv, IInvStep, PTL DEF Spec

------------------------------------------------------------------------------
(* Theorems *)

\* Every reachable state is well typed: no call holds more item rows than its
\* request has items.
THEOREM TypeCorrect == Spec => []TypeOK
  <1>1. IInv => TypeOK
    BY DEF IInv
  <1>2. QED
    BY <1>1, IInvHolds, PTL

\* The status read by SELECT ... FOR UPDATE stays the row's status until the
\* call commits.
THEOREM LockedReadCurrent == Spec => []LockedReadIsCurrent
  <1>1. IInv => LockedReadIsCurrent
    BY DEF IInv, LockInv, LockedReadIsCurrent, Locked
  <1>2. QED
    BY <1>1, IInvHolds, PTL

\* No move of an order is made, and reported as made, twice.
THEOREM OneSuccess == Spec => []OneSuccessPerMove
  <1>1. IInv => OneSuccessPerMove
    BY DEF IInv
  <1>2. QED
    BY <1>1, IInvHolds, PTL

\* An order is visible with all its items or not at all.
THEOREM AllItems == Spec => []OrderHasAllItems
  <1>1. IInv => OrderHasAllItems
    BY DEF IInv
  <1>2. QED
    BY <1>1, IInvHolds, PTL

\* Every step of the store is a step of the abstract life cycle or leaves the
\* committed statuses alone.
LEMMA LifecycleStep == IInv /\ [Next]_vars => [Lifecycle!Next]_status
  <1> SUFFICES ASSUME IInv, [Next]_vars PROVE [Lifecycle!Next]_status
    OBVIOUS
  <1> USE DEF Lifecycle!Next, Lifecycle!Create, Lifecycle!Transition
  <1>1. ASSUME NEW c \in Calls, CommitCreate(c) PROVE Lifecycle!Next
    <2>1. arg[c] \in Orders /\ status[arg[c]] = NoOrder
      BY <1>1 DEF IInv, CreateIsFirst, TypeOK, CommitCreate
    <2>2. Lifecycle!Create(arg[c])
      BY <1>1, <2>1 DEF CommitCreate, Lifecycle!NoOrder, NoOrder
    <2>3. QED
      BY <2>1, <2>2
  <1>2. ASSUME NEW c \in Calls, CommitUpdate(c) PROVE Lifecycle!Next
    <2>1. arg[c] \in Orders /\ to[c] \in Statuses
      BY <1>2 DEF IInv, TypeOK, CommitUpdate
    <2>2. CanTransitionTo(status[arg[c]], to[c])
      BY <1>2 DEF IInv, LockInv, CommitLegal, Locked, CommitUpdate
    <2>3. QED
      BY <1>2, <2>1, <2>2 DEF CommitUpdate, Lifecycle!CanTransitionTo, CanTransitionTo,
        Lifecycle!Statuses, Statuses
  <1>3. QED
    BY <1>1, <1>2 DEF Next, Start, Continue, vars, BeginCreate, PreCheck, InsertItem,
      AcquireLock, Validate, Abort

\* The store implements the abstract life cycle.
THEOREM StoreImplementsLifecycle == Spec => ImplementsLifecycle
  <1>1. Init => Lifecycle!Init
    BY DEF Init, Lifecycle!Init, Lifecycle!NoOrder, NoOrder
  <1>2. QED
    BY <1>1, LifecycleStep, IInvHolds, PTL DEF Spec, ImplementsLifecycle, Lifecycle!Spec

------------------------------------------------------------------------------
(* The store is atomic *)

\* A step that brings one call to its end gives one answer.
LEMMA AnswerGiven ==
  ASSUME TypeOK, NEW c \in Calls, pc[c] \notin Final,
         NEW v \in Final, NEW o, NEW t,
         pc'[c] = v, arg'[c] = o, to'[c] = t,
         \A d \in Calls : d # c => pc'[d] = pc[d] /\ arg'[d] = arg[d] /\ to'[d] = to[d]
  PROVE  Atomic!Answer(c, v, o, t)
  <1>1. Answers[c] = <<>>
    BY DEF Answers
  <1>2. Answers' = [Answers EXCEPT ![c] = <<v, o, t>>]
    BY DEF Answers
  <1>3. QED
    BY <1>1, <1>2 DEF Atomic!Answer, Atomic!Unanswered

\* A step that brings no call to its end gives none.
LEMMA NoAnswer ==
  ASSUME NEW c \in Calls, pc[c] \notin Final, pc'[c] \notin Final,
         \A d \in Calls : d # c => pc'[d] = pc[d] /\ arg'[d] = arg[d] /\ to'[d] = to[d]
  PROVE  Answers' = Answers
  BY DEF Answers

\* A successful commit is the move it reports; one that reports an error has
\* moved the order all the same.
LEMMA CommitIsMove ==
  ASSUME NEW c \in Calls, NEW o \in Orders, NEW t \in Statuses, NEW v \in {"ok", "error"},
         Atomic!Answer(c, v, o, t), Atomic!Move(o, t)
  PROVE  Atomic!Next
  BY DEF Atomic!Next, Atomic!Succeed, Atomic!Fail, Atomic!Statuses, Statuses

LEMMA AtomicStep == IInv /\ [Next]_vars => [Atomic!Next]_<<status, Answers>>
  <1> SUFFICES ASSUME IInv, [Next]_vars
               PROVE  Atomic!Next \/ UNCHANGED <<status, Answers>>
    OBVIOUS
  <1>0. TypeOK
    BY DEF IInv
  <1>1. ASSUME NEW c \in Calls, NEW o \in Orders, BeginCreate(c, o)
        PROVE  UNCHANGED <<status, Answers>>
    BY <1>0, <1>1, NoAnswer DEF BeginCreate, Goto, TypeOK, Final
  <1>2. ASSUME NEW c \in Calls, NEW o \in Orders, NEW t \in Statuses, PreCheck(c, o, t)
        PROVE  Atomic!Next \/ UNCHANGED <<status, Answers>>
    <2>1. /\ pc[c] \notin Final /\ arg'[c] = o /\ to'[c] = t /\ status' = status
          /\ \A d \in Calls : d # c => pc'[d] = pc[d] /\ arg'[d] = arg[d] /\ to'[d] = to[d]
      BY <1>0, <1>2 DEF PreCheck, Goto, TypeOK, Final
    <2>2. CASE pc'[c] = "lock"
      BY <2>1, <2>2, NoAnswer DEF Final
    <2>3. CASE status[o] = NoOrder
      <3>1. pc'[c] = "notFound"
        BY <1>0, <1>2, <2>3 DEF PreCheck, Goto, TypeOK
      <3>2. Atomic!Answer(c, "notFound", o, t)
        BY <1>0, <2>1, <3>1, AnswerGiven DEF Final
      <3>3. Atomic!FindNothing(c, o, t)
        BY <2>1, <2>3, <3>2 DEF Atomic!FindNothing, Atomic!NoOrder, NoOrder
      <3>4. QED
        BY <3>3 DEF Atomic!Next, Atomic!Statuses, Statuses
    <2>4. CASE pc'[c] # "lock" /\ status[o] # NoOrder
      <3>1. pc'[c] = "invalid" /\ ~ CanTransitionTo(status[o], t)
        BY <1>0, <1>2, <2>4 DEF PreCheck, Goto, TypeOK
      <3>2. Atomic!Answer(c, "invalid", o, t)
        BY <1>0, <2>1, <3>1, AnswerGiven DEF Final
      <3>3. Atomic!Refuse(c, o, t)
        BY <2>1, <2>4, <3>1, <3>2 DEF Atomic!Refuse, Atomic!NoOrder, NoOrder,
          Atomic!CanTransitionTo, CanTransitionTo
      <3>4. QED
        BY <3>3 DEF Atomic!Next, Atomic!Statuses, Statuses
    <2>5. QED
      BY <2>2, <2>3, <2>4
  <1>3. ASSUME NEW c \in Calls, InsertItem(c) PROVE UNCHANGED <<status, Answers>>
    BY <1>3 DEF InsertItem, Answers
  <1>4. ASSUME NEW c \in Calls, AcquireLock(c) PROVE UNCHANGED <<status, Answers>>
    BY <1>0, <1>4, NoAnswer DEF AcquireLock, Goto, TypeOK, Final
  <1>5. ASSUME NEW c \in Calls, CommitCreate(c) PROVE Atomic!Next
    <2>1. /\ arg[c] \in Orders /\ to[c] = "PENDING" /\ status[arg[c]] = NoOrder
          /\ pc[c] \notin Final
      BY <1>5 DEF IInv, CreateIsFirst, TypeOK, CommitCreate, Final
    <2>2. Atomic!Move(arg[c], to[c])
      BY <1>5, <2>1 DEF CommitCreate, Atomic!Move, Atomic!Legal, Atomic!NoOrder, NoOrder
    <2>3. PICK v \in {"ok", "error"} : Goto(c, v)
      BY <1>5 DEF CommitCreate
    <2>4. Atomic!Answer(c, v, arg[c], to[c])
      BY <1>0, <1>5, <2>1, <2>3, AnswerGiven DEF CommitCreate, Goto, TypeOK, Final
    <2>5. QED
      BY <2>1, <2>2, <2>4, CommitIsMove DEF Statuses
  <1>6. ASSUME NEW c \in Calls, Validate(c)
        PROVE  Atomic!Next \/ UNCHANGED <<status, Answers>>
    <2>1. /\ arg[c] \in Orders /\ to[c] \in Statuses /\ pc[c] = "validate"
          /\ UNCHANGED <<status, arg, to>>
      BY <1>0, <1>6 DEF Validate, TypeOK
    <2>2. CASE CanTransitionTo(seen[c], to[c])
      BY <1>0, <1>6, <2>1, <2>2, NoAnswer DEF Validate, Goto, TypeOK, Final
    <2>3. CASE ~ CanTransitionTo(seen[c], to[c])
      <3>1. status[arg[c]] # NoOrder /\ ~ CanTransitionTo(status[arg[c]], to[c])
        BY <2>1, <2>3 DEF IInv, LockInv, UpdateFindsOrder, Locked
      <3>2. Goto(c, "invalid")
        BY <1>6, <2>3 DEF Validate
      <3>3. Atomic!Answer(c, "invalid", arg[c], to[c])
        BY <1>0, <2>1, <3>2, AnswerGiven DEF Goto, TypeOK, Final
      <3>4. Atomic!Refuse(c, arg[c], to[c])
        BY <2>1, <3>1, <3>3 DEF Atomic!Refuse, Atomic!NoOrder, NoOrder,
          Atomic!CanTransitionTo, CanTransitionTo
      <3>5. QED
        BY <2>1, <3>4 DEF Atomic!Next, Atomic!Statuses, Statuses
    <2>4. QED
      BY <2>2, <2>3
  <1>7. ASSUME NEW c \in Calls, CommitUpdate(c) PROVE Atomic!Next
    <2>1. /\ arg[c] \in Orders /\ to[c] \in Statuses
          /\ pc[c] \notin Final
      BY <1>0, <1>7 DEF TypeOK, CommitUpdate, Final
    <2>2. CanTransitionTo(status[arg[c]], to[c])
      BY <1>7 DEF IInv, LockInv, CommitLegal, Locked, CommitUpdate
    <2>3. Atomic!Move(arg[c], to[c])
      BY <1>7, <2>2 DEF CommitUpdate, Atomic!Move, Atomic!Legal, Atomic!CanTransitionTo,
        CanTransitionTo
    <2>4. PICK v \in {"ok", "error"} : Goto(c, v)
      BY <1>7 DEF CommitUpdate
    <2>5. Atomic!Answer(c, v, arg[c], to[c])
      BY <1>0, <1>7, <2>1, <2>4, AnswerGiven DEF CommitUpdate, Goto, TypeOK, Final
    <2>6. QED
      BY <2>1, <2>3, <2>5, CommitIsMove
  <1>8. ASSUME NEW c \in Calls, Abort(c) PROVE Atomic!Next
    <2>1. arg[c] \in Orders /\ to[c] \in Statuses /\ pc[c] \notin Final
      BY <1>0, <1>8 DEF Abort, TypeOK, Active, Final
    <2>2. Atomic!Answer(c, "error", arg[c], to[c])
      BY <1>0, <1>8, <2>1, AnswerGiven DEF Abort, Goto, TypeOK, Final
    <2>3. Atomic!Fail(c, arg[c], to[c])
      BY <1>8, <2>2 DEF Abort, Atomic!Fail
    <2>4. QED
      BY <2>1, <2>3 DEF Atomic!Next, Atomic!Statuses, Statuses
  <1>9. CASE UNCHANGED vars
    BY <1>9 DEF vars, Answers
  <1>10. QED
    BY <1>1, <1>2, <1>3, <1>4, <1>5, <1>6, <1>7, <1>8, <1>9 DEF Next, Start, Continue

\* To its callers the store is atomic: every call takes effect, or is refused
\* with a true reason, in the very step in which it is answered.
THEOREM StoreIsAtomic == Spec => CallsAreAtomic
  <1>1. Init => Atomic!Init
    BY DEF Init, Atomic!Init, Atomic!NoOrder, NoOrder, Atomic!Unanswered, Answers, Final
  <1>2. QED
    BY <1>1, AtomicStep, IInvHolds, PTL DEF Spec, CallsAreAtomic, Atomic!Spec
===============================================================================
