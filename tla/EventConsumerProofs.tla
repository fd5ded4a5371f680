------------------------- MODULE EventConsumerProofs -------------------------
(***************************************************************************)
(* Theorems of EventConsumer, for every set of services and messages and   *)
(* any number of faults: its type invariant, which is inductive, and that  *)
(* it implements AtLeastOnce.  The refinement turns on one identity: what  *)
(* the broker answers for is what is ready plus, as long as the            *)
(* subscription is live, what was delivered and not settled.               *)
(***************************************************************************)
EXTENDS EventConsumer, TLAPS

USE DEF AddBag, Empty, Fault

LEMMA TypeInit == ConsumerInit => ConsumerTypeOK
  BY ConsumerAssumption DEF ConsumerInit, ConsumerTypeOK, Locations

\* A severed connection keeps the types of what it changes.
LEMMA SeverType ==
  ASSUME ConsumerTypeOK, NEW s \in Services, Sever(s)
  PROVE  /\ conn' \in [Services -> BOOLEAN]
         /\ ready' \in [Services -> [Msgs -> Nat]]
         /\ open' \in [Services -> BOOLEAN]
         /\ ~ open'[s]
         /\ \A t \in Services : t # s => open'[t] = open[t] /\ conn'[t] = conn[t]
  <1>1. AddBag(ready[s], Unacked(s)) \in [Msgs -> Nat]
    BY DEF ConsumerTypeOK, Unacked, Held
  <1>2. QED
    BY <1>1, ConsumerAssumption DEF ConsumerTypeOK, Sever

LEMMA TypeStep == ConsumerTypeOK /\ [ConsumerNext]_consumerVars => ConsumerTypeOK'
  <1> SUFFICES ASSUME ConsumerTypeOK, [ConsumerNext]_consumerVars
               PROVE  ConsumerTypeOK'
    OBVIOUS
  <1> USE ConsumerAssumption DEF ConsumerTypeOK, Goto, Locations, Verdicts
  <1>1. ASSUME NEW s \in Services, Reconnect(s) PROVE ConsumerTypeOK'
    BY <1>1 DEF Reconnect
  <1>2. ASSUME NEW s \in Services, Declare(s) PROVE ConsumerTypeOK'
    BY <1>2 DEF Declare
  <1>3. ASSUME NEW s \in Services, SetupFails(s) PROVE ConsumerTypeOK'
    BY <1>3 DEF SetupFails
  <1>4. ASSUME NEW s \in Services, Subscribe(s) PROVE ConsumerTypeOK'
    BY <1>4 DEF Subscribe
  <1>5. ASSUME NEW s \in Services, StreamClosed(s) PROVE ConsumerTypeOK'
    BY <1>5 DEF StreamClosed
  <1>6. ASSUME NEW s \in Services, Settle(s) PROVE ConsumerTypeOK'
    BY <1>6 DEF Settle
  <1>7. ASSUME NEW s \in Services, NEW m \in Msgs, Push(s, m) PROVE ConsumerTypeOK'
    BY <1>7 DEF Push
  <1>8. ASSUME NEW s \in Services, NEW m \in Msgs, Take(s, m) PROVE ConsumerTypeOK'
    BY <1>8 DEF Take
  <1>9. ASSUME NEW s \in Services, HandleAny(s) PROVE ConsumerTypeOK'
    BY <1>9 DEF HandleAny, HandlerReturns
  <1>10. ASSUME NEW s \in Services, LoseConnection(s) PROVE ConsumerTypeOK'
    BY <1>10, SeverType DEF LoseConnection
  <1>11. ASSUME NEW s \in Services, CloseClient(s) PROVE ConsumerTypeOK'
    BY <1>11, SeverType DEF CloseClient
  <1>11a. ASSUME NEW s \in Services, Vanish(s), Fault \/ UNCHANGED faults PROVE ConsumerTypeOK'
    <2>1. faults' \in 0..MaxFaults
      BY <1>11a
    <2>2. QED
      BY <1>11a, <2>1, SeverType DEF Vanish
  <1>12. ASSUME NEW s \in Services, NEW m \in Msgs, Arrive(s, m) PROVE ConsumerTypeOK'
    BY <1>12 DEF Arrive, Enqueue
  <1>13. CASE UNCHANGED consumerVars \/ Elsewhere
    BY <1>13 DEF consumerVars, Elsewhere
  <1>14. QED
    BY <1>1, <1>2, <1>3, <1>4, <1>5, <1>6, <1>7, <1>8, <1>9, <1>10, <1>11, <1>11a, <1>12,
      <1>13 DEF ConsumerNext, Deliver, Loop

\* Every reachable state is well typed, and a subscription is live only on a
\* live connection.
THEOREM ConsumerTypeCorrect == ConsumerSpec => []ConsumerTypeOK
  BY TypeInit, TypeStep, PTL DEF ConsumerSpec

------------------------------------------------------------------------------
(* The refinement *)

Owed == [s \in Services |-> Backlog(s)]
Said == [s \in Services |-> Verdict(s)]

\* Copies of m the broker answers for to s.
Copies(s, m) == ready[s][m] + (IF open[s] THEN buf[s][m] + Held(s, m) ELSE 0)

LEMMA BacklogIsCopies ==
  ASSUME ConsumerTypeOK, NEW s \in Services
  PROVE  Backlog(s) = [m \in Msgs |-> Copies(s, m)]
  BY DEF ConsumerTypeOK, Backlog, Unacked, Held, Copies

LEMMA BacklogIsCopiesNext ==
  ASSUME ConsumerTypeOK', NEW s \in Services
  PROVE  Backlog(s)' = [m \in Msgs |-> Copies(s, m)']
  BY DEF ConsumerTypeOK, Backlog, Unacked, Held, Copies

\* A step that changes no count leaves the backlogs alone.
LEMMA SameCopies ==
  ASSUME ConsumerTypeOK, ConsumerTypeOK',
         \A s \in Services, m \in Msgs : Copies(s, m)' = Copies(s, m)
  PROVE  Owed' = Owed
  <1>1. \A s \in Services : Backlog(s)' = Backlog(s)
    BY BacklogIsCopies, BacklogIsCopiesNext
  <1>2. QED
    BY <1>1 DEF Owed

\* A step that changes one count changes one backlog.
LEMMA OneCopy ==
  ASSUME ConsumerTypeOK, ConsumerTypeOK',
         NEW s \in Services, NEW m \in Msgs, NEW n,
         Copies(s, m)' = n,
         \A t \in Services, k \in Msgs :
           t # s \/ k # m => Copies(t, k)' = Copies(t, k)
  PROVE  /\ Owed[s][m] = Copies(s, m)
         /\ Owed' = [Owed EXCEPT ![s][m] = n]
  <1>1. \A t \in Services : t # s => Backlog(t)' = Backlog(t)
    BY BacklogIsCopies, BacklogIsCopiesNext
  <1>2. Backlog(s)' = [Backlog(s) EXCEPT ![m] = n]
    BY BacklogIsCopies, BacklogIsCopiesNext
  <1>3. QED
    BY <1>1, <1>2, BacklogIsCopies DEF Owed

LEMMA SeverKeepsCopies ==
  ASSUME ConsumerTypeOK, NEW s \in Services, Sever(s),
         \A t \in Services \ {s} : buf'[t] = buf[t] /\ cur'[t] = cur[t],
         NEW t \in Services, NEW m \in Msgs
  PROVE  Copies(t, m)' = Copies(t, m)
  <1>1. CASE t = s
    BY <1>1 DEF Sever, ConsumerTypeOK, Copies, Held, Unacked
  <1>2. CASE t # s
    BY <1>2 DEF Sever, ConsumerTypeOK, Copies, Held
  <1>3. QED
    BY <1>1, <1>2

\* Each step of the consumer is a step of the promise or a stutter.
LEMMA PromiseStep ==
  ConsumerTypeOK /\ ConsumerTypeOK' /\ [ConsumerNext]_consumerVars
    => [Promise!Next]_<<Owed, Said>>
  <1> SUFFICES ASSUME ConsumerTypeOK, ConsumerTypeOK', [ConsumerNext]_consumerVars
               PROVE  [Promise!Next]_<<Owed, Said>>
    OBVIOUS
  <1> USE ConsumerAssumption DEF ConsumerTypeOK, Goto, Locations, Verdicts, Copies, Held,
        Said, Verdict
  <1>1. ASSUME NEW s \in Services, Reconnect(s) PROVE Owed' = Owed /\ Said' = Said
    <2>1. \A t \in Services, m \in Msgs : Copies(t, m)' = Copies(t, m)
      BY <1>1 DEF Reconnect
    <2>2. QED
      BY <2>1, <1>1, SameCopies DEF Reconnect
  <1>2. ASSUME NEW s \in Services, Declare(s) PROVE Owed' = Owed /\ Said' = Said
    <2>1. \A t \in Services, m \in Msgs : Copies(t, m)' = Copies(t, m)
      BY <1>2 DEF Declare
    <2>2. QED
      BY <2>1, <1>2, SameCopies DEF Declare
  <1>3. ASSUME NEW s \in Services, SetupFails(s) PROVE Owed' = Owed /\ Said' = Said
    <2>1. \A t \in Services, m \in Msgs : Copies(t, m)' = Copies(t, m)
      BY <1>3 DEF SetupFails
    <2>2. QED
      BY <2>1, <1>3, SameCopies DEF SetupFails
  <1>4. ASSUME NEW s \in Services, Subscribe(s) PROVE Owed' = Owed /\ Said' = Said
    <2>1. \A t \in Services, m \in Msgs : Copies(t, m)' = Copies(t, m)
      BY <1>4 DEF Subscribe
    <2>2. QED
      BY <2>1, <1>4, SameCopies DEF Subscribe
  <1>5. ASSUME NEW s \in Services, StreamClosed(s) PROVE Owed' = Owed /\ Said' = Said
    <2>1. \A t \in Services, m \in Msgs : Copies(t, m)' = Copies(t, m)
      BY <1>5 DEF StreamClosed
    <2>2. QED
      BY <2>1, <1>5, SameCopies DEF StreamClosed
  <1>6. ASSUME NEW s \in Services, NEW m \in Msgs, Push(s, m)
        PROVE  Owed' = Owed /\ Said' = Said
    <2>1. \A t \in Services, k \in Msgs : Copies(t, k)' = Copies(t, k)
      BY <1>6 DEF Push
    <2>2. QED
      BY <2>1, <1>6, SameCopies DEF Push
  <1>7. ASSUME NEW s \in Services, NEW m \in Msgs, Take(s, m)
        PROVE  Owed' = Owed /\ Said' = Said
    <2>1. \A t \in Services, k \in Msgs : Copies(t, k)' = Copies(t, k)
      BY <1>7 DEF Take
    <2>2. QED
      BY <2>1, <1>7, SameCopies DEF Take
  <1>8. ASSUME NEW s \in Services, LoseConnection(s) PROVE Owed' = Owed /\ Said' = Said
    <2>1. \A t \in Services, m \in Msgs : Copies(t, m)' = Copies(t, m)
      BY <1>8, SeverKeepsCopies DEF LoseConnection
    <2>2. QED
      BY <2>1, <1>8, SameCopies DEF LoseConnection
  <1>8a. ASSUME NEW s \in Services, CloseClient(s) PROVE Owed' = Owed /\ Said' = Said
    <2>1. \A t \in Services, m \in Msgs : Copies(t, m)' = Copies(t, m)
      BY <1>8a, SeverKeepsCopies DEF CloseClient
    <2>2. QED
      BY <2>1, <1>8a, SameCopies DEF CloseClient
  <1>9. ASSUME NEW s \in Services, Vanish(s) PROVE Promise!Next
    <2>1. \A t \in Services, m \in Msgs : Copies(t, m)' = Copies(t, m)
      BY <1>9, SeverKeepsCopies DEF Vanish
    <2>2. Promise!Forget(s)
      BY <2>1, <1>9, SameCopies DEF Vanish, Promise!Forget, Owed
    <2>3. QED
      BY <2>2 DEF Promise!Next
  <1>10. ASSUME NEW s \in Services, HandleAny(s) PROVE [Promise!Next]_<<Owed, Said>>
    <2>1. Owed' = Owed
      BY <1>10, SameCopies DEF HandleAny
    <2>2. PICK v \in Verdicts : HandlerReturns(s, v)
      BY <1>10 DEF HandleAny
    <2>3. CASE v = "requeue"
      BY <2>1, <2>2, <2>3, <1>10 DEF HandleAny, HandlerReturns
    <2>4. CASE v # "requeue"
      <3>1. PICK m \in Msgs : m = cur[s]
        BY <2>2 DEF HandlerReturns
      <3>2. Promise!Decide(s, m)
        BY <2>1, <2>2, <2>4, <3>1, <1>10 DEF HandleAny, HandlerReturns, Promise!Decide, Owed
      <3>3. Promise!Next
        BY ONLY <3>2, s \in Services, m \in Msgs DEF Promise!Next
      <3>4. QED
        BY ONLY <3>3
    <2>5. QED
      BY <2>3, <2>4
  <1>11. ASSUME NEW s \in Services, Settle(s) PROVE [Promise!Next]_<<Owed, Said>>
    <2>0. PICK m \in Msgs : m = cur[s] /\ m # None
      BY <1>11 DEF Settle
    <2>1. CASE pc[s] = "requeue"
      <3>1. \A t \in Services, k \in Msgs : Copies(t, k)' = Copies(t, k)
        <4>1. CASE ~ open[s]
          BY <2>0, <2>1, <4>1, <1>11 DEF Settle
        <4>2. CASE open[s]
          <5>1. Copies(s, m)' = Copies(s, m)
            BY <2>0, <2>1, <4>2, <1>11 DEF Settle
          <5>2. \A t \in Services, k \in Msgs :
                  t # s \/ k # m => Copies(t, k)' = Copies(t, k)
            BY <2>0, <2>1, <4>2, <1>11 DEF Settle
          <5>3. QED
            BY <5>1, <5>2
        <4>3. QED
          BY <4>1, <4>2
      <3>2. QED
        BY <3>1, <2>1, <1>11, SameCopies DEF Settle
    <2>2. CASE pc[s] # "requeue" /\ ~ open[s]
      <3>1. \A t \in Services, k \in Msgs : Copies(t, k)' = Copies(t, k)
        BY <2>2, <1>11 DEF Settle
      <3>2. Promise!Forget(s)
        BY <3>1, <2>2, <1>11, SameCopies DEF Settle, Promise!Forget, Owed
      <3>3. QED
        BY <3>2 DEF Promise!Next
    <2>3. CASE pc[s] # "requeue" /\ open[s]
      <3>1. Copies(s, m)' = Copies(s, m) - 1 /\ Copies(s, m) > 0
        BY <2>0, <2>3, <1>11 DEF Settle
      <3>2. \A t \in Services, k \in Msgs :
              t # s \/ k # m => Copies(t, k)' = Copies(t, k)
        BY <2>0, <2>3, <1>11 DEF Settle
      <3>3. Owed[s][m] = Copies(s, m) /\ Owed' = [Owed EXCEPT ![s][m] = Copies(s, m) - 1]
        BY <2>0, <3>1, <3>2, OneCopy
      <3>4. Promise!Remove(s, m)
        BY <2>0, <2>3, <3>1, <3>3, <1>11 DEF Settle, Promise!Remove, Owed
      <3>5. Promise!Next
        BY ONLY <3>4, s \in Services, m \in Msgs DEF Promise!Next
      <3>6. QED
        BY ONLY <3>5
    <2>4. QED
      BY <2>1, <2>2, <2>3
  <1>12. ASSUME NEW s \in Services, NEW m \in Msgs, Arrive(s, m)
         PROVE  [Promise!Next]_<<Owed, Said>>
    <2>1. CASE bound[s]
      <3>1. Copies(s, m)' = Copies(s, m) + 1
        <4>1. ready'[s][m] = ready[s][m] + 1 /\ ready[s][m] \in Nat
          BY <2>1, <1>12 DEF Arrive, Enqueue
        <4>2. buf[s][m] + Held(s, m) \in Nat
          OBVIOUS
        <4>3. QED
          BY <4>1, <4>2, <1>12 DEF Arrive
      <3>2. \A t \in Services, k \in Msgs :
              t # s \/ k # m => Copies(t, k)' = Copies(t, k)
        BY <2>1, <1>12 DEF Arrive, Enqueue
      <3>3. Owed[s][m] = Copies(s, m) /\ Owed' = [Owed EXCEPT ![s][m] = Copies(s, m) + 1]
        BY <3>1, <3>2, OneCopy
      <3>4. Promise!Accept(s, m)
        BY <3>3, <1>12 DEF Arrive, Promise!Accept, Owed
      <3>5. Promise!Next
        BY ONLY <3>4, s \in Services, m \in Msgs DEF Promise!Next
      <3>6. QED
        BY ONLY <3>5
    <2>2. CASE ~ bound[s]
      BY <2>2, <1>12, SameCopies DEF Arrive, Enqueue
    <2>3. QED
      BY <2>1, <2>2
  <1>13. CASE UNCHANGED consumerVars \/ Elsewhere
    BY <1>13, SameCopies DEF consumerVars, Elsewhere
  <1>14. QED
    BY <1>1, <1>2, <1>3, <1>4, <1>5, <1>6, <1>7, <1>8, <1>8a, <1>9, <1>10, <1>11, <1>12,
      <1>13 DEF ConsumerNext, Deliver, Loop

\* For any handler, any schedule and any faults, the queue and its consumer
\* lose no message the handler has not finished with.
THEOREM ConsumerKeepsPromise == ConsumerSpec => DeliversAtLeastOnce
  <1>1. ConsumerInit => Promise!Init
    BY ConsumerAssumption DEF ConsumerInit, Promise!Init, Backlog, Unacked, Verdict
  <1>2. ConsumerTypeOK /\ ConsumerTypeOK' /\ [ConsumerNext]_consumerVars
          => [Promise!Next]_<<[s \in Services |-> Backlog(s)], [s \in Services |-> Verdict(s)]>>
    BY PromiseStep DEF Owed, Said
  <1>3. QED
    BY <1>1, <1>2, ConsumerTypeCorrect, PTL
      DEF ConsumerSpec, DeliversAtLeastOnce, Promise!Spec
===============================================================================
