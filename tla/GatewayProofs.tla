---------------------------- MODULE GatewayProofs -----------------------------
(***************************************************************************)
(* For any number of clients, requests, addresses and faults: the gateway  *)
(* uses its limiter as the limiter allows, and what clients are told of    *)
(* their orders is consistent with the orders there are.                   *)
(***************************************************************************)
EXTENDS Gateway, FiniteSetTheorems, TLAPS

------------------------------------------------------------------------------
(* The limiter alone: the handlers of an address share one bucket, and what *)
(* the bucket has left is what its address was not served.                  *)


\* A handler that has got a bucket has the one in the map, for good.
OneBucket ==
  \A r \in Requests :
    /\ limiter[r] # None => limiter[r] = ips[IpOf[r]]
    /\ pc[r] \in {"allow", "served", "rejected"} => limiter[r] # None

\* No two addresses have the same bucket.
Apart == \A i, j \in Ips : i # j /\ ips[i] # None => ips[i] # ips[j]

\* The tokens left and the requests served add up to the burst, and to at most
\* one more for each unit of time.
Account ==
  \A i \in Ips :
    ips[i] # None =>
      /\ Cardinality(Served(i)) + tokens[ips[i]] >= Burst
      /\ Cardinality(Served(i)) + tokens[ips[i]] <= Burst + now

IInv == TypeOK /\ OneBucket /\ Apart /\ Account /\ RejectedForACause

USE DEF None, Buckets

LEMMA ServedFinite ==
  ASSUME NEW i
  PROVE  IsFiniteSet(Served(i)) /\ Cardinality(Served(i)) \in Nat
BY LimiterAssumption, FS_Subset, FS_CardinalityType DEF Served

LEMMA InitInv == Init => IInv
  BY LimiterAssumption, FS_EmptySet
  DEF Init, IInv, TypeOK, OneBucket, Apart, Account, RejectedForACause

\* A step of a handler that does not serve its request serves none.
LEMMA ServedSame ==
  ASSUME TypeOK, NEW r \in Requests, NEW l, l # "served", pc[r] # "served", Goto(r, l),
         NEW i
  PROVE  Served(i)' = Served(i)
BY DEF TypeOK, Goto, Served

LEMMA LookupStep ==
  ASSUME IInv, NEW r \in Requests, Lookup(r)
  PROVE  IInv'
<1> USE LimiterAssumption DEF IInv
<1>1. PICK l \in {"create", "allow"} : Goto(r, l) /\ (l = "allow" => ips[IpOf[r]] # None)
  BY DEF Lookup
<1>2. \A i : Served(i)' = Served(i)
  BY <1>1, ServedSame DEF Lookup
<1>3. TypeOK'
  BY <1>1 DEF Lookup, TypeOK, Goto
<1>4. OneBucket'
  BY <1>1 DEF Lookup, TypeOK, Goto, OneBucket
<1>5. Apart' /\ Account'
  BY <1>2 DEF Lookup, Apart, Account
<1>6. RejectedForACause'
  BY <1>1, <1>2 DEF Lookup, RejectedForACause, Goto, TypeOK
<1> QED
  BY <1>3, <1>4, <1>5, <1>6

LEMMA CreateStep ==
  ASSUME IInv, NEW r \in Requests, Create(r)
  PROVE  IInv'
<1> USE LimiterAssumption DEF IInv
<1>1. \A i : Served(i)' = Served(i)
  BY ServedSame DEF Create
<1>2. RejectedForACause'
  BY <1>1 DEF Create, RejectedForACause, Goto, TypeOK
<1>3. CASE ips[IpOf[r]] # None
  <2>1. /\ limiter' = [limiter EXCEPT ![r] = ips[IpOf[r]]]
        /\ UNCHANGED <<ips, tokens, now>>
    BY <1>3 DEF Create, NewLimiter
  <2>2. TypeOK'
    BY <2>1 DEF Create, TypeOK, Goto
  <2>3. OneBucket'
    BY <2>1, <1>3 DEF Create, TypeOK, Goto, OneBucket
  <2>4. Apart' /\ Account'
    BY <2>1, <1>1 DEF Apart, Account
  <2> QED
    BY <1>2, <2>2, <2>3, <2>4
<1>4. CASE ips[IpOf[r]] = None
  <2>1. NewLimiter(r) /\ now' = now
    BY <1>4 DEF Create
  <2>2. /\ tokens' \in Seq(0..Burst)
        /\ Len(tokens') = Len(tokens) + 1
        /\ tokens'[Len(tokens) + 1] = Burst
        /\ \A b \in 1..Len(tokens) : tokens'[b] = tokens[b]
    BY <2>1 DEF NewLimiter, TypeOK
  <2>3. TypeOK'
    <3>1. Len(tokens) \in Nat /\ IpOf[r] \in Ips
      BY DEF TypeOK
    <3>2. /\ ips' \in [Ips -> {None} \cup Buckets']
          /\ limiter' \in [Requests -> {None} \cup Buckets']
      BY <2>1, <2>2, <3>1 DEF NewLimiter, TypeOK
    <3> QED
      BY <2>1, <2>2, <3>2 DEF TypeOK, Create, Goto
  <2>4. \A q \in Requests : IpOf[q] = IpOf[r] => limiter[q] = None
    BY <1>4 DEF OneBucket
  <2>5. OneBucket'
    BY <2>1, <2>4 DEF NewLimiter, OneBucket, TypeOK, Create, Goto
  <2>6. Apart'
    BY <2>1, <1>4 DEF NewLimiter, Apart, TypeOK
  <2>7. Served(IpOf[r]) = {}
    BY <2>4 DEF Served, OneBucket
  <2>8. Account'
    <3>1. SUFFICES ASSUME NEW i \in Ips, ips'[i] # None
                   PROVE  /\ Cardinality(Served(i)') + tokens'[ips'[i]] >= Burst
                          /\ Cardinality(Served(i)') + tokens'[ips'[i]] <= Burst + now'
      BY DEF Account
    <3>2. CASE i = IpOf[r]
      <4>1. Cardinality(Served(i)') = 0
        BY <3>2, <2>7, <1>1, FS_EmptySet
      <4>2. tokens'[ips'[i]] = Burst
        BY <3>2, <2>1, <2>2 DEF NewLimiter, TypeOK
      <4> QED
        BY <4>1, <4>2, <2>1 DEF TypeOK
    <3>3. CASE i # IpOf[r]
      <4>1. ips'[i] = ips[i] /\ ips[i] \in 1..Len(tokens)
        BY <3>1, <3>3, <2>1 DEF NewLimiter, TypeOK
      <4> QED
        BY <4>1, <1>1, <2>1, <2>2 DEF Account
    <3> QED
      BY <3>2, <3>3
  <2> QED
    BY <1>2, <2>3, <2>5, <2>6, <2>8
<1> QED
  BY <1>3, <1>4

LEMMA ServeStep ==
  ASSUME IInv, NEW r \in Requests, Serve(r)
  PROVE  IInv'
<1> USE LimiterAssumption DEF IInv
<1>1. PICK b \in 1..Len(tokens) : b = limiter[r] /\ b = ips[IpOf[r]]
  BY DEF Serve, OneBucket, TypeOK
<1>2. /\ tokens[b] \in 1..Burst
      /\ tokens' = [tokens EXCEPT ![b] = tokens[b] - 1]
  BY <1>1 DEF Serve, TypeOK
<1>3. /\ tokens' \in Seq(0..Burst)
      /\ Len(tokens') = Len(tokens)
      /\ tokens'[b] = tokens[b] - 1
      /\ \A c \in 1..Len(tokens) : c # b => tokens'[c] = tokens[c]
  BY <1>2 DEF TypeOK
<1>4. TypeOK'
  BY <1>3 DEF Serve, TypeOK, Goto
<1>5. OneBucket' /\ Apart'
  BY DEF Serve, TypeOK, Goto, OneBucket, Apart
<1>6. Cardinality(Served(IpOf[r])') = Cardinality(Served(IpOf[r])) + 1
  <2>1. Served(IpOf[r])' = Served(IpOf[r]) \cup {r} /\ r \notin Served(IpOf[r])
    BY DEF Serve, Goto, TypeOK, Served
  <2> QED
    BY <2>1, ServedFinite, FS_AddElement
<1>7. \A i \in Ips : i # IpOf[r] => Served(i)' = Served(i)
  BY DEF Serve, Goto, TypeOK, Served
<1>8. Account'
  <2>1. SUFFICES ASSUME NEW i \in Ips, ips[i] # None
                 PROVE  /\ Cardinality(Served(i)') + tokens'[ips[i]] >= Burst
                        /\ Cardinality(Served(i)') + tokens'[ips[i]] <= Burst + now
    BY DEF Account, Serve
  <2>2. CASE i = IpOf[r]
    BY <2>1, <2>2, <1>1, <1>2, <1>3, <1>6, ServedFinite DEF Account, TypeOK
  <2>3. CASE i # IpOf[r]
    <3>1. ips[i] # b /\ ips[i] \in 1..Len(tokens)
      BY <2>1, <2>3, <1>1 DEF Apart, TypeOK
    <3> QED
      BY <2>1, <2>3, <3>1, <1>3, <1>7 DEF Account
  <2> QED
    BY <2>2, <2>3
<1>9. RejectedForACause'
  <2>1. SUFFICES ASSUME NEW q \in Requests, pc'[q] = "rejected"
                 PROVE  Cardinality(Served(IpOf[q])') >= Burst
    BY DEF RejectedForACause
  <2>2. pc[q] = "rejected" /\ IpOf[q] \in Ips
    BY <2>1 DEF Serve, Goto, TypeOK
  <2>3. Cardinality(Served(IpOf[q])) >= Burst
    BY <2>2 DEF RejectedForACause
  <2> QED
    BY <2>2, <2>3, <1>6, <1>7, ServedFinite
<1> QED
  BY <1>4, <1>5, <1>8, <1>9

LEMMA RejectStep ==
  ASSUME IInv, NEW r \in Requests, Reject(r)
  PROVE  IInv'
<1> USE LimiterAssumption DEF IInv
<1>1. \A i : Served(i)' = Served(i)
  BY ServedSame DEF Reject
<1>2. TypeOK'
  BY DEF Reject, TypeOK, Goto
<1>3. OneBucket' /\ Apart'
  BY DEF Reject, TypeOK, Goto, OneBucket, Apart
<1>4. Account'
  BY <1>1 DEF Reject, Account
<1>5. Cardinality(Served(IpOf[r])) >= Burst
  <2>1. IpOf[r] \in Ips /\ ips[IpOf[r]] # None /\ tokens[ips[IpOf[r]]] = 0
    BY DEF Reject, OneBucket, TypeOK
  <2> QED
    BY <2>1, ServedFinite DEF Account
<1>6. RejectedForACause'
  BY <1>1, <1>5 DEF Reject, Goto, TypeOK, RejectedForACause
<1> QED
  BY <1>2, <1>3, <1>4, <1>6

LEMMA TickStep ==
  ASSUME IInv, Tick
  PROVE  IInv'
<1> USE LimiterAssumption DEF IInv
<1>1. /\ tokens' \in Seq(0..Burst)
      /\ Len(tokens') = Len(tokens)
      /\ \A b \in 1..Len(tokens) : tokens'[b] \in tokens[b]..tokens[b] + 1
  BY DEF Tick, TypeOK
<1>2. TypeOK'
  BY <1>1 DEF Tick, TypeOK
<1>3. \A i : Served(i)' = Served(i)
  BY DEF Tick, Served
<1>4. OneBucket' /\ Apart' /\ RejectedForACause'
  BY <1>3 DEF Tick, OneBucket, Apart, RejectedForACause
<1>5. Account'
  <2>1. SUFFICES ASSUME NEW i \in Ips, ips[i] # None
                 PROVE  /\ Cardinality(Served(i)) + tokens'[ips[i]] >= Burst
                        /\ Cardinality(Served(i)) + tokens'[ips[i]] <= Burst + (now + 1)
    BY <1>3 DEF Account, Tick
  <2>2. ips[i] \in 1..Len(tokens) /\ tokens[ips[i]] \in Nat /\ now \in Nat
    BY <2>1 DEF TypeOK
  <2>3. tokens'[ips[i]] >= tokens[ips[i]] /\ tokens'[ips[i]] <= tokens[ips[i]] + 1
    BY <2>2, <1>1
  <2>4. /\ Cardinality(Served(i)) + tokens[ips[i]] >= Burst
        /\ Cardinality(Served(i)) + tokens[ips[i]] <= Burst + now
    BY <2>1 DEF Account
  <2>5. tokens'[ips[i]] \in Int /\ Cardinality(Served(i)) \in Nat
    BY <2>2, <1>1, ServedFinite
  <2> QED
    BY <2>2, <2>3, <2>4, <2>5
<1> QED
  BY <1>2, <1>4, <1>5

LEMMA Step == IInv /\ [Next]_vars => IInv'
<1> SUFFICES ASSUME IInv, [Next]_vars
             PROVE  IInv'
  OBVIOUS
<1>1. CASE UNCHANGED vars
  BY <1>1 DEF vars, IInv, TypeOK, OneBucket, Apart, Account, RejectedForACause, Served
<1> QED
  BY <1>1, LookupStep, CreateStep, ServeStep, RejectStep, TickStep DEF Next

LEMMA Inductive == Spec => []IInv
  BY InitInv, Step, PTL DEF Spec

\* The variables keep their types; a bucket never holds more than the burst.
THEOREM TypeCorrect == Spec => []TypeOK
<1>1. IInv => TypeOK
  BY DEF IInv
<1> QED
  BY <1>1, Inductive, PTL

\* No race of first requests gives an address more than its rate.
THEOREM RateLimited == Spec => []RateIsLimited
<1>1. IInv => RateIsLimited
  <2>1. SUFFICES ASSUME IInv, NEW i \in Ips
                 PROVE  Cardinality(Served(i)) <= Burst + now
    BY DEF RateIsLimited
  <2>2. CASE ips[i] = None
    <3>1. Served(i) = {}
      BY <2>1, <2>2 DEF IInv, OneBucket, Served
    <3> QED
      BY <3>1, <2>1, FS_EmptySet, LimiterAssumption DEF IInv, TypeOK
  <2>3. CASE ips[i] # None
    <3>1. tokens[ips[i]] \in Nat /\ now \in Nat
      BY <2>1, <2>3, LimiterAssumption DEF IInv, TypeOK
    <3> QED
      BY <3>1, <2>1, <2>3, ServedFinite, LimiterAssumption DEF IInv, Account
  <2> QED
    BY <2>2, <2>3
<1> QED
  BY <1>1, Inductive, PTL

\* Nor does it take requests away from any address.
THEOREM RejectionsJustified == Spec => []RejectedForACause
<1>1. IInv => RejectedForACause
  BY DEF IInv
<1> QED
  BY <1>1, Inductive, PTL

------------------------------------------------------------------------------
(* The ideal limiter.  Its Left is read off the bucket an address shares: a  *)
(* bucket made late is full, like the one it stands for was all the time.    *)

LEMMA LimiterInitIdeal == Init => Ideal!Init
BY DEF Init, Ideal!Init, Left, Decided

\* A look into the map, with or without the lock, decides nothing.
LEMMA LookupIsStutter ==
  ASSUME IInv, NEW r \in Requests, Lookup(r)
  PROVE  UNCHANGED <<Left, Decided, now>>
<1>1. Decided' = Decided
  BY DEF IInv, TypeOK, Lookup, Goto, Decided
<1> QED
  BY <1>1 DEF Lookup, Left

LEMMA CreateIsStutter ==
  ASSUME IInv, NEW r \in Requests, Create(r)
  PROVE  UNCHANGED <<Left, Decided, now>>
<1> USE LimiterAssumption DEF IInv
<1>1. Decided' = Decided
  BY DEF TypeOK, Create, Goto, Decided
<1>2. CASE ips[IpOf[r]] # None
  BY <1>1, <1>2 DEF Create, Left, NewLimiter
<1>3. CASE ips[IpOf[r]] = None
  <2>1. /\ tokens' = Append(tokens, Burst)
        /\ ips' = [ips EXCEPT ![IpOf[r]] = Len(tokens) + 1]
        /\ now' = now
    BY <1>3 DEF Create, NewLimiter
  <2>2. /\ tokens \in Seq(0..Burst)
        /\ Len(tokens) \in Nat
        /\ tokens'[Len(tokens) + 1] = Burst
        /\ \A b \in 1..Len(tokens) : tokens'[b] = tokens[b]
    BY <2>1 DEF TypeOK
  <2>3. ASSUME NEW i \in Ips
        PROVE  Left'[i] = Left[i]
    <3>1. CASE i = IpOf[r]
      BY <3>1, <1>3, <2>1, <2>2 DEF Left, TypeOK
    <3>2. CASE i # IpOf[r]
      <4>1. ips'[i] = ips[i] /\ ips[i] \in {None} \cup 1..Len(tokens)
        BY <3>2, <2>1 DEF TypeOK
      <4> QED
        BY <4>1, <2>2 DEF Left
    <3> QED
      BY <3>1, <3>2
  <2>4. Left' = Left
    BY <2>3 DEF Left
  <2> QED
    BY <1>1, <2>1, <2>4
<1> QED
  BY <1>2, <1>3

\* What the bucket of a request has left is what its address has left.
LEMMA LeftInBucket ==
  ASSUME IInv, NEW r \in Requests, pc[r] = "allow"
  PROVE  /\ Decided[r] = "none"
         /\ limiter[r] = ips[IpOf[r]]
         /\ limiter[r] \in 1..Len(tokens)
         /\ IpOf[r] \in Ips
         /\ Left[IpOf[r]] = tokens[limiter[r]]
BY LimiterAssumption DEF IInv, TypeOK, OneBucket, Left, Decided

LEMMA ServeIsIdeal ==
  ASSUME IInv, NEW r \in Requests, Serve(r)
  PROVE  Ideal!Serve(r)
<1> USE LimiterAssumption
<1> DEFINE b == limiter[r]
<1>1. pc[r] = "allow"
  BY DEF Serve
<1>2. /\ b = ips[IpOf[r]] /\ b \in 1..Len(tokens) /\ IpOf[r] \in Ips
      /\ Left[IpOf[r]] = tokens[b] /\ Decided[r] = "none"
  BY <1>1, LeftInBucket
<1>3. Decided' = [Decided EXCEPT ![r] = "served"]
  BY DEF IInv, TypeOK, Serve, Goto, Decided
<1>4. ASSUME NEW i \in Ips
      PROVE  Left'[i] = IF i = IpOf[r] THEN Left[i] - 1 ELSE Left[i]
  <2>1. CASE i = IpOf[r]
    <3>1. ips'[i] = b /\ tokens'[b] = tokens[b] - 1
      BY <2>1, <1>2 DEF Serve, IInv, TypeOK
    <3> QED
      BY <2>1, <3>1, <1>2 DEF Left
  <2>2. CASE i # IpOf[r]
    <3>1. ips[i] # b
      BY <2>2, <1>2 DEF IInv, Apart
    <3> QED
      BY <2>2, <3>1 DEF IInv, TypeOK, Serve, Left
  <2> QED
    BY <2>1, <2>2
<1>5. Left' = [Left EXCEPT ![IpOf[r]] = @ - 1]
  BY <1>4 DEF Left
<1>6. Left[IpOf[r]] > 0
  BY <1>2 DEF Serve
<1> QED
  BY <1>2, <1>3, <1>5, <1>6 DEF Ideal!Serve, Ideal!Decide, Serve

LEMMA RejectIsIdeal ==
  ASSUME IInv, NEW r \in Requests, Reject(r)
  PROVE  Ideal!Reject(r)
<1>1. pc[r] = "allow"
  BY DEF Reject
<1>2. Decided' = [Decided EXCEPT ![r] = "rejected"]
  BY DEF IInv, TypeOK, Reject, Goto, Decided
<1>3. Left[IpOf[r]] = 0
  BY <1>1, LeftInBucket DEF Reject
<1>4. UNCHANGED <<Left, now>>
  BY DEF Reject, Left
<1> QED
  BY <1>1, <1>2, <1>3, <1>4, LeftInBucket DEF Ideal!Reject, Ideal!Decide

\* An address without a bucket gains nothing: its bucket would be full.
LEMMA TickIsIdeal ==
  ASSUME IInv, Tick
  PROVE  Ideal!Tick
<1>1. ASSUME NEW i \in Ips
      PROVE  Left'[i] = IF Left[i] < Burst THEN Left[i] + 1 ELSE Left[i]
  BY <1>1, LimiterAssumption DEF IInv, TypeOK, Tick, Left
<1>2. UNCHANGED Decided
  BY DEF Tick, Decided
<1>3. Left' = [i \in Ips |-> IF Left[i] < Burst THEN Left[i] + 1 ELSE Left[i]]
  BY <1>1 DEF Left
<1> QED
  BY <1>2, <1>3 DEF Ideal!Tick, Tick

LEMMA IdealStep == IInv /\ [Next]_vars => [Ideal!Next]_<<Left, Decided, now>>
<1> SUFFICES ASSUME IInv, [Next]_vars
             PROVE  [Ideal!Next]_<<Left, Decided, now>>
  OBVIOUS
<1>1. CASE UNCHANGED vars
  BY <1>1 DEF vars, Left, Decided
<1>2. CASE Tick
  BY <1>2, TickIsIdeal DEF Ideal!Next
<1>3. ASSUME NEW r \in Requests, Lookup(r) \/ Create(r)
      PROVE  UNCHANGED <<Left, Decided, now>>
  BY <1>3, LookupIsStutter, CreateIsStutter
<1>4. ASSUME NEW r \in Requests, Serve(r) \/ Reject(r)
      PROVE  Ideal!Next
  BY <1>4, ServeIsIdeal, RejectIsIdeal DEF Ideal!Next
<1> QED
  BY <1>1, <1>2, <1>3, <1>4 DEF Next

\* The map, its two locks and the buckets made late by racing handlers are
\* together one full bucket per address that decides each request in one step.
THEOREM LimiterRefinesIdeal == Spec => LimiterIsIdeal
  BY LimiterInitIdeal, IdealStep, Inductive, PTL DEF Spec, LimiterIsIdeal, Ideal!Spec

------------------------------------------------------------------------------
(* The limiter within the gateway *)

LEMMA LimiterStep == [GatewayNext]_gatewayVars => [Next]_vars
<1> SUFFICES ASSUME [GatewayNext]_gatewayVars PROVE [Next]_vars
  OBVIOUS
<1> USE DEF limiterVars
<1>1. CASE UNCHANGED gatewayVars
  BY <1>1 DEF gatewayVars
<1>2. CASE PassTime
  BY <1>2 DEF PassTime, Next
<1>3. ASSUME NEW r \in Requests, Send(r) \/ NoAnswer(r) \/ \E t \in Statuses : Transition(r, t)
      PROVE  UNCHANGED vars
  BY <1>3 DEF Send, NoAnswer, Transition
<1>4. ASSUME NEW r \in Requests, FindLimiter(r) \/ Admit(r) \/ TurnAway(r)
      PROVE  Next
  BY <1>4 DEF FindLimiter, Admit, TurnAway, Next
<1>5. ASSUME NEW r \in Requests,
             RefuseBody(r) \/ CallOrder(r) \/ RefuseItems(r) \/ SaveOrder(r) \/ SaveFails(r)
               \/ Publish(r) \/ PublishFails(r) \/ ReadOrder(r) \/ ReadFails(r)
               \/ ListOrders(r) \/ RefuseList(r) \/ ListFails(r)
      PROVE  UNCHANGED vars
  BY <1>5 DEF RefuseBody, CallOrder, RefuseItems, SaveOrder, SaveFails, Publish, PublishFails,
              ReadOrder, ReadFails, ListOrders, RefuseList, ListFails
<1> QED
  BY <1>1, <1>2, <1>3, <1>4, <1>5 DEF GatewayNext, Handle

\* Requests reach the limiter in the ways the limiter was checked for.
THEOREM GatewayUsesLimiter == GatewaySpec => Spec
<1>1. GatewayInit => Init
  BY DEF GatewayInit
<1> QED
  BY <1>1, LimiterStep, PTL DEF GatewaySpec, Spec

\* With clients that retry and read, an address is still served within its rate.
THEOREM GatewayRateLimited == GatewaySpec => []RateIsLimited
  BY GatewayUsesLimiter, RateLimited, PTL

\* What becomes of a request at the gateway's door is decided by the ideal limiter.
THEOREM GatewayLimiterIsIdeal == GatewaySpec => LimiterIsIdeal
  BY GatewayUsesLimiter, LimiterRefinesIdeal, PTL

------------------------------------------------------------------------------
(* What the stage of a request says of its answer and of its order *)

\* A request goes through its stages alone, and its client waits before the next.
Sequential ==
  /\ \A r \in Requests : stage[r] = "unsent" => answer[r] = "none"
  /\ \A r \in Requests : stage[r] \notin {"unsent", "done"} => answer[r] \in {"none", "failed"}
  /\ \A r \in Requests : stage[r] = "done" => answer[r] # "none"
  /\ \A r \in Requests : stage[r] # "unsent" => \A q \in Earlier(r) : answer[q] # "none"

\* An order was made by a request that reached the order service, and its
\* client was not told of another order before.
OrdersHaveRequests ==
  /\ \A r \in Requests : stage[r] \in {"order", "publish"} => ~ Reads(r)
  /\ \A r \in Requests : stage[r] = "publish" => status[r] # NoOrder
  /\ \A r \in Requests : status[r] # NoOrder =>
       /\ stage[r] \in {"publish", "done"}
       /\ stage[r] = "done" => answer[r] \in {"created", "failed"}
       /\ ~ Reads(r)
  /\ \A r \in Requests : answer[r] = "created" => status[r] # NoOrder

\* What a client was told of its order is where the order is or has been.
ReadsAreBehind ==
  \A r \in Requests : answer[r] \in PbStatuses =>
    /\ Reads(r)
    /\ MayFollow(PbStatus(status[OrderRead(r)]), answer[r])

OwnTypes ==
  /\ stage \in [Requests -> Stages]
  /\ answer \in [Requests -> Answers]
  /\ status \in [Requests -> Statuses \cup {NoOrder}]
  /\ faults \in 0..MaxFaults

GInv == OwnTypes /\ Sequential /\ OrdersHaveRequests

\* The steps of r that change what the properties are about.
Moves(r) ==
  \/ Send(r) \/ NoAnswer(r) \/ Admit(r) \/ TurnAway(r)
  \/ RefuseBody(r) \/ CallOrder(r) \/ RefuseItems(r)
  \/ SaveOrder(r) \/ SaveFails(r) \/ Publish(r) \/ PublishFails(r)
  \/ ReadOrder(r) \/ ReadFails(r) \/ RefuseList(r) \/ ListFails(r)
  \/ \E t \in Statuses : Transition(r, t)

\* To its client, a list is a read of the order.
LEMMA ListIsRead == ASSUME NEW r \in Requests, ListOrders(r) PROVE ReadOrder(r)
BY DEF ListOrders, ReadOrder

LEMMA Moving ==
  ASSUME [GatewayNext]_gatewayVars
  PROVE  UNCHANGED <<stage, answer, status, faults>> \/ \E r \in Requests : Moves(r)
BY ListIsRead DEF GatewayNext, gatewayVars, PassTime, FindLimiter, Handle, Moves

LEMMA GatewayInitInv == GatewayInit => GInv
BY GatewayAssumption
DEF GatewayInit, GInv, OwnTypes, Stages, Answers, Statuses, NoOrder, Sequential, OrdersHaveRequests

LEMMA PbStatusType == ASSUME NEW s PROVE PbStatus(s) \in PbStatuses
BY DEF PbStatus, PbStatuses

LEMMA OwnTypesStep ==
  ASSUME OwnTypes, NEW r \in Requests, Moves(r)
  PROVE  OwnTypes'
<1> USE GatewayAssumption DEF OwnTypes, MoveTo, Tell, Fault, Stages, Answers, NoOrder, Statuses
<1>1. CASE Send(r) \/ NoAnswer(r) \/ Admit(r) \/ TurnAway(r) \/ RefuseBody(r) \/ CallOrder(r)
  BY <1>1 DEF Send, NoAnswer, Admit, TurnAway, RefuseBody, CallOrder
<1>2. CASE RefuseItems(r) \/ SaveOrder(r) \/ SaveFails(r) \/ Publish(r) \/ PublishFails(r)
  BY <1>2 DEF RefuseItems, SaveOrder, SaveFails, Publish, PublishFails
<1>3. CASE \/ ReadOrder(r) \/ ReadFails(r) \/ RefuseList(r) \/ ListFails(r)
             \/ \E t \in Statuses : Transition(r, t)
  BY <1>3, PbStatusType DEF ReadOrder, ReadFails, RefuseList, ListFails,
         Transition
<1> QED
  BY <1>1, <1>2, <1>3 DEF Moves

\* What a client was told stays said.
LEMMA AnswersStay ==
  ASSUME OwnTypes, NEW r \in Requests, Moves(r), NEW q \in Requests, answer[q] # "none"
  PROVE  answer'[q] = answer[q]
BY DEF OwnTypes, Moves, Tell, Send, NoAnswer, Admit, TurnAway, RefuseBody, CallOrder, RefuseItems,
       SaveOrder, SaveFails, Publish, PublishFails, ReadOrder, ReadFails, RefuseList, ListFails,
         Transition

\* Whether a request reads, and which order, is settled when it is sent.
LEMMA ReadsStay ==
  ASSUME OwnTypes, Sequential, NEW r \in Requests, Moves(r),
         NEW q \in Requests, stage[q] # "unsent"
  PROVE  /\ Reads(q)' <=> Reads(q)
         /\ OrderRead(q)' = OrderRead(q)
<1>1. \A p \in Earlier(q) : answer'[p] = answer[p]
  BY AnswersStay DEF Sequential, Earlier
<1> QED
  BY <1>1 DEF Reads, OrderRead

LEMMA SequentialStep ==
  ASSUME OwnTypes, Sequential, NEW r \in Requests, Moves(r)
  PROVE  Sequential'
<1> USE DEF OwnTypes, MoveTo, Tell, Sequential
<1>1. \A q \in Requests : answer[q] # "none" => answer'[q] = answer[q]
  BY AnswersStay
<1>2. \A q \in Requests : q # r => stage'[q] = stage[q] /\ answer'[q] = answer[q]
  BY DEF Moves, Send, NoAnswer, Admit, TurnAway, RefuseBody, CallOrder, RefuseItems,
         SaveOrder, SaveFails, Publish, PublishFails, ReadOrder, ReadFails, RefuseList, ListFails,
         Transition
<1>3. /\ stage'[r] = "unsent" => answer'[r] = "none"
      /\ stage'[r] \notin {"unsent", "done"} => answer'[r] \in {"none", "failed"}
      /\ stage'[r] = "done" => answer'[r] # "none"
      /\ stage[r] = "unsent" /\ stage'[r] # "unsent" => \A q \in Earlier(r) : answer[q] # "none"
  <2>1. CASE Send(r) \/ NoAnswer(r) \/ Admit(r) \/ TurnAway(r) \/ RefuseBody(r) \/ CallOrder(r)
    BY <2>1 DEF Send, NoAnswer, Admit, TurnAway, RefuseBody, CallOrder
  <2>2. CASE RefuseItems(r) \/ SaveOrder(r) \/ SaveFails(r) \/ Publish(r) \/ PublishFails(r)
    BY <2>2 DEF RefuseItems, SaveOrder, SaveFails, Publish, PublishFails
  <2>3. CASE \/ ReadOrder(r) \/ ReadFails(r) \/ RefuseList(r) \/ ListFails(r)
               \/ \E t \in Statuses : Transition(r, t)
    BY <2>3, PbStatusType DEF ReadOrder, ReadFails, RefuseList, ListFails, Transition, PbStatuses
  <2> QED
    BY <2>1, <2>2, <2>3 DEF Moves
<1>4. \A q \in Requests : stage'[q] # "unsent" => \A p \in Earlier(q) : answer'[p] # "none"
  BY <1>1, <1>2, <1>3 DEF Earlier
<1> QED
  BY <1>2, <1>3, <1>4

LEMMA OrdersStep ==
  ASSUME GInv, NEW r \in Requests, Moves(r)
  PROVE  OrdersHaveRequests'
<1> USE DEF GInv, OwnTypes, MoveTo, Tell, Sequential, OrdersHaveRequests
<1>1. \A q \in Requests : stage[q] # "unsent" => (Reads(q)' <=> Reads(q))
  BY ReadsStay
<1>2. \A q \in Requests : q # r => /\ stage'[q] = stage[q]
                                   /\ answer'[q] = answer[q]
                                   /\ status'[q] = status[q]
  BY DEF Moves, Send, NoAnswer, Admit, TurnAway, RefuseBody, CallOrder, RefuseItems,
         SaveOrder, SaveFails, Publish, PublishFails, ReadOrder, ReadFails, RefuseList, ListFails,
         Transition
<1>3. /\ stage'[r] \in {"order", "publish"} => stage[r] # "unsent" /\ ~ Reads(r)
      /\ stage'[r] = "publish" => status'[r] # NoOrder
      /\ status'[r] # NoOrder =>
           /\ stage'[r] \in {"publish", "done"}
           /\ stage'[r] = "done" => answer'[r] \in {"created", "failed"}
           /\ stage[r] # "unsent" /\ ~ Reads(r)
      /\ answer'[r] = "created" => status'[r] # NoOrder
  <2> USE DEF NoOrder
  <2>1. CASE Send(r) \/ NoAnswer(r) \/ Admit(r) \/ TurnAway(r) \/ RefuseBody(r) \/ CallOrder(r)
    BY <2>1 DEF Send, NoAnswer, Admit, TurnAway, RefuseBody, CallOrder
  <2>2. CASE RefuseItems(r) \/ SaveOrder(r) \/ SaveFails(r)
    BY <2>2 DEF RefuseItems, SaveOrder, SaveFails
  <2>3. CASE Publish(r) \/ PublishFails(r)
    BY <2>3 DEF Publish, PublishFails
  <2>4. CASE ReadOrder(r) \/ ReadFails(r) \/ RefuseList(r) \/ ListFails(r)
    BY <2>4, PbStatusType DEF ReadOrder, ReadFails, RefuseList, ListFails, PbStatuses
  <2>5. CASE \E t \in Statuses : Transition(r, t)
    BY <2>5 DEF Transition, CanTransitionTo, Statuses
  <2> QED
    BY <2>1, <2>2, <2>3, <2>4, <2>5 DEF Moves
<1>4. \A q \in Requests : status[q] # NoOrder \/ stage[q] \in {"order", "publish"} => stage[q] # "unsent"
  OBVIOUS
<1> QED
  BY <1>1, <1>2, <1>3, <1>4

LEMMA GatewayStep == GInv /\ [GatewayNext]_gatewayVars => GInv'
<1> SUFFICES ASSUME GInv, [GatewayNext]_gatewayVars PROVE GInv'
  OBVIOUS
<1>1. CASE UNCHANGED <<stage, answer, status, faults>>
  BY <1>1 DEF GInv, OwnTypes, Sequential, OrdersHaveRequests, Reads
<1>2. CASE \E r \in Requests : Moves(r)
  BY <1>2, OwnTypesStep, SequentialStep, OrdersStep DEF GInv
<1> QED
  BY <1>1, <1>2, Moving

LEMMA GatewayInductive == GatewaySpec => []GInv
  BY GatewayInitInv, GatewayStep, PTL DEF GatewaySpec

\* The requests, their answers and their orders keep their types, and so does
\* the limiter they share.
THEOREM GatewayTypeCorrect == GatewaySpec => []GatewayTypeOK
<1>1. GInv /\ TypeOK => GatewayTypeOK
  BY DEF GInv, OwnTypes, GatewayTypeOK
<1> QED
  BY <1>1, GatewayInductive, GatewayUsesLimiter, TypeCorrect, PTL

\* However late the services come to the end of a request, a client has a second
\* order only after it was left without an answer, or with a failure.
THEOREM DuplicatesCaused == GatewaySpec => []DuplicatesHaveACause
<1>1. GInv => DuplicatesHaveACause
  <2> SUFFICES ASSUME GInv, NEW r \in Requests, NEW q \in Earlier(r),
                      status[r] # NoOrder, status[q] # NoOrder
               PROVE  answer[q] = "failed"
    BY DEF DuplicatesHaveACause
  <2> USE DEF GInv, OwnTypes, Sequential, OrdersHaveRequests
  <2>1. q \in Requests /\ stage[r] # "unsent" /\ answer[q] # "none"
    BY DEF Earlier
  <2>2. answer[q] # "created"
    BY DEF Reads
  <2> QED
    BY <2>1, <2>2
<1> QED
  BY <1>1, GatewayInductive, PTL

------------------------------------------------------------------------------
(* Reading an order *)

\* A client that was told of its order reads an order that is there.
LEMMA OrderReadIsThere ==
  ASSUME GInv, NEW r \in Requests, Reads(r)
  PROVE  /\ OrderRead(r) \in Earlier(r) /\ OrderRead(r) \in Requests
         /\ answer[OrderRead(r)] = "created"
         /\ status[OrderRead(r)] \in Statuses
<1>1. OrderRead(r) \in Earlier(r) /\ answer[OrderRead(r)] = "created"
  BY DEF Reads, OrderRead
<1> QED
  BY <1>1 DEF GInv, OwnTypes, OrdersHaveRequests, Earlier

\* It reads the same one each time.
LEMMA OneOrderRead ==
  ASSUME GInv, NEW r \in Requests, NEW q \in Earlier(r), Reads(r), Reads(q)
  PROVE  OrderRead(q) = OrderRead(r)
<1> DEFINE p == OrderRead(q)
           o == OrderRead(r)
<1>1. /\ p \in Requests /\ p[1] = r[1] /\ answer[p] = "created" /\ status[p] # NoOrder
      /\ o \in Requests /\ o[1] = r[1] /\ answer[o] = "created" /\ status[o] # NoOrder
  BY OrderReadIsThere DEF Earlier, GInv, OrdersHaveRequests
<1>2. p \notin Earlier(o) /\ o \notin Earlier(p)
  BY <1>1 DEF GInv, OrdersHaveRequests, Reads
<1>3. p \in Clients \X Nat /\ o \in Clients \X Nat
  BY <1>1, GatewayAssumption
<1>4. p[2] = o[2]
  BY <1>1, <1>2, <1>3 DEF Earlier
<1> QED
  BY <1>1, <1>3, <1>4

LEMMA MovingOn ==
  ASSUME NEW a, NEW s \in Statuses, NEW t \in Statuses, MayFollow(PbStatus(s), a),
         s = t \/ CanTransitionTo(s, t)
  PROVE  MayFollow(PbStatus(t), a)
<1>1. /\ PbStatus("PENDING") = "pending" /\ PbStatus("PAID") = "paid"
      /\ PbStatus("COMPLETED") = "paid" /\ PbStatus("CANCELLED") = "canceled"
  BY DEF PbStatus
<1> QED
  BY <1>1 DEF MayFollow, CanTransitionTo, Statuses

\* An order that is there stays there, and moves as the order store moves it.
LEMMA OrderMoves ==
  ASSUME GInv, NEW r \in Requests, Moves(r), NEW o \in Requests, status[o] # NoOrder
  PROVE  status'[o] \in Statuses /\ (status'[o] = status[o] \/ CanTransitionTo(status[o], status'[o]))
<1> USE DEF GInv, OwnTypes, OrdersHaveRequests
<1>1. CASE status'[o] = status[o]
  BY <1>1
<1>2. CASE SaveOrder(r) \/ SaveFails(r)
  BY <1>2 DEF SaveOrder, SaveFails
<1>3. CASE \E t \in Statuses : Transition(r, t)
  BY <1>3 DEF Transition
<1> QED
  BY <1>1, <1>2, <1>3
  DEF Moves, Send, NoAnswer, Admit, TurnAway, RefuseBody, CallOrder, RefuseItems,
      Publish, PublishFails, ReadOrder, ReadFails, RefuseList, ListFails

LEMMA StatusesStep ==
  ASSUME GInv, ReadsAreBehind, StatusesMoveForward, NEW r \in Requests, Moves(r)
  PROVE  ReadsAreBehind' /\ StatusesMoveForward'
<1> USE DEF GInv, OwnTypes
<1>1. ASSUME NEW q \in Requests, answer'[q] \in PbStatuses, answer'[q] # answer[q]
      PROVE  /\ q = r /\ stage[q] = "gateway" /\ Reads(q)
             /\ answer'[q] = PbStatus(status[OrderRead(q)])
  <2>1. CASE ReadOrder(r)
    BY <1>1, <2>1 DEF ReadOrder, Tell, PbStatuses
  <2>2. CASE ~ ReadOrder(r)
    BY <1>1, <2>2 DEF Moves, Tell, PbStatuses, Send, NoAnswer, Admit, TurnAway, RefuseBody, CallOrder,
       RefuseItems, SaveOrder, SaveFails, Publish, PublishFails, ReadFails, RefuseList, ListFails,
         Transition
  <2> QED
    BY <2>1, <2>2
<1>2. ASSUME NEW q \in Requests, answer'[q] \in PbStatuses
      PROVE  /\ stage[q] # "unsent" /\ Reads(q)
             /\ MayFollow(PbStatus(status[OrderRead(q)]), answer'[q])
  <2>1. CASE answer'[q] = answer[q]
    BY <1>2, <2>1 DEF ReadsAreBehind, Sequential, PbStatuses
  <2>2. CASE answer'[q] # answer[q]
    <3>1. Reads(q) /\ stage[q] = "gateway" /\ answer'[q] = PbStatus(status[OrderRead(q)])
      BY <1>1, <1>2, <2>2
    <3>2. status[OrderRead(q)] \in Statuses
      BY <3>1, OrderReadIsThere
    <3>3. \A s \in Statuses : MayFollow(PbStatus(s), PbStatus(s))
      BY DEF PbStatus, MayFollow, Statuses
    <3> QED
      BY <3>1, <3>2, <3>3
  <2> QED
    BY <2>1, <2>2
<1>3. ReadsAreBehind'
  <2> SUFFICES ASSUME NEW q \in Requests, answer'[q] \in PbStatuses
               PROVE  Reads(q)' /\ MayFollow(PbStatus(status'[OrderRead(q)']), answer'[q])
    BY DEF ReadsAreBehind
  <2>1. stage[q] # "unsent" /\ Reads(q) /\ MayFollow(PbStatus(status[OrderRead(q)]), answer'[q])
    BY <1>2
  <2>2. Reads(q)' /\ OrderRead(q)' = OrderRead(q)
    BY <2>1, ReadsStay
  <2>3. OrderRead(q) \in Requests /\ status[OrderRead(q)] \in Statuses
    BY <2>1, OrderReadIsThere
  <2>4. /\ status'[OrderRead(q)] \in Statuses
        /\ \/ status'[OrderRead(q)] = status[OrderRead(q)]
           \/ CanTransitionTo(status[OrderRead(q)], status'[OrderRead(q)])
    BY <2>3, OrderMoves DEF Statuses, NoOrder
  <2> QED
    BY <2>1, <2>2, <2>3, <2>4, MovingOn
<1>4. StatusesMoveForward'
  <2> SUFFICES ASSUME NEW p \in Requests, NEW q \in Earlier(p),
                      answer'[p] \in PbStatuses, answer'[q] \in PbStatuses
               PROVE  MayFollow(answer'[p], answer'[q])
    BY DEF StatusesMoveForward, Earlier
  <2>1. q \in Requests /\ Reads(p) /\ Reads(q) /\ stage[p] # "unsent"
    BY <1>2 DEF Earlier
  <2>2. answer[q] # "none" /\ answer'[q] = answer[q]
    BY <2>1, AnswersStay DEF Sequential
  <2>3. CASE answer'[p] = answer[p]
    BY <2>2, <2>3 DEF StatusesMoveForward
  <2>4. CASE answer'[p] # answer[p]
    <3>1. answer'[p] = PbStatus(status[OrderRead(p)])
      BY <1>1, <2>4
    <3>2. OrderRead(q) = OrderRead(p)
      BY <2>1, OneOrderRead
    <3> QED
      BY <1>2, <2>1, <3>1, <3>2
  <2> QED
    BY <2>3, <2>4
<1> QED
  BY <1>3, <1>4

\* A client is told statuses in an order the order can have gone through.
THEOREM StatusesForward == GatewaySpec => []StatusesMoveForward
<1>1. GatewayInit => ReadsAreBehind /\ StatusesMoveForward
  BY DEF GatewayInit, ReadsAreBehind, StatusesMoveForward, PbStatuses
<1>2. GInv /\ ReadsAreBehind /\ StatusesMoveForward /\ [GatewayNext]_gatewayVars
        => (ReadsAreBehind /\ StatusesMoveForward)'
  <2> SUFFICES ASSUME GInv, ReadsAreBehind, StatusesMoveForward, [GatewayNext]_gatewayVars
               PROVE  (ReadsAreBehind /\ StatusesMoveForward)'
    OBVIOUS
  <2>1. CASE UNCHANGED <<stage, answer, status, faults>>
    BY <2>1 DEF ReadsAreBehind, StatusesMoveForward, Reads, OrderRead
  <2>2. CASE \E r \in Requests : Moves(r)
    BY <2>2, StatusesStep
  <2> QED
    BY <2>1, <2>2, Moving
<1> QED
  BY <1>1, <1>2, GatewayInductive, PTL DEF GatewaySpec

------------------------------------------------------------------------------
(* Orders that are not found *)

NotFound == {r \in Requests : answer[r] = "notFound"}

LEMMA OneMore ==
  ASSUME NEW S, IsFiniteSet(S), NEW x
  PROVE  /\ Cardinality(S \cup {x}) <= Cardinality(S) + 1
         /\ Cardinality(S \cup {x}) \in Nat
<1>1. Cardinality(S) \in Nat
  BY FS_CardinalityType
<1>2. Cardinality(S \cup {x}) = Cardinality(S) \/ Cardinality(S \cup {x}) = Cardinality(S) + 1
  BY FS_AddElement
<1> QED
  BY <1>1, <1>2

LEMMA NotFoundStep ==
  ASSUME GInv, NotFoundHasACause, NEW r \in Requests, Moves(r)
  PROVE  NotFoundHasACause'
<1> USE DEF GInv, OwnTypes
<1>1. \/ NotFound' = NotFound /\ faults' \in {faults, faults + 1}
      \/ NotFound' = NotFound \cup {r} /\ faults' = faults + 1
  <2>1. CASE ReadOrder(r)
    <3>1. status[OrderRead(r)] # NoOrder
      BY <2>1, OrderReadIsThere DEF ReadOrder, Statuses, NoOrder
    <3>2. \A q \in Requests : answer'[q] = "notFound" <=> answer[q] = "notFound"
      BY <2>1, <3>1, PbStatusType DEF ReadOrder, Tell, PbStatuses
    <3> QED
      BY <2>1, <3>2 DEF ReadOrder, NotFound
  <2>2. CASE ReadFails(r)
    <3>1. CASE answer[r] # "none"
      BY <2>2, <3>1 DEF ReadFails, Tell, Fault, NotFound
    <3>2. CASE answer[r] = "none"
      <4>1. faults' = faults + 1 /\ answer' = [answer EXCEPT ![r] = "notFound"]
        BY <2>2, <3>2 DEF ReadFails, Tell, Fault
      <4> QED
        BY <4>1 DEF NotFound
    <3> QED
      BY <3>1, <3>2
  <2>3. CASE ~ ReadOrder(r) /\ ~ ReadFails(r)
    <3>1. \A q \in Requests : answer'[q] = "notFound" <=> answer[q] = "notFound"
      BY <2>3 DEF Moves, Tell, Send, NoAnswer, Admit, TurnAway, RefuseBody, CallOrder, RefuseItems,
         SaveOrder, SaveFails, Publish, PublishFails, RefuseList, ListFails, Transition
    <3>2. faults' \in {faults, faults + 1}
      BY <2>3 DEF Moves, Fault, Send, NoAnswer, Admit, TurnAway, RefuseBody, CallOrder, RefuseItems,
         SaveOrder, SaveFails, Publish, PublishFails, RefuseList, ListFails, Transition
    <3> QED
      BY <3>1, <3>2 DEF NotFound
  <2> QED
    BY <2>1, <2>2, <2>3
<1>2. IsFiniteSet(NotFound) /\ Cardinality(NotFound) \in Nat
  BY LimiterAssumption, FS_Subset, FS_CardinalityType DEF NotFound
<1>3. /\ Cardinality(NotFound \cup {r}) <= Cardinality(NotFound) + 1
      /\ Cardinality(NotFound \cup {r}) \in Nat
  BY <1>2, OneMore
<1>4. Cardinality(NotFound) <= faults /\ faults \in Nat
  BY GatewayAssumption DEF NotFoundHasACause, NotFound
<1>5. Cardinality(NotFound') <= faults'
  <2>1. CASE NotFound' = NotFound /\ faults' \in {faults, faults + 1}
    <3>1. Cardinality(NotFound') = Cardinality(NotFound)
      BY <2>1
    <3> QED
      BY <2>1, <3>1, <1>2, <1>4
  <2>2. CASE NotFound' = NotFound \cup {r} /\ faults' = faults + 1
    <3>1. Cardinality(NotFound') = Cardinality(NotFound \cup {r})
      BY <2>2
    <3> QED
      BY <2>2, <3>1, <1>2, <1>3, <1>4
  <2> QED
    BY <1>1, <2>1, <2>2
<1> QED
  BY <1>5 DEF NotFoundHasACause, NotFound

\* An order that a client was told of is there when it is read: 404 means that
\* a call has failed.
THEOREM NotFoundCaused == GatewaySpec => []NotFoundHasACause
<1>1. GatewayInit => NotFoundHasACause
  <2> SUFFICES ASSUME GatewayInit PROVE NotFoundHasACause
    OBVIOUS
  <2>1. {r \in Requests : answer[r] = "notFound"} = {} /\ faults = 0
    BY DEF GatewayInit
  <2> QED
    BY <2>1, FS_EmptySet DEF NotFoundHasACause
<1>2. GInv /\ NotFoundHasACause /\ [GatewayNext]_gatewayVars => NotFoundHasACause'
  <2> SUFFICES ASSUME GInv, NotFoundHasACause, [GatewayNext]_gatewayVars
               PROVE  NotFoundHasACause'
    OBVIOUS
  <2>1. CASE UNCHANGED <<stage, answer, status, faults>>
    BY <2>1 DEF NotFoundHasACause
  <2>2. CASE \E r \in Requests : Moves(r)
    BY <2>2, NotFoundStep
  <2> QED
    BY <2>1, <2>2, Moving
<1> QED
  BY <1>1, <1>2, GatewayInductive, PTL DEF GatewaySpec
===============================================================================
