------------------------------- MODULE Gateway --------------------------------
(***************************************************************************)
(* A request for an order on its way through the gateway's limiter, the    *)
(* gateway's handler, the order service's handler and the order service,   *)
(* and back; with clients that send it again when they are not told that   *)
(* the order was made, and read the order once they are.                   *)
(*                                                                         *)
(* A client has one order to place.  Its requests are numbered, and it     *)
(* sends the next when it is through with the one before.  A request that  *)
(* makes an order gives it an id of its own (uuid.NewString), so the       *)
(* request stands for the order as well.                                   *)
(***************************************************************************)
EXTENDS RateLimiter, OrderDomain

CONSTANTS Clients,
          MaxFaults     \* bound on failures and on requests that go unanswered

\* A request is the client that sends it, and its number.
ASSUME GatewayAssumption == Requests \subseteq Clients \X Nat /\ MaxFaults \in Nat

VARIABLES stage,        \* where a request is in the two services
          answer,       \* what its client was told
          status,       \* status of the order a request made, or NoOrder
          faults        \* failures so far

limiterVars == vars
gatewayVars == <<limiterVars, stage, answer, status, faults>>

Stages == {"unsent", "limit", "gateway", "order", "publish", "done"}

\* The statuses the API knows: pb.OrderStatus.
PbStatuses == {"unspecified", "pending", "paid", "canceled"}
Answers == {"none", "created", "badRequest", "tooMany", "failed", "notFound"} \cup PbStatuses

\* The requests the client of r sent before it.
Earlier(r) == {q \in Requests : q[1] = r[1] /\ q[2] < r[2]}

\* A client that was told that its order was created reads it from then on.
Reads(r) == \E q \in Earlier(r) : answer[q] = "created"
OrderRead(r) == CHOOSE q \in Earlier(r) : answer[q] = "created"

GatewayInit ==
  /\ Init
  /\ stage = [r \in Requests |-> "unsent"]
  /\ answer = [r \in Requests |-> "none"]
  /\ status = [r \in Requests |-> NoOrder]
  /\ faults = 0

MoveTo(r, s) == stage' = [stage EXCEPT ![r] = s]

\* The answer reaches the client, unless it has stopped waiting.
Tell(r, a) == answer' = [answer EXCEPT ![r] = IF @ = "none" THEN a ELSE @]

\* A call fails: of itself, or because the client is gone and its context with it.
Fault(r) ==
  \/ answer[r] # "none" /\ UNCHANGED faults
  \/ faults < MaxFaults /\ faults' = faults + 1

------------------------------------------------------------------------------
(* The client *)

Send(r) ==
  /\ stage[r] = "unsent"
  /\ \A q \in Earlier(r) : answer[q] # "none"
  /\ MoveTo(r, "limit")
  /\ UNCHANGED <<limiterVars, answer, status, faults>>

\* The client hears 500 because the call between the services broke, or it
\* stops waiting.  The services may go on with what they have.
NoAnswer(r) ==
  /\ stage[r] \notin {"unsent", "done"}
  /\ answer[r] = "none"
  /\ faults < MaxFaults
  /\ faults' = faults + 1
  /\ Tell(r, "failed")
  /\ UNCHANGED <<limiterVars, stage, status>>

------------------------------------------------------------------------------
(* RateLimit, before every handler of the API *)

FindLimiter(r) ==
  /\ stage[r] = "limit"
  /\ Lookup(r) \/ Create(r)
  /\ UNCHANGED <<stage, answer, status, faults>>

Admit(r) ==
  /\ stage[r] = "limit"
  /\ Serve(r)
  /\ MoveTo(r, "gateway")
  /\ UNCHANGED <<answer, status, faults>>

\* Mutated form: no return after Too Many Requests is written.
TurnAwayGoesOn(r) ==
  /\ stage[r] = "limit"
  /\ Reject(r)
  /\ MoveTo(r, "gateway")
  /\ Tell(r, "tooMany")
  /\ UNCHANGED <<status, faults>>

TurnAway(r) ==
  /\ stage[r] = "limit"
  /\ Reject(r)
  /\ MoveTo(r, "done")
  /\ Tell(r, "tooMany")
  /\ UNCHANGED <<status, faults>>

------------------------------------------------------------------------------
(* HandleCreateOrder, OrderHandler.CreateOrder and PlaceOrder *)

\* A body that cannot be decoded.
RefuseBody(r) ==
  /\ stage[r] = "gateway"
  /\ ~ Reads(r)
  /\ MoveTo(r, "done")
  /\ Tell(r, "badRequest")
  /\ UNCHANGED <<limiterVars, status, faults>>

\* The call of the order service.  The idempotency key goes with it.
CallOrder(r) ==
  /\ stage[r] = "gateway"
  /\ ~ Reads(r)
  /\ MoveTo(r, "order")
  /\ UNCHANGED <<limiterVars, answer, status, faults>>

\* No items.  The gateway makes a 500 of InvalidArgument, as of every error.
RefuseItems(r) ==
  /\ stage[r] = "order"
  /\ MoveTo(r, "done")
  /\ Tell(r, "failed")
  /\ UNCHANGED <<limiterVars, status, faults>>

\* repo.CreateOrder.  The handler has dropped the idempotency key.
SaveOrder(r) ==
  /\ stage[r] = "order"
  /\ status' = [status EXCEPT ![r] = "PENDING"]
  /\ MoveTo(r, "publish")
  /\ UNCHANGED <<limiterVars, answer, faults>>

\* Mutated form: the error of repo.CreateOrder is not looked at.
SaveFailsUnseen(r) ==
  /\ stage[r] = "order"
  /\ Fault(r)
  /\ MoveTo(r, "publish")
  /\ UNCHANGED <<limiterVars, answer, status>>

\* repo.CreateOrder returns an error; the COMMIT may have taken effect.
SaveFails(r) ==
  /\ stage[r] = "order"
  /\ Fault(r)
  /\ \E s \in {NoOrder, "PENDING"} : status' = [status EXCEPT ![r] = s]
  /\ MoveTo(r, "done")
  /\ Tell(r, "failed")
  /\ UNCHANGED limiterVars

Publish(r) ==
  /\ stage[r] = "publish"
  /\ MoveTo(r, "done")
  /\ Tell(r, "created")
  /\ UNCHANGED <<limiterVars, status, faults>>

\* Order saved but failed to publish event.
PublishFails(r) ==
  /\ stage[r] = "publish"
  /\ Fault(r)
  /\ MoveTo(r, "done")
  /\ Tell(r, "failed")
  /\ UNCHANGED <<limiterVars, status>>

------------------------------------------------------------------------------
(* HandleGetOrder, HandleListOrders, OrderHandler.GetOrder and ListOrders *)

\* Mutated form: the case of COMPLETED is missing.
PbStatusNoCompleted(s) ==
  CASE s = "PENDING" -> "pending"
    [] s = "PAID" -> "paid"
    [] s = "CANCELLED" -> "canceled"
    [] OTHER -> "unspecified"

\* mapDomainStatusToPb: the API has no status of its own for COMPLETED.
PbStatus(s) ==
  CASE s = "PENDING" -> "pending"
    [] s \in {"PAID", "COMPLETED"} -> "paid"
    [] s = "CANCELLED" -> "canceled"
    [] OTHER -> "unspecified"

ReadOrder(r) ==
  /\ stage[r] = "gateway"
  /\ Reads(r)
  /\ MoveTo(r, "done")
  /\ Tell(r, IF status[OrderRead(r)] = NoOrder THEN "notFound"
             ELSE PbStatus(status[OrderRead(r)]))
  /\ UNCHANGED <<limiterVars, status, faults>>

\* Every error of the call is answered with 404.
ReadFails(r) ==
  /\ stage[r] = "gateway"
  /\ Reads(r)
  /\ Fault(r)
  /\ MoveTo(r, "done")
  /\ Tell(r, "notFound")
  /\ UNCHANGED <<limiterVars, status>>

\* The orders of the client: its order is one of them, or else is not there.
ListOrders(r) ==
  /\ stage[r] = "gateway"
  /\ Reads(r)
  /\ MoveTo(r, "done")
  /\ \/ status[OrderRead(r)] # NoOrder /\ Tell(r, PbStatus(status[OrderRead(r)]))
     \/ status[OrderRead(r)] = NoOrder /\ Tell(r, "notFound")
  /\ UNCHANGED <<limiterVars, status, faults>>

\* Without a user_id.
RefuseList(r) ==
  /\ stage[r] = "gateway"
  /\ Reads(r)
  /\ MoveTo(r, "done")
  /\ Tell(r, "badRequest")
  /\ UNCHANGED <<limiterVars, status, faults>>

\* Here an error is answered with 500.
ListFails(r) ==
  /\ stage[r] = "gateway"
  /\ Reads(r)
  /\ Fault(r)
  /\ MoveTo(r, "done")
  /\ Tell(r, "failed")
  /\ UNCHANGED <<limiterVars, status>>

\* The order store moves an order on (OrderLifecycle, which OrderStore implements).
Transition(r, t) ==
  /\ CanTransitionTo(status[r], t)
  /\ status' = [status EXCEPT ![r] = t]
  /\ UNCHANGED <<limiterVars, stage, answer, faults>>

------------------------------------------------------------------------------
Handle(r) ==
  \/ FindLimiter(r) \/ Admit(r) \/ TurnAway(r)
  \/ RefuseBody(r) \/ CallOrder(r) \/ RefuseItems(r)
  \/ SaveOrder(r) \/ SaveFails(r) \/ Publish(r) \/ PublishFails(r)
  \/ ReadOrder(r) \/ ReadFails(r) \/ ListOrders(r) \/ RefuseList(r) \/ ListFails(r)

PassTime == Tick /\ UNCHANGED <<stage, answer, status, faults>>

GatewayNext ==
  \/ \E r \in Requests :
       Send(r) \/ NoAnswer(r) \/ Handle(r) \/ \E t \in Statuses : Transition(r, t)
  \/ PassTime

GatewaySpec == GatewayInit /\ [][GatewayNext]_gatewayVars

------------------------------------------------------------------------------
(* Properties *)

\* Every variable has its type.
GatewayTypeOK ==
  /\ stage \in [Requests -> Stages]
  /\ answer \in [Requests -> Answers]
  /\ status \in [Requests -> Statuses \cup {NoOrder}]
  /\ faults \in 0..MaxFaults
  /\ TypeOK

\* A client gets a second order only after a request that made the first had
\* failed in its eyes, or went unanswered: never after a refusal, and never
\* once it was told of an order.
DuplicatesHaveACause ==
  \A r \in Requests : \A q \in Earlier(r) :
    status[r] # NoOrder /\ status[q] # NoOrder => answer[q] = "failed"

\* An order that a client was told about is not found only when a call
\* failed, once for each failure.
NotFoundHasACause ==
  Cardinality({r \in Requests : answer[r] = "notFound"}) <= faults

\* Statuses in the order in which a client may be told them.
MayFollow(b, a) ==
  <<a, b>> \in {<<"pending", "pending">>, <<"pending", "paid">>, <<"pending", "canceled">>,
                <<"paid", "paid">>, <<"paid", "canceled">>, <<"canceled", "canceled">>}

\* What a client is told of its order from one read to the next is a way the
\* order can have gone, although the API has fewer statuses than the order.
StatusesMoveForward ==
  \A r \in Requests : \A q \in Earlier(r) :
    answer[r] \in PbStatuses /\ answer[q] \in PbStatuses => MayFollow(answer[r], answer[q])

\* A client that repeats its request, with the same idempotency key, gets no
\* second order.  CreateOrder does not keep this.
OneOrderPerKey ==
  \A r \in Requests : \A q \in Earlier(r) : status[r] = NoOrder \/ status[q] = NoOrder
===============================================================================
