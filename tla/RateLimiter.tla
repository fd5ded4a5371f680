----------------------------- MODULE RateLimiter ------------------------------
(***************************************************************************)
(* internal/gateway/middleware: one token bucket per client address, made  *)
(* on the first request from it under a lock that is taken twice, while    *)
(* requests from the same and from other addresses are handled at once.    *)
(*                                                                         *)
(* Buckets are numbered in the order they are made.  Time passes in units  *)
(* in which a bucket gains one token; a request reads the clock as it      *)
(* takes its token.                                                        *)
(***************************************************************************)
EXTENDS Integers, Sequences, FiniteSets

CONSTANTS Requests,       \* requests that come in, each handled by a goroutine
          Ips,            \* client addresses
          IpOf,           \* the address a request comes from
          Burst,          \* tokens of a new bucket, and the most it holds
          MaxTime         \* bound on the time that passes

ASSUME LimiterAssumption ==
  /\ IsFiniteSet(Requests)
  /\ IpOf \in [Requests -> Ips]
  /\ Burst \in Nat /\ MaxTime \in Nat

VARIABLES ips,            \* the map: the bucket of each address, or None
          tokens,         \* tokens left in each bucket ever made
          pc,             \* where the handler of each request is
          limiter,        \* its local variable limiter
          now             \* time passed

None == 0
vars == <<ips, tokens, pc, limiter, now>>

Buckets == 1..Len(tokens)

Init ==
  /\ ips = [i \in Ips |-> None]
  /\ tokens = <<>>
  /\ pc = [r \in Requests |-> "lookup"]
  /\ limiter = [r \in Requests |-> None]
  /\ now = 0

Goto(r, l) == pc' = [pc EXCEPT ![r] = l]

\* The look into the map under the read lock.
Lookup(r) ==
  /\ pc[r] = "lookup"
  /\ limiter' = [limiter EXCEPT ![r] = ips[IpOf[r]]]
  /\ Goto(r, IF ips[IpOf[r]] = None THEN "create" ELSE "allow")
  /\ UNCHANGED <<ips, tokens, now>>

\* Mutated form: the new bucket is empty.
NewLimiterEmpty(r) ==
  /\ tokens' = Append(tokens, 0)
  /\ ips' = [ips EXCEPT ![IpOf[r]] = Len(tokens) + 1]
  /\ limiter' = [limiter EXCEPT ![r] = Len(tokens) + 1]

\* Mutated form: the burst is rounded up, where int(b) cuts off.
NewLimiterRounded(r) ==
  /\ tokens' = Append(tokens, Burst + 1)
  /\ ips' = [ips EXCEPT ![IpOf[r]] = Len(tokens) + 1]
  /\ limiter' = [limiter EXCEPT ![r] = Len(tokens) + 1]

NewLimiter(r) ==
  /\ tokens' = Append(tokens, Burst)
  /\ ips' = [ips EXCEPT ![IpOf[r]] = Len(tokens) + 1]
  /\ limiter' = [limiter EXCEPT ![r] = Len(tokens) + 1]

\* Mutated form: the map is not looked at a second time.
CreateUnchecked(r) ==
  /\ pc[r] = "create"
  /\ NewLimiter(r)
  /\ Goto(r, "allow")
  /\ UNCHANGED now

\* The critical section under the write lock: a second look, then a new bucket.
Create(r) ==
  /\ pc[r] = "create"
  /\ \/ /\ ips[IpOf[r]] # None
        /\ limiter' = [limiter EXCEPT ![r] = ips[IpOf[r]]]
        /\ UNCHANGED <<ips, tokens>>
     \/ /\ ips[IpOf[r]] = None
        /\ NewLimiter(r)
  /\ Goto(r, "allow")
  /\ UNCHANGED now

\* Allow() takes a token and the request is passed on.
Serve(r) ==
  /\ pc[r] = "allow"
  /\ tokens[limiter[r]] > 0
  /\ tokens' = [tokens EXCEPT ![limiter[r]] = @ - 1]
  /\ Goto(r, "served")
  /\ UNCHANGED <<ips, limiter, now>>

\* Too Many Requests.
Reject(r) ==
  /\ pc[r] = "allow"
  /\ tokens[limiter[r]] = 0
  /\ Goto(r, "rejected")
  /\ UNCHANGED <<ips, tokens, limiter, now>>

Tick ==
  /\ now < MaxTime
  /\ now' = now + 1
  /\ tokens' = [b \in Buckets |-> IF tokens[b] < Burst THEN tokens[b] + 1 ELSE tokens[b]]
  /\ UNCHANGED <<ips, pc, limiter>>

Next ==
  \/ \E r \in Requests : Lookup(r) \/ Create(r) \/ Serve(r) \/ Reject(r)
  \/ Tick

Spec == Init /\ [][Next]_vars

------------------------------------------------------------------------------
(* Properties *)

Served(i) == {r \in Requests : IpOf[r] = i /\ pc[r] = "served"}

\* Every variable has its type; no bucket holds more than Burst.
TypeOK ==
  /\ tokens \in Seq(0..Burst)
  /\ ips \in [Ips -> {None} \cup Buckets]
  /\ pc \in [Requests -> {"lookup", "create", "allow", "served", "rejected"}]
  /\ limiter \in [Requests -> {None} \cup Buckets]
  /\ now \in 0..MaxTime

\* However its requests race to make the bucket, an address is never served
\* more than Burst requests and one for each unit of time.
RateIsLimited == \A i \in Ips : Cardinality(Served(i)) <= Burst + now

\* A request is turned away only when its own address has been served Burst
\* requests before: other addresses and lost buckets cost it nothing.
RejectedForACause ==
  \A r \in Requests : pc[r] = "rejected" => Cardinality(Served(IpOf[r])) >= Burst

\* However its first requests race, an address notices nothing of the map, of
\* the two locks or of the bucket made late: it could as well have had a full
\* bucket from the start, and requests of others are nothing to it.
Left == [i \in Ips |-> IF ips[i] = None THEN Burst ELSE tokens[ips[i]]]
Decided == [r \in Requests |-> IF pc[r] \in {"served", "rejected"} THEN pc[r] ELSE "none"]
Ideal == INSTANCE IdealLimiter WITH left <- Left, verdict <- Decided
LimiterIsIdeal == Ideal!Spec
===============================================================================
