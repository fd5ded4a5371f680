----------------------------- MODULE IdealLimiter -----------------------------
(***************************************************************************)
(* What RateLimit promises its clients: every address has a bucket of its  *)
(* own from the start, full and filling up again, and a request is served  *)
(* or turned away in one step, as there is a token left in it or not.      *)
(***************************************************************************)
EXTENDS Naturals

CONSTANTS Requests, Ips, IpOf, Burst

VARIABLES left,      \* tokens left to each address
          verdict,   \* what was decided of a request
          now        \* time passed

Init ==
  /\ left = [i \in Ips |-> Burst]
  /\ verdict = [r \in Requests |-> "none"]
  /\ now = 0

Decide(r, v) == verdict[r] = "none" /\ verdict' = [verdict EXCEPT ![r] = v]

Serve(r) ==
  /\ Decide(r, "served")
  /\ left[IpOf[r]] > 0
  /\ left' = [left EXCEPT ![IpOf[r]] = @ - 1]
  /\ UNCHANGED now

Reject(r) ==
  /\ Decide(r, "rejected")
  /\ left[IpOf[r]] = 0
  /\ UNCHANGED <<left, now>>

Tick ==
  /\ now' = now + 1
  /\ left' = [i \in Ips |-> IF left[i] < Burst THEN left[i] + 1 ELSE left[i]]
  /\ UNCHANGED verdict

Next == Tick \/ \E r \in Requests : Serve(r) \/ Reject(r)

Spec == Init /\ [][Next]_<<left, verdict, now>>
===============================================================================
