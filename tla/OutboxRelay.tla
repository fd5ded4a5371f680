----------------------------- MODULE OutboxRelay ------------------------------
(***************************************************************************)
(* worker/outbox.go: the relay workers of the order service's instances    *)
(* over the one table outbox_events.  The rows are written by others; a    *)
(* tick of a worker fetches the oldest pending rows FOR UPDATE SKIP LOCKED *)
(* in a statement of its own, publishes them one after the other and marks *)
(* each in another statement.                                              *)
(*                                                                         *)
(* The rows of a batch are taken to fit in the buffers of the database     *)
(* connection, so that the fetch does not wait for them to be read.        *)
(***************************************************************************)
EXTENDS Integers, FiniteSets

CONSTANTS Workers,        \* one per running instance of the order service
          MaxEvents,      \* bound on rows ever written
          Limit,          \* LIMIT of the fetch, 50 in the code
          MaxFaults,      \* bound on failures of the database and of workers
          Skipped         \* rows publishToRabbitMQ reports as sent, but does
                          \* not send: broken payloads and unknown types

Events == 1..MaxEvents    \* in the order of created_at

ASSUME RelayAssumption ==
  /\ IsFiniteSet(Workers)
  /\ MaxEvents \in Nat /\ Limit \in Nat \ {0} /\ MaxFaults \in Nat
  /\ Skipped \subseteq Events

VARIABLES written,        \* number of rows written
          marked,         \* rows whose status is 'published'
          published,      \* messages a queue took, for each row
          vain,           \* rows of which a message was published in vain
          lock,           \* rows locked by the fetch of each worker
          batch,          \* rows a worker has fetched and not looked at
          current,        \* row a worker handles, or NoEvent
          sent,           \* the worker is past publishToRabbitMQ with current
          faults

NoEvent == 0

tableVars == <<written, marked, lock>>
workerVars == <<batch, current, sent>>
outVars == <<published, vain>>
vars == <<tableVars, workerVars, outVars, faults>>

Init ==
  /\ written = 0 /\ marked = {}
  /\ published = [e \in Events |-> 0] /\ vain = {}
  /\ lock = [w \in Workers |-> {}]
  /\ batch = [w \in Workers |-> {}]
  /\ current = [w \in Workers |-> NoEvent]
  /\ sent = [w \in Workers |-> FALSE]
  /\ faults = 0

------------------------------------------------------------------------------
(* Whoever writes events *)

Write ==
  /\ written < MaxEvents
  /\ written' = written + 1
  /\ UNCHANGED <<marked, lock, workerVars, outVars, faults>>

------------------------------------------------------------------------------
(* One worker *)

Locked == UNION {lock[w] : w \in Workers}
Pending == (1..written) \ marked
Idle(w) == current[w] = NoEvent /\ batch[w] = {}

\* The oldest Limit rows of a set.
Oldest(S) == {e \in S : Cardinality({d \in S : d < e}) < Limit}

\* The ticker fires and the fetch runs; it locks the rows it returns.  The
\* rows of the last one are closed, so its statement has ended.
Fetch(w) ==
  /\ Idle(w) /\ lock[w] = {}
  /\ LET rows == Oldest(Pending \ Locked)
     IN /\ batch' = [batch EXCEPT ![w] = rows]
        /\ lock' = [lock EXCEPT ![w] = rows]
  /\ UNCHANGED <<written, marked, current, sent, outVars, faults>>

\* Mutated form: a transaction is open until the batch is done, but the
\* updates are not part of it.
FetchCommitsLast(w) ==
  /\ lock[w] # {} /\ Idle(w)
  /\ lock' = [lock EXCEPT ![w] = {}]
  /\ UNCHANGED <<written, marked, workerVars, outVars, faults>>

\* The statement was not in a transaction: when its last row is out it
\* commits, and its locks go.
FetchCommits(w) ==
  /\ lock[w] # {}
  /\ lock' = [lock EXCEPT ![w] = {}]
  /\ UNCHANGED <<written, marked, workerVars, outVars, faults>>

\* rows.Next and rows.Scan, of the oldest row left.
TakeRow(w) ==
  /\ current[w] = NoEvent
  /\ \E e \in batch[w] :
       /\ \A d \in batch[w] : e <= d
       /\ current' = [current EXCEPT ![w] = e]
       /\ batch' = [batch EXCEPT ![w] = @ \ {e}]
  /\ UNCHANGED <<tableVars, sent, outVars, faults>>

Publish(w) ==
  /\ current[w] # NoEvent /\ ~sent[w]
  /\ published' = IF current[w] \in Skipped THEN published
                  ELSE [published EXCEPT ![current[w]] = @ + 1]
  /\ sent' = [sent EXCEPT ![w] = TRUE]
  /\ UNCHANGED <<tableVars, batch, current, vain, faults>>

\* Publish returns nil without a confirmation, and mandatory is false: no queue
\* is bound, or the connection is dying, and nobody has the message.
PublishInVain(w) ==
  /\ current[w] # NoEvent /\ ~sent[w]
  /\ current[w] \notin Skipped
  /\ vain' = vain \cup {current[w]}
  /\ sent' = [sent EXCEPT ![w] = TRUE]
  /\ UNCHANGED <<tableVars, batch, current, published, faults>>

\* Mutated form: the error is logged, and the row marked all the same.
PublishFailsMarks(w) ==
  /\ current[w] # NoEvent /\ ~sent[w]
  /\ current[w] \notin Skipped
  /\ sent' = [sent EXCEPT ![w] = TRUE]
  /\ UNCHANGED <<tableVars, batch, current, outVars, faults>>

\* The client is not connected: the row stays pending, for a later tick.
PublishFails(w) ==
  /\ current[w] # NoEvent /\ ~sent[w]
  /\ current[w] \notin Skipped
  /\ current' = [current EXCEPT ![w] = NoEvent]
  /\ UNCHANGED <<tableVars, batch, sent, outVars, faults>>

\* Mutated form: the update finds no row to change.
MarkNothing(w) ==
  /\ current[w] # NoEvent /\ sent[w]
  /\ current' = [current EXCEPT ![w] = NoEvent]
  /\ sent' = [sent EXCEPT ![w] = FALSE]
  /\ UNCHANGED <<tableVars, batch, outVars, faults>>

\* The UPDATE waits for the lock of a fetch, and asks for no status.
Mark(w) ==
  /\ current[w] # NoEvent /\ sent[w]
  /\ current[w] \notin Locked
  /\ marked' = marked \cup {current[w]}
  /\ current' = [current EXCEPT ![w] = NoEvent]
  /\ sent' = [sent EXCEPT ![w] = FALSE]
  /\ UNCHANGED <<written, lock, batch, outVars, faults>>

\* The UPDATE fails, which is only logged.
MarkFails(w) ==
  /\ current[w] # NoEvent /\ sent[w]
  /\ faults < MaxFaults
  /\ faults' = faults + 1
  /\ current' = [current EXCEPT ![w] = NoEvent]
  /\ sent' = [sent EXCEPT ![w] = FALSE]
  /\ UNCHANGED <<tableVars, batch, outVars>>

\* The rows end early, rows.Err not being asked for, or the process dies and
\* is started again: in the second case a row may be left in the middle.
Interrupted(w) ==
  /\ ~Idle(w)
  /\ faults < MaxFaults
  /\ faults' = faults + 1
  /\ batch' = [batch EXCEPT ![w] = {}]
  /\ lock' = [lock EXCEPT ![w] = {}]
  /\ \/ UNCHANGED <<current, sent>>
     \/ /\ current' = [current EXCEPT ![w] = NoEvent]
        /\ sent' = [sent EXCEPT ![w] = FALSE]
  /\ UNCHANGED <<written, marked, outVars>>

------------------------------------------------------------------------------
PublishReturns(w) == Publish(w) \/ PublishInVain(w)

HandleRow(w) ==
  TakeRow(w) \/ PublishReturns(w) \/ PublishFails(w) \/ Mark(w) \/ MarkFails(w)

Next ==
  \/ Write
  \/ \E w \in Workers :
       Fetch(w) \/ FetchCommits(w) \/ HandleRow(w) \/ Interrupted(w)

Spec == Init /\ [][Next]_vars

\* The ticker goes on ticking, also after a worker's process died, the
\* statements end, and a client that is asked again and again is connected some
\* time.  Its publish need not reach a queue.
Fairness ==
  \A w \in Workers :
    /\ WF_vars(Fetch(w))
    /\ WF_vars(FetchCommits(w))
    /\ WF_vars(HandleRow(w))
    /\ \A e \in Events \ Skipped : SF_vars(PublishReturns(w) /\ current[w] = e)

LiveSpec == Spec /\ Fairness

------------------------------------------------------------------------------
(* Properties *)

\* The variables have their types, and nobody handles a row not yet written.
Types ==
  /\ written \in 0..MaxEvents
  /\ marked \subseteq 1..written
  /\ published \in [Events -> Nat] /\ vain \subseteq Events
  /\ lock \in [Workers -> SUBSET (1..written)]
  /\ batch \in [Workers -> SUBSET (1..written)]
  /\ current \in [Workers -> {NoEvent} \cup 1..written]
  /\ sent \in [Workers -> BOOLEAN]
  /\ faults \in 0..MaxFaults

\* Besides, no batch is longer than the limit of the fetch.
TypeOK == Types /\ \A w \in Workers : Cardinality(batch[w]) <= Limit

\* A row that should be sent is marked only after a publish of it returned nil,
\* whatever failed or was done by other workers in between.  That is all that
\* "published" says: a marked row whose message no queue took was published in
\* vain, and nothing else loses one.
MarkedIsAccountedFor == \A e \in marked \ Skipped : published[e] > 0 \/ e \in vain

\* Without faults no row is published more often than there are workers; each
\* fault adds at most one message.
DuplicatesAreBounded ==
  \A e \in Events : published[e] <= Cardinality(Workers) + faults

\* Each row written is marked in the end: a failed publication is tried again.
EventuallyMarked == \A e \in Events : written >= e ~> e \in marked

\* What the comment in processPendingEvents says the transaction is there for:
\* the row a worker handles is locked by it, so that no other worker handles it too.
OneWorkerPerEvent ==
  \A v, w \in Workers : v # w /\ current[v] # NoEvent => current[v] # current[w]
===============================================================================
