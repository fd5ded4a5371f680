--------------------------- MODULE OutboxRelayProofs ---------------------------
(***************************************************************************)
(* A row is marked only after its message was published, in vain or not,   *)
(* and how often queues can get it, for any number of workers, rows and    *)
(* faults.                                                                 *)
(***************************************************************************)
EXTENDS OutboxRelay, FiniteSetTheorems, WellFoundedInduction, TLAPS

\* A worker past publishToRabbitMQ has a row at hand, and its message was
\* published, unless it is one of those that are skipped.
SentIsAccountedFor ==
  \A w \in Workers :
    sent[w] => /\ current[w] # NoEvent
               /\ current[w] \notin Skipped => published[current[w]] > 0 \/ current[w] \in vain

IInv == Types /\ SentIsAccountedFor /\ MarkedIsAccountedFor

USE DEF NoEvent, Events, outVars

LEMMA InitInv == Init => IInv
  BY RelayAssumption DEF Init, IInv, Types, SentIsAccountedFor, MarkedIsAccountedFor

\* Each step keeps the types.
LEMMA StepTypes ==
  ASSUME Types, [Next]_vars
  PROVE  Types'
<1> USE RelayAssumption DEF Types
<1>1. CASE Write
  BY <1>1 DEF Write, workerVars
<1>2. ASSUME NEW w \in Workers, Fetch(w)
      PROVE  Types'
  <2>1. PICK rows \in SUBSET (1..written) :
          /\ batch' = [batch EXCEPT ![w] = rows]
          /\ lock' = [lock EXCEPT ![w] = rows]
    BY <1>2 DEF Fetch, Oldest, Pending
  <2> QED
    BY <1>2, <2>1 DEF Fetch
<1>3. ASSUME NEW w \in Workers, FetchCommits(w)
      PROVE  Types'
  BY <1>3 DEF FetchCommits, workerVars
<1>4. ASSUME NEW w \in Workers, TakeRow(w)
      PROVE  Types'
  <2>1. PICK e \in batch[w] : /\ current' = [current EXCEPT ![w] = e]
                              /\ batch' = [batch EXCEPT ![w] = batch[w] \ {e}]
    BY <1>4 DEF TakeRow
  <2> QED
    BY <1>4, <2>1 DEF TakeRow, tableVars
<1>5. ASSUME NEW w \in Workers, Publish(w)
      PROVE  Types'
  <2>1. current[w] \in 1..MaxEvents
    BY <1>5 DEF Publish
  <2>2. published' \in [1..MaxEvents -> Nat]
    BY <1>5, <2>1 DEF Publish
  <2> QED
    BY <1>5, <2>2 DEF Publish, tableVars
<1>6. ASSUME NEW w \in Workers, PublishFails(w)
      PROVE  Types'
  BY <1>6 DEF PublishFails, tableVars
<1>7. ASSUME NEW w \in Workers, Mark(w)
      PROVE  Types'
  BY <1>7 DEF Mark
<1>8. ASSUME NEW w \in Workers, MarkFails(w)
      PROVE  Types'
  BY <1>8 DEF MarkFails, tableVars
<1>9. ASSUME NEW w \in Workers, Interrupted(w)
      PROVE  Types'
  <2>1. /\ lock' \in [Workers -> SUBSET (1..written)]
        /\ batch' \in [Workers -> SUBSET (1..written)]
    BY <1>9 DEF Interrupted
  <2>2. /\ current' \in [Workers -> {NoEvent} \cup 1..written]
        /\ sent' \in [Workers -> BOOLEAN]
    BY <1>9 DEF Interrupted
  <2>3. faults' \in 0..MaxFaults /\ UNCHANGED <<written, marked, published, vain>>
    BY <1>9 DEF Interrupted
  <2> QED
    BY <2>1, <2>2, <2>3
<1>10. CASE UNCHANGED vars
  BY <1>10 DEF vars, tableVars, workerVars
<1>11. ASSUME NEW w \in Workers, PublishInVain(w)
       PROVE  Types'
  <2>1. current[w] \in 1..MaxEvents
    BY <1>11 DEF PublishInVain
  <2> QED
    BY <1>11, <2>1 DEF PublishInVain, tableVars
<1> QED
  BY <1>1, <1>2, <1>3, <1>4, <1>5, <1>6, <1>7, <1>8, <1>9, <1>10, <1>11
  DEF Next, HandleRow, PublishReturns

\* Each step keeps what ties a sent row, and a marked one, to its message.
LEMMA StepAccountedFor ==
  ASSUME IInv, [Next]_vars
  PROVE  SentIsAccountedFor' /\ MarkedIsAccountedFor'
<1> USE RelayAssumption DEF IInv, Types, SentIsAccountedFor, MarkedIsAccountedFor
<1>1. CASE Write
  BY <1>1 DEF Write, workerVars
<1>2. ASSUME NEW w \in Workers, Fetch(w)
      PROVE  SentIsAccountedFor' /\ MarkedIsAccountedFor'
  BY <1>2 DEF Fetch
<1>3. ASSUME NEW w \in Workers, FetchCommits(w)
      PROVE  SentIsAccountedFor' /\ MarkedIsAccountedFor'
  BY <1>3 DEF FetchCommits, workerVars
<1>4. ASSUME NEW w \in Workers, TakeRow(w)
      PROVE  SentIsAccountedFor' /\ MarkedIsAccountedFor'
  <2>1. PICK e \in batch[w] : current' = [current EXCEPT ![w] = e]
    BY <1>4 DEF TakeRow
  <2>2. ~sent[w]
    BY <1>4 DEF TakeRow
  <2> QED
    BY <1>4, <2>1, <2>2 DEF TakeRow, tableVars
<1>5. ASSUME NEW w \in Workers, Publish(w)
      PROVE  SentIsAccountedFor' /\ MarkedIsAccountedFor'
  <2>1. current[w] \in 1..MaxEvents
    BY <1>5 DEF Publish
  <2>2. \A e \in 1..MaxEvents : /\ published[e] > 0 => published'[e] > 0
                                /\ e = current[w] /\ e \notin Skipped => published'[e] > 0
    BY <1>5, <2>1 DEF Publish
  <2> QED
    BY <1>5, <2>1, <2>2 DEF Publish, tableVars
<1>6. ASSUME NEW w \in Workers, PublishFails(w)
      PROVE  SentIsAccountedFor' /\ MarkedIsAccountedFor'
  BY <1>6 DEF PublishFails, tableVars
<1>7. ASSUME NEW w \in Workers, Mark(w)
      PROVE  SentIsAccountedFor' /\ MarkedIsAccountedFor'
  BY <1>7 DEF Mark
<1>8. ASSUME NEW w \in Workers, MarkFails(w)
      PROVE  SentIsAccountedFor' /\ MarkedIsAccountedFor'
  BY <1>8 DEF MarkFails, tableVars
<1>9. ASSUME NEW w \in Workers, Interrupted(w)
      PROVE  SentIsAccountedFor' /\ MarkedIsAccountedFor'
  BY <1>9 DEF Interrupted
<1>10. CASE UNCHANGED vars
  BY <1>10 DEF vars, tableVars, workerVars
<1>11. ASSUME NEW w \in Workers, PublishInVain(w)
       PROVE  SentIsAccountedFor' /\ MarkedIsAccountedFor'
  BY <1>11 DEF PublishInVain, tableVars
<1> QED
  BY <1>1, <1>2, <1>3, <1>4, <1>5, <1>6, <1>7, <1>8, <1>9, <1>10, <1>11
  DEF Next, HandleRow, PublishReturns

\* A row whose message should be sent has status 'published' only after a
\* publish of it returned nil, whatever fails and however the workers are
\* interleaved: it takes a publish in vain for a queue not to have it.
THEOREM MarkedAccountedFor == Spec => []MarkedIsAccountedFor
<1>1. Init => IInv
  BY InitInv
<1>2. IInv /\ [Next]_vars => IInv'
  BY StepTypes, StepAccountedFor DEF IInv
<1>3. IInv => MarkedIsAccountedFor
  BY DEF IInv
<1> QED
  BY <1>1, <1>2, <1>3, PTL DEF Spec

------------------------------------------------------------------------------
(* Duplicates *)

\* A row at hand is out of the batch.
BatchApart == \A w \in Workers : current[w] \notin batch[w]

\* Who may publish e without another fetch, and who has and is about to mark it.
CanPublish(e) == {w \in Workers : e \in batch[w] \/ (current[w] = e /\ ~sent[w])}
HasPublished(e) == {w \in Workers : current[w] = e /\ sent[w]}

\* Workers that account for one message of e each.  A marked row is fetched no
\* more, so that those who cannot publish it now never will.
Spent(e) == IF e \in marked THEN Workers \ CanPublish(e) ELSE HasPublished(e)

Accounted == \A e \in Events : published[e] <= faults + Cardinality(Spent(e))

DInv == IInv /\ BatchApart /\ Accounted

LEMMA SpentFinite ==
  ASSUME NEW e
  PROVE  Spent(e) \in SUBSET Workers /\ Spent(e)' \in SUBSET Workers
BY DEF Spent, CanPublish, HasPublished

\* One message needs one worker more, one fault pays for one worker.
LEMMA Counted ==
  ASSUME NEW S \in SUBSET Workers, NEW T \in SUBSET Workers, NEW w \in Workers,
         NEW p \in Nat, NEW q \in Nat, NEW f \in Nat, NEW g \in Nat,
         p <= f + Cardinality(S),
         \/ S \subseteq T /\ q = p /\ g = f
         \/ S \subseteq T \cup {w} /\ q = p /\ g = f + 1
         \/ S \cup {w} \subseteq T /\ w \notin S /\ q = p + 1 /\ g = f
  PROVE  q <= g + Cardinality(T)
<1>1. IsFiniteSet(Workers)
  BY RelayAssumption
<1>2. IsFiniteSet(S) /\ IsFiniteSet(T)
  BY <1>1, FS_Subset
<1>3. Cardinality(S) \in Nat /\ Cardinality(T) \in Nat
  BY <1>2, FS_CardinalityType
<1>4. CASE S \subseteq T /\ q = p /\ g = f
  <2>1. Cardinality(S) <= Cardinality(T)
    BY <1>2, <1>4, FS_Subset
  <2> QED
    BY <1>3, <1>4, <2>1
<1>5. CASE S \subseteq T \cup {w} /\ q = p /\ g = f + 1
  <2>1. /\ IsFiniteSet(T \cup {w})
        /\ Cardinality(T \cup {w}) = IF w \in T THEN Cardinality(T) ELSE Cardinality(T) + 1
    BY <1>2, FS_AddElement
  <2>2. Cardinality(S) <= Cardinality(T \cup {w})
    BY <1>5, <2>1, FS_Subset
  <2> QED
    BY <1>3, <1>5, <2>1, <2>2
<1>6. CASE S \cup {w} \subseteq T /\ w \notin S /\ q = p + 1 /\ g = f
  <2>1. Cardinality(S \cup {w}) = Cardinality(S) + 1
    BY <1>2, <1>6, FS_AddElement
  <2>2. Cardinality(S \cup {w}) <= Cardinality(T)
    BY <1>2, <1>6, FS_Subset
  <2> QED
    BY <1>3, <1>6, <2>1, <2>2
<1> QED
  BY <1>4, <1>5, <1>6

\* Each step of a worker keeps the account.
LEMMA WorkerAccounts ==
  ASSUME DInv, Types', NEW w \in Workers, Fetch(w) \/ FetchCommits(w) \/ HandleRow(w) \/ Interrupted(w),
         NEW e \in Events
  PROVE  (published[e] <= faults + Cardinality(Spent(e)))'
<1> USE DEF DInv, IInv, BatchApart
<1>1. /\ published[e] \in Nat /\ published'[e] \in Nat /\ faults \in Nat /\ faults' \in Nat
      /\ published[e] <= faults + Cardinality(Spent(e))
  BY RelayAssumption DEF Types, Accounted
<1>2. \A v \in Workers : current[v] = NoEvent => ~sent[v]
  BY DEF SentIsAccountedFor
<1> SUFFICES \/ Spent(e) \subseteq Spent(e)' /\ published'[e] = published[e] /\ faults' = faults
             \/ Spent(e) \subseteq Spent(e)' \cup {w} /\ published'[e] = published[e] /\ faults' = faults + 1
             \/ Spent(e) \cup {w} \subseteq Spent(e)' /\ w \notin Spent(e)
                  /\ published'[e] = published[e] + 1 /\ faults' = faults
  BY <1>1, SpentFinite, Counted
<1> USE DEF Spent, CanPublish, HasPublished, Types
<1>3. CASE Fetch(w)
  <2>1. PICK rows \in SUBSET ((1..written) \ marked) : batch' = [batch EXCEPT ![w] = rows]
    BY <1>3 DEF Fetch, Oldest, Pending
  <2>2. current[w] = NoEvent /\ UNCHANGED <<marked, current, sent, published, faults>>
    BY <1>3 DEF Fetch, Idle
  <2> QED
    BY <1>2, <2>1, <2>2
<1>4. CASE FetchCommits(w)
  BY <1>4 DEF FetchCommits, workerVars
<1>5. CASE TakeRow(w)
  <2>1. PICK d \in batch[w] : /\ current' = [current EXCEPT ![w] = d]
                              /\ batch' = [batch EXCEPT ![w] = batch[w] \ {d}]
    BY <1>5 DEF TakeRow
  <2>2. ~sent[w] /\ UNCHANGED <<marked, sent, published, faults>>
    BY <1>2, <1>5 DEF TakeRow, tableVars
  <2> QED
    BY <2>1, <2>2
<1>6. CASE Publish(w)
  <2>1. /\ current[w] # NoEvent /\ ~sent[w] /\ current[w] \notin batch[w]
        /\ sent' = [sent EXCEPT ![w] = TRUE]
        /\ UNCHANGED <<marked, batch, current, faults>>
    BY <1>6 DEF Publish, tableVars
  <2>2. /\ Spent(e) \subseteq Spent(e)'
        /\ current[w] = e => w \notin Spent(e) /\ w \in Spent(e)'
    BY <2>1
  <2>3. published'[e] = IF current[w] = e /\ e \notin Skipped THEN published[e] + 1 ELSE published[e]
    BY <1>6, <2>1 DEF Publish
  <2> QED
    BY <2>1, <2>2, <2>3
<1>7. CASE PublishFails(w)
  BY <1>7 DEF PublishFails, tableVars
<1>11. CASE PublishInVain(w)
  BY <1>11 DEF PublishInVain, tableVars
<1>8. CASE Mark(w)
  <2>1. /\ current[w] # NoEvent /\ sent[w] /\ marked' = marked \cup {current[w]}
        /\ current' = [current EXCEPT ![w] = NoEvent]
        /\ sent' = [sent EXCEPT ![w] = FALSE]
        /\ UNCHANGED <<batch, published, faults>>
    BY <1>8 DEF Mark
  <2>2. Spent(e) \subseteq Spent(e)'
    BY <2>1
  <2> QED
    BY <2>1, <2>2
<1>9. CASE MarkFails(w)
  BY <1>9 DEF MarkFails, tableVars
<1>10. CASE Interrupted(w)
  <2>1. /\ batch' = [batch EXCEPT ![w] = {}] /\ UNCHANGED <<marked, published>>
        /\ faults' = faults + 1
        /\ \A v \in Workers \ {w} : current'[v] = current[v] /\ sent'[v] = sent[v]
    BY <1>10 DEF Interrupted
  <2>2. Spent(e) \subseteq Spent(e)' \cup {w}
    BY <2>1
  <2> QED
    BY <2>1, <2>2
<1> QED
  BY <1>3, <1>4, <1>5, <1>6, <1>7, <1>8, <1>9, <1>10, <1>11 DEF HandleRow, PublishReturns

LEMMA StepApart ==
  ASSUME Types, BatchApart, [Next]_vars
  PROVE  BatchApart'
<1> USE DEF Types, BatchApart
<1>1. CASE Write \/ UNCHANGED vars
  BY <1>1 DEF Write, vars, workerVars
<1>2. ASSUME NEW w \in Workers, Fetch(w)
      PROVE  BatchApart'
  <2>1. PICK rows \in SUBSET (1..written) : batch' = [batch EXCEPT ![w] = rows]
    BY <1>2 DEF Fetch, Oldest, Pending
  <2> QED
    BY <1>2, <2>1 DEF Fetch, Idle
<1>3. ASSUME NEW w \in Workers, FetchCommits(w)
      PROVE  BatchApart'
  BY <1>3 DEF FetchCommits, workerVars
<1>4. ASSUME NEW w \in Workers, HandleRow(w)
      PROVE  BatchApart'
  <2>1. CASE TakeRow(w)
    <3>1. PICK e \in batch[w] : /\ current' = [current EXCEPT ![w] = e]
                                /\ batch' = [batch EXCEPT ![w] = batch[w] \ {e}]
      BY <2>1 DEF TakeRow
    <3> QED
      BY <3>1
  <2>2. CASE ~TakeRow(w)
    <3>1. batch' = batch /\ current' \in {current, [current EXCEPT ![w] = NoEvent]}
      BY <1>4, <2>2 DEF HandleRow, PublishReturns, Publish, PublishInVain, PublishFails, Mark,
        MarkFails, tableVars
    <3> QED
      BY <3>1
  <2> QED
    BY <2>1, <2>2
<1>5. ASSUME NEW w \in Workers, Interrupted(w)
      PROVE  BatchApart'
  <2>1. /\ batch' = [batch EXCEPT ![w] = {}]
        /\ current' \in {current, [current EXCEPT ![w] = NoEvent]}
    BY <1>5 DEF Interrupted
  <2> QED
    BY <2>1
<1> QED
  BY <1>1, <1>2, <1>3, <1>4, <1>5 DEF Next

\* The relay publishes a row once for each worker at most, and once more for
\* each failed update and each interrupted worker, however the fetches of the
\* workers overlap.
THEOREM DuplicatesBounded == Spec => []DuplicatesAreBounded
<1>1. Init => DInv
  <2> SUFFICES ASSUME Init PROVE BatchApart /\ Accounted
    BY InitInv DEF DInv
  <2>1. \A e \in Events : Spent(e) = {}
    BY DEF Init, Spent, HasPublished
  <2>2. \A e \in Events : published[e] = 0 /\ faults = 0 /\ Cardinality(Spent(e)) = 0
    BY <2>1, FS_EmptySet DEF Init
  <2>3. Accounted
    BY <2>2 DEF Accounted
  <2> QED
    BY <2>3 DEF Init, BatchApart
<1>2. DInv /\ [Next]_vars => DInv'
  <2> SUFFICES ASSUME DInv, [Next]_vars PROVE DInv'
    OBVIOUS
  <2>1. IInv' /\ BatchApart'
    BY StepTypes, StepAccountedFor, StepApart DEF DInv, IInv
  <2>2. Accounted'
    <3>1. CASE Write \/ UNCHANGED vars
      <4>1. UNCHANGED <<marked, published, faults, batch, current, sent>>
        BY <3>1 DEF Write, vars, tableVars, workerVars
      <4>2. \A e \in Events : Spent(e)' = Spent(e)
        BY <4>1 DEF Spent, CanPublish, HasPublished
      <4> QED
        BY <4>1, <4>2 DEF DInv, Accounted
    <3>2. ASSUME NEW w \in Workers,
                 Fetch(w) \/ FetchCommits(w) \/ HandleRow(w) \/ Interrupted(w)
          PROVE  Accounted'
      BY <2>1, <3>2, WorkerAccounts DEF Accounted, IInv
    <3> QED
      BY <3>1, <3>2 DEF Next
  <2> QED
    BY <2>1, <2>2 DEF DInv
<1>3. DInv => DuplicatesAreBounded
  <2> SUFFICES ASSUME DInv, NEW e \in Events
               PROVE  published[e] <= Cardinality(Workers) + faults
    BY DEF DuplicatesAreBounded
  <2>1. Cardinality(Spent(e)) <= Cardinality(Workers) /\ IsFiniteSet(Spent(e))
    BY SpentFinite, RelayAssumption, FS_Subset
  <2>2. Cardinality(Spent(e)) \in Nat /\ Cardinality(Workers) \in Nat
    BY <2>1, RelayAssumption, FS_CardinalityType
  <2> QED
    BY <2>1, <2>2, RelayAssumption DEF DInv, IInv, Types, Accounted
<1> QED
  BY <1>1, <1>2, <1>3, PTL DEF Spec

------------------------------------------------------------------------------
(* The fetch *)

LEMMA LastOne ==
  ASSUME NEW n \in Nat, NEW S \in SUBSET (1..n), S # {}
  PROVE  \E e \in S : \A d \in S : d <= e
<1> DEFINE R == OpToRel(<, Nat)
           T == {k \in Nat : \E e \in S : k = n - e}
<1>1. \A d \in S : d \in Nat /\ d <= n /\ n - d \in Nat /\ n - d \in T
  <2> SUFFICES ASSUME NEW d \in S PROVE d \in Nat /\ d <= n /\ n - d \in Nat
    OBVIOUS
  <2>1. d \in 1..n
    OBVIOUS
  <2> QED
    BY <2>1
<1>2. \E k \in T : \A l \in T : ~ (<<l, k>> \in R)
  <2>1. T \subseteq Nat /\ T # {}
    BY <1>1
  <2> QED
    BY <2>1, NatLessThanWellFounded, WFMin
<1>3. PICK k \in T : \A l \in T : ~ (l < k)
  BY <1>1, <1>2 DEF OpToRel
<1>4. PICK e \in S : k = n - e
  OBVIOUS
<1>5. ASSUME NEW d \in S PROVE d <= e
  <2>1. n - d \in T /\ ~ (n - d < k)
    BY <1>1, <1>3
  <2>2. d \in Nat /\ e \in Nat
    BY <1>1
  <2> QED
    BY <1>4, <2>1, <2>2
<1> QED
  BY <1>5

LEMMA FetchBounded ==
  ASSUME NEW n \in Nat, NEW S \in SUBSET (1..n)
  PROVE  IsFiniteSet(Oldest(S)) /\ Cardinality(Oldest(S)) \in 0..Limit
<1> DEFINE O == Oldest(S)
<1>1. IsFiniteSet(1..n) /\ O \subseteq S
  BY FS_Interval DEF Oldest
<1>2. IsFiniteSet(O) /\ IsFiniteSet(S)
  BY <1>1, FS_Subset
<1>3. CASE O = {}
  BY <1>2, <1>3, FS_EmptySet, RelayAssumption
<1>4. CASE O # {}
  <2>1. PICK e \in O : \A d \in O : d <= e
    BY <1>1, <1>4, LastOne
  <2> DEFINE older == {d \in S : d < e}
  <2>2. Cardinality(older) < Limit
    BY <2>1 DEF Oldest
  <2>3. O \ {e} \subseteq older
    <3> SUFFICES ASSUME NEW d \in O, d # e PROVE d \in S /\ d < e
      OBVIOUS
    <3>1. d \in 1..n /\ e \in 1..n /\ d \in S /\ d <= e
      BY <1>1, <2>1
    <3> QED
      BY <3>1
  <2>4. IsFiniteSet(older)
    BY <1>2, FS_Subset
  <2>5. Cardinality(O \ {e}) <= Cardinality(older) /\ Cardinality(older) \in Nat
    BY <2>3, <2>4, FS_Subset, FS_CardinalityType
  <2>6. Cardinality(O \ {e}) = Cardinality(O) - 1 /\ Cardinality(O) \in Nat
    BY <1>2, <2>1, FS_RemoveElement, FS_CardinalityType
  <2> HIDE DEF O, older
  <2>7. Cardinality(O) \in 0..Limit
    BY <2>2, <2>5, <2>6, RelayAssumption
  <2> QED
    BY <1>2, <2>7 DEF O
<1> QED
  BY <1>3, <1>4

BatchBounded == \A w \in Workers : IsFiniteSet(batch[w]) /\ Cardinality(batch[w]) \in 0..Limit

\* The workers keep their types: none handles a row not yet written, and no
\* batch is longer than the LIMIT of the fetch.
THEOREM TypeCorrect == Spec => []TypeOK
<1>1. Init => Types /\ BatchBounded
  <2> SUFFICES ASSUME Init PROVE BatchBounded
    BY InitInv DEF IInv
  <2> QED
    BY FS_EmptySet, RelayAssumption DEF Init, BatchBounded
<1>2. Types /\ BatchBounded /\ [Next]_vars => BatchBounded'
  <2> SUFFICES ASSUME Types, BatchBounded, [Next]_vars PROVE BatchBounded'
    OBVIOUS
  <2>1. ASSUME NEW w \in Workers, Fetch(w)
        PROVE  BatchBounded'
    <3>1. PICK rows : /\ rows = Oldest(Pending \ Locked)
                      /\ batch' = [batch EXCEPT ![w] = rows]
      BY <2>1 DEF Fetch
    <3>2. written \in Nat /\ Pending \ Locked \in SUBSET (1..written)
      BY RelayAssumption DEF Types, Pending
    <3>3. IsFiniteSet(rows) /\ Cardinality(rows) \in 0..Limit
      BY <3>1, <3>2, FetchBounded
    <3> QED
      BY <3>1, <3>3 DEF Types, BatchBounded
  <2>2. ASSUME NEW w \in Workers, batch' = [batch EXCEPT ![w] = batch'[w]], batch'[w] \subseteq batch[w]
        PROVE  BatchBounded'
    <3>1. IsFiniteSet(batch[w]) /\ Cardinality(batch[w]) \in 0..Limit
      BY DEF BatchBounded
    <3>2. /\ IsFiniteSet(batch'[w]) /\ Cardinality(batch'[w]) \in Nat
          /\ Cardinality(batch'[w]) <= Cardinality(batch[w])
      BY <2>2, <3>1, FS_Subset, FS_CardinalityType
    <3>3. Cardinality(batch'[w]) \in 0..Limit
      BY <3>1, <3>2, RelayAssumption
    <3> QED
      BY <2>2, <3>2, <3>3 DEF Types, BatchBounded
  <2>3. ASSUME NEW w \in Workers, TakeRow(w) \/ Interrupted(w)
        PROVE  BatchBounded'
    <3>1. PICK b \in SUBSET batch[w] : batch' = [batch EXCEPT ![w] = b]
      BY <2>3 DEF TakeRow, Interrupted
    <3>2. batch'[w] = b
      BY <3>1 DEF Types
    <3> QED
      BY <2>2, <3>1, <3>2
  <2>4. CASE batch' = batch
    BY <2>4 DEF BatchBounded
  <2>5. ASSUME NEW w \in Workers,
               FetchCommits(w) \/ PublishReturns(w) \/ PublishFails(w) \/ Mark(w) \/ MarkFails(w)
        PROVE  batch' = batch
    BY <2>5 DEF FetchCommits, PublishReturns, Publish, PublishInVain, PublishFails, Mark, MarkFails, workerVars
  <2>6. Write \/ UNCHANGED vars => batch' = batch
    BY DEF Write, vars, workerVars
  <2> QED
    BY <2>1, <2>3, <2>4, <2>5, <2>6 DEF Next, HandleRow
<1>3. Types /\ BatchBounded => TypeOK
  BY RelayAssumption DEF TypeOK, BatchBounded
<1> QED
  BY <1>1, <1>2, <1>3, StepTypes, PTL DEF Spec
===============================================================================
