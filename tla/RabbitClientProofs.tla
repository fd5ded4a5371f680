-------------------------- MODULE RabbitClientProofs ---------------------------
(***************************************************************************)
(* For any number of dials, deaths and callers: what isConnected promises, *)
(* what an operation can rely on, and how many connections the client      *)
(* leaves open at the server.                                              *)
(***************************************************************************)
EXTENDS RabbitClient, FiniteSetTheorems, TLAPS

\* A channel is open on the newest connection only, and only after it opened.
OneChannel ==
  /\ chans \subseteq {dials}
  /\ pc \in {"start", "dial", "channel", "backoff"} => chans = {}

\* From its dial to its end, the newest connection is the one at hand, and it
\* is installed before it is announced.
Newest ==
  /\ pc \in {"channel", "install", "flag", "wait"} => dialled = dials /\ dials # NoConn
  /\ pc \in {"flag", "wait"} => current = dials

\* The connection that waits for its channel.
Pending == IF pc = "channel" THEN {dialled} ELSE {}

\* Connections that stay open at the server without a channel.
Orphans == (live \ chans) \ Pending

\* TypeOK in two parts: what is counted, and what is named.
Counted ==
  /\ live \subseteq 1..dials /\ chans \subseteq live
  /\ dials \in 0..MaxDials /\ deaths \in 0..MaxDeaths /\ chanDeaths \in 0..deaths
  /\ dialled \in 0..dials /\ current \in 0..dials
  /\ using \in [Callers -> 0..dials]

Named ==
  /\ pc \in {"start", "dial", "channel", "install", "flag", "wait", "backoff", "done"}
  /\ backoff \in {1, 2, 4, 8, 16, MaxBackoff}
  /\ isConnected \in BOOLEAN /\ ctxDone \in BOOLEAN
  /\ closer \in {"idle", "unflag", "close", "returned"}
  /\ writer \in {"none", "reconnect", "close"}

IInv ==
  /\ TypeOK
  /\ OneChannel /\ Newest
  /\ ConnectedIsCurrent /\ OperationKeepsChannel
  /\ Cardinality(Orphans) <= chanDeaths

------------------------------------------------------------------------------
LEMMA TypeParts == TypeOK <=> Counted /\ Named
  BY DEF TypeOK, Counted, Named

LEMMA OrphansFinite == TypeOK => IsFiniteSet(Orphans) /\ Cardinality(Orphans) \in Nat
<1> SUFFICES ASSUME TypeOK PROVE IsFiniteSet(Orphans) /\ Cardinality(Orphans) \in Nat
  OBVIOUS
<1>1. dials \in Int /\ Orphans \subseteq 1..dials
  BY DialAssumption, TypeParts DEF Counted, Orphans
<1>2. IsFiniteSet(1..dials)
  BY <1>1, FS_Interval
<1>3. IsFiniteSet(Orphans)
  BY <1>1, <1>2, FS_Subset
<1> QED
  BY <1>3, FS_CardinalityType

\* One connection more.
LEMMA OneOrphanMore ==
  ASSUME TypeOK, NEW n
  PROVE  /\ IsFiniteSet(Orphans \cup {n})
         /\ Cardinality(Orphans \cup {n}) <= Cardinality(Orphans) + 1
         /\ Cardinality(Orphans \cup {n}) \in Nat
<1>1. IsFiniteSet(Orphans) /\ Cardinality(Orphans) \in Nat
  BY OrphansFinite
<1>2. /\ IsFiniteSet(Orphans \cup {n})
      /\ Cardinality(Orphans \cup {n}) =
           IF n \in Orphans THEN Cardinality(Orphans) ELSE Cardinality(Orphans) + 1
  BY <1>1, FS_AddElement
<1> QED
  BY <1>1, <1>2

\* What does not make an orphan keeps the count.
LEMMA FewerOrphans ==
  ASSUME IInv, Orphans' \subseteq Orphans, chanDeaths' = chanDeaths
  PROVE  (Cardinality(Orphans) <= chanDeaths)'
<1>1. Cardinality(Orphans') <= Cardinality(Orphans) /\ Cardinality(Orphans') \in Nat
  BY OrphansFinite, FS_Subset, FS_CardinalityType DEF IInv
<1> QED
  BY <1>1, OrphansFinite DEF IInv, TypeOK

LEMMA InitInv == Init => IInv
<1> SUFFICES ASSUME Init PROVE IInv
  OBVIOUS
<1>1. Orphans = {}
  BY DEF Init, Orphans
<1>2. Cardinality(Orphans) = 0
  BY <1>1, FS_EmptySet
<1>3. TypeOK
  <2>1. Counted
    BY DialAssumption DEF Init, Counted, NoConn
  <2>2. Named
    BY DEF Init, Named
  <2> QED
    BY <2>1, <2>2, TypeParts
<1> QED
  BY <1>2, <1>3 DEF Init, IInv, OneChannel, Newest, ConnectedIsCurrent, OperationKeepsChannel

LEMMA ServerStep ==
  ASSUME IInv, NEW n \in Conns, ConnectionDies(n) \/ ChannelDies(n)
  PROVE  IInv'
<1> USE DEF IInv
<1>1. TypeOK' /\ OneChannel' /\ Newest' /\ ConnectedIsCurrent' /\ OperationKeepsChannel'
  <2>1. TypeOK'
    <3>1. Counted'
      BY DialAssumption, TypeParts DEF ConnectionDies, ChannelDies, clientVars, lockVars, Counted
    <3>2. Named'
      BY TypeParts DEF ConnectionDies, ChannelDies, clientVars, lockVars, Named
    <3> QED
      BY <3>1, <3>2 DEF TypeOK, Counted, Named
  <2>2. OneChannel' /\ Newest'
    BY DEF ConnectionDies, ChannelDies, clientVars, lockVars, OneChannel, Newest
  <2>3. ConnectedIsCurrent' /\ OperationKeepsChannel'
    BY DEF ConnectionDies, ChannelDies, clientVars, lockVars, ConnectedIsCurrent,
      OperationKeepsChannel
  <2> QED
    BY <2>1, <2>2, <2>3
<1>2. CASE ConnectionDies(n)
  <2>1. Orphans' \subseteq Orphans /\ chanDeaths' = chanDeaths
    BY <1>2 DEF ConnectionDies, clientVars, lockVars, Orphans, Pending
  <2> QED
    BY <1>1, <2>1, FewerOrphans
<1>3. CASE ChannelDies(n)
  <2>1. Orphans' \subseteq Orphans \cup {n} /\ chanDeaths' = chanDeaths + 1
    BY <1>3 DEF ChannelDies, clientVars, lockVars, Orphans, Pending
  <2>2. /\ IsFiniteSet(Orphans \cup {n}) /\ Cardinality(Orphans \cup {n}) \in Nat
        /\ Cardinality(Orphans \cup {n}) <= Cardinality(Orphans) + 1
    BY OneOrphanMore
  <2>3. Cardinality(Orphans') <= Cardinality(Orphans \cup {n}) /\ IsFiniteSet(Orphans')
    BY <2>1, <2>2, FS_Subset
  <2>4. Cardinality(Orphans') \in Nat /\ Cardinality(Orphans) \in Nat /\ chanDeaths \in Nat
    BY <2>3, OrphansFinite, FS_CardinalityType DEF TypeOK
  <2>5. (Cardinality(Orphans) <= chanDeaths)'
    BY <2>1, <2>2, <2>3, <2>4
  <2> QED
    BY <1>1, <2>5
<1> QED
  BY <1>2, <1>3

\* The steps that open or close nothing.
Quiet ==
  \/ \E w \in {"reconnect", "close"} : Lock(w)
  \/ StartOver \/ DialFails \/ Install \/ Announce \/ Wait \/ Cancel \/ Unflag
  \/ \E k \in Callers : BeginCall(k) \/ EndCall(k)

LEMMA QuietStep ==
  ASSUME IInv, Quiet
  PROVE  IInv'
<1> USE DEF IInv, serverVars, lockVars
<1>1. /\ (pc # "channel" /\ pc' # "channel") \/ UNCHANGED <<pc, dialled>>
      /\ UNCHANGED <<live, chans, dials, deaths, chanDeaths>>
  BY DEF Quiet, Lock, StartOver, DialFails, Install, Announce, Wait, NoticeClose, Retry, Stop,
    Cancel, Unflag, BeginCall, EndCall
<1>2. Orphans' = Orphans
  BY <1>1 DEF Orphans, Pending
<1>3. Counted'
  <2>1. current' \in {current, dialled} /\ dialled' = dialled
    BY DEF Quiet, Lock, StartOver, DialFails, Install, Announce, Wait, NoticeClose, Retry, Stop,
      Cancel, Unflag, BeginCall, EndCall
  <2>2. using' \in [Callers -> 0..dials]
    <3>1. CASE \E k \in Callers : BeginCall(k) \/ EndCall(k)
      BY <3>1, DialAssumption, TypeParts DEF BeginCall, EndCall, Counted, NoConn
    <3>2. CASE ~ \E k \in Callers : BeginCall(k) \/ EndCall(k)
      <4>1. using' = using
        BY <3>2 DEF Quiet, Lock, StartOver, DialFails, Install, Announce, Wait, NoticeClose,
          Retry, Stop, Cancel, Unflag
      <4> QED
        BY <4>1, TypeParts DEF Counted
    <3> QED
      BY <3>1, <3>2
  <2> QED
    BY <1>1, <2>1, <2>2, TypeParts DEF Counted
<1>4. Named'
  <2>1. backoff \in {1, 2, 4, 8, 16, 30}
    BY TypeParts DEF Named, MaxBackoff
  <2>2. backoff' \in {backoff, 1, IF 2 * backoff > 30 THEN 30 ELSE 2 * backoff}
    BY DEF Quiet, Lock, StartOver, DialFails, Install, Announce, Wait, NoticeClose, Retry, Stop,
      Cancel, Unflag, BeginCall, EndCall, MaxBackoff
  <2>3. backoff' \in {1, 2, 4, 8, 16, 30}
    BY <2>1, <2>2
  <2>4. /\ pc' \in {"start", "dial", "channel", "install", "flag", "wait", "backoff", "done"}
        /\ closer' \in {"idle", "unflag", "close", "returned"}
        /\ writer' \in {"none", "reconnect", "close"}
    BY TypeParts DEF Named, Quiet, Lock, StartOver, DialFails, Install, Announce, Wait,
      NoticeClose, Retry, Stop, Cancel, Unflag, BeginCall, EndCall
  <2>5. isConnected' \in BOOLEAN /\ ctxDone' \in BOOLEAN
    BY TypeParts DEF Named, Quiet, Lock, StartOver, DialFails, Install, Announce, Wait,
      NoticeClose, Retry, Stop, Cancel, Unflag, BeginCall, EndCall
  <2> QED
    BY <2>3, <2>4, <2>5 DEF Named, MaxBackoff
<1>5. TypeOK'
  BY <1>3, <1>4 DEF TypeOK, Counted, Named
<1>6. OneChannel' /\ Newest'
  BY DEF OneChannel, Newest, Quiet, Lock, StartOver, DialFails, Install, Announce, Wait,
    NoticeClose, Notified, Retry, Stop, Cancel, Unflag, BeginCall, EndCall
<1>7. ConnectedIsCurrent'
  BY DEF Newest, ConnectedIsCurrent, Quiet, Lock, StartOver, DialFails, Install, Announce, Wait,
    NoticeClose, Retry, Stop, Cancel, Unflag, BeginCall, EndCall
<1>8. OperationKeepsChannel'
  <2>1. CASE StartOver \/ Install \/ Announce \/ Unflag
    <3>1. \A k \in Callers : using'[k] = NoConn
      BY <2>1 DEF StartOver, Install, Announce, Unflag, Holds
    <3> QED
      BY <3>1 DEF OperationKeepsChannel
  <2>2. CASE (\E w \in {"reconnect", "close"} : Lock(w)) \/ DialFails \/ Wait \/ Cancel
    BY <2>2 DEF OperationKeepsChannel, Lock, DialFails, Wait, NoticeClose, Retry, Stop, Cancel
  <2>3. ASSUME NEW k \in Callers, BeginCall(k) \/ EndCall(k) PROVE OperationKeepsChannel'
    BY <2>3, TypeParts DEF OperationKeepsChannel, BeginCall, EndCall, Counted
  <2> QED
    BY <2>1, <2>2, <2>3 DEF Quiet
<1> QED
  BY <1>1, <1>2, <1>5, <1>6, <1>7, <1>8, FewerOrphans

LEMMA LoudStep ==
  ASSUME IInv, DialSucceeds \/ OpenChannel \/ CloseCurrent
  PROVE  IInv'
<1> USE DEF IInv, serverVars, lockVars
<1>1. using' = using /\ UNCHANGED <<current, isConnected>>
  BY DEF DialSucceeds, OpenChannel, ChannelOpens, ChannelFails, CloseCurrent
<1>2. OperationKeepsChannel'
  BY <1>1 DEF OperationKeepsChannel
<1>3. CASE DialSucceeds
  <2>1. dials' = dials + 1 /\ dials \in Nat /\ dials' \in 0..MaxDials
    BY <1>3, DialAssumption, TypeParts DEF DialSucceeds, Counted
  <2>2. using' \in [Callers -> 0..dials']
    <3>1. \A k \in Callers : using[k] \in 0..dials'
      BY <2>1, TypeParts DEF Counted
    <3> QED
      BY <1>1, <3>1, TypeParts DEF Counted
  <2>3. Counted'
    BY <1>3, <2>1, <2>2, DialAssumption, TypeParts DEF DialSucceeds, Counted
  <2>4. Named'
    BY <1>3, TypeParts DEF DialSucceeds, Named
  <2>5. OneChannel' /\ Newest' /\ ConnectedIsCurrent'
    BY <1>3, <2>1, TypeParts DEF DialSucceeds, Counted, OneChannel, Newest, ConnectedIsCurrent,
      NoConn
  <2>6. Orphans' \subseteq Orphans
    BY <1>3 DEF DialSucceeds, Orphans, Pending
  <2> QED
    BY <1>2, <1>3, <2>3, <2>4, <2>5, <2>6, FewerOrphans DEF DialSucceeds, TypeOK, Counted, Named
<1>4. CASE OpenChannel \/ CloseCurrent
  <2>1. Counted'
    BY <1>1, <1>4, TypeParts DEF OpenChannel, ChannelOpens, ChannelFails, CloseCurrent, Counted,
      OneChannel
  <2>2. Named'
    BY <1>4, TypeParts DEF OpenChannel, ChannelOpens, ChannelFails, CloseCurrent, Named
  <2>3. OneChannel' /\ Newest' /\ ConnectedIsCurrent'
    BY <1>4 DEF OpenChannel, ChannelOpens, ChannelFails, CloseCurrent, OneChannel, Newest,
      ConnectedIsCurrent
  <2>4. Orphans' \subseteq Orphans /\ chanDeaths' = chanDeaths
    BY <1>4 DEF OpenChannel, ChannelOpens, ChannelFails, CloseCurrent, Orphans, Pending
  <2> QED
    BY <1>2, <2>1, <2>2, <2>3, <2>4, FewerOrphans DEF TypeOK, Counted, Named
<1> QED
  BY <1>3, <1>4

LEMMA Step == IInv /\ [Next]_vars => IInv'
<1> SUFFICES ASSUME IInv, [Next]_vars PROVE IInv'
  OBVIOUS
<1>1. CASE UNCHANGED vars
  BY <1>1 DEF vars, serverVars, clientVars, lockVars, IInv, TypeOK, OneChannel, Newest,
    ConnectedIsCurrent, OperationKeepsChannel, Orphans, Pending
<1> QED
  BY <1>1, ServerStep, QuietStep, LoudStep DEF Next, HandleReconnect, Dial, Close, Quiet

LEMMA Inductive == Spec => []IInv
  BY InitInv, Step, PTL DEF Spec

------------------------------------------------------------------------------
\* The client keeps its types: the backoff takes one of its six values, and no
\* channel is open on a connection that is not, for any number of dials.
THEOREM ClientTypeCorrect == Spec => []TypeOK
  BY Inductive, PTL DEF IInv

\* IsConnected is told true under the read lock only while the newest connection
\* is installed, however deaths, redials and Close are interleaved.
THEOREM ConnectedCurrent == Spec => []ConnectedIsCurrent
  BY Inductive, PTL DEF IInv

\* Publish, Consume and the declarations: while one of them holds the read lock,
\* neither handleReconnect nor Close changes the fields that it works with.
THEOREM OperationsKeepChannel == Spec => []OperationKeepsChannel
  BY Inductive, PTL DEF IInv

\* handleReconnect: the connections open at the server are one and those whose
\* channel died without them, at most.
THEOREM LeaksCaused == Spec => []LeaksHaveACause
<1>1. IInv => LeaksHaveACause
  <2> SUFFICES ASSUME IInv PROVE LeaksHaveACause
    OBVIOUS
  <2>1. live \subseteq Orphans \cup {dials}
    BY DEF IInv, OneChannel, Newest, Orphans, Pending
  <2>2. /\ IsFiniteSet(Orphans \cup {dials}) /\ Cardinality(Orphans \cup {dials}) \in Nat
        /\ Cardinality(Orphans \cup {dials}) <= Cardinality(Orphans) + 1
    BY OneOrphanMore DEF IInv
  <2>3. Cardinality(live) <= Cardinality(Orphans \cup {dials}) /\ Cardinality(live) \in Nat
    BY <2>1, <2>2, FS_Subset, FS_CardinalityType
  <2> QED
    BY <2>2, <2>3, OrphansFinite, FS_CardinalityType DEF IInv, TypeOK, LeaksHaveACause
<1> QED
  BY Inductive, <1>1, PTL

------------------------------------------------------------------------------
\* Where the newest connection is, once it has a channel: at hand until it is
\* installed, then the installed one.
Placed ==
  /\ pc \in {"channel", "install"} => current # dials
  /\ chans # {} /\ pc # "install" => current = dials

\* The converse of ConnectedIsCurrent: an installed connection that works is
\* announced, but for the two moments in which the code has yet to say so or
\* has yet to close it.
Announced == current \in chans => isConnected \/ pc = "flag" \/ closer = "close"

Held == Placed /\ Announced /\ WriterIsAtWork

LEMMA HeldStep == IInv /\ Held /\ [Next]_vars => Held'
<1> SUFFICES ASSUME IInv, Held, [Next]_vars PROVE Held'
  OBVIOUS
<1> USE DEF Held, serverVars, lockVars
<1>1. dials \in Nat /\ current \in 0..dials /\ chans \subseteq {dials}
      /\ (pc \in {"start", "dial", "channel", "backoff"} => chans = {})
      /\ (pc \in {"channel", "install", "flag", "wait"} => dialled = dials)
  BY DialAssumption, TypeParts DEF IInv, Counted, OneChannel, Newest
<1>2. CASE UNCHANGED vars
  BY <1>2 DEF vars, clientVars, Placed, Announced, WriterIsAtWork
<1>3. ASSUME NEW n \in Conns, ConnectionDies(n) \/ ChannelDies(n) PROVE Held'
  BY <1>3 DEF ConnectionDies, ChannelDies, clientVars, Placed, Announced, WriterIsAtWork
<1>4. CASE Lock("reconnect") \/ Lock("close")
  BY <1>4 DEF Lock, Placed, Announced, WriterIsAtWork
<1>5. CASE StartOver \/ Install \/ Announce
  BY <1>1, <1>5 DEF StartOver, Install, Announce, Holds, Placed, Announced, WriterIsAtWork
<1>6. CASE Dial \/ OpenChannel
  <2>1. CASE DialSucceeds
    <3>1. current # dials' /\ dials' = dials + 1 /\ chans' = {} /\ current' = current
      BY <1>1, <2>1 DEF DialSucceeds
    <3> QED
      BY <2>1, <3>1 DEF DialSucceeds, Placed, Announced, WriterIsAtWork
  <2>2. CASE ChannelOpens
    <3>1. chans' = {dials} /\ current # dials
      BY <1>1, <2>2 DEF ChannelOpens, Placed
    <3> QED
      BY <2>2, <3>1 DEF ChannelOpens, Placed, Announced, WriterIsAtWork
  <2>3. CASE DialFails \/ ChannelFails
    BY <1>1, <2>3 DEF DialFails, ChannelFails, Placed, Announced, WriterIsAtWork
  <2> QED
    BY <1>6, <2>1, <2>2, <2>3 DEF Dial, OpenChannel
<1>7. CASE Wait
  BY <1>1, <1>7 DEF Wait, NoticeClose, Notified, Retry, Stop, Placed, Announced, WriterIsAtWork
<1>8. CASE Cancel \/ Unflag \/ CloseCurrent
  BY <1>1, <1>8 DEF Cancel, Unflag, CloseCurrent, Holds, Placed, Announced, WriterIsAtWork
<1>9. ASSUME NEW k \in Callers, BeginCall(k) \/ EndCall(k) PROVE Held'
  BY <1>9 DEF BeginCall, EndCall, Placed, Announced, WriterIsAtWork
<1> QED
  BY <1>2, <1>3, <1>4, <1>5, <1>6, <1>7, <1>8, <1>9 DEF Next, HandleReconnect, Close

LEMMA AlwaysHeld == Spec => []Held
<1>1. Init => Held
  BY DEF Init, Held, Placed, Announced, WriterIsAtWork
<1> QED
  BY <1>1, HeldStep, Inductive, PTL DEF Spec

\* The mutex of the client: a writer in line is always one that will take the
\* lock, so that readers never wait behind nobody.
THEOREM WritersAtWork == Spec => []WriterIsAtWork
  BY AlwaysHeld, PTL DEF Held

\* Close and handleReconnect, whatever dial or install was under way: without a
\* channel that died alone, a closed client leaves nothing open but the
\* connection that it still counts as connected.
THEOREM LeftOpenKnown == Spec => []LeftOpenIsKnown
<1>1. IInv /\ Held => LeftOpenIsKnown
  <2> SUFFICES ASSUME IInv, Held, closer = "returned", pc = "done", chanDeaths = 0
               PROVE  live = {} \/ (live = {current} /\ isConnected)
    BY DEF LeftOpenIsKnown
  <2>1. Cardinality(Orphans) = 0 /\ IsFiniteSet(Orphans)
    BY OrphansFinite DEF IInv
  <2>2. Orphans = {}
    BY <2>1, FS_EmptySet
  <2>3. live = chans /\ chans \subseteq {dials}
    BY <2>2, TypeParts DEF IInv, Counted, OneChannel, Orphans, Pending
  <2>4. chans # {} => current = dials /\ isConnected
    BY <2>3 DEF Held, Placed, Announced
  <2> QED
    BY <2>3, <2>4
<1> QED
  BY <1>1, Inductive, AlwaysHeld, PTL

===============================================================================
