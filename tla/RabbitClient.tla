----------------------------- MODULE RabbitClient -----------------------------
(***************************************************************************)
(* pkg/rabbitmq.Client: the goroutine handleReconnect dials, installs and  *)
(* watches one connection with one channel, while the server and the       *)
(* network end either, and a caller of Close may come at any point.        *)
(*                                                                         *)
(* Connections are numbered in the order they are dialled.  The AMQP       *)
(* library closes both notification channels when a connection or channel  *)
(* ends, for whatever reason, and at once when it has ended already; so a  *)
(* notification is pending exactly when the watched object is dead.        *)
(*                                                                         *)
(* Operations (ExchangeDeclare, QueueDeclare, QueueBind, Publish, Consume) *)
(* hold the read lock of c.mu while they talk to the server; the fields of *)
(* the client are written under its write lock.  c.mu is a Go RWMutex: one *)
(* writer at a time gets in line, and new readers wait behind it.          *)
(***************************************************************************)
EXTENDS Integers, FiniteSets

CONSTANTS Callers,      \* goroutines that use the client
          MaxDials,     \* bound on connections the server accepts
          MaxDeaths     \* bound on connections and channels that die by themselves

ASSUME DialAssumption == MaxDials \in Nat \ {0} /\ MaxDeaths \in Nat

Conns == 1..MaxDials
NoConn == 0
MaxBackoff == 30        \* seconds

VARIABLES live,         \* connections open at the server
          chans,        \* those whose channel is open too
          dials,        \* number of connections accepted so far
          deaths,       \* number of connections and channels that died
          chanDeaths,   \* of these, the channels whose connection lived on
          pc,           \* where handleReconnect is
          dialled,      \* its local variable conn
          backoff,      \* its local variable backoff
          current,      \* c.conn and c.ch, and the notifications they have
          isConnected,  \* c.isConnected
          ctxDone,      \* c.ctx is cancelled
          closer,       \* where the caller of Close is
          using,        \* the connection of a caller's operation, or NoConn
          writer        \* who is in line for the write lock, or holds it

serverVars == <<live, chans, dials, deaths, chanDeaths>>
lockVars == <<using, writer>>
clientVars == <<pc, dialled, backoff, current, isConnected, ctxDone, closer, lockVars>>
vars == <<serverVars, clientVars>>

Init ==
  /\ live = {} /\ chans = {}
  /\ dials = 0 /\ deaths = 0 /\ chanDeaths = 0
  /\ pc = "start"
  /\ dialled = NoConn /\ backoff = 1
  /\ current = NoConn
  /\ isConnected = FALSE
  /\ ctxDone = FALSE
  /\ closer = "idle"
  /\ using = [k \in Callers |-> NoConn]
  /\ writer = "none"

------------------------------------------------------------------------------
(* The lock *)

\* Lock is called, and no other writer is ahead.
Lock(w) ==
  /\ \/ w = "reconnect" /\ pc \in {"start", "install", "flag"}
     \/ w = "close" /\ closer \in {"unflag", "close"}
  /\ writer = "none"
  /\ writer' = w
  /\ UNCHANGED <<serverVars, pc, dialled, backoff, current, isConnected, ctxDone, closer, using>>

\* Lock has returned: the readers are gone.
Holds(w) == writer = w /\ \A k \in Callers : using[k] = NoConn

------------------------------------------------------------------------------
(* The server and the network *)

ConnectionDies(n) ==
  /\ n \in live
  /\ deaths < MaxDeaths
  /\ deaths' = deaths + 1
  /\ live' = live \ {n}
  /\ chans' = chans \ {n}
  /\ UNCHANGED <<dials, chanDeaths, clientVars>>

\* A channel exception: the server closes the channel, not the connection.
ChannelDies(n) ==
  /\ n \in chans
  /\ deaths < MaxDeaths
  /\ deaths' = deaths + 1
  /\ chanDeaths' = chanDeaths + 1
  /\ chans' = chans \ {n}
  /\ UNCHANGED <<live, dials, clientVars>>

------------------------------------------------------------------------------
(* handleReconnect *)

\* Mutated form: setConnected does not wait for the readers.
StartOverUnlocked ==
  /\ pc = "start" /\ writer = "reconnect"
  /\ writer' = "none"
  /\ isConnected' = FALSE
  /\ backoff' = 1
  /\ pc' = "dial"
  /\ UNCHANGED <<serverVars, dialled, current, ctxDone, closer, using>>

\* Mutated form: nobody withdraws the connection that was lost.
StartOverConnected ==
  /\ pc = "start" /\ Holds("reconnect")
  /\ writer' = "none"
  /\ backoff' = 1
  /\ pc' = "dial"
  /\ UNCHANGED <<serverVars, dialled, current, isConnected, ctxDone, closer, using>>

\* setConnected(false), and a fresh backoff.
StartOver ==
  /\ pc = "start" /\ Holds("reconnect")
  /\ writer' = "none"
  /\ isConnected' = FALSE
  /\ backoff' = 1
  /\ pc' = "dial"
  /\ UNCHANGED <<serverVars, dialled, current, ctxDone, closer, using>>

DialSucceeds ==
  /\ pc = "dial"
  /\ dials < MaxDials
  /\ dials' = dials + 1
  /\ dialled' = dials + 1
  /\ live' = live \cup {dials + 1}
  /\ pc' = "channel"
  /\ UNCHANGED <<chans, deaths, chanDeaths, backoff, current, isConnected, ctxDone, closer, lockVars>>

DialFails ==
  /\ pc = "dial"
  /\ pc' = "backoff"
  /\ UNCHANGED <<serverVars, dialled, backoff, current, isConnected, ctxDone, closer, lockVars>>

ChannelOpens ==
  /\ pc = "channel"
  /\ dialled \in live
  /\ chans' = chans \cup {dialled}
  /\ pc' = "install"
  /\ UNCHANGED <<live, dials, deaths, chanDeaths, dialled, backoff, current, isConnected,
                 ctxDone, closer, lockVars>>

\* Mutated form: the connection without a channel is not closed.
ChannelFailsNoClose ==
  /\ pc = "channel"
  /\ pc' = "backoff"
  /\ UNCHANGED <<serverVars, dialled, backoff, current, isConnected, ctxDone, closer, lockVars>>

\* conn.Channel fails, and the new connection is closed again.
ChannelFails ==
  /\ pc = "channel"
  /\ live' = live \ {dialled}
  /\ pc' = "backoff"
  /\ UNCHANGED <<chans, dials, deaths, chanDeaths, dialled, backoff, current, isConnected,
                 ctxDone, closer, lockVars>>

\* The new connection, its channel and their notifications replace the old,
\* under the lock.
Install ==
  /\ pc = "install" /\ Holds("reconnect")
  /\ writer' = "none"
  /\ current' = dialled
  /\ pc' = "flag"
  /\ UNCHANGED <<serverVars, dialled, backoff, isConnected, ctxDone, closer, using>>

\* Mutated form: a client that is closed by then is not announced.
AnnounceUnlessClosed ==
  /\ pc = "flag" /\ Holds("reconnect")
  /\ writer' = "none"
  /\ isConnected' = ~ctxDone
  /\ pc' = "wait"
  /\ UNCHANGED <<serverVars, dialled, backoff, current, ctxDone, closer, using>>

\* setConnected(true), in a critical section of its own.
Announce ==
  /\ pc = "flag" /\ Holds("reconnect")
  /\ writer' = "none"
  /\ isConnected' = TRUE
  /\ pc' = "wait"
  /\ UNCHANGED <<serverVars, dialled, backoff, current, ctxDone, closer, using>>

Notified == current \notin chans

\* Mutated form: only the connection is watched, not its channel.
NoticeConnectionOnly ==
  /\ pc = "wait"
  /\ current \notin live
  /\ pc' = "start"
  /\ UNCHANGED <<serverVars, dialled, backoff, current, isConnected, ctxDone, closer, lockVars>>

\* waitForClose returns because of a notification.
NoticeClose ==
  /\ pc = "wait"
  /\ Notified
  /\ pc' = "start"
  /\ UNCHANGED <<serverVars, dialled, backoff, current, isConnected, ctxDone, closer, lockVars>>

Retry ==
  /\ pc = "backoff"
  /\ backoff' = IF 2 * backoff > MaxBackoff THEN MaxBackoff ELSE 2 * backoff
  /\ pc' = "dial"
  /\ UNCHANGED <<serverVars, dialled, current, isConnected, ctxDone, closer, lockVars>>

\* Mutated form: the select of the backoff is left, not the goroutine.
StopWaiting ==
  /\ pc = "wait"
  /\ ctxDone
  /\ pc' = "done"
  /\ UNCHANGED <<serverVars, dialled, backoff, current, isConnected, ctxDone, closer, lockVars>>

\* ctx.Done is looked at only in the two selects; when a notification or the
\* timer is ready as well, either may win.
Stop ==
  /\ pc \in {"wait", "backoff"}
  /\ ctxDone
  /\ pc' = "done"
  /\ UNCHANGED <<serverVars, dialled, backoff, current, isConnected, ctxDone, closer, lockVars>>

------------------------------------------------------------------------------
(* Close *)

Cancel ==
  /\ closer = "idle"
  /\ ctxDone' = TRUE
  /\ closer' = "unflag"
  /\ UNCHANGED <<serverVars, pc, dialled, backoff, current, isConnected, lockVars>>

Unflag ==
  /\ closer = "unflag" /\ Holds("close")
  /\ writer' = "none"
  /\ isConnected' = FALSE
  /\ closer' = "close"
  /\ UNCHANGED <<serverVars, pc, dialled, backoff, current, ctxDone, using>>

\* Under the lock: the installed channel and connection, if there are any.
CloseCurrent ==
  /\ closer = "close" /\ Holds("close")
  /\ writer' = "none"
  /\ live' = live \ {current}
  /\ chans' = chans \ {current}
  /\ closer' = "returned"
  /\ UNCHANGED <<dials, deaths, chanDeaths, pc, dialled, backoff, current, isConnected, ctxDone,
                 using>>

------------------------------------------------------------------------------
(* The operations *)

\* RLock, and isConnected is true: the call goes out on c.ch, dead or alive.
\* If it is false the operation fails at once, which changes nothing.
BeginCall(k) ==
  /\ using[k] = NoConn /\ writer = "none"
  /\ isConnected
  /\ using' = [using EXCEPT ![k] = current]
  /\ UNCHANGED <<serverVars, pc, dialled, backoff, current, isConnected, ctxDone, closer,
                 writer>>

\* The server answers, or the channel is dead and the library returns an error.
EndCall(k) ==
  /\ using[k] # NoConn
  /\ using' = [using EXCEPT ![k] = NoConn]
  /\ UNCHANGED <<serverVars, pc, dialled, backoff, current, isConnected, ctxDone, closer,
                 writer>>

------------------------------------------------------------------------------
Dial == DialSucceeds \/ DialFails
OpenChannel == ChannelOpens \/ ChannelFails
Wait == NoticeClose \/ Retry \/ Stop
HandleReconnect ==
  \/ Lock("reconnect") \/ StartOver \/ Install \/ Announce
  \/ Dial \/ OpenChannel \/ Wait
Close == Cancel \/ Lock("close") \/ Unflag \/ CloseCurrent

Next ==
  \/ HandleReconnect \/ Close
  \/ \E k \in Callers : BeginCall(k) \/ EndCall(k)
  \/ \E n \in Conns : ConnectionDies(n) \/ ChannelDies(n)

Spec == Init /\ [][Next]_vars

\* The goroutine runs and a call of Close goes on; a server that is dialled
\* again and again lets the client in, and gives it a channel.  A select chooses
\* at random among the cases that are ready, and a timer just made is not, so
\* that a cancelled context is not passed over for ever.  The server answers an
\* operation, or its channel dies, and a Go mutex starves nobody in its queue.
Fairness ==
  /\ WF_vars(HandleReconnect)
  /\ SF_vars(DialSucceeds)
  /\ SF_vars(ChannelOpens)
  /\ SF_vars(Stop)
  /\ SF_vars(Lock("close")) /\ WF_vars(Unflag \/ CloseCurrent)
  /\ \A k \in Callers : WF_vars(EndCall(k))

LiveSpec == Spec /\ Fairness

------------------------------------------------------------------------------
(* Properties *)

\* Every variable has its type; the backoff doubles up to half a minute.
TypeOK ==
  /\ live \subseteq 1..dials /\ chans \subseteq live
  /\ dials \in 0..MaxDials /\ deaths \in 0..MaxDeaths /\ chanDeaths \in 0..deaths
  /\ pc \in {"start", "dial", "channel", "install", "flag", "wait", "backoff", "done"}
  /\ dialled \in 0..dials
  /\ backoff \in {1, 2, 4, 8, 16, MaxBackoff}
  /\ current \in 0..dials
  /\ isConnected \in BOOLEAN /\ ctxDone \in BOOLEAN
  /\ closer \in {"idle", "unflag", "close", "returned"}
  /\ using \in [Callers -> 0..dials] /\ writer \in {"none", "reconnect", "close"}

\* Whoever sees isConnected under the read lock finds the newest connection
\* installed, and if its channel is dead by then the goroutine is about to
\* find out: an operation never meets a nil or a replaced channel.
ConnectedIsCurrent ==
  isConnected => /\ current = dials /\ current # NoConn
                 /\ pc \in {"wait", "start", "done"}

\* As long as an operation talks to the server, its channel is the installed one
\* and the client counts as connected: neither a redial nor Close takes the
\* fields away under it.
OperationKeepsChannel ==
  \A k \in Callers : using[k] # NoConn => using[k] = current /\ isConnected

\* The client leaves a connection open at the server only when it redials
\* because the channel died alone: it never closes the one it replaces.  No
\* other path adds to what the server holds.
LeaksHaveACause == Cardinality(live) <= 1 + chanDeaths

\* How far Close misses its aim, when no channel died alone: what a closed client
\* may leave open is the one connection that is installed, and the client says
\* so, so that operations go on working and a second Close would end it.
LeftOpenIsKnown ==
  closer = "returned" /\ pc = "done" /\ chanDeaths = 0 =>
    live = {} \/ (live = {current} /\ isConnected)

\* Whoever is in line for the write lock is about to take it and to release it,
\* so that nobody stands behind a writer that has gone.
WriterIsAtWork ==
  /\ writer = "reconnect" => pc \in {"start", "install", "flag"}
  /\ writer = "close" => closer \in {"unflag", "close"}

\* Unless the client is closed, or runs out of the connections the bound
\* allows it, it gets over every death: it is connected again and again.
KeepsReconnecting ==
  []<>(isConnected /\ current \in chans) \/ <>(ctxDone \/ dials = MaxDials)

\* After Close is called it returns and the goroutine ends, whatever that was
\* doing and whatever operations are under way.
CloseEndsGoroutine == ctxDone ~> pc = "done" /\ closer = "returned"

\* What the comment on Close says: a closed client has closed its connection.
CloseCloses == closer = "returned" /\ pc = "done" => live = {}
===============================================================================
