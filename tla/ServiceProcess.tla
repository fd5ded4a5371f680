---------------------------- MODULE ServiceProcess ----------------------------
(***************************************************************************)
(* The main functions under cmd/: one process from its start to its exit,  *)
(* and its next start, with the goroutines nobody waits for (the event     *)
(* consumer, the outbox relay), the requests its server handles, and the   *)
(* connections of its database pool.                                       *)
(*                                                                         *)
(* A start-up opens one thing after the other and defers its closing; os.  *)
(* Exit and a crash skip what is deferred.                                 *)
(***************************************************************************)
EXTENDS EventConsumer, Sequences, FiniteSets

CONSTANTS self,         \* the service this process is an instance of
          Reqs,         \* requests its server may handle at once
          PoolSize      \* connections of the pool, 100 in the code

ASSUME ProcessAssumption ==
  /\ Services = {self}
  /\ "relay" \notin Reqs
  /\ PoolSize \in Nat \ {0, 1}

VARIABLES program,      \* which of the four main functions it runs
          phase,        \* run, stop the server, return, or dead
          step,         \* the next step of the start-up
          deferred,     \* what main has opened and will close, the last first
          started,      \* goroutines that run
          ctxDone,      \* the context of signal.NotifyContext is cancelled
          active,       \* requests the server is handling
          forced,       \* the graceful stop timed out
          holding,      \* database connections each user of the pool holds
          asked         \* users that hold one and wait for another

mainVars == <<program, phase, step, deferred>>
poolVars == <<holding, asked>>
processVars == <<mainVars, started, ctxDone, active, forced, poolVars>>
vars == <<consumerVars, processVars>>

\* What the four do to start, in their order.
OrderMain == <<"config", "signals", "telemetry", "database", "client", "consumer", "relay",
               "listen">>
PaymentMain == <<"config", "signals", "telemetry", "client", "consumer">>
ProductMain == <<"config", "signals", "telemetry", "database", "listen">>
GatewayMain == <<"config", "telemetry", "upstreams", "signals", "listen">>

Script == [order |-> OrderMain, payment |-> PaymentMain, product |-> ProductMain,
           gateway |-> GatewayMain]

Programs == {"order", "payment", "product", "gateway"}
Goroutines == {"consumer", "relay", "listen"}
Resources == {"signals", "telemetry", "database", "client", "upstreams"}

\* What a request works with.
Work == [order |-> {"database", "client"}, payment |-> {}, product |-> {"database"},
         gateway |-> {"upstreams"}]

\* A failure of these ends in os.Exit.
Fatal == {"database", "upstreams", "listen"}

Done == {Script[program][i] : i \in 1 .. (step - 1)}
Opened == {deferred[i] : i \in DOMAIN deferred}
Users == Reqs \cup {"relay"}

ProcessInit ==
  /\ ConsumerInit
  /\ program \in Programs
  /\ phase = "run" /\ step = 1 /\ deferred = <<>>
  /\ started = {} /\ ctxDone = FALSE
  /\ active = {} /\ forced = FALSE
  /\ holding = [u \in Users |-> 0] /\ asked = {}

------------------------------------------------------------------------------
(* Start-up *)

Reach(item) ==
  /\ phase = "run"
  /\ step <= Len(Script[program]) /\ Script[program][step] = item
  /\ step' = step + 1
  /\ UNCHANGED <<consumerVars, program, phase, ctxDone, active, forced, poolVars>>

\* The ping of a new database looks at the context; nothing else does.
Open(item) ==
  /\ item = "database" => ~ ctxDone
  /\ Reach(item)
  /\ deferred' = Append(deferred, item)
  /\ UNCHANGED started

\* Every setting has a default, and a malformed one is taken for missing: the
\* error that main looks for is never returned.
LoadConfig ==
  /\ Reach("config")
  /\ UNCHANGED <<deferred, started>>

\* InitTracerProvider fails, at any of its exporters: main logs it and goes on
\* without its shutdown function.
TelemetryFails ==
  /\ Reach("telemetry")
  /\ UNCHANGED <<deferred, started>>

Launch(g) ==
  /\ Reach(g)
  /\ started' = started \cup {g}
  /\ UNCHANGED deferred

------------------------------------------------------------------------------
(* The end of the process *)

\* Nothing is left of it but what the broker knows.
Die ==
  /\ phase # "dead"
  /\ Vanish(self)
  /\ phase' = "dead"
  /\ step' = 1 /\ deferred' = <<>>
  /\ started' = {} /\ ctxDone' = FALSE
  /\ active' = {} /\ forced' = FALSE
  /\ holding' = [u \in Users |-> 0] /\ asked' = {}
  /\ UNCHANGED program

\* os.Exit: a fatal step fails, always so the ping under a cancelled context.
StartupFails ==
  /\ phase = "run"
  /\ step <= Len(Script[program]) /\ Script[program][step] \in Fatal
  /\ Die
  /\ Fault \/ (Script[program][step] = "database" /\ ctxDone /\ UNCHANGED faults)

\* A kill, a panic, or a signal before NotifyContext.
Killed == Die /\ Fault

Signal ==
  /\ phase # "dead" /\ "signals" \in Opened
  /\ ~ ctxDone /\ ctxDone' = TRUE
  /\ Elsewhere
  /\ UNCHANGED <<mainVars, started, active, forced, poolVars>>

Main(p) ==
  /\ phase' = p
  /\ UNCHANGED <<consumerVars, program, step, deferred, started, ctxDone, active, poolVars>>

\* Serve returns an error.  The gateway exits at once.
ServerCrash ==
  /\ phase = "run" /\ "listen" \in started
  /\ IF program = "gateway"
       THEN Die /\ Fault
       ELSE /\ phase' = "stop"
            /\ Elsewhere
            /\ UNCHANGED <<program, step, deferred, started, ctxDone, active, forced, poolVars>>

\* <-ctx.Done: from now on the server accepts no request.
BeginStop ==
  /\ phase = "run" /\ step > Len(Script[program]) /\ ctxDone
  /\ Main(IF "listen" \in started THEN "stop" ELSE "return")
  /\ UNCHANGED forced

\* Mutated form: main does not wait for GracefulStop.
StoppedEarly ==
  /\ phase = "stop"
  /\ Main("return")
  /\ UNCHANGED forced

\* GracefulStop, or Shutdown, has waited for the last request.
Stopped ==
  /\ phase = "stop" /\ active = {}
  /\ Main("return")
  /\ UNCHANGED forced

\* Mutated form: the forced stop waits for the handlers as well.
TimesOutWaits ==
  /\ phase = "stop" /\ active = {}
  /\ Main("return")
  /\ forced' = TRUE

\* Ten seconds are over.
TimesOut ==
  /\ phase = "stop"
  /\ Main("return")
  /\ forced' = TRUE

\* The deferred call made last.
Release ==
  /\ phase = "return" /\ deferred # <<>>
  /\ LET last == deferred[Len(deferred)]
     IN /\ deferred' = SubSeq(deferred, 1, Len(deferred) - 1)
        /\ ctxDone' = (ctxDone \/ last = "signals")
        /\ IF last = "client" THEN CloseClient(self) ELSE UNCHANGED consumerVars
  /\ UNCHANGED <<program, phase, step, started, active, forced, poolVars>>

Return == phase = "return" /\ deferred = <<>> /\ Die /\ UNCHANGED faults

\* Somebody may start it again.
Restart ==
  /\ phase = "dead"
  /\ phase' = "run"
  /\ UNCHANGED <<consumerVars, program, step, deferred, started, ctxDone, active, forced,
                 poolVars>>

------------------------------------------------------------------------------
(* Requests *)

Accept(r) ==
  /\ phase = "run" /\ "listen" \in started
  /\ r \notin active
  /\ active' = active \cup {r}
  /\ UNCHANGED <<consumerVars, mainVars, started, ctxDone, forced, poolVars>>

Answer(r) ==
  /\ r \in active /\ holding[r] = 0
  /\ active' = active \ {r}
  /\ UNCHANGED <<consumerVars, mainVars, started, ctxDone, forced, poolVars>>

------------------------------------------------------------------------------
(* The database pool *)

\* Mutated form: a transaction reads the order on a connection of its own.
NeedsTwo(u) == 2

\* The relay marks an event while it holds the rows of the batch; a request
\* does its statements in one transaction, or one after the other.
Needs(u) == IF u = "relay" THEN 2 ELSE 1

\* The code of u that uses the database is running.
Working(u) == "database" \in Done /\ u \in active \cup (started \cap {"relay"})

Free == PoolSize - Cardinality({c \in Users \X {1, 2} : c[2] <= holding[c[1]]})

Draw(u) == Free > 0 /\ "database" \in Opened /\ holding' = [holding EXCEPT ![u] = @ + 1]

\* The first connection of a transaction, or of the rows of a batch.
Connect(u) ==
  /\ Working(u) /\ holding[u] = 0
  /\ Draw(u)
  /\ UNCHANGED <<consumerVars, mainVars, started, ctxDone, active, forced, asked>>

\* From here on u waits for one more, and keeps what it has.
Ask(u) ==
  /\ u \notin asked
  /\ holding[u] > 0 /\ holding[u] < Needs(u)
  /\ asked' = asked \cup {u}
  /\ UNCHANGED <<consumerVars, mainVars, started, ctxDone, active, forced, holding>>

Grant(u) ==
  /\ u \in asked
  /\ Draw(u)
  /\ asked' = asked \ {u}
  /\ UNCHANGED <<consumerVars, mainVars, started, ctxDone, active, forced>>

\* The pool is closed, or the context of the relay cancelled.
Refuse(u) ==
  /\ u \in asked
  /\ "database" \notin Opened \/ (ctxDone /\ u = "relay")
  /\ asked' = asked \ {u}
  /\ UNCHANGED <<consumerVars, mainVars, started, ctxDone, active, forced, holding>>

\* Rows are closed, a transaction ends, or a statement has been executed.
GiveBack(u) ==
  /\ u \notin asked /\ holding[u] > 0
  /\ holding' = [holding EXCEPT ![u] = @ - 1]
  /\ UNCHANGED <<consumerVars, mainVars, started, ctxDone, active, forced, asked>>

------------------------------------------------------------------------------
(* The goroutines *)

\* handleReconnect: a dial under way when Close is called goes on.
Redial ==
  /\ phase # "dead" /\ "client" \in Done
  /\ Reconnect(self)
  /\ UNCHANGED processVars

Pushes == (\E m \in Msgs : Push(self, m)) /\ UNCHANGED processVars

Consume ==
  /\ "consumer" \in started
  /\ Loop(self)
  /\ UNCHANGED processVars

Receive(m) ==
  /\ "consumer" \in started
  /\ Take(self, m)
  /\ UNCHANGED processVars

Handled(verdicts) ==
  /\ "consumer" \in started
  /\ HandleAny(self) /\ pc'[self] \in verdicts
  /\ UNCHANGED processVars

\* The context is looked at only in the two selects; a delivery that is ready
\* may be taken instead.
ConsumerReturns ==
  /\ "consumer" \in started
  /\ ctxDone /\ pc[self] \in {"retry", "select"}
  /\ started' = started \ {"consumer"}
  /\ UNCHANGED <<consumerVars, mainVars, ctxDone, active, forced, poolVars>>

RelayReturns ==
  /\ "relay" \in started
  /\ ctxDone /\ holding["relay"] = 0
  /\ started' = started \ {"relay"}
  /\ UNCHANGED <<consumerVars, mainVars, ctxDone, active, forced, poolVars>>

------------------------------------------------------------------------------
Startup ==
  \/ \E item \in Resources : Open(item)
  \/ LoadConfig \/ TelemetryFails
  \/ \E g \in Goroutines : Launch(g)
  \/ StartupFails

Shutdown == BeginStop \/ Stopped \/ TimesOut \/ Release \/ Return

Request(r) == Accept(r) \/ Answer(r)
Pool(u) == Connect(u) \/ Ask(u) \/ Grant(u) \/ Refuse(u) \/ GiveBack(u)
Background ==
  \/ Redial \/ Pushes \/ Consume \/ Handled(Verdicts)
  \/ ConsumerReturns \/ RelayReturns
Publisher(m) == Arrive(self, m) /\ UNCHANGED processVars
Mishap == Killed \/ Signal \/ ServerCrash \/ (LoseConnection(self) /\ UNCHANGED processVars)

ProcessNext ==
  \/ Startup \/ Shutdown \/ Restart \/ Mishap \/ Background
  \/ \E m \in Msgs : Receive(m) \/ Publisher(m)
  \/ \E r \in Reqs : Request(r)
  \/ \E u \in Users : Pool(u)

ProcessSpec == ProcessInit /\ [][ProcessNext]_vars

\* Main goes on, statements end, and nobody is passed over for ever who waits
\* for a connection of the pool: it picks a waiter at random.  Nothing is
\* assumed of requests, one may take for ever, and nobody has to start a
\* process again that has ended.  As to the goroutines, dialling is retried
\* until it succeeds, the broker pushes, the buffer of the subscription is first
\* in, first out, and the handler returns, with whatever answer.
ProcessFairness ==
  /\ WF_vars(Startup) /\ WF_vars(Shutdown)
  /\ \A u \in Users : WF_vars(GiveBack(u)) /\ SF_vars(Grant(u)) /\ WF_vars(Refuse(u))
  /\ WF_vars(Redial) /\ WF_vars(Consume) /\ WF_vars(Handled(Verdicts))
  /\ \A m \in Msgs : WF_vars(Push(self, m) /\ UNCHANGED processVars) /\ SF_vars(Receive(m))

LiveProcessSpec == ProcessSpec /\ ProcessFairness

------------------------------------------------------------------------------
(* Properties *)

\* Every variable has its type; what is deferred has been opened, and nobody
\* takes or waits for more database connections than its code needs.
ProcessTypeOK ==
  /\ program \in Programs
  /\ phase \in {"run", "stop", "return", "dead"}
  /\ step \in 1 .. (Len(Script[program]) + 1)
  /\ deferred \in Seq(Resources) /\ Opened \subseteq Done
  /\ started \subseteq Goroutines \cap Done
  /\ active \subseteq Reqs /\ asked \subseteq Users
  /\ holding \in [Users -> 0..2] /\ \A u \in Users : holding[u] <= Needs(u)
  /\ \A u \in asked : 0 < holding[u] /\ holding[u] < Needs(u)
  /\ ctxDone \in BOOLEAN /\ forced \in BOOLEAN

\* Shutting down takes nothing away from a request: as long as one is being
\* handled, what it works with is open, unless the graceful stop timed out.
RequestsKeepResources ==
  active # {} /\ ~ forced => Work[program] \subseteq Opened

\* A process that is told to stop exits, however far its start-up is, and even
\* if a request hangs.
SignalEndsProcess == ctxDone ~> phase = "dead"

\* The pool never waits for itself: when none of its connections is left for
\* those who wait with one in hand, somebody who does not wait has another,
\* and gives it back.
PoolNeverDeadlocks ==
  asked # {} /\ Free = 0 => \E u \in Users \ asked : holding[u] > 0

\* The relay waits for a second database connection while it keeps its first,
\* beside any number of requests: it gets one, or is told that there is none.
PoolServesAll == \A u \in Users : u \in asked ~> u \notin asked

\* After any lost connection, shutdown, crash or failed start that is followed
\* by another start the consumer finds its way back to a live subscription, and
\* no delivery is left in a dead one: the backlog is worked off for good, unless
\* messages keep arriving, the process stays down, or its handler keeps asking
\* for redelivery.
BacklogDrains ==
  \/ []<><<\E m \in Msgs : Publisher(m)>>_vars
  \/ <>[](phase = "dead")
  \/ []<>(pc[self] = "requeue")
  \/ <>[](Backlog(self) = Empty)
===============================================================================
