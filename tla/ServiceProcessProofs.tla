------------------------- MODULE ServiceProcessProofs -------------------------
(***************************************************************************)
(* For any of the four programs, any number of requests and messages, any  *)
(* pool and any number of faults: within its process the consumer behaves  *)
(* as EventConsumer says, so that it keeps its promise across shutdowns    *)
(* and starts; and a shutdown closes nothing a request still works with.   *)
(***************************************************************************)
EXTENDS ServiceProcess, EventConsumerProofs, FiniteSetTheorems

\* What is left unchanged by the steps that do not concern the consumer.
LEMMA ConsumerStep == [ProcessNext]_vars => [ConsumerNext]_consumerVars
<1> SUFFICES ASSUME [ProcessNext]_vars PROVE [ConsumerNext]_consumerVars
  OBVIOUS
<1>0. self \in Services
  BY ProcessAssumption
<1>1. CASE UNCHANGED vars
  BY <1>1 DEF vars
<1>2. CASE Startup
  <2>1. CASE StartupFails
    BY <1>0, <2>1 DEF StartupFails, Die, ConsumerNext
  <2>2. CASE Startup /\ ~ StartupFails
    BY <2>2 DEF Startup, Open, LoadConfig, TelemetryFails, Launch, Reach
  <2> QED
    BY <1>2, <2>1, <2>2
<1>3. CASE Shutdown \/ Restart
  BY <1>0, <1>3 DEF Shutdown, BeginStop, Stopped, TimesOut, Main, Release, Return, Restart, Die,
    ConsumerNext
<1>4. CASE Mishap
  BY <1>0, <1>4 DEF Mishap, Killed, Signal, ServerCrash, Die, ConsumerNext
<1>5. CASE Background
  <2>1. CASE ConsumerReturns \/ RelayReturns
    BY <2>1 DEF ConsumerReturns, RelayReturns
  <2>2. CASE Redial \/ Pushes \/ Consume
    BY <1>0, <2>2 DEF Redial, Pushes, Consume, Deliver, ConsumerNext
  <2>3. CASE Handled(Verdicts)
    BY <1>0, <2>3 DEF Handled, ConsumerNext
  <2> QED
    BY <1>5, <2>1, <2>2, <2>3 DEF Background
<1>6. ASSUME NEW m \in Msgs, Receive(m) \/ Publisher(m) PROVE ConsumerNext
  BY <1>0, <1>6 DEF Receive, Publisher, Deliver, ConsumerNext
<1>7. ASSUME NEW r \in Reqs, Request(r) PROVE UNCHANGED consumerVars
  BY <1>7 DEF Request, Accept, Answer
<1>8. ASSUME NEW u \in Users, Pool(u) PROVE UNCHANGED consumerVars
  BY <1>8 DEF Pool, Connect, Ask, Grant, Refuse, GiveBack
<1> QED
  BY <1>1, <1>2, <1>3, <1>4, <1>5, <1>6, <1>7, <1>8 DEF ProcessNext

\* A process runs its consumer in the ways EventConsumer allows: closing the
\* client and exiting happen to it, at any time.
THEOREM ProcessRunsConsumer == ProcessSpec => ConsumerSpec
<1>1. ProcessInit => ConsumerInit
  BY DEF ProcessInit
<1> QED
  BY <1>1, ConsumerStep, PTL DEF ProcessSpec, ConsumerSpec

\* The consumer's variables keep their types through starts and shutdowns.
THEOREM ProcessConsumerTypes == ProcessSpec => []ConsumerTypeOK
  BY ProcessRunsConsumer, ConsumerTypeCorrect, PTL

\* No shutdown, crash or failed start loses a message that the handler has not
\* finished with, wherever the goroutine nobody waits for is at that moment.
THEOREM ProcessKeepsPromise == ProcessSpec => DeliversAtLeastOnce
  BY ProcessRunsConsumer, ConsumerKeepsPromise, PTL

------------------------------------------------------------------------------
(* What is open *)

MainTypes ==
  /\ program \in Programs
  /\ phase \in {"run", "stop", "return", "dead"}
  /\ step \in 1 .. (Len(Script[program]) + 1)
  /\ deferred \in Seq(Resources) /\ Opened \subseteq Done
  /\ started \subseteq Goroutines \cap Done
  /\ active \subseteq Reqs

PoolTypes ==
  /\ asked \subseteq Users
  /\ holding \in [Users -> 0..2] /\ \A u \in Users : holding[u] <= Needs(u)
  /\ \A u \in asked : 0 < holding[u] /\ holding[u] < Needs(u)

FlagTypes == ctxDone \in BOOLEAN /\ forced \in BOOLEAN

\* Until main returns, everything it has opened is open; only the telemetry may
\* be missing.
AllOpen ==
  /\ phase \in {"run", "stop"} => Done \cap (Resources \ {"telemetry"}) \subseteq Opened
  /\ phase = "dead" => Done = {}

\* Requests come in after the start-up, and main returns without them.
Served ==
  /\ active # {} => "listen" \in started
  /\ phase = "return" => active = {} \/ forced
  /\ phase = "dead" => active = {}

LEMMA TypeParts == ProcessTypeOK <=> MainTypes /\ PoolTypes /\ FlagTypes
  BY DEF ProcessTypeOK, MainTypes, PoolTypes, FlagTypes

LEMMA ScriptType ==
  ASSUME NEW p \in Programs
  PROVE  Len(Script[p]) \in Nat \ {0}
<1>1. CASE p = "order"
  BY <1>1 DEF Script, OrderMain
<1>2. CASE p = "payment"
  BY <1>2 DEF Script, PaymentMain
<1>3. CASE p = "product"
  BY <1>3 DEF Script, ProductMain
<1>4. CASE p = "gateway"
  BY <1>4 DEF Script, GatewayMain
<1> QED
  BY <1>1, <1>2, <1>3, <1>4 DEF Programs

\* The server is the last thing to be started.
LEMMA ListenIsLast ==
  ASSUME MainTypes, "listen" \in Done
  PROVE  Work[program] \subseteq Done \cap (Resources \ {"telemetry"})
<1>1. CASE program = "order"
  BY <1>1 DEF Done, Script, OrderMain, Work, Resources, MainTypes
<1>2. CASE program = "payment"
  BY <1>2 DEF Done, Script, PaymentMain, Work, Resources, MainTypes
<1>3. CASE program = "product"
  BY <1>3 DEF Done, Script, ProductMain, Work, Resources, MainTypes
<1>4. CASE program = "gateway"
  BY <1>4 DEF Done, Script, GatewayMain, Work, Resources, MainTypes
<1> QED
  BY <1>1, <1>2, <1>3, <1>4 DEF MainTypes, Programs

\* The steps of a start-up do one thing more each.
LEMMA ReachDoes ==
  ASSUME MainTypes, NEW item, Reach(item)
  PROVE  Done' = Done \cup {item} /\ step' \in 1 .. (Len(Script[program]) + 1)
<1>1. Len(Script[program]) \in Nat /\ step \in Nat
  BY ScriptType DEF MainTypes
<1> QED
  BY <1>1 DEF MainTypes, Reach, Done

LEMMA Deferring ==
  ASSUME MainTypes, NEW item \in Resources, deferred' = Append(deferred, item)
  PROVE  deferred' \in Seq(Resources) /\ Opened' = Opened \cup {item}
<1>1. deferred' \in Seq(Resources) /\ Len(deferred') = Len(deferred) + 1
  BY DEF MainTypes
<1>2. DOMAIN deferred' = DOMAIN deferred \cup {Len(deferred')}
  BY <1>1 DEF MainTypes
<1>3. deferred'[Len(deferred')] = item /\ \A i \in DOMAIN deferred : deferred'[i] = deferred[i]
  BY DEF MainTypes
<1> QED
  BY <1>1, <1>2, <1>3 DEF Opened

LEMMA Undeferring ==
  ASSUME MainTypes, deferred # <<>>, deferred' = SubSeq(deferred, 1, Len(deferred) - 1)
  PROVE  deferred' \in Seq(Resources) /\ Opened' \subseteq Opened
<1>1. Len(deferred) \in Nat /\ Len(deferred) > 0
  BY DEF MainTypes
<1>2. deferred' \in Seq(Resources) /\ DOMAIN deferred' \subseteq DOMAIN deferred
  BY <1>1 DEF MainTypes
<1>3. \A i \in DOMAIN deferred' : deferred'[i] = deferred[i]
  BY <1>1 DEF MainTypes
<1> QED
  BY <1>2, <1>3 DEF Opened

PInv == MainTypes /\ PoolTypes /\ FlagTypes /\ AllOpen /\ Served

LEMMA ProcessInitInv == ProcessInit => PInv
<1> SUFFICES ASSUME ProcessInit PROVE PInv
  OBVIOUS
<1>1. Len(Script[program]) \in Nat \ {0}
  BY ScriptType DEF ProcessInit
<1>2. Done = {} /\ Opened = {}
  BY DEF ProcessInit, Done, Opened
<1>3. MainTypes
  BY <1>1, <1>2 DEF ProcessInit, MainTypes
<1>4. PoolTypes
  BY DEF ProcessInit, PoolTypes, Needs
<1>5. FlagTypes
  BY DEF ProcessInit, FlagTypes
<1> QED
  BY <1>2, <1>3, <1>4, <1>5 DEF ProcessInit, PInv, AllOpen, Served

LEMMA DieStep ==
  ASSUME PInv, Die
  PROVE  PInv'
<1>1. Len(Script[program]) \in Nat \ {0}
  BY ScriptType DEF PInv, MainTypes
<1>2. Done' = {} /\ Opened' = {}
  BY DEF Die, Done, Opened
<1>3. MainTypes'
  BY <1>1, <1>2 DEF Die, PInv, MainTypes
<1>4. PoolTypes'
  BY DEF Die, PoolTypes, Needs
<1>5. FlagTypes'
  BY DEF Die, FlagTypes
<1> QED
  BY <1>2, <1>3, <1>4, <1>5 DEF Die, PInv, AllOpen, Served

LEMMA StartupStep ==
  ASSUME PInv, Startup
  PROVE  PInv'
<1> USE DEF PInv
<1>1. ASSUME NEW item \in Resources, Open(item) PROVE PInv'
  <2>1. Done' = Done \cup {item} /\ step' \in 1 .. (Len(Script[program]) + 1)
    BY <1>1, ReachDoes DEF Open
  <2>2. deferred' \in Seq(Resources) /\ Opened' = Opened \cup {item}
    BY <1>1, Deferring DEF Open
  <2>3. MainTypes'
    BY <1>1, <2>1, <2>2 DEF Open, Reach, MainTypes
  <2>4. PoolTypes' /\ FlagTypes'
    BY <1>1 DEF Open, Reach, poolVars, PoolTypes, FlagTypes
  <2> QED
    BY <1>1, <2>1, <2>2, <2>3, <2>4 DEF Open, Reach, AllOpen, Served
<1>2. ASSUME NEW item, Reach(item), item \in {"config", "telemetry"}, UNCHANGED <<deferred, started>>
      PROVE  PInv'
  <2>1. Done' = Done \cup {item} /\ step' \in 1 .. (Len(Script[program]) + 1)
    BY <1>2, ReachDoes
  <2>2. Opened' = Opened
    BY <1>2 DEF Opened
  <2>3. MainTypes'
    BY <1>2, <2>1, <2>2 DEF Reach, MainTypes
  <2>4. PoolTypes' /\ FlagTypes'
    BY <1>2 DEF Reach, poolVars, PoolTypes, FlagTypes
  <2>5. item \notin Resources \ {"telemetry"}
    BY <1>2 DEF Resources
  <2> QED
    BY <1>2, <2>1, <2>2, <2>3, <2>4, <2>5 DEF Reach, AllOpen, Served
<1>3. ASSUME NEW g \in Goroutines, Launch(g) PROVE PInv'
  <2>1. Done' = Done \cup {g} /\ step' \in 1 .. (Len(Script[program]) + 1)
    BY <1>3, ReachDoes DEF Launch
  <2>2. Opened' = Opened
    BY <1>3 DEF Launch, Opened
  <2>3. MainTypes'
    BY <1>3, <2>1, <2>2 DEF Launch, Reach, MainTypes
  <2>4. PoolTypes' /\ FlagTypes'
    BY <1>3 DEF Launch, Reach, poolVars, PoolTypes, FlagTypes
  <2>5. g \notin Resources
    BY DEF Goroutines, Resources
  <2> QED
    BY <1>3, <2>1, <2>2, <2>3, <2>4, <2>5 DEF Launch, Reach, AllOpen, Served
<1>4. CASE StartupFails
  BY <1>4, DieStep DEF StartupFails
<1> QED
  BY <1>1, <1>2, <1>3, <1>4 DEF Startup, LoadConfig, TelemetryFails

LEMMA ShutdownStep ==
  ASSUME PInv, Shutdown \/ Restart
  PROVE  PInv'
<1> USE DEF PInv
<1>1. CASE BeginStop \/ Stopped \/ TimesOut \/ Restart
  <2>1. Done' = Done /\ Opened' = Opened
    BY <1>1 DEF BeginStop, Stopped, TimesOut, Restart, Main, Done, Opened
  <2>2. MainTypes' /\ PoolTypes' /\ FlagTypes'
    BY <1>1, <2>1 DEF BeginStop, Stopped, TimesOut, Restart, Main, poolVars, MainTypes, PoolTypes,
      FlagTypes
  <2>3. Served'
    BY <1>1 DEF BeginStop, Stopped, TimesOut, Restart, Main, Served
  <2>4. AllOpen'
    BY <1>1, <2>1 DEF BeginStop, Stopped, TimesOut, Restart, Main, AllOpen
  <2> QED
    BY <2>2, <2>3, <2>4
<1>2. CASE Release
  <2>1. deferred' \in Seq(Resources) /\ Opened' \subseteq Opened
    BY <1>2, Undeferring DEF Release
  <2>2. Done' = Done
    BY <1>2 DEF Release, Done
  <2>3. MainTypes' /\ PoolTypes'
    BY <1>2, <2>1, <2>2 DEF Release, poolVars, MainTypes, PoolTypes
  <2>4. FlagTypes'
    BY <1>2 DEF Release, FlagTypes
  <2> QED
    BY <1>2, <2>3, <2>4 DEF Release, AllOpen, Served
<1>3. CASE Return
  BY <1>3, DieStep DEF Return
<1> QED
  BY <1>1, <1>2, <1>3 DEF Shutdown

LEMMA MishapStep ==
  ASSUME PInv, Mishap \/ Background
  PROVE  PInv'
<1> USE DEF PInv
<1>1. CASE Die
  BY <1>1, DieStep
<1>2. CASE (Mishap \/ Background) /\ ~ Die
  <2>1. /\ UNCHANGED <<program, step, deferred, active, forced, poolVars>>
        /\ started' \subseteq started /\ ("listen" \in started => "listen" \in started')
        /\ phase' = phase \/ (phase = "run" /\ phase' = "stop")
        /\ ctxDone' \in BOOLEAN
    BY <1>2 DEF Mishap, Killed, Signal, ServerCrash, Background, Redial, Pushes, Consume, Handled,
      ConsumerReturns, RelayReturns, processVars, mainVars, FlagTypes
  <2>2. Done' = Done /\ Opened' = Opened
    BY <2>1 DEF Done, Opened
  <2>3. MainTypes'
    BY <2>1, <2>2 DEF MainTypes
  <2>4. PoolTypes'
    BY <2>1 DEF PoolTypes, poolVars
  <2>5. FlagTypes'
    BY <2>1 DEF FlagTypes
  <2>6. AllOpen' /\ Served'
    BY <2>1, <2>2 DEF AllOpen, Served
  <2> QED
    BY <2>3, <2>4, <2>5, <2>6
<1> QED
  BY <1>1, <1>2

LEMMA RequestStep ==
  ASSUME PInv, NEW r \in Reqs, Request(r)
  PROVE  PInv'
<1> USE DEF PInv
<1>1. /\ UNCHANGED <<program, phase, step, deferred, started, ctxDone, forced, holding, asked>>
      /\ \/ active' = active \cup {r} /\ phase = "run" /\ "listen" \in started
         \/ active' = active \ {r}
  BY DEF Request, Accept, Answer, mainVars, poolVars
<1>2. Done' = Done /\ Opened' = Opened
  BY <1>1 DEF Done, Opened
<1>3. MainTypes'
  BY <1>1, <1>2 DEF MainTypes
<1>4. PoolTypes'
  BY <1>1 DEF PoolTypes
<1>5. FlagTypes' /\ AllOpen' /\ Served'
  BY <1>1, <1>2 DEF FlagTypes, AllOpen, Served
<1> QED
  BY <1>3, <1>4, <1>5

LEMMA PoolStep ==
  ASSUME PInv, NEW u \in Users, Pool(u)
  PROVE  PInv'
<1> USE DEF PInv
<1>1. UNCHANGED <<program, phase, step, deferred, started, active, ctxDone, forced>>
  BY DEF Pool, Connect, Ask, Grant, Refuse, GiveBack, mainVars
<1>2. Done' = Done /\ Opened' = Opened
  BY <1>1 DEF Done, Opened
<1>3. MainTypes'
  BY <1>1, <1>2 DEF MainTypes
<1>4. FlagTypes' /\ AllOpen' /\ Served'
  BY <1>1, <1>2 DEF FlagTypes, AllOpen, Served
<1>5. PoolTypes'
  <2>1. Needs(u) \in 1 .. 2
    BY DEF Needs
  <2>2. CASE Connect(u)
    BY <2>1, <2>2 DEF Connect, Draw, PoolTypes
  <2>3. CASE Ask(u) \/ Refuse(u)
    BY <2>3 DEF Ask, Refuse, PoolTypes
  <2>4. CASE Grant(u)
    BY <2>1, <2>4 DEF Grant, Draw, PoolTypes
  <2>5. CASE GiveBack(u)
    BY <2>1, <2>5 DEF GiveBack, PoolTypes
  <2> QED
    BY <2>2, <2>3, <2>4, <2>5 DEF Pool
<1> QED
  BY <1>3, <1>4, <1>5

LEMMA ProcessStep == PInv /\ [ProcessNext]_vars => PInv'
<1> SUFFICES ASSUME PInv, [ProcessNext]_vars PROVE PInv'
  OBVIOUS
<1>1. CASE UNCHANGED processVars
  <2>1. UNCHANGED <<program, phase, step, deferred, started, ctxDone, active, forced, holding, asked>>
    BY <1>1 DEF processVars, mainVars, poolVars
  <2> QED
    BY <2>1 DEF PInv, MainTypes, PoolTypes, FlagTypes, AllOpen, Served, Done, Opened
<1>2. CASE Startup
  BY <1>2, StartupStep
<1>3. CASE Shutdown \/ Restart
  BY <1>3, ShutdownStep
<1>4. CASE Mishap \/ Background
  BY <1>4, MishapStep
<1>5. ASSUME NEW m \in Msgs, Receive(m) \/ Publisher(m) PROVE UNCHANGED processVars
  BY <1>5 DEF Receive, Publisher
<1>6. ASSUME NEW r \in Reqs, Request(r) PROVE PInv'
  BY <1>6, RequestStep
<1>7. ASSUME NEW u \in Users, Pool(u) PROVE PInv'
  BY <1>7, PoolStep
<1> QED
  BY <1>1, <1>2, <1>3, <1>4, <1>5, <1>6, <1>7 DEF ProcessNext, vars

LEMMA ProcessInductive == ProcessSpec => []PInv
  BY ProcessInitInv, ProcessStep, PTL DEF ProcessSpec

\* The types, and: what is deferred has been opened, what runs was started, and
\* no user of the pool holds more connections than its code needs.
THEOREM ProcessTypeCorrect == ProcessSpec => []ProcessTypeOK
<1>1. PInv => ProcessTypeOK
  BY TypeParts DEF PInv
<1> QED
  BY <1>1, ProcessInductive, PTL

\* What a request works with stays open until it is answered, in each of the
\* programs and however the shutdown interleaves with it, unless the graceful
\* stop timed out: the server starts last, main closes nothing before it
\* returns, and it returns after the last request.
THEOREM ResourcesKept == ProcessSpec => []RequestsKeepResources
<1>1. PInv => RequestsKeepResources
  <2> SUFFICES ASSUME PInv, active # {}, ~ forced PROVE Work[program] \subseteq Opened
    BY DEF RequestsKeepResources
  <2>1. "listen" \in Done
    BY DEF PInv, Served, MainTypes
  <2>2. phase \in {"run", "stop"}
    BY DEF PInv, Served, MainTypes
  <2> QED
    BY <2>1, <2>2, ListenIsLast DEF PInv, AllOpen
<1> QED
  BY <1>1, ProcessInductive, PTL

------------------------------------------------------------------------------
(* The database pool *)

\* Only the relay ever waits with a connection in hand, and it has just one.
LEMMA RelayAsks ==
  ASSUME PoolTypes, NEW u \in asked
  PROVE  u = "relay" /\ holding[u] = 1
BY DEF PoolTypes, Needs

\* If nobody else had a connection, all but one of them would be left.
LEMMA OthersHold ==
  ASSUME PoolTypes, asked # {}, Free = 0
  PROVE  \E u \in Users \ asked : holding[u] > 0
<1>1. asked = {"relay"} /\ holding["relay"] = 1 /\ "relay" \in Users
  BY RelayAsks DEF PoolTypes
<1>2. SUFFICES ASSUME \A u \in Users \ asked : ~ (holding[u] > 0)
               PROVE  FALSE
  OBVIOUS
<1>3. \A u \in Users : u # "relay" => holding[u] = 0
  BY <1>1, <1>2 DEF PoolTypes
<1> DEFINE Taken == {c \in Users \X {1, 2} : c[2] <= holding[c[1]]}
<1>4. Taken = {<<"relay", 1>>}
  <2>1. ASSUME NEW c \in Taken PROVE c = <<"relay", 1>>
    <3>1. PICK u \in Users, n \in {1, 2} : c = <<u, n>>
      OBVIOUS
    <3>2. n <= holding[u]
      BY <3>1
    <3> QED
      BY <1>1, <1>3, <3>1, <3>2
  <2>2. <<"relay", 1>> \in Taken
    BY <1>1
  <2> QED
    BY <2>1, <2>2
<1>5. Cardinality(Taken) = 1
  BY <1>4, FS_Singleton
<1>6. Free = PoolSize - 1
  BY <1>5 DEF Free
<1> QED
  BY <1>6, ProcessAssumption

\* The relay's wait for a second connection never closes a circle, whatever
\* number of requests holds the rest of the pool.
THEOREM PoolDeadlockFree == ProcessSpec => []PoolNeverDeadlocks
<1>1. PInv => PoolNeverDeadlocks
  BY OthersHold DEF PInv, PoolNeverDeadlocks
<1> QED
  BY <1>1, ProcessInductive, PTL
===============================================================================
