------------------------- MODULE CommandExecution -------------------------
(* How Captain Command turns a signal batch into orders at the broker.      *)
(*                                                                          *)
(* Every tower (an instance of the whole system with accounts of its own)   *)
(* reads the batches of its Online process from stream:signals, decides by  *)
(* the parity of the batch's key which tower executes it, sends the orders  *)
(* of its accounts one after the other, and acknowledges the batch          *)
(* (captain_command/blocks/orchestrator.py, parity.py, b1_core_routing.py,  *)
(* b3_api_adapter.py).  A delivered batch stays in the consumer's pending   *)
(* list (PEL) until it is acknowledged.  An order is a bracket; if the      *)
(* broker rejects the bracket it is an entry, a stop and a target of their  *)
(* own.  Left out: prices and sizes, what later closes a position, the      *)
(* GUI and Telegram messages, and the D17 log.                              *)
EXTENDS Naturals, Sequences, Functions

CONSTANTS
    Towers,         \* the instances of the system
    ParityOf,       \* INSTANCE_PARITY of a tower: 0, 1, or 2 when it is not set
    Batches,        \* the signal batches, by session, user and set of assets
    Exempt,         \* the batches with an NKD signal
    Hash,           \* Hash[d][b]: the parity of the key of batch b on day d
    Orders,         \* one order for each signal and account
    OrdersOf,       \* OrdersOf[t][b]: the orders of b for the accounts of t
    WithEntry,      \* the orders whose entry price is known
    WithStop,       \* the orders with a stop level
    ReadCount,      \* batches of one read_stream call (10 in the code)
    PendingCount,   \* batches of one read_pending_stream call (100)
    MaxDay,         \* bound on the days
    MaxFaults       \* bounds on the faults, by kind

Kinds == {"crash", "reread", "redis", "broker"}
Days == 1..MaxDay
Parities == {0, 1}

ASSUME CommandAssumption ==
    /\ ParityOf \in [Towers -> 0..2]
    /\ Exempt \subseteq Batches
    /\ Hash \in [Days -> [Batches -> Parities]]
    /\ OrdersOf \in [Towers -> [Batches -> Seq(Orders)]]
    /\ WithEntry \subseteq Orders /\ WithStop \subseteq Orders
    /\ ReadCount \in Nat \ {0} /\ PendingCount \in Nat /\ ReadCount <= PendingCount
    /\ MaxDay \in Nat \ {0} /\ MaxFaults \in [Kinds -> Nat]

\* An order belongs to one signal of one batch and is listed once.
ASSUME OrdersAssumption ==
    \A t \in Towers, b \in Batches :
        /\ IsInjective(OrdersOf[t][b])
        /\ \A c \in Batches \ {b} : Range(OrdersOf[t][b]) \cap Range(OrdersOf[t][c]) = {}

VARIABLES
    day,            \* the date in New York
    published,      \* published[t]: the batches B6 of tower t has published
    stream,         \* stream[t]: the entries of stream:signals not yet delivered
    pel,            \* pel[t]: the entries delivered and not acknowledged
    seen,           \* seen[t]: captain:parity_keys_seen, by date
    incidents,      \* incidents[t]: batches reported as processed twice
    broker,         \* broker[t][o]: what the broker holds for an order
    taken,          \* taken[t][o]: TAKEN commands on stream:commands
    emergencies,    \* emergencies[t]: orders with a FLATTEN_FAILED alert
    mem,            \* mem[t]: the signal reader's own state
    decisions,      \* history: the parity decisions of a tower
    routed,         \* history: the batches a tower has routed to the end
    faults          \* faults so far, by kind

durable == <<published, stream, pel, seen>>
effects == <<broker, taken, emergencies>>
history == <<decisions, routed>>
vars == <<day, durable, incidents, effects, mem, history, faults>>

\* The broker calls of send_signal, and the other places of the reader.
Calls == {"bracket", "entry", "stop", "flatten", "target"}
Places == Calls \cup {"down", "connect", "read", "batch", "order", "placed"}

At(t, place) == mem[t].at = place
Goto(t, place) == mem' = [mem EXCEPT ![t].at = place]
Batch(t) == Head(mem[t].todo)
Order(t) == Head(mem[t].orders)

\* A fault of this kind, within its bound.
Fault(kind) ==
    /\ faults[kind] < MaxFaults[kind]
    /\ faults' = [faults EXCEPT ![kind] = @ + 1]

\* A reader with nothing in hand.
Idle(place) == [at |-> place, todo |-> <<>>, orders |-> <<>>]

\* What the broker holds for an order: positions without a stop, positions
\* with one, closed positions, and target orders of their own.
Position(naked, guarded, closed, targets) ==
    [naked |-> naked, guarded |-> guarded, closed |-> closed, targets |-> targets]
NoPosition == Position(0, 0, 0, 0)

Init ==
    /\ day = 1
    /\ published = [t \in Towers |-> {}]
    /\ stream = [t \in Towers |-> <<>>]
    /\ pel = [t \in Towers |-> <<>>]
    /\ seen = [t \in Towers |-> {}]
    /\ incidents = [t \in Towers |-> {}]
    /\ broker = [t \in Towers |-> [o \in Orders |-> NoPosition]]
    /\ taken = [t \in Towers |-> [o \in Orders |-> 0]]
    /\ emergencies = [t \in Towers |-> {}]
    /\ mem = [t \in Towers |-> Idle("connect")]
    /\ decisions = [t \in Towers |-> {}]
    /\ routed = [t \in Towers |-> {}]
    /\ faults = [k \in Kinds |-> 0]

---------------------------------------------------------------------------
(* The environment: B6, the clock.                                          *)

\* B6 of a tower publishes a batch; a tower that started late never does.
Publish(t, b) ==
    /\ b \notin published[t]
    /\ published' = [published EXCEPT ![t] = @ \cup {b}]
    /\ stream' = [stream EXCEPT ![t] = Append(@, b)]
    /\ UNCHANGED <<day, pel, seen, incidents, effects, mem, history, faults>>

Midnight ==
    /\ day < MaxDay
    /\ day' = day + 1
    /\ UNCHANGED <<durable, incidents, effects, mem, history, faults>>

---------------------------------------------------------------------------
(* The signal reader.                                                       *)

\* mutant: the pending batches are not read
ConnectSkipsPending(t) ==
    /\ At(t, "connect")
    /\ Goto(t, "read")
    /\ UNCHANGED <<day, durable, incidents, effects, history, faults>>

\* On every (re)connect: the pending batches come first.
Connect(t) ==
    /\ At(t, "connect")
    /\ LET pending == SubSeq(pel[t], 1, IF Len(pel[t]) < PendingCount
                                        THEN Len(pel[t]) ELSE PendingCount)
       IN  mem' = [mem EXCEPT ![t] =
                     [at |-> IF pending = <<>> THEN "read" ELSE "batch",
                      todo |-> pending, orders |-> <<>>]]
    /\ UNCHANGED <<day, durable, incidents, effects, history, faults>>

\* mutant: the batches are read with NOACK
ReadNoAck(t) ==
    /\ At(t, "read") /\ stream[t] # <<>>
    /\ stream' = [stream EXCEPT ![t] = Tail(@)]
    /\ mem' = [mem EXCEPT ![t].at = "batch", ![t].todo = <<Head(stream[t])>>]
    /\ UNCHANGED <<day, published, pel, seen, incidents, effects, history, faults>>

\* xreadgroup with id ">": the batches move to the pending list.
Read(t) ==
    /\ At(t, "read") /\ stream[t] # <<>>
    /\ LET n == IF Len(stream[t]) < ReadCount THEN Len(stream[t]) ELSE ReadCount
           batch == SubSeq(stream[t], 1, n)
       IN  /\ stream' = [stream EXCEPT ![t] = SubSeq(@, n + 1, Len(@))]
           /\ pel' = [pel EXCEPT ![t] = @ \o batch]
           /\ mem' = [mem EXCEPT ![t] =
                         [at |-> "batch", todo |-> batch, orders |-> <<>>]]
    /\ UNCHANGED <<day, published, seen, incidents, effects, history, faults>>

\* Whether _check_parity_skip computes a key for the batch.
HasParity(t, b) == ParityOf[t] \in Parities /\ b \notin Exempt

\* The batch belongs to the other tower.
ParitySkip(t, b) == HasParity(t, b) /\ Hash[day][b] # ParityOf[t]

\* What the self check remembers and reports; a Redis error is logged only.
SelfCheck(t, b) ==
    IF ~HasParity(t, b)
    THEN UNCHANGED <<seen, incidents, faults>>
    ELSE \/ /\ seen' = [seen EXCEPT ![t] = @ \cup {<<day, b>>}]
            /\ incidents' = IF <<day, b>> \in seen[t]
                            THEN [incidents EXCEPT ![t] = @ \cup {b}] ELSE incidents
            /\ UNCHANGED faults
         \/ Fault("redis") /\ UNCHANGED <<seen, incidents>>

\* _handle_signal up to the first order.
Decide(t) ==
    /\ At(t, "batch")
    /\ LET b == Batch(t)
           skip == ParitySkip(t, b)
       IN  /\ SelfCheck(t, b)
           /\ decisions' = [decisions EXCEPT ![t] =
                              @ \cup {[batch |-> b, day |-> day, skip |-> skip]}]
           /\ mem' = [mem EXCEPT ![t] =
                        [at |-> "order", todo |-> @.todo,
                         orders |-> IF skip THEN <<>> ELSE OrdersOf[t][b]]]
    /\ UNCHANGED <<day, published, stream, pel, effects, routed>>

\* mutant: one batch of each read is handled
NextBatchOnly(t) == mem' = [mem EXCEPT ![t] = Idle("read")]

\* The next batch of the read, or the next read.
NextBatch(t) ==
    mem' = [mem EXCEPT ![t] =
              [at |-> IF Len(@.todo) = 1 THEN "read" ELSE "batch",
               todo |-> Tail(@.todo), orders |-> <<>>]]

\* All orders are through: the notifications, then XACK.
Ack(t) ==
    /\ At(t, "order") /\ mem[t].orders = <<>>
    /\ routed' = [routed EXCEPT ![t] = @ \cup {Batch(t)}]
    /\ pel' = [pel EXCEPT ![t] = Tail(@)]
    /\ NextBatch(t)
    /\ UNCHANGED <<day, published, stream, seen, incidents, effects, decisions, faults>>

\* A notification or XACK raises (XACK perhaps after its effect): the reader
\* sleeps and starts again at the pending list.
AckFails(t) ==
    /\ At(t, "order") /\ mem[t].orders = <<>>
    /\ Fault("reread")
    /\ routed' = [routed EXCEPT ![t] = @ \cup {Batch(t)}]
    /\ pel' \in {pel, [pel EXCEPT ![t] = Tail(@)]}
    /\ mem' = [mem EXCEPT ![t] = Idle("connect")]
    /\ UNCHANGED <<day, published, stream, seen, incidents, effects, decisions>>

Crash(t) ==
    /\ ~At(t, "down")
    /\ Fault("crash")
    /\ mem' = [mem EXCEPT ![t] = Idle("down")]
    /\ UNCHANGED <<day, durable, incidents, effects, history>>

Restart(t) ==
    /\ At(t, "down")
    /\ Goto(t, "connect")
    /\ UNCHANGED <<day, durable, incidents, effects, history, faults>>

---------------------------------------------------------------------------
(* One order: _auto_execute_signal and send_signal.                         *)

\* What route_signal_batch does after an order, whatever came of it.
NextOrder(t) ==
    mem' = [mem EXCEPT ![t] =
              [at |-> "order", todo |-> @.todo, orders |-> Tail(@.orders)]]

\* What a broker call does to the position of its order.
Effect(call, p) ==
    IF call = "bracket" THEN Position(p.naked, p.guarded + 1, p.closed, p.targets)
    ELSE IF call = "entry" THEN Position(p.naked + 1, p.guarded, p.closed, p.targets)
    ELSE IF call = "stop" THEN Position(p.naked - 1, p.guarded + 1, p.closed, p.targets)
    ELSE IF call = "flatten" THEN Position(p.naked - 1, p.guarded, p.closed + 1, p.targets)
    ELSE Position(p.naked, p.guarded, p.closed, p.targets + 1)

\* The broker carries out the call the reader is at.
Performed(t) ==
    [broker EXCEPT ![t][Order(t)] = Effect(mem[t].at, broker[t][Order(t)])]

\* What an order leaves alone, wherever it ends.
OrderFrame == UNCHANGED <<day, durable, incidents, history>>

\* No direction, no adapter, no connection, a manual gate, a compliance
\* reject, or no contract: nothing is sent.
Refuse(t) ==
    /\ At(t, "order") /\ mem[t].orders # <<>>
    /\ NextOrder(t)
    /\ UNCHANGED <<effects, faults>> /\ OrderFrame

\* The bracket needs all levels, the fallback does not.
Send(t) ==
    /\ At(t, "order") /\ mem[t].orders # <<>>
    /\ Goto(t, IF Order(t) \in WithEntry \cap WithStop THEN "bracket" ELSE "entry")
    /\ UNCHANGED <<effects, faults>> /\ OrderFrame

\* Where send_signal goes on after a call that succeeded.
AfterOK(t) ==
    IF At(t, "bracket") \/ At(t, "target") THEN "placed"
    ELSE IF At(t, "entry") /\ Order(t) \in WithStop THEN "stop" ELSE "target"

\* mutant: status FLATTENED_SL_FAIL counts as PLACED
CallOKTakesFlattened(t) ==
    /\ mem[t].at \in Calls
    /\ broker' = Performed(t)
    /\ Goto(t, IF At(t, "flatten") THEN "placed" ELSE AfterOK(t))
    /\ UNCHANGED <<taken, emergencies, faults>> /\ OrderFrame

\* mutant: the target follows the flatten
CallOKTargetsFlattened(t) ==
    /\ mem[t].at \in Calls
    /\ broker' = Performed(t)
    /\ Goto(t, AfterOK(t))
    /\ UNCHANGED <<taken, emergencies, faults>> /\ OrderFrame

\* The call succeeds; a flattened order is over without a TAKEN command.
CallOK(t) ==
    /\ mem[t].at \in Calls
    /\ broker' = Performed(t)
    /\ IF At(t, "flatten") THEN NextOrder(t) ELSE Goto(t, AfterOK(t))
    /\ UNCHANGED <<taken, emergencies, faults>> /\ OrderFrame

\* mutant: a rejected stop is only alerted
CallRejectedKeeps(t) ==
    /\ mem[t].at \in {"bracket", "entry", "stop", "target"}
    /\ IF At(t, "entry") THEN NextOrder(t)
       ELSE Goto(t, IF At(t, "bracket") THEN "entry"
                    ELSE IF At(t, "stop") THEN "target" ELSE "placed")
    /\ UNCHANGED <<effects, faults>> /\ OrderFrame

\* The broker answers success = False: a bracket falls back to an entry, an
\* entry ends the order, a stop leads to a flatten, a target is only alerted.
CallRejected(t) ==
    /\ mem[t].at \in {"bracket", "entry", "stop", "target"}
    /\ IF At(t, "entry") THEN NextOrder(t)
       ELSE Goto(t, IF At(t, "bracket") THEN "entry"
                    ELSE IF At(t, "stop") THEN "flatten" ELSE "placed")
    /\ UNCHANGED <<effects, faults>> /\ OrderFrame

\* The answer of close_position is not looked at: a refused one counts as done.
FlattenRejected(t) ==
    /\ At(t, "flatten")
    /\ Fault("broker")
    /\ NextOrder(t)
    /\ UNCHANGED effects /\ OrderFrame

\* mutant: an unanswered bracket falls back to an entry as a rejected one does
CallRaisesFallsBack(t) ==
    /\ mem[t].at \in Calls
    /\ Fault("broker")
    /\ broker' \in {broker, Performed(t)}
    /\ IF At(t, "bracket") THEN Goto(t, "entry") ELSE NextOrder(t)
    /\ UNCHANGED <<taken, emergencies>> /\ OrderFrame

\* The call raises (a timeout, a connection error, an HTTP error), before or
\* after the broker has carried it out: status ERROR ends the order.  Only
\* around close_position is the exception caught and alerted as an emergency.
CallRaises(t) ==
    /\ mem[t].at \in Calls
    /\ Fault("broker")
    /\ broker' \in {broker, Performed(t)}
    /\ emergencies' = IF At(t, "flatten")
                      THEN [emergencies EXCEPT ![t] = @ \cup {Order(t)}] ELSE emergencies
    /\ NextOrder(t)
    /\ UNCHANGED taken /\ OrderFrame

\* One more TAKEN command of the order on stream:commands.
Announced(t) == [taken EXCEPT ![t][Order(t)] = taken[t][Order(t)] + 1]

\* Status PLACED: the TAKEN command for Online and Offline.
Taken(t) ==
    /\ At(t, "placed")
    /\ taken' = Announced(t)
    /\ NextOrder(t)
    /\ UNCHANGED <<broker, emergencies, faults>> /\ OrderFrame

\* XADD raises, before or after its effect; route_signal_batch logs that.
TakenFails(t) ==
    /\ At(t, "placed")
    /\ Fault("redis")
    /\ taken' \in {taken, Announced(t)}
    /\ NextOrder(t)
    /\ UNCHANGED <<broker, emergencies>> /\ OrderFrame

---------------------------------------------------------------------------
(* What the reader does by itself, what a tower goes through, and the       *)
(* specification.  The reader thread is never blocked for good: a call ends *)
(* with its 10 s timeout, and the container is restarted.                   *)
Progress(t) ==
    \/ Connect(t) \/ Read(t) \/ Decide(t) \/ Ack(t) \/ Restart(t)
    \/ Refuse(t) \/ Send(t) \/ CallOK(t) \/ CallRejected(t) \/ Taken(t)

Failure(t) ==
    \/ AckFails(t) \/ Crash(t) \/ FlattenRejected(t) \/ CallRaises(t) \/ TakenFails(t)

Next ==
    \/ Midnight
    \/ \E t \in Towers : Progress(t) \/ Failure(t) \/ \E b \in Batches : Publish(t, b)

Spec == Init /\ [][Next]_vars
FairSpec == Spec /\ \A t \in Towers : WF_vars(Progress(t))

---------------------------------------------------------------------------
(* Properties.                                                              *)

\* The types of the variables.
TypeOK ==
    /\ day \in Days
    /\ published \in [Towers -> SUBSET Batches]
    /\ stream \in [Towers -> Seq(Batches)]
    /\ pel \in [Towers -> Seq(Batches)]
    /\ seen \in [Towers -> SUBSET (Days \X Batches)]
    /\ incidents \in [Towers -> SUBSET Batches]
    /\ broker \in [Towers -> [Orders ->
                     [naked : Nat, guarded : Nat, closed : Nat, targets : Nat]]]
    /\ taken \in [Towers -> [Orders -> Nat]]
    /\ emergencies \in [Towers -> SUBSET Orders]
    /\ mem \in [Towers -> [at : Places, todo : Seq(Batches), orders : Seq(Orders)]]
    /\ decisions \in [Towers -> SUBSET [batch : Batches, day : Days, skip : BOOLEAN]]
    /\ routed \in [Towers -> SUBSET Batches]
    /\ faults \in [Kinds -> Nat]

\* The positions opened for an order, and those that are open.
Opened(t, o) == broker[t][o].naked + broker[t][o].guarded + broker[t][o].closed
Open(t, o) == broker[t][o].naked + broker[t][o].guarded

\* The order is in the fallback between its entry and its stop or its close.
InFallback(t, o) == mem[t].at \in {"stop", "flatten"} /\ Order(t) = o

\* While the reader works, what is pending is exactly what it has in hand: no
\* delivered batch waits in the pending list for a crash that never comes, and
\* one recovery read sees them all.
PendingIsInHand ==
    \A t \in Towers :
        /\ Len(pel[t]) <= ReadCount
        /\ mem[t].at \notin {"down", "connect"} => pel[t] = mem[t].todo

\* A published batch is waiting, pending or routed to its end: neither a crash
\* nor an exception in its handling loses it.
NoSignalLost ==
    \A t \in Towers : \A b \in published[t] :
        b \in Range(stream[t]) \cup Range(pel[t]) \cup routed[t]

\* An order is sent again only when the reader starts again: nothing opens
\* more positions for it than one, plus one per crash and per failed ack.
EntriesBounded ==
    \A t \in Towers, o \in Orders : Opened(t, o) <= 1 + faults["crash"] + faults["reread"]

\* A TAKEN command stands for a position that is open at the broker: Online
\* never monitors an order that was rejected or flattened.
TakenIsOpen == \A t \in Towers, o \in Orders : taken[t][o] <= Open(t, o)

\* send_signal leaves a position without its stop behind only if a broker call
\* went unanswered, a close was refused, or the process died.
NakedNeedsFault ==
    \A t \in Towers, o \in WithStop :
        broker[t][o].naked <= faults["broker"] + faults["crash"]
                              + (IF InFallback(t, o) THEN 1 ELSE 0)

\* A target order of its own never works without a position to close (F4).
NoOrphanTarget ==
    \A t \in Towers, o \in Orders : broker[t][o].targets <= Open(t, o)

\* Two towers of different parity that handle a batch on the same day, however
\* often, agree which of them executes it, unless it is an NKD batch.
OneTowerPerDay ==
    \A t, u \in Towers : \A d \in decisions[t], e \in decisions[u] :
        /\ d.batch = e.batch /\ d.batch \notin Exempt /\ d.day = e.day
        /\ ParityOf[t] \in Parities /\ ParityOf[u] \in Parities
        => (d.skip = e.skip <=> ParityOf[t] = ParityOf[u])

\* Every published batch is routed to its end and acknowledged, across crashes
\* and failed acknowledgements.
SignalIsHandled ==
    \A t \in Towers, b \in Batches :
        b \in published[t] ~> b \in routed[t] /\ b \notin Range(stream[t] \o pel[t])

=============================================================================
