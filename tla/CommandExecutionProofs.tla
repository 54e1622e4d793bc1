----------------------- MODULE CommandExecutionProofs -----------------------
(***************************************************************************)
(* Theorems about CommandExecution: the types, what the signal reader has  *)
(* in hand, what the broker holds for an order, the parity decisions, that *)
(* no batch is lost and that no order is executed twice.                   *)
(***************************************************************************)
EXTENDS CommandExecution, SequenceTheorems, TLAPS

MemType == [at : Places, todo : Seq(Batches), orders : Seq(Orders)]
PositionType == [naked : Nat, guarded : Nat, closed : Nat, targets : Nat]
DecisionType == [batch : Batches, day : Days, skip : BOOLEAN]

(***************************************************************************)
(* The invariant that carries the others.  The reader's place tells what   *)
(* it has in hand: the pending batches while it works, an order while it   *)
(* sends, and an open position without a stop while it places the stop or  *)
(* closes again.                                                           *)
(***************************************************************************)
InHand(t) ==
  /\ Len(pel[t]) <= ReadCount
  /\ mem[t].at \notin {"down", "connect"} => pel[t] = mem[t].todo
  /\ mem[t].at = "read" => mem[t].todo = <<>>
  /\ mem[t].at \in Calls \cup {"batch", "order", "placed"} => mem[t].todo # <<>>
  /\ mem[t].at \in Calls \cup {"placed"} => mem[t].orders # <<>>

Filled(t) == mem[t].at \in {"stop", "flatten"} => broker[t][Order(t)].naked > 0

IInv == TypeOK /\ \A t \in Towers : InHand(t) /\ Filled(t)

LEMMA InitIInv == Init => IInv
  <1> SUFFICES ASSUME Init PROVE IInv
    OBVIOUS
  <1>1. TypeOK
    BY CommandAssumption
       DEF Init, TypeOK, Days, Idle, NoPosition, Position, Places, Calls, Kinds
  <1>2. ASSUME NEW t \in Towers PROVE InHand(t) /\ Filled(t)
    BY CommandAssumption DEF Init, InHand, Filled, Idle, Calls
  <1> QED BY <1>1, <1>2 DEF IInv

-----------------------------------------------------------------------------
(* The reader.                                                             *)

LEMMA FaultCounts ==
  ASSUME faults \in [Kinds -> Nat], NEW kind \in Kinds, Fault(kind)
  PROVE  faults' = [faults EXCEPT ![kind] = faults[kind] + 1] /\ faults' \in [Kinds -> Nat]
  <1>1. faults' = [faults EXCEPT ![kind] = faults[kind] + 1]
    BY DEF Fault
  <1>2. faults[kind] + 1 \in Nat
    OBVIOUS
  <1> QED BY <1>1, <1>2

LEMMA KindsAre == {"crash", "reread", "redis", "broker"} \subseteq Kinds
  BY DEF Kinds

\* The batches of one read are typed sequences within the bound.
LEMMA FirstTyped ==
  ASSUME NEW s \in Seq(Batches), NEW n \in Nat, n <= Len(s)
  PROVE  /\ SubSeq(s, 1, n) \in Seq(Batches)
         /\ Len(SubSeq(s, 1, n)) = n
         /\ SubSeq(s, n + 1, Len(s)) \in Seq(Batches)
  <1>1. \A i \in 1..Len(s) : s[i] \in Batches
    BY ElementOfSeq
  <1>2. Len(s) \in Nat
    BY LenProperties
  <1>3. \A i \in 1..n : s[i] \in Batches
    BY <1>1, <1>2
  <1>4. \A i \in (n + 1)..Len(s) : s[i] \in Batches
    BY <1>1, <1>2
  <1>5. SubSeq(s, 1, n) \in Seq(Batches) /\ Len(SubSeq(s, 1, n)) = n
    BY <1>3, SubSeqProperties
  <1>6. SubSeq(s, n + 1, Len(s)) \in Seq(Batches)
    BY <1>2, <1>4, SubSeqProperties
  <1> QED BY <1>5, <1>6

LEMMA PublishIInv ==
  ASSUME IInv, NEW t \in Towers, NEW b \in Batches, Publish(t, b)
  PROVE  IInv'
  <1>1. TypeOK'
    BY DEF IInv, TypeOK, Publish, effects, history
  <1>2. ASSUME NEW u \in Towers PROVE (InHand(u) /\ Filled(u))'
    BY DEF IInv, InHand, Filled, Order, Publish, effects
  <1> QED BY <1>1, <1>2 DEF IInv

LEMMA ConnectIInv ==
  ASSUME IInv, NEW t \in Towers, Connect(t)
  PROVE  IInv'
  <1> DEFINE r == [at |-> IF pel[t] = <<>> THEN "read" ELSE "batch",
                   todo |-> pel[t], orders |-> <<>>]
  <1>1. /\ TypeOK /\ pel[t] \in Seq(Batches) /\ Len(pel[t]) \in Nat
        /\ Len(pel[t]) <= PendingCount
    BY CommandAssumption DEF IInv, InHand, TypeOK
  <1>2. (IF Len(pel[t]) < PendingCount THEN Len(pel[t]) ELSE PendingCount) = Len(pel[t])
    BY <1>1, CommandAssumption
  <1>3. SubSeq(pel[t], 1, Len(pel[t])) = pel[t]
    BY <1>1, SubSeqFull
  <1>4. mem' = [mem EXCEPT ![t] = r]
    BY <1>2, <1>3 DEF Connect
  <1>5. r \in MemType
    BY <1>1 DEF MemType, Places, Calls
  <1>6. mem' \in [Towers -> MemType]
    BY <1>1, <1>4, <1>5 DEF TypeOK, MemType
  <1>7. TypeOK'
    BY <1>1, <1>6 DEF TypeOK, MemType, Connect, durable, effects, history
  <1>8. ASSUME NEW u \in Towers PROVE (InHand(u) /\ Filled(u))'
    <2>1. CASE u = t
      BY <1>1, <1>4, <2>1
         DEF IInv, TypeOK, InHand, Filled, Connect, durable, effects, Calls
    <2>2. CASE u # t
      BY <1>1, <1>4, <2>2
         DEF IInv, TypeOK, InHand, Filled, Order, Connect, durable, effects
    <2> QED BY <2>1, <2>2
  <1> QED BY <1>7, <1>8 DEF IInv

LEMMA ReadIInv ==
  ASSUME IInv, NEW t \in Towers, Read(t)
  PROVE  IInv'
  <1> DEFINE n == IF Len(stream[t]) < ReadCount THEN Len(stream[t]) ELSE ReadCount
             batch == SubSeq(stream[t], 1, n)
  <1>0. TypeOK /\ stream[t] \in Seq(Batches) /\ stream[t] # <<>>
    BY DEF IInv, TypeOK, Read
  <1>1. /\ TypeOK /\ stream[t] \in Seq(Batches) /\ Len(stream[t]) \in Nat \ {0}
        /\ mem[t] \in MemType /\ mem[t].at = "read" /\ pel[t] = <<>>
    <2>1. mem[t] \in MemType /\ mem[t].at = "read"
      BY DEF IInv, TypeOK, MemType, Read, At
    <2>2. pel[t] = <<>>
      BY <2>1 DEF IInv, InHand
    <2> QED BY <1>0, <2>1, <2>2, EmptySeq
  <1>2. n \in Nat /\ n <= Len(stream[t]) /\ n > 0 /\ n <= ReadCount
    BY <1>1, CommandAssumption
  <1>3. /\ batch \in Seq(Batches) /\ Len(batch) = n
        /\ SubSeq(stream[t], n + 1, Len(stream[t])) \in Seq(Batches)
    BY <1>1, <1>2, FirstTyped
  <1> HIDE DEF n
  <1>4. /\ stream' = [stream EXCEPT ![t] = SubSeq(@, n + 1, Len(@))]
        /\ pel' = [pel EXCEPT ![t] = @ \o batch]
        /\ mem' = [mem EXCEPT ![t] = [at |-> "batch", todo |-> batch, orders |-> <<>>]]
    BY DEF Read, n
  <1> HIDE DEF batch
  <1>5. pel[t] \o batch = batch
    BY <1>1, <1>3, ConcatEmptySeq
  <1>6. pel' = [pel EXCEPT ![t] = batch]
    BY <1>4, <1>5, <1>1
  <1>7. mem' \in [Towers -> MemType]
    BY <1>1, <1>3, <1>4 DEF TypeOK, MemType, Places, Calls
  <1>8. TypeOK'
    <2>1. UNCHANGED <<day, published, seen, incidents, effects, history, faults>>
      BY DEF Read
    <2>2. stream' \in [Towers -> Seq(Batches)]
      BY <1>1, <1>3, <1>4 DEF TypeOK
    <2>3. pel' \in [Towers -> Seq(Batches)]
      BY <1>1, <1>3, <1>6 DEF TypeOK
    <2> QED BY <1>1, <1>7, <2>1, <2>2, <2>3 DEF TypeOK, MemType, effects, history
  <1>9. ASSUME NEW u \in Towers PROVE (InHand(u) /\ Filled(u))'
    <2>1. CASE u = t
      BY <1>1, <1>2, <1>3, <1>4, <1>6, <2>1
         DEF IInv, TypeOK, InHand, Filled, Calls
    <2>2. CASE u # t
      BY <1>1, <1>4, <1>6, <2>2
         DEF IInv, TypeOK, InHand, Filled, Order, Read, effects
    <2> QED BY <2>1, <2>2
  <1> QED BY <1>8, <1>9 DEF IInv

LEMMA DecideIInv ==
  ASSUME IInv, NEW t \in Towers, Decide(t)
  PROVE  IInv'
  <1> DEFINE b == Batch(t)
             skip == ParitySkip(t, b)
             r == [at |-> "order", todo |-> mem[t].todo,
                   orders |-> IF skip THEN <<>> ELSE OrdersOf[t][b]]
             d == [batch |-> b, day |-> day, skip |-> skip]
  <1>1. TypeOK /\ mem[t] \in MemType /\ mem[t].at = "batch" /\ mem[t].todo # <<>>
    BY DEF IInv, InHand, TypeOK, MemType, Decide, At
  <1>2. b \in Batches
    BY <1>1, HeadTailProperties DEF MemType, Batch
  <1>3. skip \in BOOLEAN
    BY DEF ParitySkip, HasParity
  <1>4. d \in DecisionType
    BY <1>1, <1>2, <1>3 DEF TypeOK, DecisionType
  <1>5. r \in MemType
    BY <1>1, <1>2, CommandAssumption DEF MemType, Places
  <1>6. /\ SelfCheck(t, b)
        /\ decisions' = [decisions EXCEPT ![t] = @ \cup {d}]
        /\ mem' = [mem EXCEPT ![t] = r]
        /\ UNCHANGED <<day, published, stream, pel, effects, routed>>
    BY DEF Decide
  <1> HIDE DEF b, r, d
  <1>7. mem' \in [Towers -> MemType]
    BY <1>1, <1>5, <1>6 DEF TypeOK, MemType
  <1>8. TypeOK'
    <2>1. /\ seen' \in [Towers -> SUBSET (Days \X Batches)]
          /\ incidents' \in [Towers -> SUBSET Batches]
          /\ faults' \in [Kinds -> Nat]
      <3>1. CASE UNCHANGED <<seen, incidents, faults>>
        BY <1>1, <3>1 DEF TypeOK
      <3>2. CASE /\ seen' = [seen EXCEPT ![t] = @ \cup {<<day, b>>}]
                 /\ incidents' = IF <<day, b>> \in seen[t]
                                 THEN [incidents EXCEPT ![t] = @ \cup {b}]
                                 ELSE incidents
                 /\ UNCHANGED faults
        <4>1. <<day, b>> \in Days \X Batches
          BY <1>1, <1>2 DEF TypeOK
        <4>2. seen' \in [Towers -> SUBSET (Days \X Batches)]
          BY <1>1, <3>2, <4>1 DEF TypeOK
        <4>3. incidents' \in [Towers -> SUBSET Batches]
          BY <1>1, <1>2, <3>2 DEF TypeOK
        <4> QED BY <1>1, <3>2, <4>2, <4>3 DEF TypeOK
      <3>3. CASE Fault("redis") /\ UNCHANGED <<seen, incidents>>
        BY <1>1, <3>3 DEF TypeOK, Fault, Kinds
      <3> QED BY <1>6, <3>1, <3>2, <3>3 DEF SelfCheck
    <2>2. decisions' \in [Towers -> SUBSET DecisionType]
      BY <1>1, <1>4, <1>6 DEF TypeOK, DecisionType
    <2> QED BY <1>1, <1>6, <1>7, <2>1, <2>2 DEF TypeOK, MemType, DecisionType, effects
  <1>9. ASSUME NEW u \in Towers PROVE (InHand(u) /\ Filled(u))'
    <2>1. CASE u = t
      BY <1>1, <1>6, <2>1 DEF IInv, TypeOK, InHand, Filled, Calls, r
    <2>2. CASE u # t
      BY <1>1, <1>6, <2>2 DEF IInv, TypeOK, InHand, Filled, Order, effects
    <2> QED BY <2>1, <2>2
  <1> QED BY <1>8, <1>9 DEF IInv

\* The end of a batch, acknowledged or not.
LEMMA EndIInv ==
  ASSUME IInv, NEW t \in Towers, Ack(t) \/ AckFails(t)
  PROVE  IInv'
  <1>1. /\ TypeOK /\ mem[t] \in MemType /\ mem[t].at = "order"
        /\ mem[t].todo # <<>> /\ pel[t] = mem[t].todo
        /\ Len(pel[t]) <= ReadCount
    BY DEF IInv, InHand, TypeOK, MemType, Ack, AckFails, At
  <1>2. /\ Batch(t) \in Batches /\ Tail(pel[t]) \in Seq(Batches)
        /\ Len(pel[t]) \in Nat \ {0} /\ Len(Tail(pel[t])) = Len(pel[t]) - 1
    BY <1>1, HeadTailProperties, EmptySeq DEF MemType, Batch
  <1>3. UNCHANGED <<day, published, stream, seen, incidents, effects, decisions>>
    BY DEF Ack, AckFails
  <1>4. routed' = [routed EXCEPT ![t] = @ \cup {Batch(t)}]
    BY DEF Ack, AckFails
  <1>5. faults' \in [Kinds -> Nat]
    <2>1. (faults' = faults \/ Fault("reread")) /\ faults \in [Kinds -> Nat]
      BY <1>1 DEF Ack, AckFails, TypeOK
    <2> QED BY <2>1, FaultCounts, KindsAre
  <1>6. pel' \in {pel, [pel EXCEPT ![t] = Tail(pel[t])]}
    BY DEF Ack, AckFails
  <1>7. pel' \in [Towers -> Seq(Batches)]
    BY <1>1, <1>2, <1>6 DEF TypeOK
  <1>8. PICK r \in MemType :
          /\ mem' = [mem EXCEPT ![t] = r]
          /\ \/ r.at = "connect"
             \/ /\ pel' = [pel EXCEPT ![t] = Tail(pel[t])]
                /\ r.todo = Tail(pel[t])
                /\ r.at = IF Len(pel[t]) = 1 THEN "read" ELSE "batch"
    <2>1. CASE Ack(t)
      <3> DEFINE q == [at |-> IF Len(mem[t].todo) = 1 THEN "read" ELSE "batch",
                       todo |-> Tail(mem[t].todo), orders |-> <<>>]
      <3>1. q \in MemType
        BY <1>1, <1>2 DEF MemType, Places
      <3>2. mem' = [mem EXCEPT ![t] = q] /\ pel' = [pel EXCEPT ![t] = Tail(pel[t])]
        BY <2>1 DEF Ack, NextBatch
      <3> QED BY <1>1, <3>1, <3>2
    <2>2. CASE AckFails(t)
      <3>1. Idle("connect") \in MemType /\ Idle("connect").at = "connect"
        BY DEF Idle, MemType, Places
      <3>2. mem' = [mem EXCEPT ![t] = Idle("connect")]
        BY <2>2 DEF AckFails
      <3> QED BY <3>1, <3>2
    <2> QED BY <2>1, <2>2
  <1>9. TypeOK'
    <2>1. mem' \in [Towers -> MemType]
      BY <1>1, <1>8 DEF TypeOK, MemType
    <2>2. routed' \in [Towers -> SUBSET Batches]
      BY <1>1, <1>2, <1>4 DEF TypeOK
    <2> QED BY <1>1, <1>3, <1>5, <1>7, <2>1, <2>2 DEF TypeOK, MemType, effects
  <1>10. ASSUME NEW u \in Towers PROVE (InHand(u) /\ Filled(u))'
    <2>1. CASE u = t
      <3>1. mem'[t] \in MemType /\ Len(pel'[t]) <= ReadCount
        BY <1>1, <1>2, <1>6, <1>8, CommandAssumption DEF TypeOK, MemType
      <3>2. CASE mem'[t].at = "connect"
        BY <2>1, <3>1, <3>2 DEF InHand, Filled, Calls
      <3>3. CASE mem'[t].at # "connect"
        <4>1. /\ pel'[t] = Tail(pel[t]) /\ mem'[t].todo = Tail(pel[t])
              /\ mem'[t].at = IF Len(pel[t]) = 1 THEN "read" ELSE "batch"
          BY <1>1, <1>8, <3>3 DEF TypeOK, MemType
        <4>2. Tail(pel[t]) # <<>> => Len(Tail(pel[t])) # 0
          BY <1>2, EmptySeq
        <4>3. Tail(pel[t]) = <<>> => Len(Tail(pel[t])) = 0
          BY EmptySeq
        <4>4. Tail(pel[t]) = <<>> <=> Len(pel[t]) = 1
          BY <1>2, <4>2, <4>3
        <4> QED BY <2>1, <3>1, <4>1, <4>4 DEF InHand, Filled, Calls
      <3> QED BY <3>2, <3>3
    <2>2. CASE u # t
      BY <1>1, <1>3, <1>6, <1>8, <2>2
         DEF IInv, TypeOK, MemType, InHand, Filled, Order, effects
    <2> QED BY <2>1, <2>2
  <1> QED BY <1>9, <1>10 DEF IInv

LEMMA CrashRestartIInv ==
  ASSUME IInv, NEW t \in Towers, Crash(t) \/ Restart(t)
  PROVE  IInv'
  <1>1. TypeOK
    BY DEF IInv
  <1>2. UNCHANGED <<day, durable, incidents, effects, history>>
    BY DEF Crash, Restart
  <1>3. faults' \in [Kinds -> Nat]
    <2>1. (faults' = faults \/ Fault("crash")) /\ faults \in [Kinds -> Nat]
      BY <1>1 DEF Crash, Restart, TypeOK
    <2> QED BY <2>1, FaultCounts, KindsAre
  <1>4. PICK r \in MemType :
          mem' = [mem EXCEPT ![t] = r] /\ r.at \in {"down", "connect"}
    <2>1. CASE Crash(t)
      <3>1. Idle("down") \in MemType /\ Idle("down").at = "down"
        BY DEF Idle, MemType, Places
      <3> QED BY <2>1, <3>1 DEF Crash
    <2>2. CASE Restart(t)
      <3>1. [mem[t] EXCEPT !.at = "connect"] \in MemType
        BY <1>1 DEF TypeOK, MemType, Places
      <3> QED BY <1>1, <2>2, <3>1 DEF TypeOK, MemType, Restart, Goto
    <2> QED BY <2>1, <2>2
  <1>5. mem' \in [Towers -> MemType]
    BY <1>1, <1>4 DEF TypeOK, MemType
  <1>6. TypeOK'
    BY <1>1, <1>2, <1>3, <1>5 DEF TypeOK, MemType, durable, effects, history
  <1>7. ASSUME NEW u \in Towers PROVE (InHand(u) /\ Filled(u))'
    <2>1. CASE u = t
      BY <1>1, <1>2, <1>4, <2>1 DEF IInv, TypeOK, InHand, Filled, durable, Calls
    <2>2. CASE u # t
      BY <1>1, <1>2, <1>4, <2>2
         DEF IInv, TypeOK, InHand, Filled, Order, durable, effects
    <2> QED BY <2>1, <2>2
  <1> QED BY <1>6, <1>7 DEF IInv

-----------------------------------------------------------------------------
(* The orders.                                                             *)

\* What every step of an order has in common: the reader stays with its batch,
\* goes on to a place where it has what it needs, and only this tower's broker
\* positions, commands and alerts change.
OrderStep(t) ==
  /\ UNCHANGED <<day, durable, incidents, history>>
  /\ mem[t].at \in Calls \cup {"order", "placed"}
  /\ mem[t].orders # <<>>
  /\ \/ NextOrder(t)
     \/ \E place \in Calls \cup {"placed"} : Goto(t, place)
  /\ broker' \in [Towers -> [Orders -> PositionType]]
  /\ taken' \in [Towers -> [Orders -> Nat]]
  /\ emergencies' \in [Towers -> SUBSET Orders]
  /\ faults' \in [Kinds -> Nat]
  /\ \A u \in Towers : u # t => broker'[u] = broker[u]
  /\ mem'[t].at \in {"stop", "flatten"} => broker'[t][Order(t)].naked > 0

LEMMA OrderStepIInv ==
  ASSUME IInv, NEW t \in Towers, OrderStep(t)
  PROVE  IInv'
  <1>1. /\ TypeOK /\ mem[t] \in MemType
        /\ mem[t].todo # <<>> /\ pel[t] = mem[t].todo
    BY DEF IInv, InHand, TypeOK, MemType, OrderStep, Calls
  <1>2. PICK r \in MemType :
          /\ mem' = [mem EXCEPT ![t] = r]
          /\ r.todo = mem[t].todo
          /\ \/ r.at = "order"
             \/ r.at \in Calls \cup {"placed"} /\ r.orders = mem[t].orders
    <2>1. CASE NextOrder(t)
      <3> DEFINE q == [at |-> "order", todo |-> mem[t].todo,
                       orders |-> Tail(mem[t].orders)]
      <3>1. Tail(mem[t].orders) \in Seq(Orders)
        BY <1>1, HeadTailProperties DEF OrderStep, MemType
      <3>2. q \in MemType
        BY <1>1, <3>1 DEF MemType, Places
      <3>3. mem' = [mem EXCEPT ![t] = q]
        BY <2>1 DEF NextOrder
      <3> QED BY <3>2, <3>3
    <2>2. ASSUME NEW place \in Calls \cup {"placed"}, Goto(t, place)
          PROVE  /\ [mem[t] EXCEPT !.at = place] \in MemType
                 /\ mem' = [mem EXCEPT ![t] = [mem[t] EXCEPT !.at = place]]
      BY <1>1, <2>2 DEF MemType, Places, Goto
    <2>3. ASSUME NEW place \in Calls \cup {"placed"}
          PROVE  /\ [mem[t] EXCEPT !.at = place].at = place
                 /\ [mem[t] EXCEPT !.at = place].todo = mem[t].todo
                 /\ [mem[t] EXCEPT !.at = place].orders = mem[t].orders
      BY <1>1 DEF MemType
    <2>4. CASE \E place \in Calls \cup {"placed"} : Goto(t, place)
      <3>1. PICK place \in Calls \cup {"placed"} : Goto(t, place)
        BY <2>4
      <3> DEFINE q == [mem[t] EXCEPT !.at = place]
      <3>2. q \in MemType /\ mem' = [mem EXCEPT ![t] = q]
        BY <2>2, <3>1
      <3>3. q.at = place /\ q.todo = mem[t].todo /\ q.orders = mem[t].orders
        BY <2>3
      <3> HIDE DEF q
      <3> QED BY <3>2, <3>3
    <2> QED BY <2>1, <2>4 DEF OrderStep
  <1>3. mem' \in [Towers -> MemType] /\ mem'[t] = r
    BY <1>1, <1>2 DEF TypeOK, MemType
  <1>4. TypeOK'
    BY <1>1, <1>3 DEF TypeOK, MemType, PositionType, OrderStep, durable, history
  <1>5. ASSUME NEW u \in Towers PROVE (InHand(u) /\ Filled(u))'
    <2>1. CASE u = t
      <3>1. InHand(t)'
        BY <1>1, <1>2, <1>3 DEF IInv, InHand, OrderStep, durable, Calls
      <3>2. Filled(t)'
        BY <1>2, <1>3 DEF Filled, OrderStep, Order
      <3> QED BY <2>1, <3>1, <3>2
    <2>2. CASE u # t
      <3>1. mem'[u] = mem[u] /\ broker'[u] = broker[u] /\ pel' = pel
        BY <1>1, <1>2, <2>2 DEF TypeOK, OrderStep, durable
      <3> QED BY <3>1 DEF IInv, InHand, Filled, Order
    <2> QED BY <2>1, <2>2
  <1> QED BY <1>4, <1>5 DEF IInv

\* One entry of a table by tower and order changes.
LEMMA TableUpdate ==
  ASSUME NEW S, NEW f \in [Towers -> [Orders -> S]],
         NEW t \in Towers, NEW o \in Orders, NEW v \in S,
         NEW g, g = [f EXCEPT ![t] = [f[t] EXCEPT ![o] = v]]
  PROVE  /\ g \in [Towers -> [Orders -> S]]
         /\ g[t] = [f[t] EXCEPT ![o] = v]
         /\ g[t][o] = v
         /\ \A q \in Orders : q # o => g[t][q] = f[t][q]
         /\ \A u \in Towers : u # t => g[u] = f[u]
  <1>1. f[t] \in [Orders -> S]
    OBVIOUS
  <1>2. [f[t] EXCEPT ![o] = v] \in [Orders -> S]
    BY <1>1
  <1> QED BY <1>1, <1>2

\* A call that the broker carries out keeps the types and the other towers.
LEMMA PerformedType ==
  ASSUME IInv, NEW t \in Towers, mem[t].at \in Calls
  PROVE  /\ mem[t].orders # <<>> /\ Order(t) \in Orders
         /\ Performed(t) \in [Towers -> [Orders -> PositionType]]
         /\ \A u \in Towers : u # t => Performed(t)[u] = broker[u]
         /\ Performed(t)[t][Order(t)] = Effect(mem[t].at, broker[t][Order(t)])
         /\ \A o \in Orders : o # Order(t) => Performed(t)[t][o] = broker[t][o]
  <1>1. /\ TypeOK /\ mem[t] \in MemType /\ mem[t].orders # <<>>
        /\ broker \in [Towers -> [Orders -> PositionType]]
    BY DEF IInv, InHand, TypeOK, MemType, PositionType
  <1>2. Order(t) \in Orders
    BY <1>1, HeadTailProperties DEF MemType, Order
  <1>3. broker[t][Order(t)] \in PositionType
    BY <1>1, <1>2
  <1>4. mem[t].at \in {"stop", "flatten"} => broker[t][Order(t)].naked > 0
    BY DEF IInv, Filled
  <1>5. Effect(mem[t].at, broker[t][Order(t)]) \in PositionType
    BY <1>3, <1>4 DEF Effect, Position, PositionType
  <1>6. Performed(t) = [broker EXCEPT ![t] =
            [broker[t] EXCEPT ![Order(t)] = Effect(mem[t].at, broker[t][Order(t)])]]
    BY DEF Performed
  <1> QED BY <1>1, <1>2, <1>5, <1>6, TableUpdate

LEMMA SendStep ==
  ASSUME IInv, NEW t \in Towers, Refuse(t) \/ Send(t)
  PROVE  OrderStep(t)
  <1>1. CASE Refuse(t)
    BY <1>1 DEF IInv, TypeOK, MemType, PositionType, Refuse, OrderStep, OrderFrame,
                At, effects, NextOrder
  <1>2. CASE Send(t)
    <2>1. PICK place \in {"bracket", "entry"} : Goto(t, place)
      BY <1>2 DEF Send
    <2>2. place \in Calls \cup {"placed"} /\ mem'[t].at \notin {"stop", "flatten"}
      BY <2>1 DEF Calls, Goto, IInv, TypeOK
    <2> QED BY <1>2, <2>1, <2>2
            DEF IInv, TypeOK, PositionType, Send, OrderStep, OrderFrame, At, effects
  <1> QED BY <1>1, <1>2

LEMMA CallOKStep ==
  ASSUME IInv, NEW t \in Towers, CallOK(t)
  PROVE  OrderStep(t)
  <1>1. /\ TypeOK /\ mem[t].at \in Calls /\ mem[t].orders # <<>>
        /\ Order(t) \in Orders
        /\ broker' \in [Towers -> [Orders -> PositionType]]
        /\ \A u \in Towers : u # t => broker'[u] = broker[u]
        /\ broker'[t][Order(t)] = Effect(mem[t].at, broker[t][Order(t)])
    BY PerformedType DEF IInv, CallOK
  <1>2. /\ UNCHANGED <<day, durable, incidents, history>>
        /\ taken' \in [Towers -> [Orders -> Nat]]
        /\ emergencies' \in [Towers -> SUBSET Orders]
        /\ faults' \in [Kinds -> Nat]
    BY <1>1 DEF TypeOK, CallOK, OrderFrame
  <1>3. NextOrder(t) \/ \E place \in Calls \cup {"placed"} : Goto(t, place)
    BY DEF CallOK, AfterOK, Calls
  <1>4. mem'[t].at \in {"stop", "flatten"} => broker'[t][Order(t)].naked > 0
    <2> SUFFICES ASSUME mem'[t].at \in {"stop", "flatten"}
                 PROVE  broker'[t][Order(t)].naked > 0
      OBVIOUS
    <2>1. ~At(t, "flatten")
      <3> SUFFICES ASSUME At(t, "flatten") PROVE FALSE
        OBVIOUS
      <3>1. NextOrder(t)
        BY DEF CallOK
      <3>2. mem'[t].at = "order"
        BY <1>1, <3>1 DEF NextOrder, TypeOK
      <3> QED BY <3>2
    <2>2. mem'[t].at = AfterOK(t)
      BY <1>1, <2>1 DEF CallOK, Goto, TypeOK
    <2>3. At(t, "entry")
      BY <1>1, <2>2 DEF AfterOK
    <2>4. broker[t][Order(t)] \in PositionType
      BY <1>1 DEF TypeOK, PositionType
    <2>5. broker'[t][Order(t)] = Effect("entry", broker[t][Order(t)])
      BY <1>1, <2>3 DEF At, TypeOK
    <2> QED BY <2>4, <2>5 DEF Effect, Position, PositionType
  <1> QED BY <1>1, <1>2, <1>3, <1>4 DEF OrderStep

LEMMA CallRejectedStep ==
  ASSUME IInv, NEW t \in Towers, CallRejected(t)
  PROVE  OrderStep(t)
  <1>1. /\ TypeOK /\ mem[t].at \in Calls /\ mem[t].orders # <<>>
    BY PerformedType DEF IInv, CallRejected, Calls
  <1>2. /\ UNCHANGED <<day, durable, incidents, history>>
        /\ UNCHANGED <<broker, taken, emergencies, faults>>
    BY DEF CallRejected, OrderFrame, effects
  <1>3. NextOrder(t) \/ \E place \in Calls \cup {"placed"} : Goto(t, place)
    BY DEF CallRejected, Calls
  <1>4. mem'[t].at \in {"stop", "flatten"} => At(t, "stop")
    BY <1>1 DEF CallRejected, NextOrder, Goto, TypeOK, At
  <1>5. mem'[t].at \in {"stop", "flatten"} => broker'[t][Order(t)].naked > 0
    BY <1>2, <1>4 DEF IInv, Filled, At
  <1> QED BY <1>1, <1>2, <1>3, <1>5 DEF OrderStep, TypeOK, PositionType

\* The steps that end the order.
LEMMA LastStep ==
  ASSUME IInv, NEW t \in Towers,
         FlattenRejected(t) \/ CallRaises(t) \/ Taken(t) \/ TakenFails(t)
  PROVE  OrderStep(t)
  <1>1. /\ TypeOK /\ mem[t] \in MemType
        /\ mem[t].at \in Calls \cup {"placed"} /\ mem[t].orders # <<>>
    BY DEF IInv, InHand, TypeOK, MemType, FlattenRejected, CallRaises, Taken,
           TakenFails, At, Calls
  <1>2. Order(t) \in Orders
    BY <1>1, HeadTailProperties DEF MemType, Order
  <1>3. UNCHANGED <<day, durable, incidents, history>> /\ NextOrder(t)
    BY DEF FlattenRejected, CallRaises, Taken, TakenFails, OrderFrame
  <1>4. mem'[t].at = "order"
    BY <1>1, <1>3 DEF NextOrder, TypeOK
  <1>5. broker' = broker \/ (mem[t].at \in Calls /\ broker' = Performed(t))
    BY DEF FlattenRejected, CallRaises, Taken, TakenFails, effects
  <1>6. /\ broker' \in [Towers -> [Orders -> PositionType]]
        /\ \A u \in Towers : u # t => broker'[u] = broker[u]
    <2>1. CASE broker' = broker
      BY <1>1, <2>1 DEF TypeOK, PositionType
    <2>2. CASE mem[t].at \in Calls /\ broker' = Performed(t)
      BY <2>2, PerformedType
    <2> QED BY <1>5, <2>1, <2>2
  <1>7. taken' = taken \/ taken' = Announced(t)
    BY DEF FlattenRejected, CallRaises, Taken, TakenFails, effects
  <1>8. taken' \in [Towers -> [Orders -> Nat]]
    <2>1. CASE taken' = taken
      BY <1>1, <2>1 DEF TypeOK
    <2>2. CASE taken' = Announced(t)
      <3>1. taken[t][Order(t)] + 1 \in Nat
        <4>1. taken \in [Towers -> [Orders -> Nat]]
          BY <1>1 DEF TypeOK
        <4>2. taken[t][Order(t)] \in Nat
          BY <1>2, <4>1
        <4> QED BY <4>2
      <3>2. taken' = [taken EXCEPT ![t] =
                        [taken[t] EXCEPT ![Order(t)] = taken[t][Order(t)] + 1]]
        BY <2>2 DEF Announced
      <3> QED BY <1>1, <1>2, <3>1, <3>2, TableUpdate DEF TypeOK
    <2> QED BY <1>7, <2>1, <2>2
  <1>9. emergencies' \in [Towers -> SUBSET Orders]
    <2>1. \/ emergencies' = emergencies
          \/ emergencies' = [emergencies EXCEPT ![t] = @ \cup {Order(t)}]
      BY DEF FlattenRejected, CallRaises, Taken, TakenFails, effects
    <2>2. CASE emergencies' = emergencies
      BY <1>1, <2>2 DEF TypeOK
    <2>3. CASE emergencies' = [emergencies EXCEPT ![t] = @ \cup {Order(t)}]
      <3>1. emergencies \in [Towers -> SUBSET Orders]
        BY <1>1 DEF TypeOK
      <3>2. PICK e \in SUBSET Orders : emergencies' = [emergencies EXCEPT ![t] = e]
        <4>1. emergencies[t] \cup {Order(t)} \in SUBSET Orders
          BY <1>2, <3>1
        <4> QED BY <2>3, <4>1
      <3> QED BY <3>1, <3>2
    <2> QED BY <2>1, <2>2, <2>3
  <1>10. faults' \in [Kinds -> Nat]
    <2>1. faults' = faults \/ Fault("broker") \/ Fault("redis")
      BY DEF FlattenRejected, CallRaises, Taken, TakenFails
    <2>2. faults \in [Kinds -> Nat]
      BY <1>1 DEF TypeOK
    <2> QED BY <2>1, <2>2, FaultCounts, KindsAre
  <1> QED BY <1>1, <1>3, <1>4, <1>6, <1>8, <1>9, <1>10 DEF OrderStep

-----------------------------------------------------------------------------
(* The theorems.                                                           *)

LEMMA NextIInv ==
  ASSUME IInv, [Next]_vars
  PROVE  IInv'
  <1>1. CASE Midnight
    <2>1. TypeOK'
      BY <1>1, CommandAssumption
         DEF IInv, TypeOK, Midnight, Days, durable, effects, history
    <2>2. ASSUME NEW u \in Towers PROVE (InHand(u) /\ Filled(u))'
      BY <1>1 DEF IInv, InHand, Filled, Order, Midnight, durable, effects
    <2> QED BY <2>1, <2>2 DEF IInv
  <1>2. ASSUME NEW t \in Towers, NEW b \in Batches, Publish(t, b) PROVE IInv'
    BY <1>2, PublishIInv
  <1>3. ASSUME NEW t \in Towers, Progress(t) \/ Failure(t) PROVE IInv'
    <2>1. CASE Connect(t)
      BY <2>1, ConnectIInv
    <2>2. CASE Read(t)
      BY <2>2, ReadIInv
    <2>3. CASE Decide(t)
      BY <2>3, DecideIInv
    <2>4. CASE Ack(t) \/ AckFails(t)
      BY <2>4, EndIInv
    <2>5. CASE Crash(t) \/ Restart(t)
      BY <2>5, CrashRestartIInv
    <2>6. CASE Refuse(t) \/ Send(t)
      BY <2>6, SendStep, OrderStepIInv
    <2>7. CASE CallOK(t)
      BY <2>7, CallOKStep, OrderStepIInv
    <2>8. CASE CallRejected(t)
      BY <2>8, CallRejectedStep, OrderStepIInv
    <2>9. CASE FlattenRejected(t) \/ CallRaises(t) \/ Taken(t) \/ TakenFails(t)
      BY <2>9, LastStep, OrderStepIInv
    <2> QED BY <1>3, <2>1, <2>2, <2>3, <2>4, <2>5, <2>6, <2>7, <2>8, <2>9
            DEF Progress, Failure
  <1>4. CASE UNCHANGED vars
    <2>1. TypeOK'
      BY <1>4 DEF IInv, TypeOK, vars, durable, effects, history
    <2>2. ASSUME NEW u \in Towers PROVE (InHand(u) /\ Filled(u))'
      BY <1>4 DEF IInv, InHand, Filled, Order, vars, durable, effects, history
    <2> QED BY <2>1, <2>2 DEF IInv
  <1> QED BY <1>1, <1>2, <1>3, <1>4 DEF Next

\* Every step keeps the types and what the reader's place tells.
THEOREM Invariance == Spec => []IInv
  BY InitIInv, NextIInv, PTL DEF Spec

\* The variables keep their types: no XACK of an empty list, no close of a
\* position that is not there.
THEOREM TypeCorrect == Spec => []TypeOK
  <1>1. IInv => TypeOK
    BY DEF IInv
  <1> QED BY Invariance, <1>1, PTL

\* What is pending is what the reader has in hand, so that one read of the
\* pending list recovers every batch whose handling was interrupted.
THEOREM PendingInHand == Spec => []PendingIsInHand
  <1>1. IInv => PendingIsInHand
    BY DEF IInv, InHand, PendingIsInHand
  <1> QED BY Invariance, <1>1, PTL

-----------------------------------------------------------------------------
(***************************************************************************)
(* What the broker holds.  While an order is between its entry and its     *)
(* TAKEN command, one open position is neither announced nor covered by a  *)
(* target order yet; with that one counted apart, the bounds of the        *)
(* properties are kept by every step.                                      *)
(***************************************************************************)
Unannounced(t, o) ==
  IF mem[t].at \in {"stop", "flatten", "target", "placed"} /\ Order(t) = o THEN 1 ELSE 0
Untargeted(t, o) ==
  IF mem[t].at \in {"stop", "flatten", "target"} /\ Order(t) = o THEN 1 ELSE 0
Unprotected(t, o) == IF InFallback(t, o) THEN 1 ELSE 0

Mishaps == faults["broker"] + faults["crash"]

Held(t, o) ==
  /\ taken[t][o] + Unannounced(t, o) <= Open(t, o)
  /\ broker[t][o].targets + Untargeted(t, o) <= Open(t, o)
  /\ o \in WithStop => broker[t][o].naked <= Mishaps + Unprotected(t, o)

Books == \A t \in Towers, o \in Orders : Held(t, o)

LEMMA InitBooks == Init => Books
  BY DEF Init, Books, Held, Unannounced, Untargeted, Unprotected, InFallback, Mishaps,
         Open, Idle, NoPosition, Position, Kinds

\* The terms of the bounds are numbers.
LEMMA BooksType ==
  ASSUME TypeOK, NEW t \in Towers, NEW o \in Orders
  PROVE  /\ taken[t][o] \in Nat /\ broker[t][o] \in PositionType
         /\ Mishaps \in Nat
         /\ Unannounced(t, o) \in {0, 1} /\ Untargeted(t, o) \in {0, 1}
         /\ Unprotected(t, o) \in {0, 1}
  BY DEF TypeOK, PositionType, Mishaps, Kinds, Unannounced, Untargeted, Unprotected

\* A step that touches no order and leaves no order under way; only a crash
\* leaves one, and that is a fault.
QuietStep(t) ==
  /\ UNCHANGED <<broker, taken>>
  /\ Mishaps' >= Mishaps
  /\ \A u \in Towers : u # t => mem'[u] = mem[u]
  /\ mem'[t].at \notin {"stop", "flatten", "target", "placed"}
  /\ mem[t].at \in {"stop", "flatten"} => Mishaps' > Mishaps

LEMMA QuietBooks ==
  ASSUME TypeOK, TypeOK', Books, NEW t \in Towers, QuietStep(t)
  PROVE  Books'
  <1> SUFFICES ASSUME NEW u \in Towers, NEW o \in Orders PROVE Held(u, o)'
    BY DEF Books
  <1>1. Held(u, o)
    BY DEF Books
  <1>2. /\ taken[u][o] \in Nat /\ broker[u][o] \in PositionType
        /\ Mishaps \in Nat /\ Mishaps' \in Nat /\ Mishaps' >= Mishaps
        /\ Unannounced(u, o) \in {0, 1} /\ Untargeted(u, o) \in {0, 1}
        /\ Unprotected(u, o) \in {0, 1}
    <2>1. faults' \in [Kinds -> Nat] /\ "broker" \in Kinds /\ "crash" \in Kinds
      BY DEF TypeOK, Kinds
    <2>2. Mishaps' \in Nat
      BY <2>1 DEF Mishaps
    <2> QED BY <2>2, BooksType DEF QuietStep
  <1>3. taken' = taken /\ broker' = broker
    BY DEF QuietStep
  <1>4. CASE u = t
    <2>1. /\ Unannounced(u, o)' = 0 /\ Untargeted(u, o)' = 0
          /\ Unprotected(u, o)' = 0
      BY <1>4 DEF QuietStep, Unannounced, Untargeted, Unprotected, InFallback
    <2>2. Unprotected(u, o) = 1 => Mishaps' >= Mishaps + 1
      BY <1>2, <1>4 DEF QuietStep, Unprotected, InFallback
    <2> QED BY <1>1, <1>2, <1>3, <2>1, <2>2 DEF Held, Open, PositionType
  <1>5. CASE u # t
    <2>1. mem'[u] = mem[u]
      BY <1>5 DEF QuietStep
    <2>2. /\ Unannounced(u, o)' = Unannounced(u, o)
          /\ Untargeted(u, o)' = Untargeted(u, o)
          /\ Unprotected(u, o)' = Unprotected(u, o)
      BY <2>1 DEF Unannounced, Untargeted, Unprotected, InFallback, Order
    <2> QED BY <1>1, <1>2, <1>3, <2>2 DEF Held, Open, PositionType
  <1> QED BY <1>4, <1>5

\* A step of the order o of t leaves the other orders as they are.
LEMMA OtherBooks ==
  ASSUME TypeOK, Books, NEW t \in Towers, NEW u \in Towers, NEW o \in Orders,
         <<u, o>> # <<t, Order(t)>>,
         broker'[u][o] = broker[u][o], taken'[u][o] = taken[u][o],
         Mishaps' \in Nat, Mishaps' >= Mishaps,
         u # t => mem'[u] = mem[u],
         u = t => mem'[t].at = "order" \/ mem'[t].orders = mem[t].orders
  PROVE  Held(u, o)'
  <1>1. /\ Held(u, o)
        /\ taken[u][o] \in Nat /\ broker[u][o] \in PositionType
        /\ Mishaps \in Nat
        /\ Unannounced(u, o) \in {0, 1} /\ Untargeted(u, o) \in {0, 1}
        /\ Unprotected(u, o) \in {0, 1}
    BY BooksType DEF Books
  <1>2. CASE u = t
    <2>1. mem'[t].at = "order" \/ (Order(t)' = Order(t) /\ Order(t) # o)
      BY <1>2 DEF Order
    <2>2. /\ Unannounced(u, o)' = 0 /\ Untargeted(u, o)' = 0
          /\ Unprotected(u, o)' = 0 /\ Unprotected(u, o) = 0
      BY <1>2, <2>1 DEF Unannounced, Untargeted, Unprotected, InFallback
    <2> QED BY <1>1, <2>2 DEF Held, Open, PositionType
  <1>3. CASE u # t
    <2>1. /\ Unannounced(u, o)' = Unannounced(u, o)
          /\ Untargeted(u, o)' = Untargeted(u, o)
          /\ Unprotected(u, o)' = Unprotected(u, o)
      BY <1>3 DEF Unannounced, Untargeted, Unprotected, InFallback, Order
    <2> QED BY <1>1, <2>1 DEF Held, Open, PositionType
  <1> QED BY <1>2, <1>3

\* So a step of an order keeps the books if it keeps those of its order.
LEMMA OrderBooks ==
  ASSUME TypeOK, TypeOK', Books, NEW t \in Towers, NEW o \in Orders, o = Order(t),
         \A u \in Towers : u # t =>
            mem'[u] = mem[u] /\ broker'[u] = broker[u] /\ taken'[u] = taken[u],
         \A q \in Orders : q # o =>
            broker'[t][q] = broker[t][q] /\ taken'[t][q] = taken[t][q],
         Mishaps' >= Mishaps,
         mem'[t].at = "order" \/ mem'[t].orders = mem[t].orders,
         Held(t, o)'
  PROVE  Books'
  <1>1. faults' \in [Kinds -> Nat] /\ "broker" \in Kinds /\ "crash" \in Kinds
    BY DEF TypeOK, Kinds
  <1>2. Mishaps' \in Nat
    BY <1>1 DEF Mishaps
  <1>3. ASSUME NEW u \in Towers, NEW q \in Orders PROVE Held(u, q)'
    <2>1. CASE u = t /\ q = o
      BY <2>1
    <2>2. CASE ~(u = t /\ q = o)
      <3>1. <<u, q>> # <<t, Order(t)>>
        BY <2>2
      <3>2. broker'[u][q] = broker[u][q] /\ taken'[u][q] = taken[u][q]
        BY <2>2
      <3> QED BY <1>2, <3>1, <3>2, OtherBooks
    <2> QED BY <2>1, <2>2
  <1> QED BY <1>3 DEF Books

\* What the reader's place says of its order.
LEMMA Counted ==
  ASSUME NEW t \in Towers, NEW o \in Orders, o = Order(t)
  PROVE  /\ Unannounced(t, o) = IF mem[t].at \in {"stop", "flatten", "target", "placed"}
                                 THEN 1 ELSE 0
         /\ Untargeted(t, o) = IF mem[t].at \in {"stop", "flatten", "target"}
                                THEN 1 ELSE 0
         /\ Unprotected(t, o) = IF mem[t].at \in {"stop", "flatten"} THEN 1 ELSE 0
  BY DEF Unannounced, Untargeted, Unprotected, InFallback

\* The same after a step, for the order the reader was at.
LEMMA CountedNext ==
  ASSUME NEW t \in Towers, NEW o \in Orders, o = Order(t),
         mem'[t].at = "order" \/ mem'[t].orders = mem[t].orders
  PROVE  /\ Unannounced(t, o)' = IF mem'[t].at \in {"stop", "flatten", "target", "placed"}
                                  THEN 1 ELSE 0
         /\ Untargeted(t, o)' = IF mem'[t].at \in {"stop", "flatten", "target"}
                                 THEN 1 ELSE 0
         /\ Unprotected(t, o)' = IF mem'[t].at \in {"stop", "flatten"} THEN 1 ELSE 0
  BY DEF Unannounced, Untargeted, Unprotected, InFallback, Order

\* Where a step takes the reader.
LEMMA SetMem ==
  ASSUME TypeOK, NEW t \in Towers, NEW r, mem' = [mem EXCEPT ![t] = r]
  PROVE  mem'[t] = r /\ \A u \in Towers : u # t => mem'[u] = mem[u]
  BY DEF TypeOK

LEMMA HandMem ==
  ASSUME TypeOK, NEW t \in Towers, NEW place, NEW todo, NEW orders,
         mem' = [mem EXCEPT ![t] = [at |-> place, todo |-> todo, orders |-> orders]]
  PROVE  mem'[t].at = place /\ \A u \in Towers : u # t => mem'[u] = mem[u]
  BY DEF TypeOK

LEMMA NextOrderMem ==
  ASSUME TypeOK, NEW t \in Towers, NextOrder(t)
  PROVE  mem'[t].at = "order" /\ \A u \in Towers : u # t => mem'[u] = mem[u]
  <1> DEFINE q == [at |-> "order", todo |-> mem[t].todo, orders |-> Tail(mem[t].orders)]
  <1>1. mem' = [mem EXCEPT ![t] = q]
    BY DEF NextOrder
  <1>2. q.at = "order"
    OBVIOUS
  <1> HIDE DEF q
  <1> QED BY <1>1, <1>2, SetMem

LEMMA GotoMem ==
  ASSUME TypeOK, NEW t \in Towers, NEW place, Goto(t, place)
  PROVE  /\ mem'[t].at = place /\ mem'[t].orders = mem[t].orders
         /\ \A u \in Towers : u # t => mem'[u] = mem[u]
  <1> DEFINE q == [mem[t] EXCEPT !.at = place]
  <1>1. mem' = [mem EXCEPT ![t] = q]
    BY DEF Goto
  <1>2. mem[t] \in MemType
    BY DEF TypeOK, MemType
  <1>3. q.at = place /\ q.orders = mem[t].orders
    BY <1>2 DEF MemType
  <1> HIDE DEF q
  <1> QED BY <1>1, <1>3, SetMem

\* A broker call that is carried out, whether its answer arrives or not: an
\* entry or a stop that succeeds leads on, an unanswered one is a mishap.
LEMMA PerformedBooks ==
  ASSUME IInv, TypeOK', Books, NEW t \in Towers, mem[t].at \in Calls,
         broker' = Performed(t), taken' = taken,
         \A u \in Towers : u # t => mem'[u] = mem[u],
         \/ CallOK(t) /\ faults' = faults
         \/ CallRaises(t) /\ mem'[t].at = "order" /\ Mishaps' = Mishaps + 1
  PROVE  Books'
  <1>0. PICK o \in Orders : o = Order(t)
    BY PerformedType
  <1> DEFINE p == broker[t][o]
  <1>1. /\ TypeOK /\ o \in Orders /\ p \in PositionType /\ Mishaps \in Nat
        /\ taken[t][o] \in Nat /\ taken'[t][o] = taken[t][o]
        /\ Held(t, o)
    BY PerformedType, BooksType DEF IInv, Books
  <1>2. /\ broker'[t][o] = Effect(mem[t].at, p)
        /\ \A q \in Orders : q # o => broker'[t][q] = broker[t][q]
        /\ \A u \in Towers : u # t => broker'[u] = broker[u]
    BY <1>0, PerformedType
  <1>3. /\ CallOK(t) =>
              mem'[t].at = IF mem[t].at = "flatten" THEN "order" ELSE AfterOK(t)
        /\ mem'[t].at = "order" \/ mem'[t].orders = mem[t].orders
    <2>1. CASE CallOK(t)
      <3>1. IF mem[t].at = "flatten" THEN NextOrder(t) ELSE Goto(t, AfterOK(t))
        BY <2>1 DEF CallOK, At
      <3> QED BY <1>1, <3>1, NextOrderMem, GotoMem
    <2>2. CASE CallRaises(t) /\ mem'[t].at = "order" /\ Mishaps' = Mishaps + 1
      <3>1. faults' = faults => Mishaps' = Mishaps
        BY DEF Mishaps
      <3>2. ~CallOK(t)
        BY <1>1, <2>2, <3>1 DEF CallOK
      <3> QED BY <2>2, <3>2
    <2> QED BY <2>1, <2>2
  <1>5. mem[t].at \in {"stop", "flatten"} => p.naked > 0
    BY <1>0 DEF IInv, Filled
  <1>6. Mishaps' = IF CallOK(t) /\ faults' = faults THEN Mishaps ELSE Mishaps + 1
    BY DEF Mishaps
  <1>7. mem[t].at \in {"bracket", "entry", "stop", "flatten", "target"}
    BY DEF Calls
  <1> HIDE DEF p
  <1>8. Held(t, o)'
    <2>1. /\ Unannounced(t, o) = IF mem[t].at \in {"stop", "flatten", "target", "placed"}
                                 THEN 1 ELSE 0
          /\ Untargeted(t, o) = IF mem[t].at \in {"stop", "flatten", "target"}
                                THEN 1 ELSE 0
          /\ Unprotected(t, o) = IF mem[t].at \in {"stop", "flatten"} THEN 1 ELSE 0
      BY <1>0, Counted
    <2>2. /\ Unannounced(t, o)' = IF mem'[t].at \in {"stop", "flatten", "target", "placed"}
                                  THEN 1 ELSE 0
          /\ Untargeted(t, o)' = IF mem'[t].at \in {"stop", "flatten", "target"}
                                 THEN 1 ELSE 0
          /\ Unprotected(t, o)' = IF mem'[t].at \in {"stop", "flatten"} THEN 1 ELSE 0
      BY <1>0, <1>3, CountedNext
    <2>3. /\ taken[t][o] + Unannounced(t, o) <= p.naked + p.guarded
          /\ p.targets + Untargeted(t, o) <= p.naked + p.guarded
          /\ o \in WithStop => p.naked <= Mishaps + Unprotected(t, o)
      BY <1>1 DEF Held, Open, p
    <2>4. \/ mem'[t].at = "order"
          \/ mem'[t].at = AfterOK(t) /\ mem[t].at # "flatten"
      BY <1>3
    <2>5. SUFFICES
            LET q == Effect(mem[t].at, p)
            IN  /\ taken[t][o] + Unannounced(t, o)' <= q.naked + q.guarded
                /\ q.targets + Untargeted(t, o)' <= q.naked + q.guarded
                /\ o \in WithStop => q.naked <= Mishaps' + Unprotected(t, o)'
      BY <1>1, <1>2 DEF Held, Open
    <2>6. CASE mem[t].at = "bracket"
      <3>1. mem'[t].at \in {"order", "placed"}
        BY <2>4, <2>6 DEF AfterOK, At
      <3> QED BY <1>1, <1>6, <2>1, <2>2, <2>3, <2>6, <3>1
              DEF Effect, Position, PositionType
    <2>7. CASE mem[t].at = "entry"
      <3>1. CASE mem'[t].at = "order"
        <4>1. Mishaps' = Mishaps + 1
          BY <1>3, <1>6, <2>7, <3>1 DEF AfterOK, At
        <4> QED BY <1>1, <2>1, <2>2, <2>3, <2>7, <3>1, <4>1
                DEF Effect, Position, PositionType
      <3>2. CASE mem'[t].at # "order"
        <4>1. mem'[t].at = IF o \in WithStop THEN "stop" ELSE "target"
          BY <1>0, <2>4, <2>7, <3>2 DEF AfterOK, At
        <4> QED BY <1>1, <1>6, <2>1, <2>2, <2>3, <2>7, <4>1
                DEF Effect, Position, PositionType
      <3> QED BY <3>1, <3>2
    <2>8. CASE mem[t].at = "stop"
      <3>1. mem'[t].at \in {"order", "target"}
        BY <2>4, <2>8 DEF AfterOK, At
      <3> QED BY <1>1, <1>5, <1>6, <2>1, <2>2, <2>3, <2>8, <3>1
              DEF Effect, Position, PositionType
    <2>9. CASE mem[t].at = "flatten"
      <3>1. mem'[t].at = "order"
        BY <2>4, <2>9
      <3> QED BY <1>1, <1>5, <1>6, <2>1, <2>2, <2>3, <2>9, <3>1
              DEF Effect, Position, PositionType
    <2>10. CASE mem[t].at = "target"
      <3>1. mem'[t].at \in {"order", "placed"}
        BY <2>4, <2>10 DEF AfterOK, At
      <3> QED BY <1>1, <1>6, <2>1, <2>2, <2>3, <2>10, <3>1
              DEF Effect, Position, PositionType
    <2> QED BY <1>7, <2>6, <2>7, <2>8, <2>9, <2>10
  <1>9. Mishaps' >= Mishaps
    BY <1>1, <1>6
  <1> QED BY <1>1, <1>2, <1>3, <1>0, <1>8, <1>9, OrderBooks

\* The steps that leave the broker and the commands alone.
LEMMA QuietSteps ==
  ASSUME IInv, NEW t \in Towers,
         \/ Connect(t) \/ Read(t) \/ Decide(t) \/ Ack(t) \/ AckFails(t)
         \/ Crash(t) \/ Restart(t) \/ Refuse(t) \/ Send(t) \/ FlattenRejected(t)
  PROVE  QuietStep(t)
  <1>1. TypeOK /\ Mishaps \in Nat /\ "broker" \in Kinds /\ "crash" \in Kinds
    BY DEF IInv, TypeOK, Mishaps, Kinds
  <1>2. UNCHANGED <<broker, taken>>
    BY DEF Connect, Read, Decide, Ack, AckFails, Crash, Restart, Refuse, Send,
           FlattenRejected, effects
  <1>4. ASSUME NEW kind \in Kinds, Fault(kind)
        PROVE  Mishaps' = IF kind \in {"broker", "crash"} THEN Mishaps + 1 ELSE Mishaps
    <2>1. /\ faults' = [faults EXCEPT ![kind] = @ + 1] /\ faults \in [Kinds -> Nat]
      BY <1>1, <1>4 DEF Fault, TypeOK
    <2> QED BY <1>1, <2>1 DEF Mishaps, Kinds
  <1>5. faults' = faults => Mishaps' = Mishaps
    BY DEF Mishaps
  <1>6. CASE Connect(t) \/ Read(t) \/ Decide(t) \/ Ack(t)
    <2>1. /\ mem'[t].at \in {"read", "batch", "order"}
          /\ \A u \in Towers : u # t => mem'[u] = mem[u]
      <3>1. CASE Connect(t)
        BY <1>1, <3>1, HandMem DEF Connect
      <3>2. CASE Read(t)
        BY <1>1, <3>2, HandMem DEF Read
      <3>3. CASE Decide(t)
        BY <1>1, <3>3, HandMem DEF Decide
      <3>4. CASE Ack(t)
        BY <1>1, <3>4, HandMem DEF Ack, NextBatch
      <3> QED BY <1>6, <3>1, <3>2, <3>3, <3>4
    <2>2. mem[t].at \notin {"stop", "flatten"}
      BY <1>6 DEF Connect, Read, Decide, Ack, At
    <2>3. faults' = faults \/ Fault("redis")
      BY <1>6 DEF Connect, Read, Decide, Ack, SelfCheck
    <2>4. Mishaps' = Mishaps
      BY <1>4, <1>5, <2>3 DEF Kinds
    <2> QED BY <1>1, <1>2, <2>1, <2>2, <2>4 DEF QuietStep
  <1>7. CASE AckFails(t)
    <2>1. mem' = [mem EXCEPT ![t] = Idle("connect")] /\ Idle("connect").at = "connect"
      BY <1>7 DEF AckFails, Idle
    <2>2. mem[t].at \notin {"stop", "flatten"} /\ Fault("reread")
      BY <1>7 DEF AckFails, At
    <2>3. Mishaps' = Mishaps
      BY <1>4, <2>2 DEF Kinds
    <2>4. /\ mem'[t].at = "connect" /\ \A u \in Towers : u # t => mem'[u] = mem[u]
      BY <1>1, <2>1, SetMem
    <2> QED BY <1>1, <1>2, <2>2, <2>3, <2>4 DEF QuietStep
  <1>8. CASE Crash(t)
    <2>1. mem' = [mem EXCEPT ![t] = Idle("down")] /\ Idle("down").at = "down"
      BY <1>8 DEF Crash, Idle
    <2>2. Mishaps' = Mishaps + 1
      BY <1>1, <1>4, <1>8 DEF Crash
    <2>3. /\ mem'[t].at = "down" /\ \A u \in Towers : u # t => mem'[u] = mem[u]
      BY <1>1, <2>1, SetMem
    <2> QED BY <1>1, <1>2, <2>2, <2>3 DEF QuietStep
  <1>9. CASE Restart(t) \/ Refuse(t) \/ Send(t)
    <2>1. PICK place \in {"connect", "order", "bracket", "entry"} :
             Goto(t, place) \/ (NextOrder(t) /\ place = "order")
      BY <1>9 DEF Restart, Refuse, Send
    <2>2. /\ mem'[t].at \in {"connect", "order", "bracket", "entry"}
          /\ \A u \in Towers : u # t => mem'[u] = mem[u]
      BY <1>1, <2>1, GotoMem, NextOrderMem
    <2>3. mem[t].at \notin {"stop", "flatten"} /\ faults' = faults
      BY <1>9 DEF Restart, Refuse, Send, At
    <2> QED BY <1>1, <1>2, <1>5, <2>2, <2>3 DEF QuietStep
  <1>10. CASE FlattenRejected(t)
    <2>1. /\ mem'[t].at = "order" /\ \A u \in Towers : u # t => mem'[u] = mem[u]
      BY <1>1, <1>10 DEF FlattenRejected, NextOrder, TypeOK
    <2>2. Mishaps' = Mishaps + 1
      BY <1>1, <1>4, <1>10 DEF FlattenRejected
    <2> QED BY <1>1, <1>2, <2>1, <2>2 DEF QuietStep
  <1> QED BY <1>6, <1>7, <1>8, <1>9, <1>10

\* A rejection and a TAKEN command, lost or not.
LEMMA AnswerBooks ==
  ASSUME IInv, TypeOK', Books, NEW t \in Towers,
         CallRejected(t) \/ Taken(t) \/ TakenFails(t)
  PROVE  Books'
  <1>1. /\ TypeOK /\ mem[t] \in MemType /\ mem[t].orders # <<>>
        /\ mem[t].at \in Calls \cup {"placed"}
    BY DEF IInv, InHand, TypeOK, MemType, CallRejected, Taken, TakenFails, At, Calls
  <1>2. PICK o \in Orders : o = Order(t)
    BY <1>1, HeadTailProperties DEF MemType, Order
  <1>3. /\ Held(t, o) /\ taken[t][o] \in Nat /\ broker[t][o] \in PositionType
        /\ Mishaps \in Nat
    BY <1>1, BooksType DEF Books
  <1>4. broker' = broker
    BY DEF CallRejected, Taken, TakenFails, effects
  <1>5. Mishaps' = Mishaps
    <2>1. CASE faults' = faults
      BY <2>1 DEF Mishaps
    <2>2. CASE Fault("redis")
      BY <1>1, <2>2 DEF Mishaps, Fault, TypeOK, Kinds
    <2> QED BY <2>1, <2>2 DEF CallRejected, Taken, TakenFails
  <1>6. /\ \A u \in Towers : u # t => mem'[u] = mem[u]
        /\ mem'[t].at = "order" \/ mem'[t].orders = mem[t].orders
    BY <1>1, GotoMem, NextOrderMem DEF CallRejected, Taken, TakenFails
  <1>7. /\ \A u \in Towers : u # t => taken'[u] = taken[u]
        /\ \A q \in Orders : q # o => taken'[t][q] = taken[t][q]
        /\ taken'[t][o] = taken[t][o]
            \/ (mem[t].at = "placed" /\ taken'[t][o] = taken[t][o] + 1)
    <2>1. CASE taken' = taken
      BY <2>1
    <2>2. CASE taken' = Announced(t) /\ mem[t].at = "placed"
      <3>1. taken[t][o] + 1 \in Nat
        BY <1>3
      <3>2. taken' = [taken EXCEPT ![t] = [taken[t] EXCEPT ![o] = taken[t][o] + 1]]
        BY <1>2, <2>2 DEF Announced
      <3> QED BY <1>1, <2>2, <3>1, <3>2, TableUpdate DEF TypeOK
    <2> QED BY <2>1, <2>2 DEF CallRejected, Taken, TakenFails, At, effects
  <1>8. /\ mem[t].at = "placed" => mem'[t].at = "order"
        /\ mem[t].at = "stop" => mem'[t].at = "flatten"
        /\ mem[t].at = "target" => mem'[t].at = "placed"
        /\ mem[t].at \in {"bracket", "entry"} => mem'[t].at \in {"entry", "order"}
        /\ mem[t].at # "flatten"
    BY <1>1, GotoMem, NextOrderMem DEF CallRejected, Taken, TakenFails, At
  <1>9. Held(t, o)'
    <2>1. /\ Unannounced(t, o) = IF mem[t].at \in {"stop", "flatten", "target", "placed"}
                                 THEN 1 ELSE 0
          /\ Untargeted(t, o) = IF mem[t].at \in {"stop", "flatten", "target"}
                                THEN 1 ELSE 0
          /\ Unprotected(t, o) = IF mem[t].at \in {"stop", "flatten"} THEN 1 ELSE 0
      BY <1>2, Counted
    <2>2. /\ Unannounced(t, o)' = IF mem'[t].at \in {"stop", "flatten", "target", "placed"}
                                  THEN 1 ELSE 0
          /\ Untargeted(t, o)' = IF mem'[t].at \in {"stop", "flatten", "target"}
                                 THEN 1 ELSE 0
          /\ Unprotected(t, o)' = IF mem'[t].at \in {"stop", "flatten"} THEN 1 ELSE 0
      BY <1>2, <1>6, CountedNext
    <2> QED BY <1>1, <1>3, <1>4, <1>5, <1>7, <1>8, <2>1, <2>2
            DEF Held, Open, PositionType, Calls
  <1> QED BY <1>1, <1>2, <1>3, <1>4, <1>5, <1>6, <1>7, <1>9, OrderBooks

LEMMA NextBooks ==
  ASSUME IInv, IInv', Books, [Next]_vars
  PROVE  Books'
  <1>1. CASE Midnight \/ (\E t \in Towers, b \in Batches : Publish(t, b)) \/ UNCHANGED vars
    <2>1. UNCHANGED <<mem, effects, faults>>
      BY <1>1 DEF Midnight, Publish, vars
    <2> QED BY <2>1 DEF Books, Held, Unannounced, Untargeted, Unprotected, InFallback,
                        Order, Open, Mishaps, effects
  <1>2. ASSUME NEW t \in Towers, Progress(t) \/ Failure(t) PROVE Books'
    <2>1. TypeOK /\ TypeOK'
      BY DEF IInv
    <2>2. CASE \/ Connect(t) \/ Read(t) \/ Decide(t) \/ Ack(t) \/ AckFails(t)
               \/ Crash(t) \/ Restart(t) \/ Refuse(t) \/ Send(t) \/ FlattenRejected(t)
      BY <2>1, <2>2, QuietSteps, QuietBooks
    <2>3. CASE CallRejected(t) \/ Taken(t) \/ TakenFails(t)
      BY <2>1, <2>3, AnswerBooks
    <2>4. CASE CallOK(t)
      <3>1. /\ broker' = Performed(t) /\ taken' = taken /\ faults' = faults
            /\ mem[t].at \in Calls
        BY <2>4 DEF CallOK
      <3>2. \A u \in Towers : u # t => mem'[u] = mem[u]
        BY <2>1, <2>4 DEF CallOK, NextOrder, Goto, TypeOK
      <3> QED BY <2>1, <2>4, <3>1, <3>2, PerformedBooks
    <2>5. CASE CallRaises(t)
      <3>1. /\ mem'[t].at = "order" /\ \A u \in Towers : u # t => mem'[u] = mem[u]
            /\ mem[t].at \in Calls /\ taken' = taken
        BY <2>1, <2>5 DEF CallRaises, NextOrder, TypeOK
      <3>2. /\ faults' = [faults EXCEPT !["broker"] = @ + 1]
            /\ faults \in [Kinds -> Nat]
        BY <2>1, <2>5 DEF CallRaises, Fault, TypeOK
      <3>3. Mishaps' = Mishaps + 1 /\ Mishaps \in Nat
        BY <3>2 DEF Mishaps, Kinds
      <3>4. CASE broker' = Performed(t)
        BY <2>1, <2>5, <3>1, <3>3, <3>4, PerformedBooks
      <3>5. CASE broker' = broker
        <4>1. QuietStep(t)
          BY <3>1, <3>3, <3>5 DEF QuietStep
        <4> QED BY <2>1, <4>1, QuietBooks
      <3> QED BY <2>5, <3>4, <3>5 DEF CallRaises
    <2> QED BY <1>2, <2>2, <2>3, <2>4, <2>5 DEF Progress, Failure
  <1> QED BY <1>1, <1>2 DEF Next

LEMMA BooksInvariance == Spec => [](IInv /\ Books)
  <1>1. Init => IInv /\ Books
    BY InitIInv, InitBooks
  <1>2. IInv /\ Books /\ [Next]_vars => (IInv /\ Books)'
    <2> SUFFICES ASSUME IInv, Books, [Next]_vars PROVE IInv' /\ Books'
      OBVIOUS
    <2>1. IInv'
      BY NextIInv
    <2> QED BY <2>1, NextBooks
  <1> QED BY <1>1, <1>2, PTL DEF Spec

\* A TAKEN command stands for an open position, whatever call was refused,
\* went unanswered or was interrupted.
THEOREM AnnouncedIsOpen == Spec => []TakenIsOpen
  <1>1. IInv /\ Books => TakenIsOpen
    <2> SUFFICES ASSUME IInv, Books, NEW t \in Towers, NEW o \in Orders
                 PROVE  taken[t][o] <= Open(t, o)
      BY DEF TakenIsOpen
    <2>1. Held(t, o)
      BY DEF Books
    <2>2. /\ taken[t][o] \in Nat /\ broker[t][o] \in PositionType
          /\ Unannounced(t, o) \in {0, 1}
      BY BooksType DEF IInv
    <2> QED BY <2>1, <2>2 DEF Held, Open, PositionType
  <1> QED BY BooksInvariance, <1>1, PTL

\* A target order of its own always has a position to close.
THEOREM TargetsHavePositions == Spec => []NoOrphanTarget
  <1>1. IInv /\ Books => NoOrphanTarget
    <2> SUFFICES ASSUME IInv, Books, NEW t \in Towers, NEW o \in Orders
                 PROVE  broker[t][o].targets <= Open(t, o)
      BY DEF NoOrphanTarget
    <2>1. Held(t, o)
      BY DEF Books
    <2>2. broker[t][o] \in PositionType /\ Untargeted(t, o) \in {0, 1}
      BY BooksType DEF IInv
    <2> QED BY <2>1, <2>2 DEF Held, Open, PositionType
  <1> QED BY BooksInvariance, <1>1, PTL

\* Positions that send_signal left without their stop are paid for by broker
\* faults and crashes.
THEOREM NakedIsPaidFor == Spec => []NakedNeedsFault
  <1>1. IInv /\ Books => NakedNeedsFault
    <2> SUFFICES ASSUME IInv, Books, NEW t \in Towers, NEW o \in WithStop
                 PROVE  broker[t][o].naked <= faults["broker"] + faults["crash"]
                                              + (IF InFallback(t, o) THEN 1 ELSE 0)
      BY DEF NakedNeedsFault
    <2>1. o \in Orders
      BY CommandAssumption
    <2>2. Held(t, o)
      BY <2>1 DEF Books
    <2> QED BY <2>2 DEF Held, Mishaps, Unprotected
  <1> QED BY BooksInvariance, <1>1, PTL

-----------------------------------------------------------------------------
(***************************************************************************)
(* The parity decisions: each is what the hash of the day and the parity   *)
(* of the tower say, so two decisions of one day can be compared.          *)
(***************************************************************************)
ByParity(t) ==
  \A d \in decisions[t] :
     HasParity(t, d.batch) => d.skip = (Hash[d.day][d.batch] # ParityOf[t])

ParityInv == \A t \in Towers : ByParity(t)

LEMMA NextParityInv ==
  ASSUME IInv, ParityInv, [Next]_vars
  PROVE  ParityInv'
  <1> SUFFICES ASSUME NEW u \in Towers, NEW d \in decisions'[u],
                      HasParity(u, d.batch)
               PROVE  d.skip = (Hash[d.day][d.batch] # ParityOf[u])
    BY DEF ParityInv, ByParity, HasParity
  <1>1. CASE decisions' = decisions
    BY <1>1 DEF ParityInv, ByParity
  <1>2. ASSUME NEW t \in Towers, Decide(t)
        PROVE  d.skip = (Hash[d.day][d.batch] # ParityOf[u])
    <2>1. decisions' = [decisions EXCEPT ![t] = decisions[t] \cup
             {[batch |-> Batch(t), day |-> day, skip |-> ParitySkip(t, Batch(t))]}]
      BY <1>2 DEF Decide
    <2>2. decisions \in [Towers -> SUBSET DecisionType]
      BY DEF IInv, TypeOK, DecisionType
    <2>3. \/ d \in decisions[u]
          \/ u = t /\ d = [batch |-> Batch(t), day |-> day,
                           skip |-> ParitySkip(t, Batch(t))]
      BY <2>1, <2>2
    <2>4. CASE d \in decisions[u]
      BY <2>4 DEF ParityInv, ByParity
    <2>5. CASE u = t /\ d = [batch |-> Batch(t), day |-> day,
                             skip |-> ParitySkip(t, Batch(t))]
      <3>1. d.batch = Batch(t) /\ d.day = day /\ d.skip = ParitySkip(t, Batch(t))
        BY <2>5
      <3> QED BY <2>5, <3>1 DEF ParitySkip
    <2> QED BY <2>3, <2>4, <2>5
  <1>3. decisions' = decisions \/ \E t \in Towers : Decide(t)
    BY DEF Next, vars, history, Midnight, Publish, Progress, Failure, Connect, Read,
           Ack, Restart, Refuse, Send, CallOK, CallRejected, Taken, AckFails, Crash,
           FlattenRejected, CallRaises, TakenFails, OrderFrame
  <1> QED BY <1>1, <1>2, <1>3

\* Towers of opposite parity that handle a batch on the same day agree that
\* one of them executes it, on any restart, redelivery or late start.
THEOREM OneExecutesPerDay == Spec => []OneTowerPerDay
  <1>1. Init => ParityInv
    BY DEF Init, ParityInv, ByParity
  <1>2. IInv /\ ParityInv /\ [Next]_vars => ParityInv'
    BY NextParityInv
  <1>3. IInv /\ ParityInv => OneTowerPerDay
    <2> SUFFICES ASSUME IInv, ParityInv, NEW t \in Towers, NEW u \in Towers,
                        NEW d \in decisions[t], NEW e \in decisions[u],
                        d.batch = e.batch, d.batch \notin Exempt, d.day = e.day,
                        ParityOf[t] \in Parities, ParityOf[u] \in Parities
                 PROVE  d.skip = e.skip <=> ParityOf[t] = ParityOf[u]
      BY DEF OneTowerPerDay
    <2>1. /\ d.skip = (Hash[d.day][d.batch] # ParityOf[t])
          /\ e.skip = (Hash[d.day][d.batch] # ParityOf[u])
      BY DEF ParityInv, ByParity, HasParity
    <2>2. Hash[d.day][d.batch] \in Parities
      BY CommandAssumption DEF IInv, TypeOK
    <2> QED BY <2>1, <2>2 DEF Parities
  <1> QED BY <1>1, <1>2, <1>3, Invariance, PTL DEF Spec

-----------------------------------------------------------------------------
(***************************************************************************)
(* Where a batch is: a tower's stream and its pending list hold every      *)
(* published batch that was not routed to its end, and each of them once.  *)
(***************************************************************************)
LEMMA RangeOfTail ==
  ASSUME NEW S, NEW s \in Seq(S), s # <<>>
  PROVE  /\ Range(s) = {Head(s)} \cup Range(Tail(s))
         /\ IsInjective(s) => IsInjective(Tail(s)) /\ Head(s) \notin Range(Tail(s))
  <1>1. /\ Tail(s) \in Seq(S) /\ Len(s) \in Nat \ {0} /\ Len(Tail(s)) = Len(s) - 1
        /\ \A i \in 1..Len(Tail(s)) : Tail(s)[i] = s[i + 1]
        /\ Head(s) = s[1]
        /\ DOMAIN s = 1..Len(s) /\ DOMAIN Tail(s) = 1..Len(Tail(s))
    BY HeadTailProperties, EmptySeq, LenProperties
  <1>2. ASSUME NEW x PROVE x \in Range(s) <=> x = Head(s) \/ x \in Range(Tail(s))
    <2>1. ASSUME NEW i \in 1..Len(s), s[i] = x PROVE x = Head(s) \/ x \in Range(Tail(s))
      <3>1. CASE i = 1
        BY <1>1, <2>1, <3>1
      <3>2. CASE i # 1
        <4>1. i - 1 \in 1..Len(Tail(s)) /\ Tail(s)[i - 1] = s[i]
          BY <1>1, <3>2
        <4> QED BY <1>1, <2>1, <4>1 DEF Range
      <3> QED BY <3>1, <3>2
    <2>2. Head(s) \in Range(s)
      <3>1. 1 \in 1..Len(s)
        BY <1>1
      <3> QED BY <1>1, <3>1 DEF Range
    <2>3. ASSUME NEW i \in 1..Len(Tail(s)), Tail(s)[i] = x PROVE x \in Range(s)
      <3>1. i + 1 \in 1..Len(s) /\ s[i + 1] = x
        BY <1>1, <2>3
      <3> QED BY <1>1, <3>1 DEF Range
    <2>4. x \in Range(s) => \E i \in 1..Len(s) : s[i] = x
      BY <1>1 DEF Range
    <2>5. x \in Range(Tail(s)) => \E i \in 1..Len(Tail(s)) : Tail(s)[i] = x
      BY <1>1 DEF Range
    <2> QED BY <2>1, <2>2, <2>3, <2>4, <2>5
  <1>3. ASSUME IsInjective(s) PROVE IsInjective(Tail(s)) /\ Head(s) \notin Range(Tail(s))
    <2>1. \A i, j \in 1..Len(s) : s[i] = s[j] => i = j
      BY <1>1, <1>3 DEF IsInjective
    <2>2. \A i, j \in 1..Len(Tail(s)) : Tail(s)[i] = Tail(s)[j] => i = j
      <3> SUFFICES ASSUME NEW i \in 1..Len(Tail(s)), NEW j \in 1..Len(Tail(s)),
                          Tail(s)[i] = Tail(s)[j]
                   PROVE  i = j
        OBVIOUS
      <3>1. i + 1 \in 1..Len(s) /\ j + 1 \in 1..Len(s) /\ s[i + 1] = s[j + 1]
        BY <1>1
      <3>2. i + 1 = j + 1
        BY <2>1, <3>1
      <3> QED BY <3>2
    <2>3. \A i \in 1..Len(Tail(s)) : Tail(s)[i] # Head(s)
      <3> SUFFICES ASSUME NEW i \in 1..Len(Tail(s)), Tail(s)[i] = Head(s) PROVE FALSE
        OBVIOUS
      <3>1. i + 1 \in 1..Len(s) /\ 1 \in 1..Len(s) /\ s[i + 1] = s[1]
        BY <1>1
      <3>2. i + 1 = 1
        BY <2>1, <3>1
      <3> QED BY <3>2
    <2> QED BY <1>1, <2>2, <2>3 DEF Range, IsInjective
  <1> QED BY <1>2, <1>3

LEMMA RangeOfAppend ==
  ASSUME NEW S, NEW s \in Seq(S), NEW b \in S
  PROVE  /\ Range(Append(s, b)) = Range(s) \cup {b}
         /\ IsInjective(s) /\ b \notin Range(s) => IsInjective(Append(s, b))
  <1>1. /\ Append(s, b) \in Seq(S) /\ Len(s) \in Nat /\ Len(Append(s, b)) = Len(s) + 1
        /\ \A i \in 1..Len(s) : Append(s, b)[i] = s[i]
        /\ Append(s, b)[Len(s) + 1] = b
        /\ DOMAIN s = 1..Len(s) /\ DOMAIN Append(s, b) = 1..(Len(s) + 1)
    BY AppendProperties, LenProperties
  <1>2. 1..(Len(s) + 1) = 1..Len(s) \cup {Len(s) + 1} /\ Len(s) + 1 \notin 1..Len(s)
    BY <1>1
  <1>3. ASSUME NEW x PROVE x \in Range(Append(s, b)) <=> x \in Range(s) \/ x = b
    <2>1. x \in Range(Append(s, b)) <=> \E i \in 1..(Len(s) + 1) : Append(s, b)[i] = x
      BY <1>1 DEF Range
    <2>2. x \in Range(s) <=> \E i \in 1..Len(s) : s[i] = x
      BY <1>1 DEF Range
    <2> QED BY <1>1, <1>2, <2>1, <2>2
  <1>4. ASSUME IsInjective(s), b \notin Range(s) PROVE IsInjective(Append(s, b))
    <2>1. \A i, j \in 1..Len(s) : s[i] = s[j] => i = j
      BY <1>1, <1>4 DEF IsInjective
    <2>2. \A i \in 1..Len(s) : s[i] # b
      BY <1>1, <1>4 DEF Range
    <2>3. \A i, j \in 1..(Len(s) + 1) : Append(s, b)[i] = Append(s, b)[j] => i = j
      BY <1>1, <1>2, <2>1, <2>2
    <2> QED BY <1>1, <2>3 DEF IsInjective
  <1> QED BY <1>3, <1>4

\* A read takes the first batches and leaves the others.
LEMMA RangeOfSplit ==
  ASSUME NEW s \in Seq(Batches), NEW n \in Nat, n <= Len(s), IsInjective(s)
  PROVE  /\ Range(s) = Range(SubSeq(s, 1, n)) \cup Range(SubSeq(s, n + 1, Len(s)))
         /\ Range(SubSeq(s, 1, n)) \cap Range(SubSeq(s, n + 1, Len(s))) = {}
         /\ IsInjective(SubSeq(s, 1, n)) /\ IsInjective(SubSeq(s, n + 1, Len(s)))
  <1> DEFINE f == SubSeq(s, 1, n)
             r == SubSeq(s, n + 1, Len(s))
  <1>0. /\ Len(s) \in Nat /\ DOMAIN s = 1..Len(s)
        /\ \A i \in 1..Len(s) : s[i] \in Batches
    BY LenProperties, ElementOfSeq
  <1>1. /\ f \in Seq(Batches) /\ Len(f) = n /\ DOMAIN f = 1..n
        /\ \A i \in 1..n : f[i] = s[i]
    <2>1. \A i \in 1..n : s[i] \in Batches
      BY <1>0
    <2>2. f \in Seq(Batches) /\ Len(f) = n
      BY FirstTyped
    <2>3. \A i \in 1..n : f[i] = s[1 + i - 1]
      BY <1>0, <2>1, SubSeqProperties
    <2>4. DOMAIN f = 1..n
      BY <2>2, LenProperties
    <2> QED BY <2>2, <2>3, <2>4
  <1>2. /\ r \in Seq(Batches) /\ Len(r) = Len(s) - n /\ DOMAIN r = 1..(Len(s) - n)
        /\ \A i \in 1..(Len(s) - n) : r[i] = s[n + i]
    <2>1. \A i \in (n + 1)..Len(s) : s[i] \in Batches
      BY <1>0
    <2>2. /\ r \in Seq(Batches)
          /\ Len(r) = IF n + 1 <= Len(s) THEN Len(s) - (n + 1) + 1 ELSE 0
          /\ \A i \in 1..(Len(s) - (n + 1) + 1) : r[i] = s[n + 1 + i - 1]
      BY <1>0, <2>1, SubSeqProperties
    <2>3. DOMAIN r = 1..Len(r)
      BY <2>2, LenProperties
    <2>4. Len(r) = Len(s) - n
      <3>1. /\ Len(r) = IF n + 1 <= Len(s) THEN Len(s) - (n + 1) + 1 ELSE 0
            /\ Len(s) \in Nat
        BY <1>0, <2>2
      <3> HIDE DEF r
      <3> QED BY <3>1
    <2>5. \A i \in 1..(Len(s) - n) : r[i] = s[n + i]
      BY <1>0, <2>2
    <2> QED BY <2>2, <2>3, <2>4, <2>5
  <1> HIDE DEF f, r
  <1>3. \A i, j \in 1..Len(s) : s[i] = s[j] => i = j
    BY <1>0 DEF IsInjective
  <1>4. \A x : x \in Range(s) <=> \E i \in 1..Len(s) : s[i] = x
    BY <1>0 DEF Range
  <1>5. \A x : x \in Range(f) <=> \E i \in 1..n : s[i] = x
    BY <1>1 DEF Range
  <1>6. ASSUME NEW x PROVE x \in Range(r) <=> \E i \in (n + 1)..Len(s) : s[i] = x
    <2>1. x \in Range(r) <=> \E i \in 1..(Len(s) - n) : r[i] = x
      BY <1>2 DEF Range
    <2>2. ASSUME NEW i \in (n + 1)..Len(s), s[i] = x
          PROVE  \E j \in 1..(Len(s) - n) : r[j] = x
      <3>1. i - n \in 1..(Len(s) - n) /\ r[i - n] = s[n + (i - n)] /\ n + (i - n) = i
        BY <1>0, <1>2
      <3> QED BY <2>2, <3>1
    <2>3. ASSUME NEW i \in 1..(Len(s) - n), r[i] = x
          PROVE  \E j \in (n + 1)..Len(s) : s[j] = x
      <3>1. n + i \in (n + 1)..Len(s) /\ s[n + i] = x
        BY <1>0, <1>2, <2>3
      <3> QED BY <3>1
    <2> QED BY <2>1, <2>2, <2>3
  <1>7. Range(s) = Range(f) \cup Range(r)
    <2>1. 1..Len(s) = 1..n \cup (n + 1)..Len(s)
      BY <1>0
    <2> QED BY <1>4, <1>5, <1>6, <2>1
  <1>8. Range(f) \cap Range(r) = {}
    <2> SUFFICES ASSUME NEW x \in Range(f), x \in Range(r) PROVE FALSE
      OBVIOUS
    <2>1. PICK i \in 1..n : s[i] = x
      BY <1>5
    <2>2. PICK j \in (n + 1)..Len(s) : s[j] = x
      BY <1>6
    <2>3. i \in 1..Len(s) /\ j \in 1..Len(s) /\ i # j
      BY <1>0
    <2> QED BY <1>3, <2>1, <2>2, <2>3
  <1>9. IsInjective(f)
    <2>1. \A i, j \in 1..n : f[i] = f[j] => i = j
      BY <1>0, <1>1, <1>3
    <2> QED BY <1>1, <2>1 DEF IsInjective
  <1>10. IsInjective(r)
    <2>1. \A i, j \in 1..(Len(s) - n) : r[i] = r[j] => i = j
      <3> SUFFICES ASSUME NEW i \in 1..(Len(s) - n), NEW j \in 1..(Len(s) - n), r[i] = r[j]
                   PROVE  i = j
        OBVIOUS
      <3>1. n + i \in 1..Len(s) /\ n + j \in 1..Len(s) /\ s[n + i] = s[n + j]
        BY <1>0, <1>2
      <3>2. n + i = n + j
        BY <1>3, <3>1
      <3> QED BY <3>2
    <2> QED BY <1>2, <2>1 DEF IsInjective
  <1> QED BY <1>7, <1>8, <1>9, <1>10 DEF f, r

Delivered(t) ==
  /\ IsInjective(stream[t]) /\ IsInjective(pel[t])
  /\ Range(stream[t]) \cap Range(pel[t]) = {}
  /\ Range(stream[t]) \cup Range(pel[t]) \subseteq published[t]
  /\ published[t] \subseteq Range(stream[t]) \cup Range(pel[t]) \cup routed[t]

Deliveries == \A t \in Towers : Delivered(t)

\* What a step does to a tower's streams.
Announces(t) ==
  \E b \in Batches \ published[t] :
    /\ published'[t] = published[t] \cup {b} /\ stream'[t] = Append(stream[t], b)
    /\ pel'[t] = pel[t] /\ routed'[t] = routed[t]
Delivers(t) ==
  \E n \in Nat :
    /\ n <= Len(stream[t]) /\ n > 0 /\ pel[t] = <<>>
    /\ stream'[t] = SubSeq(stream[t], n + 1, Len(stream[t]))
    /\ pel'[t] = SubSeq(stream[t], 1, n)
    /\ published'[t] = published[t] /\ routed'[t] = routed[t]
Settles(t) ==
  /\ pel[t] # <<>> /\ routed'[t] = routed[t] \cup {Head(pel[t])}
  /\ pel'[t] = pel[t] \/ pel'[t] = Tail(pel[t])
  /\ published'[t] = published[t] /\ stream'[t] = stream[t]
Stays(t) ==
  /\ published'[t] = published[t] /\ stream'[t] = stream[t]
  /\ pel'[t] = pel[t] /\ routed'[t] = routed[t]

LEMMA DeliveryStep ==
  ASSUME TypeOK, NEW t \in Towers, Delivered(t),
         Announces(t) \/ Delivers(t) \/ Settles(t) \/ Stays(t)
  PROVE  Delivered(t)'
  <1>1. stream[t] \in Seq(Batches) /\ pel[t] \in Seq(Batches)
    BY DEF TypeOK
  <1>2. CASE Announces(t)
    <2>1. PICK b \in Batches \ published[t] :
            /\ published'[t] = published[t] \cup {b} /\ stream'[t] = Append(stream[t], b)
            /\ pel'[t] = pel[t] /\ routed'[t] = routed[t]
      BY <1>2 DEF Announces
    <2>2. b \notin Range(stream[t]) /\ b \notin Range(pel[t])
      BY DEF Delivered
    <2>3. IsInjective(stream'[t]) /\ Range(stream'[t]) = Range(stream[t]) \cup {b}
      BY <1>1, <2>1, <2>2, RangeOfAppend DEF Delivered
    <2> QED BY <2>1, <2>2, <2>3 DEF Delivered
  <1>3. CASE Delivers(t)
    <2>1. PICK n \in Nat :
            /\ n <= Len(stream[t]) /\ pel[t] = <<>>
            /\ stream'[t] = SubSeq(stream[t], n + 1, Len(stream[t]))
            /\ pel'[t] = SubSeq(stream[t], 1, n)
            /\ published'[t] = published[t] /\ routed'[t] = routed[t]
      BY <1>3 DEF Delivers
    <2>2. /\ Range(stream[t]) = Range(pel'[t]) \cup Range(stream'[t])
          /\ Range(pel'[t]) \cap Range(stream'[t]) = {}
          /\ IsInjective(pel'[t]) /\ IsInjective(stream'[t])
      BY <1>1, <2>1, RangeOfSplit DEF Delivered
    <2>3. Range(pel[t]) = {}
      BY <2>1 DEF Range
    <2> QED BY <2>1, <2>2, <2>3 DEF Delivered
  <1>4. CASE Settles(t)
    <2>1. /\ Range(pel[t]) = {Head(pel[t])} \cup Range(Tail(pel[t]))
          /\ IsInjective(Tail(pel[t]))
      BY <1>1, <1>4, RangeOfTail DEF Settles, Delivered
    <2> QED BY <1>4, <2>1 DEF Settles, Delivered
  <1>5. CASE Stays(t)
    BY <1>5 DEF Stays, Delivered
  <1> QED BY <1>2, <1>3, <1>4, <1>5

LEMMA PublishStreams ==
  ASSUME TypeOK, NEW t \in Towers, NEW b \in Batches, Publish(t, b), NEW u \in Towers
  PROVE  Announces(u) \/ Stays(u)
  <1>1. CASE u = t
    BY <1>1 DEF Publish, Announces, TypeOK, history
  <1>2. CASE u # t
    BY <1>2 DEF Publish, Stays, TypeOK, history
  <1> QED BY <1>1, <1>2

\* Every step is one of these for every tower.
LEMMA StreamSteps ==
  ASSUME IInv, [Next]_vars, NEW u \in Towers
  PROVE  Announces(u) \/ Delivers(u) \/ Settles(u) \/ Stays(u)
  <1>0. TypeOK
    BY DEF IInv
  <1>1. CASE UNCHANGED <<published, stream, pel, routed>>
    BY <1>1 DEF Stays
  <1>2. ASSUME NEW t \in Towers, NEW b \in Batches, Publish(t, b)
        PROVE  Announces(u) \/ Stays(u)
    BY <1>0, <1>2, PublishStreams
  <1>3. ASSUME NEW t \in Towers, Read(t) PROVE Delivers(u) \/ Stays(u)
    <2> DEFINE n == IF Len(stream[t]) < ReadCount THEN Len(stream[t]) ELSE ReadCount
    <2>1. /\ stream' = [stream EXCEPT ![t] = SubSeq(stream[t], n + 1, Len(stream[t]))]
          /\ pel' = [pel EXCEPT ![t] = pel[t] \o SubSeq(stream[t], 1, n)]
          /\ published' = published /\ routed' = routed
          /\ mem[t].at = "read" /\ stream[t] # <<>>
      BY <1>3 DEF Read, At, history
    <2>2. pel[t] = <<>>
      BY <2>1 DEF IInv, InHand
    <2>3. stream[t] \in Seq(Batches) /\ Len(stream[t]) \in Nat \ {0}
      BY <1>0, <2>1, EmptySeq, LenProperties DEF TypeOK
    <2>4. n \in Nat /\ n <= Len(stream[t]) /\ n > 0
      BY <2>3, CommandAssumption
    <2> HIDE DEF n
    <2>5. SubSeq(stream[t], 1, n) \in Seq(Batches)
      BY <2>3, <2>4, FirstTyped
    <2>6. pel[t] \o SubSeq(stream[t], 1, n) = SubSeq(stream[t], 1, n)
      BY <2>2, <2>5, ConcatEmptySeq
    <2>7. CASE u = t
      BY <1>0, <2>1, <2>2, <2>4, <2>6, <2>7 DEF Delivers, TypeOK
    <2>8. CASE u # t
      BY <1>0, <2>1, <2>8 DEF Stays, TypeOK
    <2> QED BY <2>7, <2>8
  <1>4. ASSUME NEW t \in Towers, Ack(t) \/ AckFails(t) PROVE Settles(u) \/ Stays(u)
    <2>1. /\ routed' = [routed EXCEPT ![t] = @ \cup {Batch(t)}]
          /\ pel' \in {pel, [pel EXCEPT ![t] = Tail(pel[t])]}
          /\ published' = published /\ stream' = stream
          /\ mem[t].at = "order"
      BY <1>4 DEF Ack, AckFails, At
    <2>2. pel[t] # <<>> /\ Batch(t) = Head(pel[t])
      BY <2>1 DEF IInv, InHand, Batch
    <2>3. CASE u = t
      BY <1>0, <2>1, <2>2, <2>3 DEF Settles, TypeOK
    <2>4. CASE u # t
      BY <1>0, <2>1, <2>4 DEF Stays, TypeOK
    <2> QED BY <2>3, <2>4
  <1>5. \/ UNCHANGED <<published, stream, pel, routed>>
        \/ \E t \in Towers, b \in Batches : Publish(t, b)
        \/ \E t \in Towers : Read(t) \/ Ack(t) \/ AckFails(t)
    BY DEF Next, vars, durable, history, Midnight, Progress, Failure, Connect,
           Decide, Restart, Refuse, Send, CallOK, CallRejected, Taken, Crash,
           FlattenRejected, CallRaises, TakenFails, OrderFrame
  <1> QED BY <1>1, <1>2, <1>3, <1>4, <1>5

LEMMA DeliveryInvariance == Spec => [](IInv /\ Deliveries)
  <1>1. Init => Deliveries
    BY DEF Init, Deliveries, Delivered, Range, IsInjective
  <1>2. IInv /\ Deliveries /\ [Next]_vars => Deliveries'
    <2> SUFFICES ASSUME IInv, Deliveries, [Next]_vars, NEW u \in Towers
                 PROVE  Delivered(u)'
      BY DEF Deliveries
    <2> QED BY StreamSteps, DeliveryStep DEF Deliveries, IInv
  <1> QED BY <1>1, <1>2, Invariance, PTL DEF Spec

\* A published batch is waiting, pending or routed to its end, whatever
\* crashes and whatever XACK does.
THEOREM NothingIsLost == Spec => []NoSignalLost
  <1>1. Deliveries => NoSignalLost
    BY DEF Deliveries, Delivered, NoSignalLost
  <1> QED BY DeliveryInvariance, <1>1, PTL

-----------------------------------------------------------------------------
(***************************************************************************)
(* How often an order is sent.  An order is fresh while its batch is not   *)
(* decided yet, or it is in the reader's list and its entry has not been   *)
(* sent since the reader last started.  A fresh order may open a position  *)
(* once more without any fault, the others may not; and only a restart of  *)
(* the reader makes an order fresh again.                                  *)
(***************************************************************************)
Handling(t) == mem[t].at \in Calls \cup {"order", "placed"}
Undecided(t) ==
  (Batches \ published[t]) \cup Range(stream[t])
     \cup Range(IF Handling(t) THEN Tail(pel[t]) ELSE pel[t])
Unsent(t) ==
  IF ~Handling(t) THEN {}
  ELSE IF mem[t].at \in {"order", "bracket", "entry"} THEN Range(mem[t].orders)
  ELSE Range(Tail(mem[t].orders))
Fresh(t, o) ==
  o \in Unsent(t) \/ \E b \in Undecided(t) : o \in Range(OrdersOf[t][b])

Restarts == faults["crash"] + faults["reread"]

OrderList(t) ==
  Handling(t) => /\ IsInjective(mem[t].orders)
                 /\ Range(mem[t].orders) \subseteq Range(OrdersOf[t][Batch(t)])
Sent(t, o) ==
  /\ Opened(t, o) <= 1 + Restarts
  /\ Fresh(t, o) => Opened(t, o) <= Restarts

Entries == \A t \in Towers : OrderList(t) /\ \A o \in Orders : Sent(t, o)

LEMMA RestartsGrow ==
  ASSUME TypeOK, [Next]_vars
  PROVE  /\ Restarts \in Nat /\ Restarts' \in Nat /\ Restarts' >= Restarts
         /\ \A t \in Towers : Crash(t) \/ AckFails(t) => Restarts' = Restarts + 1
  <1>1. /\ faults \in [Kinds -> Nat] /\ faults["crash"] \in Nat /\ faults["reread"] \in Nat
        /\ Kinds = {"crash", "reread", "redis", "broker"}
    BY DEF TypeOK, Kinds
  <1>2. ASSUME NEW kind \in Kinds, Fault(kind)
        PROVE  Restarts' = IF kind \in {"crash", "reread"} THEN Restarts + 1 ELSE Restarts
    <2>1. faults' = [faults EXCEPT ![kind] = faults[kind] + 1]
      BY <1>2 DEF Fault
    <2>2. /\ faults'["crash"] = IF kind = "crash" THEN faults["crash"] + 1 ELSE faults["crash"]
          /\ faults'["reread"] = IF kind = "reread" THEN faults["reread"] + 1 ELSE faults["reread"]
      BY <1>1, <2>1
    <2> QED BY <1>1, <2>2 DEF Restarts
  <1>3. faults' = faults \/ \E kind \in Kinds : Fault(kind)
    BY KindsAre DEF Next, vars, Midnight, Publish, Progress, Failure, Connect, Read, Decide,
       SelfCheck, Ack, Restart, Refuse, Send, CallOK, CallRejected, Taken, AckFails,
       Crash, FlattenRejected, CallRaises, TakenFails
  <1>4. faults' = faults => Restarts' = Restarts
    BY DEF Restarts
  <1>5. ASSUME NEW t \in Towers, Crash(t) \/ AckFails(t) PROVE Restarts' = Restarts + 1
    BY <1>1, <1>2, <1>5 DEF Crash, AckFails
  <1> QED BY <1>1, <1>2, <1>3, <1>4, <1>5 DEF Restarts

\* The three ways in which a step treats an order.
Keeps(t, o) == Opened(t, o)' = Opened(t, o) /\ (Fresh(t, o)' => Fresh(t, o))
Renews(t, o) == Opened(t, o)' = Opened(t, o) /\ Restarts' > Restarts
Sends(t, o) == Opened(t, o)' = Opened(t, o) + 1 /\ Fresh(t, o) /\ ~Fresh(t, o)'

LEMMA SentStep ==
  ASSUME TypeOK, [Next]_vars, NEW t \in Towers, NEW o \in Orders, Sent(t, o),
         Keeps(t, o) \/ Renews(t, o) \/ Sends(t, o)
  PROVE  Sent(t, o)'
  <1>1. broker[t][o] \in PositionType
    BY DEF TypeOK, PositionType
  <1>2. Opened(t, o) \in Nat
    BY <1>1 DEF Opened, PositionType
  <1>3. Restarts \in Nat /\ Restarts' \in Nat /\ Restarts' >= Restarts
    BY RestartsGrow
  <1> HIDE DEF Restarts, Opened, Fresh
  <1> QED BY <1>2, <1>3 DEF Sent, Keeps, Renews, Sends

\* An order that has been taken out of the list of its batch is in no other.
LEMMA Once ==
  ASSUME IInv, NEW t \in Towers, Delivered(t), OrderList(t), Handling(t)
  PROVE  /\ Batch(t) \in Batches /\ Batch(t) \notin Undecided(t)
         /\ \A o \in Range(mem[t].orders), b \in Undecided(t) :
                o \notin Range(OrdersOf[t][b])
  <1>1. /\ TypeOK /\ pel[t] \in Seq(Batches) /\ pel[t] # <<>> /\ pel[t] = mem[t].todo
        /\ stream[t] \in Seq(Batches)
    BY DEF IInv, InHand, TypeOK, Handling, Calls
  <1>2. /\ Batch(t) = Head(pel[t]) /\ Head(pel[t]) \in Batches
        /\ Tail(pel[t]) \in Seq(Batches)
    BY <1>1, HeadTailProperties DEF Batch
  <1>3. /\ Range(pel[t]) = {Batch(t)} \cup Range(Tail(pel[t]))
        /\ Batch(t) \notin Range(Tail(pel[t]))
    BY <1>1, <1>2, RangeOfTail DEF Delivered
  <1>4. Batch(t) \notin Undecided(t)
    BY <1>3 DEF Undecided, Delivered
  <1>5. Undecided(t) \subseteq Batches
    <2>1. Range(stream[t]) \subseteq Batches /\ Range(Tail(pel[t])) \subseteq Batches
      BY <1>1, <1>2, LenProperties, ElementOfSeq DEF Range
    <2> QED BY <2>1 DEF Undecided
  <1>6. ASSUME NEW o \in Range(mem[t].orders), NEW b \in Undecided(t)
        PROVE  o \notin Range(OrdersOf[t][b])
    <2>1. o \in Range(OrdersOf[t][Batch(t)])
      BY DEF OrderList
    <2>2. b \in Batches \ {Batch(t)}
      BY <1>4, <1>5
    <2>3. Range(OrdersOf[t][Batch(t)]) \cap Range(OrdersOf[t][b]) = {}
      BY <1>2, <2>2, OrdersAssumption
    <2> QED BY <2>1, <2>3
  <1> QED BY <1>2, <1>4, <1>6

\* What a step has done to an order, from what became of the lists.
LEMMA FreshSets ==
  ASSUME NEW t \in Towers, NEW o,
         Undecided(t)' \subseteq Undecided(t),
         o \in Unsent(t)' => Fresh(t, o)
  PROVE  Fresh(t, o)' => Fresh(t, o)
  BY DEF Fresh

\* A tower whose reader stands still: another tower's step, or a publication.
LEMMA StillKeeps ==
  ASSUME TypeOK, NEW t \in Towers, OrderList(t), Delivered(t),
         mem'[t] = mem[t], broker'[t] = broker[t], Stays(t) \/ Announces(t)
  PROVE  OrderList(t)' /\ \A o \in Orders : Keeps(t, o)
  <1>1. stream[t] \in Seq(Batches)
    BY DEF TypeOK
  <1>2. Undecided(t)' \subseteq Undecided(t)
    <2>1. pel'[t] = pel[t] /\ Handling(t)' = Handling(t)
      BY DEF Stays, Announces, Handling
    <2>2. CASE Stays(t)
      BY <2>1, <2>2 DEF Stays, Undecided
    <2>3. CASE Announces(t)
      <3>1. PICK b \in Batches \ published[t] :
              published'[t] = published[t] \cup {b} /\ stream'[t] = Append(stream[t], b)
        BY <2>3 DEF Announces
      <3>2. Range(stream'[t]) = Range(stream[t]) \cup {b}
        BY <1>1, <3>1, RangeOfAppend
      <3> QED BY <2>1, <3>1, <3>2 DEF Undecided
    <2> QED BY <2>2, <2>3
  <1>3. Unsent(t)' = Unsent(t) /\ OrderList(t)'
    BY DEF Unsent, Handling, OrderList, Batch
  <1>4. \A o \in Orders : Opened(t, o)' = Opened(t, o)
    BY DEF Opened
  <1>5. ASSUME NEW o \in Orders PROVE Fresh(t, o)' => Fresh(t, o)
    <2>1. o \in Unsent(t)' => Fresh(t, o)
      BY <1>3 DEF Fresh
    <2> QED BY <1>2, <2>1, FreshSets
  <1> QED BY <1>3, <1>4, <1>5 DEF Keeps

\* The reader between two batches.
LEMMA BatchKeeps ==
  ASSUME IInv, IInv', [Next]_vars, Deliveries, NEW t \in Towers, OrderList(t),
         \/ Connect(t) \/ Restart(t) \/ Read(t) \/ Ack(t) \/ Decide(t)
         \/ AckFails(t) \/ Crash(t)
  PROVE  OrderList(t)' /\ \A o \in Orders : Keeps(t, o) \/ Renews(t, o)
  <1>0. /\ TypeOK /\ Delivered(t) /\ stream[t] \in Seq(Batches) /\ pel[t] \in Seq(Batches)
        /\ mem[t] \in MemType
    BY DEF IInv, TypeOK, Deliveries, MemType
  <1>1. \A o \in Orders : Opened(t, o)' = Opened(t, o)
    <2>1. broker' = broker
      BY DEF Connect, Restart, Read, Ack, Decide, AckFails, Crash, effects
    <2> QED BY <2>1 DEF Opened
  <1>2. CASE AckFails(t) \/ Crash(t)
    <2>1. mem'[t].at \in {"connect", "down"}
      <3>1. PICK place \in {"connect", "down"} : mem' = [mem EXCEPT ![t] = Idle(place)]
        BY <1>2 DEF AckFails, Crash
      <3>2. Idle(place).at = place
        BY DEF Idle
      <3> QED BY <1>0, <3>1, <3>2, SetMem
    <2>2. OrderList(t)'
      BY <2>1 DEF OrderList, Handling, Calls
    <2>3. Restarts \in Nat /\ Restarts' = Restarts + 1
      BY <1>0, <1>2, RestartsGrow
    <2>4. Restarts' > Restarts
      BY <2>3
    <2> QED BY <1>1, <2>2, <2>4 DEF Renews
  <1>3. CASE Connect(t) \/ Restart(t) \/ Read(t)
    <2>1. /\ ~Handling(t)' /\ ~Handling(t)
      <3>1. CASE Connect(t)
        <4>1. mem'[t].at \in {"read", "batch"}
          BY <1>0, <3>1, HandMem DEF Connect
        <4> QED BY <3>1, <4>1 DEF Connect, At, Handling, Calls
      <3>2. CASE Restart(t)
        <4>1. mem'[t].at = "connect"
          BY <1>0, <3>2, GotoMem DEF Restart
        <4> QED BY <3>2, <4>1 DEF Restart, At, Handling, Calls
      <3>3. CASE Read(t)
        <4>1. mem'[t].at = "batch"
          BY <1>0, <3>3, HandMem DEF Read
        <4> QED BY <3>3, <4>1 DEF Read, At, Handling, Calls
      <3> QED BY <1>3, <3>1, <3>2, <3>3
    <2>2. OrderList(t)' /\ Unsent(t)' = {}
      BY <2>1 DEF OrderList, Unsent
    <2>3. Undecided(t)' \subseteq Undecided(t)
      <3>1. CASE Connect(t) \/ Restart(t)
        BY <2>1, <3>1 DEF Undecided, Connect, Restart, durable
      <3>2. CASE Read(t)
        <4>1. Delivers(t) \/ Announces(t) \/ Settles(t) \/ Stays(t)
          BY StreamSteps
        <4>2. pel[t] = <<>> /\ stream[t] # <<>> /\ published' = published
          BY <1>0, <3>2 DEF Read, At, IInv, InHand
        <4>3. CASE Stays(t) \/ Settles(t) \/ Announces(t)
          <5>1. pel[t] = <<>> => ~Settles(t)
            BY DEF Settles
          <5>2. ~Announces(t)
            BY <4>2 DEF Announces
          <5> QED BY <2>1, <4>2, <4>3, <5>1, <5>2 DEF Stays, Undecided
        <4>4. CASE Delivers(t)
          <5>1. PICK n \in Nat :
                  /\ n <= Len(stream[t])
                  /\ stream'[t] = SubSeq(stream[t], n + 1, Len(stream[t]))
                  /\ pel'[t] = SubSeq(stream[t], 1, n)
            BY <4>4 DEF Delivers
          <5>2. Range(stream[t]) = Range(pel'[t]) \cup Range(stream'[t])
            BY <1>0, <5>1, RangeOfSplit DEF Delivered
          <5> QED BY <2>1, <4>2, <5>2 DEF Undecided
        <4> QED BY <4>1, <4>3, <4>4
      <3> QED BY <1>3, <3>1, <3>2
    <2> QED BY <1>1, <2>2, <2>3, FreshSets DEF Keeps
  <1>4. CASE Ack(t)
    <2>1. mem'[t].at \in {"read", "batch"} /\ Handling(t)
      BY <1>0, <1>4, HandMem DEF Ack, NextBatch, At, Handling
    <2>2. ~Handling(t)'
      BY <2>1 DEF Handling, Calls
    <2>3. OrderList(t)' /\ Unsent(t)' = {}
      BY <2>2 DEF OrderList, Unsent
    <2>4. pel'[t] = Tail(pel[t]) /\ published' = published /\ stream' = stream
      BY <1>0, <1>4 DEF Ack, TypeOK
    <2>5. Undecided(t)' \subseteq Undecided(t)
      BY <2>1, <2>2, <2>4 DEF Undecided
    <2> QED BY <1>1, <2>3, <2>5, FreshSets DEF Keeps
  <1>5. CASE Decide(t)
    <2> DEFINE b == Batch(t)
               list == IF ParitySkip(t, b) THEN <<>> ELSE OrdersOf[t][b]
    <2>1. mem' = [mem EXCEPT ![t] = [at |-> "order", todo |-> mem[t].todo, orders |-> list]]
      BY <1>5 DEF Decide
    <2>2. mem[t].at = "batch" /\ pel[t] = mem[t].todo /\ pel[t] # <<>>
      BY <1>5 DEF Decide, At, IInv, InHand
    <2>3. b = Head(pel[t]) /\ b \in Batches /\ Range(pel[t]) = {b} \cup Range(Tail(pel[t]))
      BY <1>0, <2>2, HeadTailProperties, RangeOfTail DEF Batch
    <2> HIDE DEF b
    <2>4. IsInjective(list) /\ Range(list) \subseteq Range(OrdersOf[t][b])
      <3>1. IsInjective(OrdersOf[t][b])
        BY <2>3, OrdersAssumption
      <3>2. IsInjective(<<>>) /\ Range(<<>>) = {}
        BY DEF IsInjective, Range
      <3> QED BY <3>1, <3>2
    <2> HIDE DEF list
    <2>5. mem'[t] = [at |-> "order", todo |-> mem[t].todo, orders |-> list]
      BY <1>0, <2>1, SetMem
    <2>6. /\ mem'[t].at = "order" /\ mem'[t].orders = list /\ Batch(t)' = b
      BY <2>2, <2>3, <2>5 DEF Batch
    <2>7. Handling(t)' /\ ~Handling(t)
      BY <2>2, <2>6 DEF Handling, Calls
    <2>8. OrderList(t)' /\ Unsent(t)' = Range(list)
      BY <2>4, <2>6, <2>7 DEF OrderList, Unsent
    <2>9. UNCHANGED <<published, stream, pel>>
      BY <1>5 DEF Decide
    <2>10. Undecided(t)' \subseteq Undecided(t) /\ b \in Undecided(t)
      BY <2>3, <2>7, <2>9 DEF Undecided
    <2>11. \A o \in Orders : o \in Unsent(t)' => Fresh(t, o)
      BY <2>4, <2>8, <2>10 DEF Fresh
    <2> QED BY <1>1, <2>8, <2>10, <2>11, FreshSets DEF Keeps
  <1> QED BY <1>2, <1>3, <1>4, <1>5

\* A step of an order leaves the batches alone and takes no order into the list.
LEMMA OrderKeeps ==
  ASSUME IInv, Deliveries, NEW t \in Towers, OrderList(t),
         mem[t].at \in Calls \cup {"order", "placed"}, mem[t].orders # <<>>,
         NEW o \in Orders, o = Order(t),
         UNCHANGED <<published, stream, pel>>,
         \/ NextOrder(t)
         \/ \E place \in Calls \cup {"placed"} :
               /\ Goto(t, place)
               /\ place \in {"bracket", "entry"} => mem[t].at \in {"order", "bracket", "entry"}
  PROVE  /\ OrderList(t)'
         /\ \A q \in Orders : Fresh(t, q)' => Fresh(t, q)
         /\ mem'[t].at \notin {"bracket", "entry"} => ~Fresh(t, o)'
         /\ mem[t].at \in {"bracket", "entry"} => Fresh(t, o)
  <1>0. /\ TypeOK /\ mem[t] \in MemType /\ Delivered(t) /\ Handling(t)
        /\ mem[t].orders \in Seq(Orders)
    BY DEF IInv, TypeOK, MemType, Deliveries, Handling
  <1>1. /\ Order(t) = Head(mem[t].orders)
        /\ Range(mem[t].orders) = {Order(t)} \cup Range(Tail(mem[t].orders))
        /\ IsInjective(Tail(mem[t].orders)) /\ Order(t) \notin Range(Tail(mem[t].orders))
    BY <1>0, RangeOfTail DEF Order, OrderList
  <1>2. /\ mem'[t].at \in Calls \cup {"order", "placed"} /\ mem'[t].todo = mem[t].todo
        /\ \/ mem'[t].at = "order" /\ mem'[t].orders = Tail(mem[t].orders)
           \/ /\ mem'[t].at # "order" /\ mem'[t].orders = mem[t].orders
              /\ mem'[t].at \in {"bracket", "entry"}
                   => mem[t].at \in {"order", "bracket", "entry"}
    <2>1. CASE NextOrder(t)
      <3> DEFINE q == [at |-> "order", todo |-> mem[t].todo, orders |-> Tail(mem[t].orders)]
      <3>1. mem' = [mem EXCEPT ![t] = q]
        BY <2>1 DEF NextOrder
      <3>2. mem'[t] = q
        BY <1>0, <3>1, SetMem
      <3> QED BY <3>2
    <2>2. ASSUME NEW place \in Calls \cup {"placed"}, Goto(t, place),
                 place \in {"bracket", "entry"} => mem[t].at \in {"order", "bracket", "entry"}
          PROVE  /\ mem'[t].at = place /\ mem'[t].orders = mem[t].orders
                 /\ mem'[t].todo = mem[t].todo
      <3> DEFINE q == [mem[t] EXCEPT !.at = place]
      <3>1. mem' = [mem EXCEPT ![t] = q]
        BY <2>2 DEF Goto
      <3>2. mem'[t] = q
        BY <1>0, <3>1, SetMem
      <3> QED BY <1>0, <3>2 DEF MemType
    <2> QED BY <2>1, <2>2 DEF Calls
  <1>3. Handling(t)' /\ Batch(t)' = Batch(t)
    BY <1>2 DEF Handling, Batch
  <1>4. Undecided(t)' = Undecided(t)
    BY <1>0, <1>3 DEF Undecided
  <1>5. OrderList(t)'
    BY <1>0, <1>1, <1>2, <1>3 DEF OrderList
  <1>6. \/ Unsent(t)' = Range(Tail(mem[t].orders))
        \/ /\ mem'[t].at \in {"bracket", "entry"} /\ mem[t].at \in {"order", "bracket", "entry"}
           /\ Unsent(t)' = Range(mem[t].orders)
    BY <1>2, <1>3 DEF Unsent
  <1>7. /\ Range(Tail(mem[t].orders)) \subseteq Unsent(t)
        /\ mem[t].at \in {"order", "bracket", "entry"} => Unsent(t) = Range(mem[t].orders)
    BY <1>0, <1>1 DEF Unsent
  <1>8. ASSUME NEW q \in Orders PROVE Fresh(t, q)' => Fresh(t, q)
    BY <1>4, <1>6, <1>7 DEF Fresh
  <1>9. \A b \in Undecided(t) : o \notin Range(OrdersOf[t][b])
    BY <1>0, <1>1, Once
  <1>10. mem'[t].at \notin {"bracket", "entry"} => ~Fresh(t, o)'
    BY <1>1, <1>4, <1>6, <1>9 DEF Fresh
  <1>11. mem[t].at \in {"bracket", "entry"} => Fresh(t, o)
    BY <1>1, <1>7 DEF Fresh
  <1> QED BY <1>5, <1>8, <1>10, <1>11

\* Only a bracket and an entry open a position, and the order is fresh then.
LEMMA OrderSends ==
  ASSUME IInv, Deliveries, NEW t \in Towers, OrderList(t),
         \/ Refuse(t) \/ Send(t) \/ CallOK(t) \/ CallRejected(t) \/ Taken(t)
         \/ FlattenRejected(t) \/ CallRaises(t) \/ TakenFails(t)
  PROVE  OrderList(t)' /\ \A o \in Orders : Keeps(t, o) \/ Sends(t, o)
  <1>1. /\ mem[t].at \in Calls \cup {"order", "placed"} /\ mem[t].orders # <<>>
        /\ mem[t].orders \in Seq(Orders)
    BY DEF IInv, InHand, TypeOK, MemType, Refuse, Send, CallOK, CallRejected, Taken,
           FlattenRejected, CallRaises, TakenFails, At, Calls
  <1>2. PICK o \in Orders : o = Order(t)
    BY <1>1, HeadTailProperties DEF Order
  <1>3. UNCHANGED <<published, stream, pel>>
    BY DEF Refuse, Send, CallOK, CallRejected, Taken, FlattenRejected, CallRaises,
           TakenFails, OrderFrame, durable
  <1>4. \/ NextOrder(t)
        \/ \E place \in Calls \cup {"placed"} :
              /\ Goto(t, place)
              /\ place \in {"bracket", "entry"} => mem[t].at \in {"order", "bracket", "entry"}
    <2>1. CASE Refuse(t) \/ Taken(t) \/ FlattenRejected(t) \/ CallRaises(t) \/ TakenFails(t)
      BY <2>1 DEF Refuse, Taken, FlattenRejected, CallRaises, TakenFails
    <2>2. CASE Send(t)
      BY <2>2 DEF Send, At, Calls
    <2>3. CASE CallOK(t)
      BY <2>3 DEF CallOK, AfterOK, At, Calls
    <2>4. CASE CallRejected(t)
      BY <2>4 DEF CallRejected, At, Calls
    <2> QED BY <2>1, <2>2, <2>3, <2>4
  <1>5. /\ OrderList(t)'
        /\ \A q \in Orders : Fresh(t, q)' => Fresh(t, q)
        /\ mem'[t].at \notin {"bracket", "entry"} => ~Fresh(t, o)'
        /\ mem[t].at \in {"bracket", "entry"} => Fresh(t, o)
    BY <1>1, <1>2, <1>3, <1>4, OrderKeeps
  <1>6. CASE broker' = broker
    BY <1>5, <1>6 DEF Keeps, Opened
  <1>7. CASE broker' = Performed(t) /\ (CallOK(t) \/ CallRaises(t))
    <2>0. TypeOK /\ mem[t].at \in Calls
      BY <1>7 DEF IInv, CallOK, CallRaises
    <2> DEFINE p == broker[t][o]
    <2>1. /\ broker'[t][o] = Effect(mem[t].at, p) /\ p \in PositionType
          /\ \A q \in Orders : q # o => broker'[t][q] = broker[t][q]
      <3>1. p \in PositionType
        BY <2>0 DEF TypeOK, PositionType
      <3>2. /\ broker'[t][o] = Effect(mem[t].at, p)
            /\ \A q \in Orders : q # o => broker'[t][q] = broker[t][q]
        BY <1>2, <1>7, <2>0, PerformedType
      <3> QED BY <3>1, <3>2
    <2>2. ASSUME NEW q \in Orders, q # o PROVE Keeps(t, q)
      BY <1>5, <2>1, <2>2 DEF Keeps, Opened
    <2>3. CASE mem[t].at \in {"bracket", "entry"}
      <3>1. mem'[t].at \notin {"bracket", "entry"}
        <4>1. CASE CallOK(t)
          <5>1. Goto(t, AfterOK(t))
            BY <2>3, <4>1 DEF CallOK, At
          <5> QED BY <2>0, <2>3, <5>1, GotoMem DEF AfterOK, At
        <4>2. CASE CallRaises(t)
          BY <2>0, <4>2, NextOrderMem DEF CallRaises
        <4> QED BY <1>7, <4>1, <4>2
      <3>2. Opened(t, o)' = Opened(t, o) + 1
        BY <2>1, <2>3 DEF Opened, Effect, Position, PositionType
      <3> QED BY <1>5, <2>2, <2>3, <3>1, <3>2 DEF Sends
    <2>4. CASE mem[t].at \notin {"bracket", "entry"}
      <3>1. Opened(t, o)' = Opened(t, o)
        BY <2>1, <2>4 DEF Opened, Effect, Position, PositionType
      <3> QED BY <1>5, <2>2, <3>1 DEF Keeps
    <2> QED BY <2>3, <2>4
  <1>8. broker' = broker \/ (broker' = Performed(t) /\ (CallOK(t) \/ CallRaises(t)))
    BY DEF Refuse, Send, CallOK, CallRejected, Taken, FlattenRejected, CallRaises,
           TakenFails, effects
  <1> QED BY <1>5, <1>6, <1>7, <1>8

\* A step of one tower's reader is none of the others'.
LEMMA OtherTower ==
  ASSUME IInv, NEW t \in Towers, NEW u \in Towers, u # t, Progress(t) \/ Failure(t)
  PROVE  mem'[u] = mem[u] /\ broker'[u] = broker[u] /\ Stays(u)
  <1>0. TypeOK
    BY DEF IInv
  <1>1. CASE \/ Connect(t) \/ Read(t) \/ Decide(t) \/ Ack(t) \/ AckFails(t)
             \/ Crash(t) \/ Restart(t) \/ Refuse(t) \/ Send(t) \/ FlattenRejected(t)
    <2>1. mem'[u] = mem[u] /\ broker' = broker
      BY <1>1, QuietSteps DEF QuietStep
    <2>2. Stays(u)
      BY <1>0, <1>1
         DEF Stays, TypeOK, Connect, Read, Decide, Ack, AckFails, Crash, Restart, Refuse,
             Send, FlattenRejected, OrderFrame, durable, history
    <2> QED BY <2>1, <2>2
  <1>2. CASE CallOK(t) \/ CallRejected(t) \/ Taken(t) \/ CallRaises(t) \/ TakenFails(t)
    <2>1. NextOrder(t) \/ \E place : Goto(t, place)
      BY <1>2 DEF CallOK, CallRejected, Taken, CallRaises, TakenFails
    <2>2. mem'[u] = mem[u]
      BY <1>0, <2>1, NextOrderMem, GotoMem
    <2>3. broker' = broker \/ (mem[t].at \in Calls /\ broker' = Performed(t))
      BY <1>2 DEF CallOK, CallRejected, Taken, CallRaises, TakenFails, effects
    <2>4. broker'[u] = broker[u]
      BY <2>3, PerformedType
    <2>5. Stays(u)
      BY <1>2 DEF Stays, CallOK, CallRejected, Taken, CallRaises, TakenFails, OrderFrame,
                  durable, history
    <2> QED BY <2>2, <2>4, <2>5
  <1> QED BY <1>1, <1>2 DEF Progress, Failure

LEMMA NextEntries ==
  ASSUME IInv, IInv', Deliveries, Entries, [Next]_vars
  PROVE  Entries'
  <1>1. TypeOK
    BY DEF IInv
  <1>2. ASSUME NEW u \in Towers
        PROVE  OrderList(u)' /\ \A o \in Orders : Keeps(u, o) \/ Renews(u, o) \/ Sends(u, o)
    <2>0. OrderList(u) /\ Delivered(u)
      BY DEF Entries, Deliveries
    <2>1. CASE Midnight \/ UNCHANGED vars
      <3>1. mem' = mem /\ broker' = broker /\ Stays(u)
        BY <2>1 DEF Midnight, vars, effects, Stays, durable, history
      <3> QED BY <1>1, <2>0, <3>1, StillKeeps
    <2>2. ASSUME NEW t \in Towers, NEW b \in Batches, Publish(t, b)
          PROVE  OrderList(u)' /\ \A o \in Orders : Keeps(u, o)
      <3>1. mem' = mem /\ broker' = broker
        BY <2>2 DEF Publish, effects
      <3> QED BY <1>1, <2>0, <2>2, <3>1, PublishStreams, StillKeeps
    <2>3. ASSUME NEW t \in Towers, Progress(t) \/ Failure(t)
          PROVE  OrderList(u)' /\ \A o \in Orders : Keeps(u, o) \/ Renews(u, o) \/ Sends(u, o)
      <3>1. CASE u # t
        BY <1>1, <2>0, <2>3, <3>1, OtherTower, StillKeeps
      <3>2. CASE u = t /\ (\/ Connect(t) \/ Restart(t) \/ Read(t) \/ Ack(t) \/ Decide(t)
                           \/ AckFails(t) \/ Crash(t))
        BY <2>0, <3>2, BatchKeeps
      <3>3. CASE u = t /\ (\/ Refuse(t) \/ Send(t) \/ CallOK(t) \/ CallRejected(t) \/ Taken(t)
                           \/ FlattenRejected(t) \/ CallRaises(t) \/ TakenFails(t))
        BY <2>0, <3>3, OrderSends
      <3> QED BY <2>3, <3>1, <3>2, <3>3 DEF Progress, Failure
    <2> QED BY <2>1, <2>2, <2>3 DEF Next
  <1>3. ASSUME NEW u \in Towers, NEW o \in Orders PROVE Sent(u, o)'
    BY <1>1, <1>2, SentStep DEF Entries
  <1> QED BY <1>2, <1>3 DEF Entries

\* An order opens one position, and one more for each crash and each failed
\* acknowledgement, whatever the broker's calls do.
THEOREM OrdersAreNotRepeated == Spec => []EntriesBounded
  <1>1. Init => Entries
    BY DEF Init, Entries, OrderList, Sent, Handling, Opened, Restarts, Idle, Calls,
           NoPosition, Position, Kinds
  <1>2. IInv /\ Deliveries /\ Entries /\ [Next]_vars /\ IInv' => Entries'
    BY NextEntries
  <1>3. IInv /\ Entries => EntriesBounded
    <2> SUFFICES ASSUME IInv, Entries, NEW t \in Towers, NEW o \in Orders
                 PROVE  Opened(t, o) <= 1 + faults["crash"] + faults["reread"]
      BY DEF EntriesBounded
    <2>1. Opened(t, o) <= 1 + Restarts
      BY DEF Entries, Sent
    <2>2. faults["crash"] \in Nat /\ faults["reread"] \in Nat
      BY DEF IInv, TypeOK, Kinds
    <2>3. 1 + Restarts = 1 + faults["crash"] + faults["reread"]
      BY <2>2 DEF Restarts
    <2> QED BY <2>1, <2>3
  <1> QED BY <1>1, <1>2, <1>3, DeliveryInvariance, PTL DEF Spec
=============================================================================
