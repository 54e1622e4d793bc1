---------------------------- MODULE NkdTrailProofs ----------------------------
(***************************************************************************)
(* Theorems about NkdTrail: the arithmetic of the stop first, then the     *)
(* type invariant, the invariant that ties what the ratchet remembers to   *)
(* what the broker holds, and the profit that the phases lock in.          *)
(***************************************************************************)
EXTENDS NkdTrail, TLAPS

-----------------------------------------------------------------------------
(* Arithmetic of the stop.                                                 *)

\* What \div promises.
LEMMA DivBounds ==
  ASSUME NEW a \in Int, NEW b \in Nat \ {0}
  PROVE  /\ a \div b \in Int
         /\ b * (a \div b) <= a
         /\ a < b * (a \div b) + b
  BY SMTT(30)

LEMMA TickDollarsType == TickDollars \in Nat \ {0}
  BY TrailAssumption DEF TickDollars

\* Multiplying by the positive tick value keeps an order.
LEMMA TimesMonotone ==
  ASSUME NEW x \in Int, NEW y \in Int, NEW t \in Nat \ {0}, x <= y
  PROVE  x * t <= y * t
  BY SMTT(30)

LEMMA SnapType ==
  ASSUME NEW d \in Int
  PROVE  SnapOutward(d) \in Int
  BY DivBounds, TickDollarsType DEF SnapOutward

LEMMA EntryType == /\ 0 \in Entries
                   /\ \A e \in Entries : e \in Int
  BY TrailAssumption DEF Entries

LEMMA BufferType ==
  ASSUME NEW m \in Marks, NEW e \in Entries, NEW j \in Jitters
  PROVE  EffectiveBuffer(m, e, j) \in Int
  BY TrailAssumption
     DEF EffectiveBuffer, Buffer, PhaseBuffer, Phase, BufferFloor,
         PhaseBBuffer, PhaseCBuffer

LEMMA CandidateType ==
  ASSUME NEW m \in Marks, NEW e \in Entries, NEW j \in Jitters
  PROVE  Candidate(m, e, j) \in Int
  <1>1. m * TickDollars - Dir * EffectiveBuffer(m, e, j) \in Int
    BY BufferType, TickDollarsType, TrailAssumption
  <1> QED BY <1>1, SnapType DEF Candidate

\* y is a stop at least as tight as the stop x, if there is an x.
Below(x, y) == x # NoStop => y # NoStop /\ AtLeast(y, x)

LEMMA BelowTransitive ==
  ASSUME NEW x \in Stops, NEW y \in Stops, NEW z \in Stops,
         Below(x, y), Below(y, z)
  PROVE  Below(x, z)
  BY TrailAssumption DEF Below, AtLeast, Stops

\* The ratchet never returns a looser stop than the one it is given.
LEMMA RatchetKeeps ==
  ASSUME NEW stop \in Stops, NEW c \in Int
  PROVE  /\ Ratchet(stop, c) \in Int
         /\ Below(stop, Ratchet(stop, c))
         /\ AtLeast(Ratchet(stop, c), c)
  BY TrailAssumption DEF Ratchet, Below, AtLeast, Stops

\* Which PnL belongs to a phase.
LEMMA PhaseBounds ==
  ASSUME NEW m \in Marks, NEW e \in Entries
  PROVE  /\ Phase(m, e) \in {"A", "B", "C", "TP_HIT"}
         /\ Phase(m, e) = "B" => Pnl(m, e) >= PhaseBStart
         /\ Phase(m, e) = "C" => Pnl(m, e) >= PhaseCStart
  <1>1. Pnl(m, e) \in Int
    BY TickDollarsType, EntryType, TrailAssumption DEF Pnl
  <1> QED BY <1>1 DEF Phase, PhaseBStart, PhaseCStart, TpTarget

-----------------------------------------------------------------------------
(* The types.                                                              *)

\* A pass that goes beyond the order id has one, and a request is never sent in
\* the phase TP_HIT.
TypeInv ==
    /\ TypeOK
    /\ pc # "idle" => up
    /\ pc \in {"scan", "sent"} => pos.sl
    /\ pc = "sent" => Phase(polled, pos.entry) # "TP_HIT"

LEMMA LevelType == SlLevel \in Int
  <1>1. -Dir * DInit \in Int
    BY TrailAssumption
  <1> QED BY <1>1, SnapType DEF SlLevel

LEMMA TypeInit == Init => TypeInv
  <1> SUFFICES ASSUME Init PROVE TypeInv
    OBVIOUS
  <1>1. stored \in TrailType
    BY EntryType, TrailAssumption DEF Init, Trail, TrailType, Stops, Phases
  <1>2. pos \in MemoryType
    BY <1>1, TrailBounds DEF Init, Memory, MemoryType, TrailType
  <1>3. snap \in TrailType
    BY EntryType DEF Init, NoTrail, Trail, TrailType, Stops, Phases
  <1> QED BY <1>1, <1>2, <1>3, LevelType, EntryType, TrailBounds DEF Init, TypeInv, TypeOK

\* The actions that leave memory, Redis, the broker and the request alone.
LEMMA TypeMarket ==
  ASSUME TypeInv,
         \/ \E m \in Marks : PriceMoves(m)
         \/ FeedChanges \/ ModeChanges \/ Resolve
         \/ UNCHANGED vars
  PROVE  TypeInv'
  <1>1. ASSUME NEW m \in Marks, PriceMoves(m) PROVE TypeInv'
    BY <1>1 DEF TypeInv, TypeOK, PriceMoves, scanVars, faultVars
  <1>2. CASE FeedChanges
    BY <1>2 DEF TypeInv, TypeOK, FeedChanges, scanVars, brokerVars, faultVars
  <1>3. CASE ModeChanges
    BY <1>3 DEF TypeInv, TypeOK, ModeChanges, scanVars, brokerVars, faultVars
  <1>4. CASE Resolve
    BY <1>4 DEF TypeInv, TypeOK, Resolve, marketVars, scanVars, brokerVars,
                faultVars
  <1>5. CASE UNCHANGED vars
    BY <1>5 DEF TypeInv, TypeOK, vars, marketVars, scanVars, brokerVars,
                faultVars
  <1> QED BY <1>1, <1>2, <1>3, <1>4, <1>5

\* The steps of a pass before the request.
LEMMA TypeScan ==
  ASSUME TypeInv,
         \/ PollUnresolved \/ Reconcile \/ StartScan \/ SkipPoll
         \/ \E j \in JitterChoice : HoldStop(j) \/ SendModify(j)
  PROVE  TypeInv'
  <1> USE DEF TypeInv, TypeOK
  <1>1. CASE PollUnresolved
    <2>1. pos' \in MemoryType
      <3> DEFINE alert == pos.polls + 1 >= 6 /\ ~pos.alerted
      <3>1. pos' = [pos EXCEPT !.polls = @ + 1, !.alerted = @ \/ alert]
        BY <1>1 DEF PollUnresolved
      <3>2. pos.polls + 1 \in 0..MaxPolls
        BY <1>1, TrailBounds DEF PollUnresolved, MemoryType
      <3>3. (pos.alerted \/ alert) \in BOOLEAN
        OBVIOUS
      <3> HIDE DEF alert
      <3> QED BY <3>1, <3>2, <3>3 DEF MemoryType
    <2>2. alerts' \in Nat
      BY <1>1 DEF PollUnresolved
    <2>3. pc # "sent"
      BY <1>1 DEF PollUnresolved, Polling
    <2> QED BY <1>1, <2>1, <2>2, <2>3
            DEF PollUnresolved, marketVars, scanVars, brokerVars, faultVars
  <1>2. CASE Reconcile
    <2>1. 0 \in 0..MaxPolls
      BY TrailBounds
    <2>2. pos' \in MemoryType /\ pos'.sl
      BY <1>2, <2>1 DEF Reconcile, MemoryType
    <2> QED BY <1>2, <2>2 DEF Reconcile, Polling, marketVars, brokerVars, faultVars
  <1>3. CASE StartScan
    BY <1>3 DEF StartScan, Polling, marketVars, brokerVars, faultVars
  <1>4. CASE SkipPoll
    BY <1>4 DEF SkipPoll, marketVars, brokerVars, faultVars
  <1>5. ASSUME NEW j \in JitterChoice, HoldStop(j) PROVE TypeInv'
    <2>1. j \in Jitters
      BY TrailAssumption DEF JitterChoice, MemoryType
    <2>2. pos' \in MemoryType
      BY <1>5, <2>1 DEF HoldStop, MemoryType
    <2> QED BY <1>5, <2>2 DEF HoldStop, marketVars, brokerVars, faultVars
  <1>6. ASSUME NEW j \in JitterChoice, SendModify(j) PROVE TypeInv'
    <2>1. j \in Jitters
      BY TrailAssumption DEF JitterChoice, MemoryType
    <2>2. pos' \in MemoryType /\ pos'.sl = pos.sl /\ pos'.entry = pos.entry
      BY <1>6, <2>1 DEF SendModify, MemoryType
    <2>3. want' \in Int
      BY <1>6, <2>1, CandidateType, RatchetKeeps DEF SendModify, MemoryType
    <2>4. /\ Phase(mark, pos.entry) # "TP_HIT"
          /\ polled' = mark /\ pc' = "sent" /\ up'
      BY <1>6 DEF SendModify
    <2>5. Phase(polled', pos'.entry) # "TP_HIT"
      BY <2>2, <2>4
    <2> QED BY <1>6, <2>2, <2>3, <2>4, <2>5
            DEF SendModify, marketVars, brokerVars, faultVars
  <1> QED BY <1>1, <1>2, <1>3, <1>4, <1>5, <1>6

\* The answers to a request.
LEMMA TypeAnswer ==
  ASSUME TypeInv, ModifyOK \/ ModifyRejected \/ ModifyRaises
  PROVE  TypeInv'
  <1> USE DEF TypeInv, TypeOK
  <1>1. CASE ModifyOK
    <2>1. Phase(polled, pos.entry) \in Phases
      BY <1>1, PhaseBounds DEF ModifyOK, MemoryType, Phases
    <2>2. pos' \in MemoryType
      BY <1>1, <2>1 DEF ModifyOK, Answered, MemoryType, Stops
    <2>3. bStop' \in Int /\ bOpen' \in BOOLEAN
      BY <1>1 DEF ModifyOK, BrokerSets
    <2> QED BY <1>1, <2>2, <2>3 DEF ModifyOK, Answered, marketVars, faultVars
  <1>2. CASE ModifyRejected
    <2>1. pos' \in MemoryType
      BY <1>2 DEF ModifyRejected, Answered, MemoryType
    <2>2. rejects' \in 0..MaxRejects
      BY <1>2, TrailBounds DEF ModifyRejected
    <2> QED BY <1>2, <2>1, <2>2
            DEF ModifyRejected, Answered, marketVars, brokerVars
  <1>3. CASE ModifyRaises
    <2>1. pos' \in MemoryType
      BY <1>3 DEF ModifyRaises, Answered, MemoryType
    <2>2. timeouts' \in 0..MaxTimeouts
      BY <1>3, TrailBounds DEF ModifyRaises
    <2>3. bStop' \in Int /\ bOpen' \in BOOLEAN /\ late' \subseteq Int
      BY <1>3 DEF ModifyRaises, BrokerSets
    <2> QED BY <1>3, <2>1, <2>2, <2>3 DEF ModifyRaises, Answered, marketVars
  <1> QED BY <1>1, <1>2, <1>3

\* Redis, the UserStream thread, crashes and restarts.
LEMMA TypeRest ==
  ASSUME TypeInv,
         \/ MirrorRead \/ Mirror \/ MirrorFails
         \/ UserRead \/ UserWrite \/ Crash \/ Restart
         \/ \E stop \in late : LateModify(stop)
  PROVE  TypeInv'
  <1> USE DEF TypeInv, TypeOK
  <1>0. NoTrail \in TrailType
    BY EntryType, TrailAssumption
       DEF NoTrail, Trail, TrailType, Stops, Phases
  <1>1. CASE MirrorRead \/ Mirror
    <2>1. stored' \in TrailType
      BY <1>1 DEF MirrorRead, Mirror, Mirrored, Trail, TrailType, MemoryType
    <2>2. seen' \in Entries
      BY <1>1, EntryType DEF MirrorRead, Mirror, TrailType
    <2> QED BY <1>1, <2>1, <2>2
            DEF MirrorRead, Mirror, marketVars, brokerVars, faultVars
  <1>2. CASE MirrorFails
    <2>1. redisFails' \in 0..MaxRedisFails
      BY <1>2, TrailBounds DEF MirrorFails
    <2>2. stored' \in TrailType
      BY <1>2 DEF MirrorFails, Mirrored, Trail, TrailType, MemoryType
    <2> QED BY <1>2, <2>1, <2>2, EntryType DEF MirrorFails, marketVars, brokerVars
  <1>3. CASE UserWrite
    BY <1>0, <1>3 DEF UserWrite, marketVars, scanVars, brokerVars, faultVars
  <1>4. CASE Crash
    <2>1. pos' \in MemoryType
      BY <1>0, <1>4, TrailBounds DEF Crash, Memory, MemoryType, TrailType
    <2>2. crashes' \in 0..MaxCrashes
      BY <1>4, TrailBounds DEF Crash
    <2>3. bStop' \in Int /\ bOpen' \in BOOLEAN
      BY <1>4 DEF Crash, BrokerSets
    <2> QED BY <1>0, <1>4, <2>1, <2>2, <2>3, EntryType DEF Crash, marketVars
  <1>5. CASE Restart
    <2>1. pos' \in MemoryType
      BY <1>5, TrailBounds DEF Restart, Memory, MemoryType, TrailType
    <2> QED BY <1>5, <2>1
            DEF Restart, marketVars, scanVars, brokerVars, faultVars
  <1>6. CASE UserRead
    <2>1. snap' \in TrailType
      BY <1>6 DEF UserRead, TrailType, Entries
    <2> QED BY <1>6, <2>1
            DEF UserRead, marketVars, scanVars, brokerVars, faultVars
  <1>7. ASSUME NEW stop \in late, LateModify(stop) PROVE TypeInv'
    BY <1>7 DEF LateModify, BrokerSets, marketVars, scanVars, faultVars
  <1> QED BY <1>1, <1>2, <1>3, <1>4, <1>5, <1>6, <1>7

LEMMA TypeNext == TypeInv /\ [Next]_vars => TypeInv'
  BY TypeMarket, TypeScan, TypeAnswer, TypeRest DEF Next, PassStep

\* Every variable keeps its type in every behaviour: whatever the market, the
\* broker, UserStream and crashes do, no step of B7B finds a field missing.
THEOREM TypeCorrect == Spec => []TypeOK
  <1>1. TypeInv => TypeOK
    BY DEF TypeInv
  <1> QED BY TypeInit, TypeNext, <1>1, PTL DEF Spec

-----------------------------------------------------------------------------
(* What the ratchet remembers and what the broker holds.                   *)

\* Copies of the stop only ever lag behind: Redis and the UserStream snapshot
\* behind the memory of the process, the memory behind a request under way, and
\* all of them behind the broker unless a call went unanswered.
CopiesLag ==
    /\ up => Below(stored.stop, pos.stop) /\ Below(snap.stop, pos.stop)
    /\ ~up => pos.stop = NoStop /\ snap.stop = NoStop /\ crashes > 0
    /\ pc = "sent" => Below(pos.stop, want)

BrokerLeads ==
    timeouts = 0 =>
        /\ late = {}
        /\ Below(pos.stop, bStop) /\ Below(stored.stop, bStop)
        /\ crashes = 0 /\ pos.stop # NoStop => pos.stop = bStop

TrailInv == CopiesLag /\ BrokerLeads

\* A step that neither asks for a stop nor commits, copies or recovers one.
Quiet ==
    /\ pos'.stop = pos.stop
    /\ UNCHANGED <<stored, snap, bStop, late, timeouts, up, crashes>>
    /\ pc' = "sent" => pc = "sent" /\ want' = want

LEMMA QuietKeepsTrailInv == ASSUME TrailInv, Quiet PROVE TrailInv'
  BY DEF TrailInv, CopiesLag, BrokerLeads, Quiet, Below, AtLeast

LEMMA QuietSteps ==
  ASSUME TypeInv,
         \/ \E m \in Marks : PriceMoves(m)
         \/ FeedChanges \/ ModeChanges \/ Resolve \/ MirrorRead
         \/ PollUnresolved \/ Reconcile \/ StartScan \/ SkipPoll
         \/ \E j \in JitterChoice : HoldStop(j)
         \/ ModifyRejected
         \/ UNCHANGED vars
  PROVE  Quiet
  <1> USE DEF TypeInv, TypeOK, Quiet, marketVars, scanVars, brokerVars, faultVars
  <1>1. CASE (\E m \in Marks : PriceMoves(m)) \/ FeedChanges \/ ModeChanges
             \/ Resolve \/ MirrorRead \/ UNCHANGED vars
    BY <1>1 DEF PriceMoves, FeedChanges, ModeChanges, Resolve, MirrorRead, vars
  <1>2. CASE PollUnresolved
    <2>1. pos'.stop = pos.stop
      BY <1>2 DEF PollUnresolved, MemoryType
    <2> QED BY <1>2, <2>1 DEF PollUnresolved
  <1>3. CASE Reconcile
    BY <1>3 DEF Reconcile, MemoryType
  <1>4. CASE StartScan \/ SkipPoll
    BY <1>4 DEF StartScan, SkipPoll
  <1>5. ASSUME NEW j \in JitterChoice, HoldStop(j) PROVE Quiet
    BY <1>5 DEF HoldStop, MemoryType
  <1>6. CASE ModifyRejected
    BY <1>6 DEF ModifyRejected, Answered, MemoryType
  <1> QED BY <1>1, <1>2, <1>3, <1>4, <1>5, <1>6

LEMMA TrailInit == Init => TrailInv
  BY DEF Init, TrailInv, CopiesLag, BrokerLeads, Below, Memory, Trail, NoTrail

\* The request and its answers.
LEMMA TrailModify ==
  ASSUME TypeInv, TrailInv,
         \/ \E j \in JitterChoice : SendModify(j)
         \/ ModifyOK \/ ModifyRaises
         \/ \E stop \in late : LateModify(stop)
  PROVE  TrailInv'
  <1> USE DEF TypeInv, TypeOK, TrailInv
  <1>1. ASSUME NEW j \in JitterChoice, SendModify(j) PROVE TrailInv'
    <2>1. j \in Jitters
      BY TrailAssumption DEF JitterChoice, MemoryType
    <2>2. Below(pos.stop, want')
      BY <1>1, <2>1, CandidateType, RatchetKeeps DEF SendModify, MemoryType
    <2>3. pos'.stop = pos.stop
      BY <1>1 DEF SendModify, MemoryType
    <2>4. up /\ UNCHANGED <<stored, snap, bStop, late, timeouts, up, crashes>>
      BY <1>1 DEF SendModify, brokerVars, faultVars
    <2> QED BY <2>2, <2>3, <2>4 DEF CopiesLag, BrokerLeads, Below, AtLeast
  <1>2. CASE ModifyOK
    <2>1. /\ up /\ pos'.stop = want /\ bStop' = want /\ pc' = "mirror"
          /\ UNCHANGED <<stored, snap, late, timeouts, up, crashes>>
      BY <1>2 DEF ModifyOK, Answered, BrokerSets, MemoryType, faultVars
    <2>2. /\ want \in Stops /\ pos.stop \in Stops
          /\ stored.stop \in Stops /\ snap.stop \in Stops
      BY <1>2 DEF ModifyOK, MemoryType, TrailType, Stops
    <2>3. Below(pos.stop, want) /\ Below(stored.stop, pos.stop)
          /\ Below(snap.stop, pos.stop)
      BY <1>2 DEF ModifyOK, CopiesLag
    <2>4. Below(stored.stop, want) /\ Below(snap.stop, want)
      BY <2>2, <2>3, BelowTransitive
    <2>5. Below(want, want)
      BY <1>2, TrailAssumption DEF ModifyOK, Below, AtLeast
    <2> QED BY <2>1, <2>4, <2>5 DEF CopiesLag, BrokerLeads, Below, AtLeast
  <1>3. CASE ModifyRaises
    <2>1. /\ up /\ pos'.stop = pos.stop /\ pc' = "idle"
          /\ UNCHANGED <<stored, snap, up, crashes>>
      BY <1>3 DEF ModifyRaises, Answered, MemoryType
    <2>2. timeouts' # 0
      BY <1>3 DEF ModifyRaises
    <2> QED BY <2>1, <2>2 DEF CopiesLag, BrokerLeads, Below, AtLeast
  <1>4. ASSUME NEW stop \in late, LateModify(stop) PROVE TrailInv'
    <2>1. /\ timeouts # 0
          /\ UNCHANGED <<pos, stored, snap, pc, want, up, timeouts, crashes>>
      BY <1>4 DEF LateModify, BrokerLeads, scanVars, faultVars
    <2> QED BY <2>1 DEF CopiesLag, BrokerLeads, Below, AtLeast
  <1> QED BY <1>1, <1>2, <1>3, <1>4

\* The copies in Redis and in the UserStream snapshot.
LEMMA TrailCopies ==
  ASSUME TypeInv, TrailInv,
         Mirror \/ MirrorFails \/ UserRead \/ UserWrite
  PROVE  TrailInv'
  <1> USE DEF TypeInv, TypeOK, TrailInv
  <1>1. UNCHANGED <<pos, bStop, late, timeouts, up, crashes>> /\ up
        /\ (pc' = "sent" => pc = "sent" /\ want' = want)
    BY DEF Mirror, MirrorFails, UserWrite, UserRead, scanVars, brokerVars,
           faultVars
  <1>2. /\ stored'.stop \in {stored.stop, pos.stop, snap.stop}
        /\ snap'.stop \in {snap.stop, stored.stop, NoStop}
    BY DEF Mirror, MirrorFails, Mirrored, UserWrite, UserRead, Trail, NoTrail,
           TrailType
  <1>3. /\ pos.stop \in Stops /\ stored.stop \in Stops /\ snap.stop \in Stops
        /\ bStop \in Stops
    BY DEF MemoryType, TrailType, Stops
  <1>4. Below(pos.stop, pos.stop)
    BY <1>3, TrailAssumption DEF Below, AtLeast, Stops
  <1>5. Below(stored'.stop, pos.stop) /\ Below(snap'.stop, pos.stop)
    <2>1. Below(NoStop, pos.stop)
      BY DEF Below
    <2> QED BY <1>1, <1>2, <1>4, <2>1 DEF CopiesLag
  <1>6. timeouts = 0 => Below(stored'.stop, bStop)
    <2>1. timeouts = 0 => Below(snap.stop, bStop)
      BY <1>1, <1>3, BelowTransitive DEF CopiesLag, BrokerLeads
    <2> QED BY <1>2, <2>1 DEF BrokerLeads
  <1>7. CopiesLag'
    BY <1>1, <1>5 DEF CopiesLag, Below, AtLeast
  <1>8. BrokerLeads'
    BY <1>1, <1>6 DEF BrokerLeads, Below, AtLeast
  <1> QED BY <1>7, <1>8

\* A crash loses the memory of the process, a restart starts from Redis.
LEMMA TrailFaults ==
  ASSUME TypeInv, TrailInv, Crash \/ Restart
  PROVE  TrailInv'
  <1> USE DEF TypeInv, TypeOK, TrailInv
  <1>1. CASE Crash
    <2>1. /\ up /\ ~up' /\ pos'.stop = NoStop /\ snap'.stop = NoStop
          /\ pc' = "idle" /\ crashes' > 0
          /\ UNCHANGED <<stored, late, timeouts>>
          /\ (bStop' = bStop \/ (pc = "sent" /\ bStop' = want))
      BY <1>1, TrailBounds DEF Crash, Memory, NoTrail, Trail, BrokerSets
    <2>2. /\ pos.stop \in Stops /\ stored.stop \in Stops
          /\ (pc = "sent" => want \in Stops)
      BY DEF MemoryType, TrailType, Stops
    <2>3. pc = "sent" => Below(stored.stop, want)
      BY <2>1, <2>2, BelowTransitive DEF CopiesLag
    <2>4. timeouts = 0 => Below(stored.stop, bStop')
      BY <2>1, <2>3 DEF BrokerLeads
    <2> QED BY <2>1, <2>4 DEF CopiesLag, BrokerLeads, Below, AtLeast
  <1>2. CASE Restart
    <2>1. /\ ~up /\ up' /\ pos'.stop = stored.stop /\ pc' = "idle"
          /\ UNCHANGED <<stored, snap, bStop, late, timeouts, crashes>>
      BY <1>2 DEF Restart, Memory, scanVars, brokerVars, faultVars
    <2>2. Below(stored.stop, stored.stop)
      BY TrailAssumption DEF TrailType, Stops, Below, AtLeast
    <2> QED BY <2>1, <2>2 DEF CopiesLag, BrokerLeads, Below, AtLeast
  <1> QED BY <1>1, <1>2

\* Both invariants together are inductive.
LEMMA TrailNext == TypeInv /\ TrailInv /\ [Next]_vars => TrailInv'
  BY QuietSteps, QuietKeepsTrailInv, TrailModify, TrailCopies, TrailFaults
     DEF Next, PassStep

LEMMA TrailAlways == Spec => [](TypeInv /\ TrailInv)
  BY TypeInit, TypeNext, TrailInit, TrailNext, PTL DEF Spec

\* For every direction, size, jitter and market and any number of crashes,
\* rejections and lost mirrors: while every modify call was answered, the
\* broker's stop is at least as tight as the one the ratchet compares with.
THEOREM BrokerHolds == Spec => []BrokerHoldsTheStop
  <1>1. TypeInv /\ TrailInv => BrokerHoldsTheStop
    BY DEF TrailInv, BrokerLeads, BrokerHoldsTheStop, Below
  <1> QED BY TrailAlways, <1>1, PTL

\* The only steps that change the broker's stop.
LEMMA BrokerFrame ==
  ASSUME [Next]_vars
  PROVE  \/ ModifyOK \/ ModifyRaises \/ Crash
         \/ \E stop \in late : LateModify(stop)
         \/ UNCHANGED bStop
  BY DEF Next, PassStep, PriceMoves, FeedChanges, ModeChanges, Resolve,
         PollUnresolved, Reconcile, StartScan, SkipPoll, HoldStop, SendModify,
         ModifyRejected, MirrorRead, Mirror, MirrorFails, UserRead, UserWrite,
         Restart, vars, brokerVars

\* The ratchet: while no call went unanswered and the process has not crashed,
\* no step of anybody weakens the broker's order.
THEOREM NeverWeakens == Spec => BrokerNeverWeakens
  <1>1. ASSUME TypeInv, TrailInv, [Next]_vars,
               timeouts = 0, crashes = 0, pos.stop # NoStop
        PROVE  AtLeast(bStop', bStop)
    <2> USE DEF TypeInv, TypeOK
    <2>1. pos.stop = bStop /\ late = {} /\ bStop \in Int
      BY <1>1 DEF TrailInv, BrokerLeads
    <2>2. bStop' = bStop \/ (pc = "sent" /\ bStop' = want)
      BY <1>1, <2>1, BrokerFrame
         DEF ModifyOK, ModifyRaises, Crash, BrokerSets, LateModify
    <2>3. pc = "sent" => AtLeast(want, bStop)
      BY <1>1, <2>1 DEF TrailInv, CopiesLag, Below
    <2>4. AtLeast(bStop, bStop)
      BY <2>1 DEF AtLeast
    <2> QED BY <2>2, <2>3, <2>4
  <1>2. TypeInv /\ TrailInv /\ [Next]_vars
          => [timeouts = 0 /\ crashes = 0 /\ pos.stop # NoStop
                => AtLeast(bStop', bStop)]_vars
    BY <1>1
  <1> QED BY TrailAlways, <1>2, PTL DEF Spec, BrokerNeverWeakens

-----------------------------------------------------------------------------
(* The profit that a phase locks in.                                       *)

\* The snap to the tick grid costs at most one tick.
LEMMA CandidateLocks ==
  ASSUME NEW m \in Marks, NEW e \in Entries, NEW j \in Jitters
  PROVE  Pnl(Candidate(m, e, j), e)
           >= Pnl(m, e) - EffectiveBuffer(m, e, j) - TickDollars
  <1> DEFINE eb == EffectiveBuffer(m, e, j)
             t  == TickDollars
             c  == Candidate(m, e, j)
  <1>1. eb \in Int /\ t \in Nat \ {0} /\ m \in Int /\ e \in Int
    BY BufferType, TickDollarsType, EntryType, TrailAssumption
  <1>2. CASE Dir = 1
    <2>1. m * t - eb \in Int /\ c = (m * t - eb) \div t
      BY <1>1, <1>2 DEF Candidate, SnapOutward
    <2>2. m * t - eb < t * c + t /\ c \in Int
      BY <1>1, <2>1, DivBounds
    <2>3. Pnl(m, e) = m * t - e * t /\ Pnl(c, e) = t * c - e * t
      BY <1>1, <1>2, <2>2 DEF Pnl
    <2> HIDE DEF eb, t, c
    <2> QED BY <1>1, <2>2, <2>3 DEF eb, t, c
  <1>3. CASE Dir = -1
    <2> DEFINE d == (-(m * t + eb)) \div t
    <2>1. -(m * t + eb) \in Int /\ c = -d
      BY <1>1, <1>3 DEF Candidate, SnapOutward
    <2>2. -(m * t + eb) < t * d + t /\ d \in Int
      BY <1>1, <2>1, DivBounds
    <2>3. Pnl(m, e) = e * t - m * t /\ Pnl(c, e) = t * d + e * t
      BY <1>1, <1>3, <2>1, <2>2 DEF Pnl
    <2> HIDE DEF eb, t, c, d
    <2> QED BY <1>1, <2>2, <2>3 DEF eb, t, c
  <1> QED BY <1>2, <1>3, TrailAssumption

\* A tighter stop keeps at least as much.
LEMMA TighterLocksMore ==
  ASSUME NEW x \in Int, NEW y \in Int, NEW e \in Entries, AtLeast(x, y)
  PROVE  Pnl(x, e) >= Pnl(y, e)
  <1>1. e \in Int
    BY EntryType
  <1>2. CASE Dir = 1
    <2>1. y - e <= x - e /\ y - e \in Int /\ x - e \in Int
      BY <1>1, <1>2 DEF AtLeast
    <2>2. (y - e) * TickDollars <= (x - e) * TickDollars
      BY <2>1, TickDollarsType, TimesMonotone
    <2> QED BY <1>2, <2>1, <2>2, TickDollarsType DEF Pnl
  <1>3. CASE Dir = -1
    <2>1. e - y <= e - x /\ e - y \in Int /\ e - x \in Int
      BY <1>1, <1>3 DEF AtLeast
    <2>2. (e - y) * TickDollars <= (e - x) * TickDollars
      BY <2>1, TickDollarsType, TimesMonotone
    <2>3. /\ Pnl(x, e) = (e - x) * TickDollars
          /\ Pnl(y, e) = (e - y) * TickDollars
      BY <1>1, <1>3, TickDollarsType DEF Pnl
    <2> QED BY <2>1, <2>2, <2>3, TickDollarsType
  <1> QED BY <1>2, <1>3, TrailAssumption

\* What a stop keeps depends on the entry price by no more than the slip.
LEMMA EntryShift ==
  ASSUME NEW x \in Int, NEW e \in Entries, NEW f \in Entries
  PROVE  Pnl(x, f) >= Pnl(x, e) - Slip * TickDollars
  <1>1. e \in Int /\ f \in Int /\ Slip \in Int
    BY EntryType, TrailAssumption
  <1>2. (f - e) * Dir <= Slip /\ (f - e) * Dir \in Int
    BY <1>1, TrailAssumption DEF Entries
  <1>3. ((f - e) * Dir) * TickDollars <= Slip * TickDollars
    BY <1>1, <1>2, TickDollarsType, TimesMonotone
  <1>4. Pnl(x, f) = Pnl(x, e) - ((f - e) * Dir) * TickDollars
    <2>1. CASE Dir = 1
      BY <1>1, <2>1, TickDollarsType DEF Pnl
    <2>2. CASE Dir = -1
      BY <1>1, <2>2, TickDollarsType DEF Pnl
    <2> QED BY <2>1, <2>2, TrailAssumption
  <1>5. /\ Pnl(x, e) \in Int /\ Slip * TickDollars \in Int
        /\ ((f - e) * Dir) * TickDollars \in Int
    BY <1>1, <1>2, TickDollarsType, TrailAssumption DEF Pnl
  <1> QED BY <1>3, <1>4, <1>5

LEMMA PnlType ==
  ASSUME NEW x \in Int, NEW e \in Entries
  PROVE  Pnl(x, e) \in Int
  BY TickDollarsType, EntryType, TrailAssumption DEF Pnl

LEMMA SlipType ==
  /\ Slip * TickDollars \in Int
  /\ PhaseBStart - WidestBuffer(PhaseBBuffer) \in Int
  /\ PhaseCStart - WidestBuffer(PhaseCBuffer) \in Int
  BY TickDollarsType, TrailAssumption
     DEF WidestBuffer, PhaseBStart, PhaseCStart, PhaseBBuffer, PhaseCBuffer,
         MaxJitter

\* What the stop of a phase keeps, from the entry price that it was set with.
LockedFor(stop, phase) ==
    /\ phase = "B" => stop \in Int /\ \E e \in Entries :
          Locked(stop, e) >= PhaseBStart - WidestBuffer(PhaseBBuffer)
    /\ phase = "C" => stop \in Int /\ \E e \in Entries :
          Locked(stop, e) >= PhaseCStart - WidestBuffer(PhaseCBuffer)

LEMMA RequestLocks ==
  ASSUME NEW stop \in Stops, NEW m \in Marks, NEW e \in Entries,
         NEW j \in Jitters
  PROVE  LockedFor(Ratchet(stop, Candidate(m, e, j)), Phase(m, e))
  <1> DEFINE c  == Candidate(m, e, j)
             w  == Ratchet(stop, c)
             eb == EffectiveBuffer(m, e, j)
  <1>1. c \in Int /\ w \in Int /\ AtLeast(w, c)
    BY CandidateType, RatchetKeeps
  <1>2. Pnl(w, e) >= Pnl(c, e)
    BY <1>1, TighterLocksMore
  <1>3. Pnl(c, e) >= Pnl(m, e) - eb - TickDollars
    BY CandidateLocks
  <1>4. j \in Int /\ j <= 20
    BY TrailAssumption
  <1>5. Phase(m, e) = "B" => eb <= PhaseBBuffer + MaxJitter
    BY <1>4, TrailAssumption
       DEF EffectiveBuffer, Buffer, PhaseBuffer, PhaseBBuffer, MaxJitter,
           BufferFloor
  <1>6. Phase(m, e) = "C" => eb <= PhaseCBuffer + MaxJitter
    BY <1>4
       DEF EffectiveBuffer, Buffer, PhaseBuffer, PhaseCBuffer, MaxJitter,
           BufferFloor
  <1>7. /\ Pnl(w, e) \in Int /\ Pnl(c, e) \in Int /\ Pnl(m, e) \in Int
        /\ eb \in Int /\ TickDollars \in Int
    BY <1>1, TickDollarsType, BufferType, EntryType, TrailAssumption DEF Pnl
  <1> HIDE DEF c, w, eb
  <1>8. Phase(m, e) = "B" => LockedFor(w, "B")
    <2> SUFFICES ASSUME Phase(m, e) = "B"
                 PROVE  Pnl(w, e) >= PhaseBStart - WidestBuffer(PhaseBBuffer)
      BY <1>1 DEF LockedFor, Locked
    <2> QED BY <1>2, <1>3, <1>5, <1>7, PhaseBounds
            DEF WidestBuffer, PhaseBStart, PhaseBBuffer, MaxJitter
  <1>9. Phase(m, e) = "C" => LockedFor(w, "C")
    <2> SUFFICES ASSUME Phase(m, e) = "C"
                 PROVE  Pnl(w, e) >= PhaseCStart - WidestBuffer(PhaseCBuffer)
      BY <1>1 DEF LockedFor, Locked
    <2> QED BY <1>2, <1>3, <1>6, <1>7, PhaseBounds
            DEF WidestBuffer, PhaseCStart, PhaseCBuffer, MaxJitter
  <1> QED BY <1>8, <1>9 DEF LockedFor, w, c

ProfitInv ==
    /\ LockedFor(pos.stop, pos.phase)
    /\ LockedFor(stored.stop, stored.phase)
    /\ LockedFor(snap.stop, snap.phase)
    /\ pc = "sent" => LockedFor(want, Phase(polled, pos.entry))

\* A step that neither asks for a stop nor commits, copies or recovers one.
QuietProfit ==
    /\ pos'.stop = pos.stop /\ pos'.phase = pos.phase /\ pos'.entry = pos.entry
    /\ UNCHANGED <<stored, snap>>
    /\ pc' = "sent" => pc = "sent" /\ UNCHANGED <<want, polled>>

LEMMA QuietProfitSteps ==
  ASSUME TypeInv,
         \/ \E m \in Marks : PriceMoves(m)
         \/ FeedChanges \/ ModeChanges \/ Resolve \/ MirrorRead
         \/ PollUnresolved \/ Reconcile \/ StartScan \/ SkipPoll
         \/ \E j \in JitterChoice : HoldStop(j)
         \/ ModifyRejected \/ ModifyRaises
         \/ \E stop \in late : LateModify(stop)
         \/ UNCHANGED vars
  PROVE  QuietProfit
  <1> USE DEF TypeInv, TypeOK, QuietProfit, scanVars
  <1>1. CASE (\E m \in Marks : PriceMoves(m)) \/ FeedChanges \/ ModeChanges
             \/ Resolve \/ MirrorRead \/ (\E stop \in late : LateModify(stop))
             \/ UNCHANGED vars
    BY <1>1 DEF PriceMoves, FeedChanges, ModeChanges, Resolve, MirrorRead,
                LateModify, vars
  <1>2. CASE PollUnresolved
    <2>1. /\ pos'.stop = pos.stop /\ pos'.phase = pos.phase
          /\ pos'.entry = pos.entry
      BY <1>2 DEF PollUnresolved, MemoryType
    <2> QED BY <1>2, <2>1 DEF PollUnresolved
  <1>3. CASE Reconcile
    BY <1>3 DEF Reconcile, MemoryType
  <1>4. CASE StartScan \/ SkipPoll
    BY <1>4 DEF StartScan, SkipPoll
  <1>5. ASSUME NEW j \in JitterChoice, HoldStop(j) PROVE QuietProfit
    BY <1>5 DEF HoldStop, MemoryType
  <1>6. CASE ModifyRejected \/ ModifyRaises
    BY <1>6 DEF ModifyRejected, ModifyRaises, Answered, MemoryType
  <1> QED BY <1>1, <1>2, <1>3, <1>4, <1>5, <1>6

LEMMA ProfitNext == TypeInv /\ ProfitInv /\ [Next]_vars => ProfitInv'
  <1> SUFFICES ASSUME TypeInv, ProfitInv, [Next]_vars PROVE ProfitInv'
    OBVIOUS
  <1> USE DEF TypeInv, TypeOK, ProfitInv
  <1>1. CASE QuietProfit
    BY <1>1 DEF QuietProfit, LockedFor, Phase
  <1>2. ASSUME NEW j \in JitterChoice, SendModify(j) PROVE ProfitInv'
    <2>1. j \in Jitters
      BY TrailAssumption DEF JitterChoice, MemoryType
    <2>2. /\ pos'.stop = pos.stop /\ pos'.phase = pos.phase
          /\ pos'.entry = pos.entry /\ UNCHANGED <<stored, snap>>
          /\ polled' = mark
          /\ want' = Ratchet(pos.stop, Candidate(mark, pos.entry, j))
      BY <1>2 DEF SendModify, MemoryType
    <2>3. LockedFor(Ratchet(pos.stop, Candidate(mark, pos.entry, j)),
                    Phase(mark, pos.entry))
      BY <2>1, RequestLocks DEF MemoryType
    <2> QED BY <2>2, <2>3 DEF LockedFor
  <1>3. CASE ModifyOK
    BY <1>3 DEF ModifyOK, Answered, MemoryType
  <1>4. CASE Mirror \/ MirrorFails
    BY <1>4 DEF Mirror, MirrorFails, Mirrored, Trail, scanVars
  <1>5. CASE Crash \/ Restart
    BY <1>5 DEF Crash, Restart, Memory, NoTrail, Trail, LockedFor, scanVars
  <1>6. CASE UserWrite \/ UserRead
    BY <1>6 DEF UserWrite, UserRead, NoTrail, Trail, TrailType, LockedFor,
                scanVars
  <1> QED BY <1>1, <1>2, <1>3, <1>4, <1>5, <1>6, QuietProfitSteps
          DEF Next, PassStep

\* For every initial stop, size, jitter of at most 20 dollars and tick grid: the
\* stop of phase B keeps $2000 - $1000, the stop of phase C $3000 - $450, but for
\* the jitter and one tick, in memory and in the copy a restart recovers.  That is
\* counted from the entry price the stop was set with; UserStream replaces it in
\* Redis, and counted from any other the stop keeps that much less the slip.
THEOREM ProfitLocked == Spec => []ProfitIsLocked
  <1>1. Init => ProfitInv
    BY DEF Init, ProfitInv, LockedFor, Memory, Trail, NoTrail
  <1>2. ASSUME ProfitInv PROVE ProfitIsLocked
    <2>1. ASSUME NEW t \in {pos, stored}, NEW e \in Entries, t.phase = "B"
          PROVE  Locked(t.stop, e) >=
                   PhaseBStart - WidestBuffer(PhaseBBuffer) - Slip * TickDollars
      <3>1. PICK f \in Entries :
              Pnl(t.stop, f) >= PhaseBStart - WidestBuffer(PhaseBBuffer)
        BY <1>2, <2>1 DEF ProfitInv, LockedFor, Locked
      <3>2. t.stop \in Int
        BY <1>2, <2>1 DEF ProfitInv, LockedFor
      <3> QED BY <3>1, <3>2, EntryShift, PnlType, SlipType DEF Locked
    <2>2. ASSUME NEW t \in {pos, stored}, NEW e \in Entries, t.phase = "C"
          PROVE  Locked(t.stop, e) >=
                   PhaseCStart - WidestBuffer(PhaseCBuffer) - Slip * TickDollars
      <3>1. PICK f \in Entries :
              Pnl(t.stop, f) >= PhaseCStart - WidestBuffer(PhaseCBuffer)
        BY <1>2, <2>2 DEF ProfitInv, LockedFor, Locked
      <3>2. t.stop \in Int
        BY <1>2, <2>2 DEF ProfitInv, LockedFor
      <3> QED BY <3>1, <3>2, EntryShift, PnlType, SlipType DEF Locked
    <2> QED BY <2>1, <2>2 DEF ProfitIsLocked
  <1> QED BY TypeInit, TypeNext, <1>1, <1>2, ProfitNext, PTL DEF Spec

-----------------------------------------------------------------------------
(* The alert.                                                              *)

\* One alert per crash, and one more once the flag is up: it only comes down when
\* the order is found, which no poll of that life forgets.
AlertInv == alerts <= crashes + IF up /\ (pos.sl \/ pos.alerted) THEN 1 ELSE 0

LEMMA AlertNext == TypeInv /\ AlertInv /\ [Next]_vars => AlertInv'
  <1> SUFFICES ASSUME TypeInv, AlertInv, [Next]_vars PROVE AlertInv'
    OBVIOUS
  <1> USE DEF TypeInv, TypeOK, AlertInv, faultVars
  <1>1. CASE PollUnresolved
    <2> DEFINE alert == pos.polls + 1 >= 6 /\ ~pos.alerted
    <2>1. pos'.sl = pos.sl /\ pos'.alerted = (pos.alerted \/ alert)
      BY <1>1 DEF PollUnresolved, MemoryType
    <2>2. alerts' = IF alert THEN alerts + 1 ELSE alerts
      BY <1>1 DEF PollUnresolved
    <2>3. up /\ ~pos.sl /\ UNCHANGED <<crashes, up>>
      BY <1>1 DEF PollUnresolved, Polling
    <2>4. CASE alert
      <3>1. ~pos.alerted /\ pos'.alerted /\ alerts' = alerts + 1
        BY <2>1, <2>2, <2>4
      <3>2. alerts <= crashes
        BY <3>1, <2>3
      <3> HIDE DEF alert
      <3> QED BY <3>1, <3>2, <2>3
    <2>5. CASE ~alert
      BY <2>1, <2>2, <2>3, <2>5 DEF MemoryType
    <2> HIDE DEF alert
    <2> QED BY <2>4, <2>5
  <1>2. CASE Reconcile
    BY <1>2 DEF Reconcile, Polling, MemoryType
  <1>3. CASE Crash \/ Restart
    BY <1>3 DEF Crash, Restart
  <1>4. ASSUME NEW j \in JitterChoice, HoldStop(j) \/ SendModify(j)
        PROVE  AlertInv'
    BY <1>4 DEF HoldStop, SendModify, MemoryType
  <1>5. CASE ModifyOK \/ ModifyRejected \/ ModifyRaises
    BY <1>5 DEF ModifyOK, ModifyRejected, ModifyRaises, Answered, MemoryType
  <1>6. CASE \/ (\E m \in Marks : PriceMoves(m)) \/ FeedChanges \/ ModeChanges
             \/ (\E stop \in late : LateModify(stop))
             \/ Resolve \/ StartScan \/ SkipPoll
             \/ MirrorRead \/ Mirror \/ MirrorFails \/ UserRead \/ UserWrite
             \/ UNCHANGED vars
    BY <1>6 DEF PriceMoves, FeedChanges, ModeChanges, LateModify, Resolve,
                StartScan, SkipPoll, MirrorRead, Mirror, MirrorFails, UserRead,
                UserWrite, vars
  <1> QED BY <1>1, <1>2, <1>3, <1>4, <1>5, <1>6 DEF Next, PassStep

\* However long the stop order stays unknown and whatever else happens, one life
\* of the process alerts once about it.
THEOREM AlertedOnce == Spec => []AlertedOncePerLife
  <1>1. Init => AlertInv
    BY DEF Init, AlertInv
  <1>2. TypeInv /\ AlertInv => AlertedOncePerLife
    BY DEF TypeInv, TypeOK, AlertInv, AlertedOncePerLife
  <1> QED BY TypeInit, TypeNext, AlertNext, <1>1, <1>2, PTL DEF Spec

=============================================================================
