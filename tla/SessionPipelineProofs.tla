------------------------ MODULE SessionPipelineProofs ------------------------
(***************************************************************************)
(* Theorems about SessionPipeline: a run closes once, a breakout is        *)
(* signalled once, a signal nobody took is watched, and an asset is traded *)
(* on the range of its day, for any sessions, assets, days and faults.     *)
(* The argument is about runs: every pending session has a run of its own, *)
(* a run not begun has no signal and no SESSION_CLOSE, and an asset that   *)
(* its session has not marked resolved has no signal in its run; and no    *)
(* night passes over an asset that waits for its own session.              *)
(***************************************************************************)
EXTENDS SessionPipeline, TLAPS

InPhaseB == {"b6", "log", "shadow", "post"}

-----------------------------------------------------------------------------
(* The types.                                                              *)

LEMMA PendingFacts ==
  ASSUME TypeOK, NEW s \in Sessions
  PROVE  /\ pending[s].run \in 0..MaxRuns
         /\ pending[s].assets \subseteq Assets /\ pending[s].resolved \subseteq Assets
         /\ pending[s] = [run |-> pending[s].run, assets |-> pending[s].assets,
                          resolved |-> pending[s].resolved]
  BY DEF TypeOK, PendingType

LEMMA AtWork ==
  ASSUME TypeOK, pc \in InPhaseB
  PROVE  ses \in Sessions /\ ses \in todo /\ pending[ses].run \in Runs
  BY DEF TypeOK, PassOK, InPhaseB, Pending, PendingType, Runs

LEMMA FaultType ==
  ASSUME HistoryOK, NEW k \in Kinds, Fault(k)
  PROVE  faults' \in [Kinds -> Nat] /\ left' \in 0..MaxFaults
  BY TicksAssumption DEF HistoryOK, Fault

LEMMA NoneType == NoPending \in PendingType /\ NoRange \in RangeType
  BY TicksAssumption DEF NoPending, PendingType, NoRange, RangeType

LEMMA TypeInit == Init => TypeOK
  <1> SUFFICES ASSUME Init PROVE TypeOK
    OBVIOUS
  <1>1. TimeOK /\ PassOK
    BY TicksAssumption DEF Init, TimeOK, PassOK
  <1>2. HistoryOK
    BY TicksAssumption DEF Init, HistoryOK
  <1> QED BY <1>1, <1>2, NoneType DEF Init, TypeOK

LEMMA TypeElsewhere ==
  ASSUME TypeOK,
         \/ Tick \/ NextDay \/ (\E a \in Assets : Quote(a)) \/ UNCHANGED vars
         \/ \E k \in Sigs : ResolveShadow(k) \/ TakeSignal(k) \/ ResolveShadowFails(k)
  PROVE  TypeOK'
  <1>1. ASSUME UNCHANGED <<day, clock, faultVars>> PROVE TimeOK' /\ faults' = faults /\ left' = left
    BY <1>1 DEF TypeOK, TimeOK, faultVars
  <1>2. CASE Tick \/ NextDay \/ UNCHANGED vars
    <2>1. TimeOK' /\ evaluated' \subseteq Sessions
      BY <1>2, TicksAssumption DEF Tick, NextDay, TypeOK, TimeOK, vars, timeVars
    <2> QED BY <1>2, <2>1 DEF Tick, NextDay, TypeOK, PassOK, HistoryOK, Pending, vars, passVars,
            runVars, shadowVars, streamVars, faultVars
  <1>3. ASSUME NEW a \in Assets, Quote(a) PROVE TypeOK'
    <2>1. PICK st \in QuoteMoves(a) : orst' = [orst EXCEPT ![a].st = st]
      BY <1>3 DEF Quote
    <2>2. st \in {"forming", "complete", "broken"}
      BY <2>1 DEF QuoteMoves
    <2>3. orst' \in [Assets -> RangeType]
      BY <2>1, <2>2 DEF TypeOK, RangeType
    <2> QED BY <1>3, <2>3 DEF Quote, TypeOK, TimeOK, PassOK, HistoryOK, Pending, timeVars,
            passVars, runVars, shadowVars, streamVars, faultVars
  <1>4. ASSUME NEW k \in Sigs, ResolveShadow(k) \/ TakeSignal(k) PROVE TypeOK'
    BY <1>4 DEF ResolveShadow, TakeSignal, TypeOK, TimeOK, PassOK, HistoryOK, Pending, timeVars,
            passVars, runVars, shadowVars, streamVars, faultVars
  <1>5. ASSUME NEW k \in Sigs, ResolveShadowFails(k) PROVE TypeOK'
    <2>1. Fault("redis") /\ HistoryOK
      BY <1>5 DEF ResolveShadowFails, TypeOK
    <2>2. faults' \in [Kinds -> Nat] /\ left' \in 0..MaxFaults
      BY <2>1, FaultType DEF Kinds
    <2> QED BY <1>5, <2>2 DEF ResolveShadowFails, TypeOK, TimeOK, PassOK, HistoryOK, Pending,
            timeVars, passVars, runVars, shadowVars, streamVars
  <1> QED BY <1>2, <1>3, <1>4, <1>5

LEMMA RegisterType ==
  ASSUME TypeOK, NEW A, Register(A)
  PROVE  orst' \in [Assets -> RangeType]
  BY DEF Register, NewRange, TypeOK, RangeType, TimeOK

LEMMA NewRunType ==
  ASSUME TypeOK, ses \in Sessions, NewRun
  PROVE  /\ runs' \in Runs /\ runs' = runs + 1 /\ runs' \in 0..MaxRuns
         /\ runDay' \in [Runs -> 0..MaxDay]
         /\ runSes' \in [Runs -> Sessions \cup {NoSession}]
  BY TicksAssumption DEF NewRun, TypeOK, HistoryOK, TimeOK, Runs

LEMMA TypePhaseA ==
  ASSUME TypeOK,
         \/ \E s \in Sessions : StartSession(s) \/ HaltSession(s)
         \/ RegisterEarly \/ RegisterFails \/ PhaseANoAsset \/ PhaseANoUser \/ PhaseARaises
         \/ \E A \in SUBSET Assets : PhaseA(A)
  PROVE  TypeOK'
  <1> USE DEF TypeOK, TimeOK, PassOK, HistoryOK, Pending, timeVars, passVars, runVars,
              shadowVars, streamVars
  <1>1. ASSUME NEW s \in Sessions, StartSession(s) \/ HaltSession(s) PROVE TypeOK'
    BY <1>1 DEF StartSession, HaltSession, Evaluated, faultVars
  <1>2. CASE RegisterEarly
    <2>1. orst' \in [Assets -> RangeType]
      BY <1>2, RegisterType DEF RegisterEarly
    <2> QED BY <1>2, <2>1 DEF RegisterEarly, faultVars
  <1>3. CASE RegisterFails \/ PhaseARaises
    <2>1. \E k \in Kinds : Fault(k)
      BY <1>3 DEF RegisterFails, PhaseARaises, Kinds
    <2>2. faults' \in [Kinds -> Nat] /\ left' \in 0..MaxFaults
      BY <2>1, FaultType
    <2> QED BY <1>3, <2>2 DEF RegisterFails, PhaseARaises, Evaluated, BackToLoop
  <1>4. CASE PhaseANoAsset
    BY <1>4 DEF PhaseANoAsset, Evaluated, BackToLoop, faultVars
  <1>5. CASE PhaseANoUser
    <2>1. ses \in Sessions /\ NewRun
      BY <1>5 DEF PhaseANoUser
    <2>2. closed' \in [Runs -> Nat]
      BY <1>5, <2>1, NewRunType DEF PhaseANoUser
    <2> QED BY <1>5, <2>1, <2>2, NewRunType DEF PhaseANoUser, Evaluated, BackToLoop, faultVars
  <1>6. ASSUME NEW A \in SUBSET Assets, PhaseA(A) PROVE TypeOK'
    <2>1. ses \in Sessions /\ NewRun
      BY <1>6 DEF PhaseA
    <2>2. orst' \in [Assets -> RangeType]
      BY <1>6, RegisterType DEF PhaseA
    <2>3. [run |-> runs', assets |-> A, resolved |-> {}] \in PendingType
      BY <2>1, NewRunType DEF PendingType
    <2>4. /\ pending' = [pending EXCEPT ![ses] =
                [run |-> runs', assets |-> A, resolved |-> {}]]
          /\ runs' # 0
      BY <1>6, <2>1, NewRunType DEF PhaseA, Runs
    <2>5. pending' \in [Sessions -> PendingType] /\ todo' \subseteq Pending'
      BY <1>6, <2>1, <2>3, <2>4 DEF PhaseA, BackToLoop
    <2> QED BY <1>6, <2>1, <2>2, <2>5, NewRunType DEF PhaseA, Evaluated, BackToLoop, faultVars
  <1> QED BY <1>1, <1>2, <1>3, <1>4, <1>5, <1>6

LEMMA TypePhaseB ==
  ASSUME TypeOK, PhaseBStep
  PROVE  TypeOK'
  <1> USE DEF TypeOK, TimeOK, PassOK, HistoryOK, Pending, timeVars, passVars, runVars,
              shadowVars, streamVars, faultVars
  <1>1. CASE StartCheck
    <2>1. orst' \in [Assets -> RangeType]
      BY <1>1 DEF StartCheck, RangeType
    <2> QED BY <1>1, <2>1 DEF StartCheck
  <1>2. CASE PublishSignals
    <2>1. sent' \in [Sigs -> Nat]
      BY <1>2 DEF PublishSignals, Send
    <2> QED BY <1>2, <2>1, TicksAssumption DEF PublishSignals
  <1>3. CASE LogSignals \/ PhaseBDone
    BY <1>3 DEF LogSignals, PhaseBDone
  <1>4. CASE NotComplete
    BY <1>4 DEF NotComplete, VisitNext
  <1>5. CASE CloseSession
    <2>1. pending[ses].run \in Runs
      BY <1>5, AtWork DEF CloseSession, InPhaseB
    <2>2. closed' \in [Runs -> Nat]
      BY <1>5, <2>1 DEF CloseSession, Closed
    <2> QED BY <1>5, <2>2 DEF CloseSession, VisitNext
  <1>6. CASE EndCheck
    BY <1>6, NoneType DEF EndCheck
  <1>7. ASSUME NEW s \in Sessions, NEW H \in SUBSET Assets, Visit(s, H) PROVE TypeOK'
    <2>1. pending' \in [Sessions -> PendingType] /\ todo' \subseteq Pending'
      BY <1>7, PendingFacts DEF Visit, PendingType, Newly
    <2>2. used' \in [Sigs -> 0..MaxDay]
      BY <1>7 DEF Visit, Sigs, RangeType
    <2> QED BY <1>7, <2>1, <2>2 DEF Visit
  <1>8. ASSUME NEW a \in Assets, RegisterShadow(a) PROVE TypeOK'
    <2>1. pending[ses].run \in Runs
      BY <1>8, AtWork DEF RegisterShadow, InPhaseB
    <2> QED BY <1>8, <2>1 DEF RegisterShadow, Sigs
  <1> QED BY <1>1, <1>2, <1>3, <1>4, <1>5, <1>6, <1>7, <1>8 DEF PhaseBStep

LEMMA TypeFaults ==
  ASSUME TypeOK, PublishFails \/ B6Raises \/ CloseFails \/ PostLoopRaises \/ Crash
  PROVE  TypeOK'
  <1> USE DEF TypeOK, TimeOK, PassOK, HistoryOK, Pending, timeVars, passVars, runVars,
              shadowVars, streamVars
  <1>1. \E k \in Kinds : Fault(k)
    BY DEF PublishFails, B6Raises, CloseFails, PostLoopRaises, Crash, Kinds
  <1>2. faults' \in [Kinds -> Nat] /\ left' \in 0..MaxFaults
    BY <1>1, FaultType
  <1>3. CASE PublishFails
    <2>1. sent' \in [Sigs -> Nat] /\ tries' \in 0..(Attempts - 1)
      BY <1>3, TicksAssumption DEF PublishFails, Send
    <2> QED BY <1>2, <1>3, <2>1 DEF PublishFails
  <1>5. CASE CloseFails
    <2>1. pending[ses].run \in Runs
      BY <1>5, AtWork DEF CloseFails, InPhaseB
    <2>2. closed' \in [Runs -> Nat]
      BY <1>5, <2>1 DEF CloseFails, Closed
    <2> QED BY <1>2, <1>5, <2>2 DEF CloseFails, VisitNext
  <1>6. CASE B6Raises \/ PostLoopRaises
    BY <1>2, <1>6 DEF B6Raises, PostLoopRaises
  <1>4. CASE Crash
    BY <1>2, <1>4, NoneType, TicksAssumption DEF Crash
  <1> QED BY <1>3, <1>4, <1>5, <1>6

LEMMA TypeNext == TypeOK /\ [Next]_vars => TypeOK'
  BY TypeElsewhere, TypePhaseA, TypePhaseB, TypeFaults DEF Next, PhaseAStep, FaultStep

\* Every variable has its type; what the loop works on in Phase B is pending.
THEOREM TypeCorrect == Spec => []TypeOK
  BY TypeInit, TypeNext, PTL DEF Spec

-----------------------------------------------------------------------------
(* The invariants.                                                         *)

\* Outside Phase B no pass is under way, and only B6 has assets in hand.
FlowInv ==
    /\ pc \in {"loop", "register", "phaseA"} => todo = {} /\ done = {}
    /\ todo \cap done = {} /\ done \subseteq Pending
    /\ hot # {} => pc \in {"b6", "log", "shadow"}

\* Every pending session has a run of its own, one that has begun; a run that
\* has not begun has left no trace.
RunInv ==
    /\ \A s \in Pending : pending[s].run \in 1..runs
    /\ \A s, t \in Pending : pending[s].run = pending[t].run => s = t
    /\ \A r \in Runs : r > runs => closed[r] = 0
    /\ \A k \in Sigs : k[1] > runs => used[k] = 0 /\ sent[k] = 0

\* The run of a session that this pass has not completed was closed only by
\* passes cut short.
CloseInv ==
    /\ CloseOncePerRun
    /\ \A s \in Pending \ done : closed[pending[s].run] <= faults["post"]

\* An asset not resolved yet has no signal in this run; what B6 works on was
\* just resolved, and published at most by attempts that have raised.
SignalInv ==
    /\ BreakoutSignalledOnce
    /\ \A s \in Pending, a \in Assets :
            a \notin pending[s].resolved =>
                used[<<pending[s].run, a>>] = 0 /\ sent[<<pending[s].run, a>>] = 0
    /\ \A a \in hot : a \in pending[ses].resolved
    /\ pc = "b6" => \A a \in hot : /\ sent[<<pending[ses].run, a>>] <= tries
                                 /\ sent[<<pending[ses].run, a>>] <= faults["redis"]

IInv == TypeOK /\ FlowInv /\ RunInv /\ CloseInv /\ SignalInv /\ UntakenHasShadow

-----------------------------------------------------------------------------
(* Faults are counted and never forgotten.                                 *)

Faulty == faults["block"] + faults["redis"] + faults["crash"] > 0

Remembered == (Faulty => Faulty') /\ faults["redis"] <= faults'["redis"]

LEMMA FaultCounts ==
  ASSUME TypeOK, NEW k \in Kinds, Fault(k)
  PROVE  /\ k = "post" => faults'["post"] = faults["post"] + 1
         /\ k # "post" => faults'["post"] = faults["post"]
         /\ k \in {"block", "redis", "crash"} => Faulty'
         /\ k = "redis" => faults'["redis"] = faults["redis"] + 1
         /\ Remembered
  <1>1. /\ faults \in [Kinds -> Nat] /\ faults' = [faults EXCEPT ![k] = @ + 1]
        /\ Kinds = {"register", "block", "post", "redis", "crash"}
    BY DEF TypeOK, HistoryOK, Fault, Kinds
  <1>2. /\ faults["block"] \in Nat /\ faults["redis"] \in Nat /\ faults["crash"] \in Nat
        /\ faults["post"] \in Nat
    BY <1>1
  <1>3. CASE k = "block"
    BY <1>1, <1>2, <1>3 DEF Faulty, Remembered
  <1>4. CASE k = "redis"
    BY <1>1, <1>2, <1>4 DEF Faulty, Remembered
  <1>5. CASE k = "crash"
    BY <1>1, <1>2, <1>5 DEF Faulty, Remembered
  <1>6. CASE k \in {"post", "register"}
    BY <1>1, <1>2, <1>6 DEF Faulty, Remembered
  <1> QED BY <1>1, <1>3, <1>4, <1>5, <1>6

LEMMA FaultsKept ==
  ASSUME TypeOK, UNCHANGED faults
  PROVE  Remembered
  <1>1. faults["redis"] \in Nat
    BY DEF TypeOK, HistoryOK, Kinds
  <1> QED BY <1>1 DEF Remembered, Faulty

LEMMA OnceKept ==
  ASSUME IInv, Remembered, TypeOK', UNCHANGED <<used, sent>>,
         \A k \in Sigs : InB6(k) => InB6(k)' \/ Faulty'
  PROVE  BreakoutSignalledOnce'
  <1>1. faults["redis"] \in Nat /\ faults'["redis"] \in Nat /\ \A k \in Sigs : sent[k] \in Nat
    BY DEF IInv, TypeOK, HistoryOK, Kinds
  <1>2. \A k \in Sigs : sent'[k] <= 1 + faults'["redis"] /\ sent'[k] <= Attempts
    BY <1>1 DEF IInv, SignalInv, BreakoutSignalledOnce, Remembered
  <1>3. \A k \in Sigs : used'[k] # 0 /\ sent'[k] = 0 /\ ~InB6(k)' => Faulty'
    BY DEF IInv, SignalInv, BreakoutSignalledOnce, Remembered, Faulty
  <1> QED BY <1>2, <1>3 DEF BreakoutSignalledOnce, Faulty

\* B6 works on the same assets, or on none.
LEMMA InHandKept ==
  ASSUME IInv, TypeOK', Remembered, UNCHANGED <<pending, ses, tries, sent>>, hot' \subseteq hot,
         pc' = "b6" => pc = "b6"
  PROVE  /\ \A a \in hot' : a \in pending'[ses'].resolved
         /\ pc' = "b6" => \A a \in hot' : /\ sent'[<<pending'[ses'].run, a>>] <= tries'
                                         /\ sent'[<<pending'[ses'].run, a>>] <= faults'["redis"]
  <1>1. \A a \in hot' : a \in pending'[ses'].resolved
    BY DEF IInv, SignalInv
  <1>2. ASSUME pc' = "b6", NEW a \in hot'
        PROVE  /\ sent'[<<pending'[ses'].run, a>>] <= tries'
               /\ sent'[<<pending'[ses'].run, a>>] <= faults'["redis"]
    <2>1. pending[ses].run \in Runs /\ hot \subseteq Assets
      BY <1>2, AtWork DEF IInv, InPhaseB, TypeOK, PassOK
    <2>2. sent[<<pending[ses].run, a>>] \in Nat
      BY <2>1 DEF IInv, TypeOK, HistoryOK, Sigs
    <2>3. faults["redis"] \in Nat /\ faults'["redis"] \in Nat
      BY DEF IInv, TypeOK, HistoryOK, Kinds
    <2> QED BY <1>2, <2>2, <2>3 DEF IInv, SignalInv, Remembered
  <1> QED BY <1>1, <1>2

LEMMA PostNat == TypeOK => faults["post"] \in Nat
  BY DEF TypeOK, HistoryOK, Kinds

-----------------------------------------------------------------------------
(* Steps that leave the pending sessions, the streams and the shadows alone. *)

LEMMA QuietKeeps ==
  ASSUME IInv, TypeOK',
         pc \in {"loop", "register", "phaseA"} => pc' \in {"loop", "register", "phaseA"},
         pc \notin {"loop", "register", "phaseA"} => UNCHANGED <<pc, ses>>,
         faults'["post"] = faults["post"], Remembered,
         UNCHANGED <<pending, todo, done, hot, tries, runs, used, sent, closed, shadows, taken, theory>>
  PROVE  IInv'
  <1>1. FlowInv'
    BY DEF IInv, FlowInv, Pending
  <1>2. RunInv'
    BY DEF IInv, RunInv, Pending
  <1>3. CloseInv'
    BY DEF IInv, CloseInv, CloseOncePerRun, Pending
  <1>4. hot # {} => UNCHANGED <<pc, ses>>
    BY DEF IInv, FlowInv
  <1>5. \A k \in Sigs : (InB6(k)' <=> InB6(k)) /\ (ShadowDue(k)' <=> ShadowDue(k))
    <2>1. CASE hot = {}
      BY <2>1 DEF InB6, ShadowDue, KeysOf
    <2>2. CASE hot # {}
      BY <2>2, <1>4 DEF InB6, ShadowDue, KeysOf
    <2> QED BY <2>1, <2>2
  <1>6. SignalInv'
    <2>1. BreakoutSignalledOnce'
      BY <1>5, OnceKept
    <2>2. CASE hot = {}
      BY <2>1, <2>2 DEF IInv, SignalInv, Pending
    <2>3. CASE hot # {}
      BY <2>1, <2>3, <1>4, InHandKept DEF IInv, SignalInv, Pending
    <2> QED BY <2>2, <2>3
  <1>7. UntakenHasShadow'
    BY <1>5 DEF IInv, UntakenHasShadow, Faulty, Remembered
  <1> QED BY <1>1, <1>2, <1>3, <1>6, <1>7 DEF IInv

LEMMA StepQuiet ==
  ASSUME IInv, TypeOK',
         \/ Tick \/ NextDay \/ (\E a \in Assets : Quote(a)) \/ UNCHANGED vars
         \/ \E s \in Sessions : StartSession(s) \/ HaltSession(s)
         \/ RegisterEarly \/ RegisterFails \/ PhaseANoAsset \/ PhaseARaises
  PROVE  IInv'
  <1>1. UNCHANGED <<pending, todo, done, hot, tries, runs, used, sent, closed, shadows, taken, theory>>
    BY DEF Tick, NextDay, Quote, vars, StartSession, HaltSession, RegisterEarly, RegisterFails,
           PhaseANoAsset, PhaseARaises, BackToLoop, passVars, runVars, shadowVars, streamVars
  <1>2. /\ pc \in {"loop", "register", "phaseA"} => pc' \in {"loop", "register", "phaseA"}
        /\ pc \notin {"loop", "register", "phaseA"} => UNCHANGED <<pc, ses>>
    BY DEF Tick, NextDay, Quote, vars, StartSession, HaltSession, RegisterEarly, RegisterFails,
           PhaseANoAsset, PhaseARaises, BackToLoop, passVars
  <1>3. faults'["post"] = faults["post"] /\ Remembered
    <2>1. CASE RegisterFails \/ PhaseARaises
      <3>1. PICK k \in Kinds : Fault(k) /\ k # "post"
        BY <2>1 DEF RegisterFails, PhaseARaises, Kinds
      <3> QED BY <3>1, FaultCounts DEF IInv
    <2>2. CASE UNCHANGED faults
      BY <2>2, FaultsKept DEF IInv
    <2> QED BY <2>1, <2>2 DEF Tick, NextDay, Quote, vars, StartSession, HaltSession,
            RegisterEarly, PhaseANoAsset, faultVars
  <1> QED BY <1>1, <1>2, <1>3, QuietKeeps

\* A new run.
LEMMA StepNewRun ==
  ASSUME IInv, TypeOK', PhaseANoUser \/ \E A \in SUBSET Assets : PhaseA(A)
  PROVE  IInv'
  <1>1. /\ pc = "phaseA" /\ pc' = "loop" /\ NewRun
        /\ UNCHANGED <<todo, done, hot, used, sent, shadows, taken, theory, faults>>
    BY DEF PhaseANoUser, PhaseA, BackToLoop, streamVars, shadowVars, faultVars
  <1>2. /\ runs' = runs + 1 /\ runs \in Nat /\ runs' \in Runs
        /\ hot = {} /\ hot' = {} /\ todo' = {} /\ done' = {} /\ done = {} /\ ses \in Sessions
    BY <1>1 DEF NewRun, IInv, FlowInv, TypeOK, HistoryOK, Runs, PassOK
  <1>3. FlowInv'
    BY <1>1, <1>2 DEF FlowInv
  <1>4. \A k \in Sigs : ~InB6(k) /\ ~InB6(k)' /\ ~ShadowDue(k) /\ ~ShadowDue(k)'
    BY <1>1 DEF InB6, ShadowDue
  <1>5. BreakoutSignalledOnce' /\ UntakenHasShadow'
    <2>1. Remembered
      BY <1>1, FaultsKept DEF IInv
    <2> QED BY <1>1, <1>4, <2>1, OnceKept DEF IInv, UntakenHasShadow
  <1>6. faults["post"] \in Nat
    BY PostNat DEF IInv
  <1>7. CASE PhaseANoUser
    <2>1. UNCHANGED pending /\ closed' = [closed EXCEPT ![runs'] = @ + 1]
      BY <1>7 DEF PhaseANoUser
    <2>2. closed[runs'] = 0 /\ \A s \in Pending : pending[s].run # runs' /\ pending[s].run \in Runs
      <3>1. closed[runs'] = 0
        BY <1>2 DEF IInv, RunInv
      <3>2. ASSUME NEW s \in Pending PROVE pending[s].run # runs' /\ pending[s].run \in Runs
        <4>1. pending[s].run \in 1..runs /\ runs \in 0..MaxRuns /\ MaxRuns \in Nat
          BY TicksAssumption DEF IInv, RunInv, TypeOK, HistoryOK
        <4> QED BY <4>1, <1>2 DEF Runs
      <3> QED BY <3>1, <3>2
    <2>3. closed'[runs'] = 1 /\ \A r \in Runs : r # runs' => closed'[r] = closed[r]
      BY <2>1, <2>2, <1>2 DEF IInv, TypeOK, HistoryOK
    <2>4. RunInv'
      BY <1>1, <1>2, <2>1, <2>3 DEF IInv, RunInv, Pending, Runs, Sigs
    <2>5. CloseInv'
      BY <1>1, <1>2, <1>6, <2>1, <2>2, <2>3 DEF IInv, CloseInv, CloseOncePerRun, Pending
    <2>6. SignalInv'
      BY <1>1, <1>2, <1>5, <2>1 DEF IInv, SignalInv, Pending
    <2> QED BY <1>3, <1>5, <2>4, <2>5, <2>6 DEF IInv
  <1>8. ASSUME NEW A \in SUBSET Assets, PhaseA(A) PROVE IInv'
    <2>1. /\ pending' = [pending EXCEPT ![ses] = [run |-> runs', assets |-> A, resolved |-> {}]]
          /\ UNCHANGED closed
      BY <1>8 DEF PhaseA, streamVars
    <2>2. /\ pending'[ses].run = runs' /\ pending'[ses].resolved = {}
          /\ \A s \in Sessions : s # ses => pending'[s] = pending[s]
          /\ Pending' = Pending \cup {ses}
      BY <2>1, <1>2 DEF IInv, TypeOK, Pending, Runs
    <2>3. RunInv'
      <3>1. \A s \in Pending' : pending'[s].run \in 1..runs'
        BY <1>2, <2>2 DEF IInv, RunInv, Pending, Runs
      <3>2. \A s \in Pending' : s # ses => pending'[s].run # runs'
        BY <1>2, <2>2 DEF IInv, RunInv, Pending
      <3>3. \A s, t \in Pending' : pending'[s].run = pending'[t].run => s = t
        BY <2>2, <3>2 DEF IInv, RunInv, Pending
      <3> QED BY <1>1, <1>2, <2>1, <3>1, <3>3 DEF IInv, RunInv, Runs, Sigs
    <2>4. CloseInv'
      <3>1. closed[runs'] = 0
        BY <1>2 DEF IInv, RunInv
      <3>2. \A s \in Pending' \ done' : closed[pending'[s].run] <= faults["post"]
        BY <1>2, <1>6, <2>2, <3>1 DEF IInv, CloseInv, Pending
      <3> QED BY <1>1, <2>1, <3>2 DEF IInv, CloseInv, CloseOncePerRun
    <2>5. SignalInv'
      <3>1. \A a \in Assets : used[<<runs', a>>] = 0 /\ sent[<<runs', a>>] = 0
        <4>1. \A a \in Assets : <<runs', a>> \in Sigs /\ <<runs', a>>[1] > runs
          BY <1>2 DEF Sigs
        <4> QED BY <4>1 DEF IInv, RunInv
      <3>2. \A s \in Pending', a \in Assets : a \notin pending'[s].resolved =>
                used[<<pending'[s].run, a>>] = 0 /\ sent[<<pending'[s].run, a>>] = 0
        BY <2>2, <3>1 DEF IInv, SignalInv, Pending
      <3> QED BY <1>1, <1>2, <1>5, <3>2 DEF SignalInv
    <2> QED BY <1>3, <1>5, <2>3, <2>4, <2>5 DEF IInv
  <1> QED BY <1>7, <1>8

-----------------------------------------------------------------------------
(* Phase B.                                                                *)

\* Of two pending sessions each has its own signals.
LEMMA OwnKeys ==
  ASSUME IInv, NEW s \in Pending, NEW t \in Pending, NEW a, NEW A \in SUBSET Assets,
         <<pending[t].run, a>> \in KeysOf(s, A)
  PROVE  s = t /\ a \in A
  <1>1. PICK b \in A : <<pending[t].run, a>> = <<pending[s].run, b>>
    BY DEF KeysOf
  <1> QED BY <1>1 DEF IInv, RunInv

LEMMA KeysBegun ==
  ASSUME IInv, NEW s \in Pending, NEW A \in SUBSET Assets
  PROVE  \A k \in KeysOf(s, A) : k \in Sigs /\ k[1] <= runs
  <1>1. pending[s].run \in 1..runs /\ runs \in 0..MaxRuns /\ MaxRuns \in Nat
    BY TicksAssumption DEF IInv, RunInv, TypeOK, HistoryOK
  <1>2. pending[s].run \in Runs /\ pending[s].run <= runs
    BY <1>1 DEF Runs
  <1> QED BY <1>2 DEF KeysOf, Sigs

LEMMA StepStartCheck ==
  ASSUME IInv, TypeOK', StartCheck
  PROVE  IInv'
  <1>1. /\ pc = "loop" /\ pc' = "visit" /\ todo' = Pending /\ done' = {} /\ done = {} /\ hot = {}
        /\ UNCHANGED <<pending, hot, runs, used, sent, closed, shadows, taken, theory, faults>>
    BY DEF StartCheck, runVars, shadowVars, streamVars, faultVars, IInv, FlowInv
  <1>2. \A k \in Sigs : ~InB6(k) /\ ~InB6(k)' /\ ~ShadowDue(k) /\ ~ShadowDue(k)'
    BY <1>1 DEF InB6, ShadowDue
  <1>3. BreakoutSignalledOnce' /\ UntakenHasShadow'
    <2>1. Remembered
      BY <1>1, FaultsKept DEF IInv
    <2> QED BY <1>1, <1>2, <2>1, OnceKept DEF IInv, UntakenHasShadow
  <1> QED BY <1>1, <1>3 DEF IInv, FlowInv, RunInv, CloseInv, CloseOncePerRun, SignalInv, Pending

LEMMA StepVisit ==
  ASSUME IInv, TypeOK', NEW s \in Sessions, NEW H \in SUBSET Assets, Visit(s, H)
  PROVE  IInv'
  <1>1. /\ pc = "visit" /\ pc' = "b6" /\ ses' = s /\ hot' = H /\ hot = {}
        /\ s \in todo /\ s \in Pending /\ H \subseteq Newly(s)
        /\ pending' = [pending EXCEPT ![s].resolved = @ \cup Newly(s)]
        /\ used' = [k \in Sigs |-> IF k \in KeysOf(s, H) THEN orst[k[2]].day ELSE used[k]]
        /\ UNCHANGED <<todo, done, runs, sent, closed, shadows, taken, theory, faults>>
    BY DEF Visit, Recommended, Breakouts, runVars, shadowVars, faultVars, IInv, FlowInv, TypeOK
  <1>2. /\ \A t \in Sessions : pending'[t].run = pending[t].run
        /\ \A t \in Sessions : pending[t].resolved \subseteq pending'[t].resolved
        /\ pending'[s].resolved = pending[s].resolved \cup Newly(s)
        /\ Pending' = Pending
    BY <1>1, PendingFacts DEF IInv, TypeOK, Pending, PendingType
  <1>3. FlowInv'
    BY <1>1, <1>2 DEF IInv, FlowInv
  <1>4. CloseInv'
    BY <1>1, <1>2 DEF IInv, CloseInv, CloseOncePerRun, Pending
  <1>5. RunInv'
    <2>1. \A k \in Sigs : k[1] > runs => used'[k] = 0 /\ sent[k] = 0
      <3> SUFFICES ASSUME NEW k \in Sigs, k[1] > runs PROVE used'[k] = 0 /\ sent[k] = 0
        OBVIOUS
      <3>1. k[1] \in Nat /\ runs \in Nat
        BY DEF Sigs, Runs, IInv, TypeOK, HistoryOK
      <3>2. k \notin KeysOf(s, H)
        BY <1>1, <3>1, KeysBegun
      <3> QED BY <1>1, <3>2 DEF IInv, RunInv
    <2> QED BY <1>1, <1>2, <2>1 DEF IInv, RunInv, Pending
  <1>6. \A k \in Sigs : InB6(k)' <=> k \in KeysOf(s, H)
    BY <1>1, <1>2 DEF InB6, KeysOf
  <1>7. BreakoutSignalledOnce'
    <2>1. \A k \in Sigs : ~InB6(k)
      BY <1>1 DEF InB6
    <2> QED BY <1>1, <1>6, <2>1 DEF IInv, SignalInv, BreakoutSignalledOnce
  <1>8. SignalInv'
    <2>1. ASSUME NEW t \in Pending, NEW a \in Assets, a \notin pending'[t].resolved
          PROVE  used'[<<pending'[t].run, a>>] = 0 /\ sent[<<pending'[t].run, a>>] = 0
      <3>1. t \in Sessions /\ a \notin pending[t].resolved /\ pending'[t].run = pending[t].run
        BY <1>2, <2>1 DEF Pending
      <3>2. used[<<pending[t].run, a>>] = 0 /\ sent[<<pending[t].run, a>>] = 0
        BY <3>1 DEF IInv, SignalInv
      <3>3. <<pending[t].run, a>> \in Sigs
        <4>1. pending[t].run \in 1..runs /\ runs \in 0..MaxRuns /\ MaxRuns \in Nat
          BY TicksAssumption DEF IInv, RunInv, TypeOK, HistoryOK
        <4> QED BY <4>1 DEF Sigs, Runs
      <3>4. <<pending[t].run, a>> \notin KeysOf(s, H)
        BY <1>1, <1>2, <2>1, OwnKeys
      <3> QED BY <1>1, <3>1, <3>2, <3>3, <3>4
    <2>2. \A a \in H : a \in pending'[s].resolved
      BY <1>1, <1>2
    <2>3. \A a \in H : /\ sent[<<pending[s].run, a>>] <= tries'
                       /\ sent[<<pending[s].run, a>>] <= faults["redis"]
      <3>1. \A a \in H : sent[<<pending[s].run, a>>] = 0
        BY <1>1 DEF IInv, SignalInv, Newly
      <3>2. tries' >= 0 /\ faults["redis"] >= 0
        BY DEF IInv, TypeOK, HistoryOK, PassOK, Kinds
      <3> QED BY <3>1, <3>2
    <2> QED BY <1>1, <1>2, <1>7, <2>1, <2>2, <2>3 DEF SignalInv
  <1>9. UntakenHasShadow'
    <2>1. \A k \in Sigs : ~ShadowDue(k) /\ ~ShadowDue(k)'
      BY <1>1 DEF ShadowDue
    <2> QED BY <1>1, <2>1 DEF IInv, UntakenHasShadow
  <1> QED BY <1>3, <1>4, <1>5, <1>7, <1>8, <1>9 DEF IInv

\* An attempt of _publish_signals, whatever came of it.
LEMMA Attempted ==
  ASSUME IInv, TypeOK', pc = "b6", hot # {}, Send \/ UNCHANGED sent, Remembered,
         faults'["post"] = faults["post"],
         UNCHANGED <<pending, ses, todo, done, hot, runs, used, closed, shadows, taken, theory>>,
         \/ pc' = "log" /\ (Send \/ Faulty')
         \/ pc' = "b6" /\ tries' = tries + 1 /\ Faulty' /\ faults'["redis"] = faults["redis"] + 1
  PROVE  IInv'
  <1>1. ses \in Pending /\ hot \in SUBSET Assets
    BY AtWork DEF IInv, InPhaseB, TypeOK, PassOK
  <1>2. \A k \in Sigs : k \notin KeysOf(ses, hot) => sent'[k] = sent[k]
    BY DEF Send
  <1>3. ASSUME NEW k \in KeysOf(ses, hot)
        PROVE  /\ k \in Sigs /\ k[1] <= runs /\ sent[k] \in Nat /\ sent'[k] \in {sent[k], sent[k] + 1}
               /\ sent[k] <= tries /\ sent[k] <= faults["redis"]
               /\ Send => sent'[k] = sent[k] + 1
    <2>1. k \in Sigs /\ k[1] <= runs
      BY <1>1, KeysBegun
    <2>2. sent[k] <= tries /\ sent[k] <= faults["redis"]
      BY DEF IInv, SignalInv, KeysOf
    <2>3. sent[k] \in Nat /\ sent'[k] \in {sent[k], sent[k] + 1} /\ (Send => sent'[k] = sent[k] + 1)
      BY <2>1 DEF Send, IInv, TypeOK, HistoryOK
    <2> QED BY <2>1, <2>2, <2>3
  <1>4. /\ tries \in 0..(Attempts - 1) /\ tries' \in 0..(Attempts - 1) /\ Attempts \in Nat \ {0}
        /\ faults["redis"] \in Nat /\ faults'["redis"] \in Nat /\ faults["redis"] <= faults'["redis"]
    BY TicksAssumption DEF IInv, TypeOK, PassOK, HistoryOK, Kinds, Remembered
  <1>5. FlowInv' /\ CloseInv'
    BY DEF IInv, FlowInv, CloseInv, CloseOncePerRun, Pending
  <1>6. RunInv'
    <2>1. \A k \in Sigs : k[1] > runs => k \notin KeysOf(ses, hot)
      <3>1. \A k \in Sigs : k[1] \in Nat
        BY DEF Sigs, Runs
      <3>2. runs \in Nat
        BY DEF IInv, TypeOK, HistoryOK
      <3> QED BY <1>3, <3>1, <3>2
    <2> QED BY <1>2, <2>1 DEF IInv, RunInv, Pending
  <1>7. BreakoutSignalledOnce'
    <2>1. ASSUME NEW k \in Sigs PROVE sent'[k] <= 1 + faults'["redis"] /\ sent'[k] <= Attempts
      <3>1. CASE k \in KeysOf(ses, hot)
        BY <1>3, <1>4, <3>1
      <3>2. CASE k \notin KeysOf(ses, hot)
        <4>1. /\ sent'[k] = sent[k] /\ sent[k] \in Nat
              /\ sent[k] <= 1 + faults["redis"] /\ sent[k] <= Attempts
          BY <1>2, <3>2 DEF IInv, TypeOK, HistoryOK, SignalInv, BreakoutSignalledOnce
        <4> QED BY <1>4, <4>1
      <3> QED BY <3>1, <3>2
    <2>2. ASSUME NEW k \in Sigs, used'[k] # 0, sent'[k] = 0, ~InB6(k)' PROVE Faulty'
      <3>1. CASE k \in KeysOf(ses, hot)
        <4>1. ~Send
          BY <1>3, <2>2, <3>1
        <4> QED BY <4>1
      <3>2. CASE k \notin KeysOf(ses, hot)
        <4>1. Faulty
          BY <1>2, <2>2, <3>2 DEF IInv, SignalInv, BreakoutSignalledOnce, InB6, Faulty
        <4> QED BY <4>1 DEF Remembered
      <3> QED BY <3>1, <3>2
    <2> QED BY <2>1, <2>2 DEF BreakoutSignalledOnce, Faulty
  <1>8. SignalInv'
    <2>1. ASSUME NEW t \in Pending, NEW a \in Assets, a \notin pending[t].resolved
          PROVE  used[<<pending[t].run, a>>] = 0 /\ sent'[<<pending[t].run, a>>] = 0
      <3>1. used[<<pending[t].run, a>>] = 0 /\ sent[<<pending[t].run, a>>] = 0
        BY <2>1 DEF IInv, SignalInv
      <3>2. <<pending[t].run, a>> \notin KeysOf(ses, hot)
        BY <1>1, <2>1, OwnKeys DEF IInv, SignalInv
      <3>3. <<pending[t].run, a>> \in Sigs
        <4>1. pending[t].run \in 1..runs /\ runs \in 0..MaxRuns /\ MaxRuns \in Nat
          BY TicksAssumption DEF IInv, RunInv, TypeOK, HistoryOK
        <4> QED BY <4>1 DEF Sigs, Runs
      <3> QED BY <1>2, <3>1, <3>2, <3>3
    <2>2. ASSUME pc' = "b6", NEW a \in hot
          PROVE  /\ sent'[<<pending[ses].run, a>>] <= tries'
                 /\ sent'[<<pending[ses].run, a>>] <= faults'["redis"]
      <3>1. <<pending[ses].run, a>> \in KeysOf(ses, hot)
        BY DEF KeysOf
      <3>2. tries' = tries + 1 /\ faults'["redis"] = faults["redis"] + 1
        BY <2>2
      <3> QED BY <1>3, <1>4, <3>1, <3>2
    <2> QED BY <1>7, <2>1, <2>2 DEF IInv, SignalInv, Pending
  <1>9. UntakenHasShadow'
    <2> SUFFICES ASSUME NEW k \in Sigs, sent'[k] > 0, k \notin taken \cup shadows \cup theory,
                        ~ShadowDue(k)', ~Faulty'
                 PROVE  FALSE
      BY DEF UntakenHasShadow, Faulty
    <2>1. pc' = "log"
      OBVIOUS
    <2>2. k \notin KeysOf(ses, hot)
      BY <2>1 DEF ShadowDue, KeysOf
    <2>3. sent[k] > 0 /\ ~ShadowDue(k) /\ ~Faulty
      BY <1>2, <2>2 DEF ShadowDue, Remembered
    <2> QED BY <2>3 DEF IInv, UntakenHasShadow, Faulty
  <1> QED BY <1>5, <1>6, <1>8, <1>9 DEF IInv

LEMMA StepPublish ==
  ASSUME IInv, TypeOK', PublishSignals \/ PublishFails
  PROVE  IInv'
  <1>1. CASE PublishSignals
    <2>1. Remembered
      BY <1>1, FaultsKept DEF PublishSignals, faultVars, IInv
    <2> QED BY <1>1, <2>1, Attempted DEF PublishSignals, runVars, shadowVars, faultVars
  <1>2. CASE PublishFails
    <2>1. Fault("redis")
      BY <1>2 DEF PublishFails
    <2>2. /\ Faulty' /\ Remembered /\ faults'["post"] = faults["post"]
          /\ faults'["redis"] = faults["redis"] + 1
      BY <2>1, FaultCounts DEF IInv, Kinds
    <2> QED BY <1>2, <2>2, Attempted DEF PublishFails, runVars, shadowVars
  <1> QED BY <1>1, <1>2

\* Steps within Phase B that leave streams and pending sessions alone: what is
\* due stays due, or is settled, or a fault has been counted.
LEMMA WorkKeeps ==
  ASSUME IInv, TypeOK', pc \in {"b6", "log", "shadow"},
         pc' \in {"log", "shadow", "post"}, hot' \subseteq hot, hot' # {} => pc' # "post",
         faults'["post"] = faults["post"], Remembered,
         UNCHANGED <<pending, ses, todo, done, tries, runs, used, sent, closed, taken, theory>>,
         pc = "b6" /\ hot # {} => Faulty',
         shadows \subseteq shadows',
         \A k \in Sigs : ShadowDue(k) => ShadowDue(k)' \/ k \in shadows' \/ Faulty'
  PROVE  IInv'
  <1>1. FlowInv' /\ RunInv' /\ CloseInv'
    BY DEF IInv, FlowInv, RunInv, CloseInv, CloseOncePerRun, Pending
  <1>2. \A k \in Sigs : InB6(k) => Faulty'
    BY DEF InB6, KeysOf
  <1>3. BreakoutSignalledOnce'
    BY <1>2, OnceKept
  <1>4. SignalInv'
    BY <1>3, InHandKept DEF IInv, SignalInv, Pending
  <1>5. UntakenHasShadow'
    BY DEF IInv, UntakenHasShadow, Faulty, Remembered
  <1> QED BY <1>1, <1>3, <1>4, <1>5 DEF IInv

LEMMA StepWork ==
  ASSUME IInv, TypeOK',
         \/ LogSignals \/ B6Raises \/ PhaseBDone
         \/ \E a \in Assets : RegisterShadow(a)
  PROVE  IInv'
  <1>1. CASE B6Raises
    <2>1. Fault("block")
      BY <1>1 DEF B6Raises
    <2>2. Faulty' /\ Remembered /\ faults'["post"] = faults["post"]
      BY <2>1, FaultCounts DEF IInv, Kinds
    <2>3. /\ pc \in {"b6", "log"} /\ pc' \in {"log", "post"} /\ hot' \subseteq hot
          /\ hot' # {} => pc' # "post"
          /\ UNCHANGED <<pending, ses, todo, done, tries, runs, used, sent, closed, taken, theory, shadows>>
      BY <1>1 DEF B6Raises, runVars, shadowVars, streamVars
    <2> QED BY <2>2, <2>3, WorkKeeps
  <1>2. CASE LogSignals \/ PhaseBDone
    <2>1. /\ pc \in {"b6", "log", "shadow"} /\ pc' \in {"shadow", "post"} /\ hot' = hot
          /\ hot # {} => pc = "log" /\ pc' = "shadow"
          /\ UNCHANGED <<pending, ses, todo, done, tries, runs, used, sent, closed, taken, theory, shadows, faults>>
      BY <1>2 DEF LogSignals, PhaseBDone, runVars, shadowVars, streamVars, faultVars
    <2>2. \A k \in Sigs : ShadowDue(k) => ShadowDue(k)'
      BY <2>1 DEF ShadowDue, KeysOf
    <2>3. Remembered
      BY <2>1, FaultsKept DEF IInv
    <2> QED BY <2>1, <2>2, <2>3, WorkKeeps
  <1>3. ASSUME NEW a \in Assets, RegisterShadow(a) PROVE IInv'
    <2>1. /\ pc = "shadow" /\ pc' = "shadow" /\ hot' = hot \ {a}
          /\ shadows' = shadows \cup {<<pending[ses].run, a>>}
          /\ UNCHANGED <<pending, ses, todo, done, tries, runs, used, sent, closed, taken, theory, faults>>
      BY <1>3 DEF RegisterShadow, runVars, streamVars, faultVars
    <2>2. \A k \in Sigs : ShadowDue(k) => ShadowDue(k)' \/ k \in shadows'
      BY <2>1 DEF ShadowDue, KeysOf
    <2>3. Remembered
      BY <2>1, FaultsKept DEF IInv
    <2> QED BY <2>1, <2>2, <2>3, WorkKeeps
  <1> QED BY <1>1, <1>2, <1>3

\* Steps that no signal is in hand for, before and after.
LEMMA IdleSignals ==
  ASSUME IInv, TypeOK', FlowInv', hot = {}, hot' = {}, Remembered,
         UNCHANGED <<runs, used, sent, taken, theory, shadows>>,
         \A s \in Pending' : s \in Pending /\ pending'[s] = pending[s]
  PROVE  SignalInv' /\ UntakenHasShadow'
  <1>1. \A k \in Sigs : ~InB6(k) /\ ~InB6(k)' /\ ~ShadowDue(k) /\ ~ShadowDue(k)'
    BY DEF InB6, ShadowDue, KeysOf
  <1>2. BreakoutSignalledOnce' /\ UntakenHasShadow'
    BY <1>1, OnceKept DEF IInv, UntakenHasShadow, Faulty, Remembered
  <1> QED BY <1>2 DEF IInv, SignalInv

LEMMA StepPost ==
  ASSUME IInv, TypeOK', NotComplete \/ CloseSession \/ CloseFails \/ PostLoopRaises
  PROVE  IInv'
  <1>1. /\ pc = "post" /\ hot = {} /\ hot' = {}
        /\ UNCHANGED <<pending, runs, used, sent, taken, theory, shadows>>
    BY DEF NotComplete, CloseSession, CloseFails, PostLoopRaises, VisitNext, runVars, streamVars,
           shadowVars, IInv, FlowInv
  <1>2. /\ ses \in Pending /\ ses \notin done /\ pending[ses].run \in Runs
        /\ todo \subseteq Pending /\ done \subseteq Pending
    BY <1>1, AtWork DEF IInv, FlowInv, InPhaseB, TypeOK
  <1>3. faults["post"] \in Nat /\ closed \in [Runs -> Nat]
    BY PostNat DEF IInv, TypeOK, HistoryOK
  <1>4. Pending' = Pending
    BY <1>1 DEF Pending
  <1>5. Remembered
    <2>1. CASE CloseFails \/ PostLoopRaises
      <3>1. \E k \in Kinds : Fault(k)
        BY <2>1 DEF CloseFails, PostLoopRaises, Kinds
      <3> QED BY <3>1, FaultCounts DEF IInv
    <2>2. CASE UNCHANGED faults
      BY <2>2, FaultsKept DEF IInv
    <2> QED BY <2>1, <2>2 DEF NotComplete, CloseSession, faultVars
  <1>6. FlowInv'
    <2>1. CASE PostLoopRaises
      BY <1>1, <2>1 DEF PostLoopRaises, FlowInv
    <2>2. CASE NotComplete \/ CloseSession \/ CloseFails
      <3>1. PICK c \in {{}, {ses}} : todo' = todo \ {ses} /\ done' = done \cup c /\ pc' = "visit"
        BY <2>2 DEF NotComplete, CloseSession, CloseFails, VisitNext
      <3> QED BY <1>1, <1>2, <1>4, <3>1 DEF IInv, FlowInv
    <2> QED BY <2>1, <2>2
  <1>7. SignalInv' /\ UntakenHasShadow'
    BY <1>1, <1>4, <1>5, <1>6, IdleSignals
  <1>8. CASE NotComplete
    <2>1. UNCHANGED <<closed, faults>> /\ done' = done
      BY <1>8 DEF NotComplete, VisitNext, streamVars, faultVars
    <2> QED BY <1>1, <1>4, <1>6, <1>7, <2>1 DEF IInv, RunInv, CloseInv, CloseOncePerRun
  <1>9. CASE CloseSession \/ CloseFails
    <2>1. faults'["post"] = faults["post"] /\ done' = done \cup {ses}
      <3>1. CASE CloseSession
        BY <3>1 DEF CloseSession, VisitNext, faultVars
      <3>2. CASE CloseFails
        <4>1. Fault("redis")
          BY <3>2 DEF CloseFails
        <4> QED BY <3>2, <4>1, FaultCounts DEF CloseFails, VisitNext, IInv, Kinds
      <3> QED BY <1>9, <3>1, <3>2
    <2>2. /\ closed'[pending[ses].run] \in {closed[pending[ses].run], closed[pending[ses].run] + 1}
          /\ \A r \in Runs : r # pending[ses].run => closed'[r] = closed[r]
      BY <1>2, <1>3, <1>9 DEF CloseSession, CloseFails, Closed
    <2>3. closed[pending[ses].run] <= faults["post"] /\ closed[pending[ses].run] \in Nat
      BY <1>2, <1>3 DEF IInv, CloseInv
    <2>4. CloseOncePerRun'
      BY <1>2, <1>3, <2>1, <2>2, <2>3 DEF IInv, CloseInv, CloseOncePerRun
    <2>5. ASSUME NEW t \in Pending \ done' PROVE closed'[pending[t].run] <= faults["post"]
      <3>1. t # ses /\ pending[t].run # pending[ses].run /\ pending[t].run \in Runs
        BY <1>2, <2>1, <2>5 DEF IInv, RunInv, Pending, TypeOK, PendingType, Runs
      <3> QED BY <2>1, <2>2, <2>5, <3>1 DEF IInv, CloseInv
    <2>6. RunInv'
      <3>1. \A r \in Runs : r > runs => r # pending[ses].run
        <4>1. pending[ses].run \in 1..runs /\ runs \in Nat
          BY <1>2 DEF IInv, RunInv, TypeOK, HistoryOK
        <4> QED BY <4>1 DEF Runs
      <3> QED BY <1>1, <1>4, <2>2, <3>1 DEF IInv, RunInv
    <2> QED BY <1>1, <1>4, <1>6, <1>7, <2>1, <2>4, <2>5, <2>6 DEF IInv, CloseInv
  <1>11. CASE PostLoopRaises
    <2>1. Fault("post") /\ UNCHANGED closed
      BY <1>11 DEF PostLoopRaises, streamVars
    <2>2. faults'["post"] = faults["post"] + 1
      BY <2>1, FaultCounts DEF IInv, Kinds
    <2>3. CloseOncePerRun' /\ \A t \in Pending : closed[pending[t].run] <= faults'["post"]
      <3>1. \A t \in Pending : pending[t].run \in Runs
        BY DEF Pending, IInv, TypeOK, PendingType, Runs
      <3> QED BY <1>3, <2>1, <2>2, <3>1 DEF IInv, CloseInv, CloseOncePerRun
    <2> QED BY <1>1, <1>4, <1>6, <1>7, <2>1, <2>3 DEF IInv, RunInv, CloseInv
  <1> QED BY <1>8, <1>9, <1>11

LEMMA StepForgets ==
  ASSUME IInv, TypeOK', EndCheck \/ Crash
  PROVE  IInv'
  <1>1. /\ hot' = {} /\ pc' = "loop" /\ todo' = {} /\ done' = {}
        /\ UNCHANGED <<runs, used, sent, closed, taken, theory>>
    BY DEF EndCheck, Crash, runVars, streamVars, shadowVars, IInv, FlowInv
  <1>2. \A s \in Pending' : s \in Pending \ done /\ pending'[s] = pending[s]
    BY DEF EndCheck, Crash, Pending, NoPending
  <1>3. FlowInv'
    BY <1>1 DEF FlowInv
  <1>4. RunInv'
    BY <1>1, <1>2 DEF IInv, RunInv
  <1>5. CASE EndCheck
    <2>1. hot = {} /\ UNCHANGED <<shadows, faults>>
      BY <1>5 DEF EndCheck, shadowVars, faultVars, IInv, FlowInv
    <2>2. CloseInv'
      BY <1>1, <1>2, <2>1 DEF IInv, CloseInv, CloseOncePerRun
    <2>3. SignalInv' /\ UntakenHasShadow'
      BY <1>1, <1>2, <1>3, <2>1, FaultsKept, IdleSignals DEF IInv
    <2> QED BY <1>3, <1>4, <2>2, <2>3 DEF IInv
  <1>6. CASE Crash
    <2>1. Fault("crash") /\ Pending' = {}
      BY <1>6 DEF Crash, Pending, NoPending
    <2>2. faults'["post"] = faults["post"] /\ Faulty' /\ Remembered
      BY <2>1, FaultCounts DEF IInv, Kinds
    <2>3. CloseInv'
      BY <1>1, <2>1, <2>2 DEF IInv, CloseInv, CloseOncePerRun
    <2>4. BreakoutSignalledOnce' /\ UntakenHasShadow'
      BY <1>1, <2>2, OnceKept DEF UntakenHasShadow, Faulty
    <2>5. SignalInv'
      BY <1>1, <2>1, <2>4 DEF SignalInv
    <2> QED BY <1>3, <1>4, <2>3, <2>4, <2>5 DEF IInv
  <1> QED BY <1>5, <1>6

LEMMA StepShadows ==
  ASSUME IInv, TypeOK', NEW k \in Sigs,
         ResolveShadow(k) \/ TakeSignal(k) \/ ResolveShadowFails(k)
  PROVE  IInv'
  <1>1. /\ UNCHANGED <<pending, pc, ses, todo, done, hot, tries, runs, used, sent, closed>>
        /\ shadows' = shadows \ {k} /\ taken \subseteq taken' /\ theory \subseteq theory'
        /\ k \in taken' \cup theory' \/ ResolveShadowFails(k)
    BY DEF ResolveShadow, TakeSignal, ResolveShadowFails, passVars, runVars, streamVars
  <1>2. /\ faults'["post"] = faults["post"] /\ Remembered
        /\ ResolveShadowFails(k) => Faulty'
    <2>1. CASE ResolveShadowFails(k)
      <3>1. Fault("redis")
        BY <2>1 DEF ResolveShadowFails
      <3> QED BY <3>1, FaultCounts DEF IInv, Kinds
    <2>2. CASE ~ResolveShadowFails(k)
      <3>1. UNCHANGED faults
        BY <2>2 DEF ResolveShadow, TakeSignal, faultVars
      <3> QED BY <2>2, <3>1, FaultsKept DEF IInv
    <2> QED BY <2>1, <2>2
  <1>3. \A j \in Sigs : (InB6(j)' <=> InB6(j)) /\ (ShadowDue(j)' <=> ShadowDue(j))
    BY <1>1 DEF InB6, ShadowDue, KeysOf
  <1>4. FlowInv' /\ RunInv' /\ CloseInv'
    BY <1>1, <1>2 DEF IInv, FlowInv, RunInv, CloseInv, CloseOncePerRun, Pending
  <1>5. BreakoutSignalledOnce'
    BY <1>1, <1>2, <1>3, OnceKept
  <1>6. SignalInv'
    BY <1>1, <1>2, <1>5, InHandKept DEF IInv, SignalInv, Pending
  <1>7. UntakenHasShadow'
    <2> SUFFICES ASSUME NEW j \in Sigs, sent[j] > 0, j \notin taken' \cup shadows' \cup theory',
                        ~ShadowDue(j)
                 PROVE  Faulty'
      BY <1>1, <1>3 DEF UntakenHasShadow, Faulty
    <2>1. CASE j = k
      BY <1>1, <1>2, <2>1
    <2>2. CASE j # k
      BY <1>1, <1>2, <2>2 DEF IInv, UntakenHasShadow, Faulty, Remembered
    <2> QED BY <2>1, <2>2
  <1> QED BY <1>4, <1>6, <1>7 DEF IInv

-----------------------------------------------------------------------------
LEMMA IInit == Init => IInv
  <1> SUFFICES ASSUME Init PROVE IInv
    OBVIOUS
  <1>1. TypeOK /\ Pending = {}
    BY TypeInit DEF Init, Pending, NoPending
  <1>2. faults["post"] \in Nat
    BY <1>1, PostNat
  <1>3. FlowInv
    BY <1>1 DEF Init, FlowInv
  <1>4. RunInv
    BY <1>1 DEF Init, RunInv
  <1>5. CloseInv
    BY <1>1, <1>2 DEF Init, CloseInv, CloseOncePerRun
  <1>6. SignalInv
    <2>1. faults["redis"] = 0 /\ Attempts \in Nat
      BY TicksAssumption DEF Init, Kinds
    <2> QED BY <1>1, <2>1 DEF Init, SignalInv, BreakoutSignalledOnce
  <1>7. UntakenHasShadow
    BY DEF Init, UntakenHasShadow
  <1> QED BY <1>1, <1>3, <1>4, <1>5, <1>6, <1>7 DEF IInv

LEMMA INext == IInv /\ [Next]_vars => IInv'
  <1> SUFFICES ASSUME IInv, [Next]_vars PROVE IInv'
    OBVIOUS
  <1>1. TypeOK'
    BY TypeNext DEF IInv
  <1> QED BY <1>1, StepQuiet, StepNewRun, StepStartCheck, StepVisit, StepPublish, StepWork,
             StepPost, StepForgets, StepShadows
          DEF Next, PhaseAStep, PhaseBStep, FaultStep

\* SESSION_CLOSE comes once per run, and again only for a pass that B8 or B9
\* has cut short.
THEOREM ClosedOnce == Spec => []CloseOncePerRun
  <1>1. IInv => CloseOncePerRun
    BY DEF IInv, CloseInv
  <1> QED BY <1>1, IInit, INext, PTL DEF Spec

\* A breakout is published once: more often only by attempts that raised
\* after their entry was added, never only if a fault has been counted.
THEOREM SignalledOnce == Spec => []BreakoutSignalledOnce
  <1>1. IInv => BreakoutSignalledOnce
    BY DEF IInv, SignalInv
  <1> QED BY <1>1, IInit, INext, PTL DEF Spec

\* A published signal is taken, watched, or has its outcome, or a fault has
\* been counted.
THEOREM Watched == Spec => []UntakenHasShadow
  <1>1. IInv => UntakenHasShadow
    BY DEF IInv
  <1> QED BY <1>1, IInit, INext, PTL DEF Spec

-----------------------------------------------------------------------------
(* Fresh ranges.  As long as no early registration has failed, the range   *)
(* of an asset of the session that Phase A works on is of today; and an    *)
(* asset that waits for its own session has a range of the day of that     *)
(* run, which is today: it is overdue by the end of the day, so no night   *)
(* passes over it.                                                         *)

Own(s) == {a \in Active : HomeOf[a] = s}

RangeOfToday(a) == orst[a].st # "none" /\ orst[a].day = day

Waits(s, a) == a \in pending[s].assets \ pending[s].resolved

FreshInv ==
    /\ \A s \in Pending : runSes[pending[s].run] = s
    /\ faults["register"] = 0 =>
          /\ pc = "phaseA" => \A a \in Own(ses) : RangeOfToday(a)
          /\ \A s \in Pending : \A a \in Own(s) : Waits(s, a) =>
                RangeOfToday(a) /\ runDay[pending[s].run] = day
    /\ FreshRange

FInv == IInv /\ FreshInv

LEMMA OwnAssets == \A s : Own(s) \subseteq Assets
  BY SessionsAssumption DEF Own

LEMMA RegisterNat == TypeOK => faults["register"] \in Nat
  BY DEF TypeOK, HistoryOK, Kinds

LEMMA RegisterCounts ==
  ASSUME TypeOK, NEW k \in Kinds, Fault(k)
  PROVE  /\ k = "register" => faults'["register"] # 0
         /\ k # "register" => faults'["register"] = faults["register"]
  <1>1. /\ faults' = [faults EXCEPT ![k] = @ + 1] /\ faults \in [Kinds -> Nat]
        /\ "register" \in Kinds
    BY DEF Fault, TypeOK, HistoryOK, Kinds
  <1>2. faults["register"] \in Nat
    BY <1>1
  <1> QED BY <1>1, <1>2

\* A night falls on no asset that waits for its own session.
LEMMA NoneWaitsOvernight ==
  ASSUME FInv, NextDay, faults["register"] = 0, NEW s \in Pending, NEW a \in Own(s)
  PROVE  ~Waits(s, a)
  <1> SUFFICES ASSUME Waits(s, a) PROVE FALSE
    OBVIOUS
  <1>1. a \in Assets /\ HomeOf[a] = s /\ s \in Sessions
    BY OwnAssets DEF Own, Pending
  <1>2. orst[a].st # "none"
    BY DEF FInv, FreshInv, RangeOfToday
  <1>3. clock >= Cutoff(a)
    BY <1>1, CutoffAssumption, SessionsAssumption, TicksAssumption
       DEF NextDay, Cutoff, OrStart
  <1>4. Overdue
    BY <1>2, <1>3 DEF Overdue, Waits
  <1> QED BY <1>4 DEF NextDay

\* A step that keeps runs, the pending sessions and what was used, and takes
\* no range of today away.
LEMMA FreshKept ==
  ASSUME FInv, UNCHANGED <<day, runDay, runSes, used>>,
         \A s \in Pending' : s \in Pending /\ pending'[s].run = pending[s].run,
         \A s \in Pending' : \A a : Waits(s, a)' => Waits(s, a),
         faults'["register"] = 0 => faults["register"] = 0,
         \A a \in Active : RangeOfToday(a) => RangeOfToday(a)',
         faults'["register"] = 0 /\ pc' = "phaseA" =>
            \A a \in Own(ses') : RangeOfToday(a)'
  PROVE  FreshInv'
  <1>1. \A s \in Pending' : runSes'[pending'[s].run] = s
    BY DEF FInv, FreshInv
  <1>2. FreshRange'
    BY DEF FInv, FreshInv, FreshRange
  <1>3. ASSUME faults'["register"] = 0, NEW s \in Pending', NEW a \in Own(s), Waits(s, a)'
        PROVE  RangeOfToday(a)' /\ runDay'[pending'[s].run] = day'
    BY <1>3 DEF FInv, FreshInv, Own
  <1> QED BY <1>1, <1>2, <1>3 DEF FreshInv, Own

\* Registering keeps or renews a range of today.
LEMMA Registered ==
  ASSUME TypeOK, UNCHANGED day, NEW R, Register(R)
  PROVE  /\ \A a \in Assets : RangeOfToday(a) => RangeOfToday(a)'
         /\ \A a \in Assets \cap R : RangeOfToday(a)'
  BY DEF Register, NewRange, RangeOfToday

LEMMA FreshNextDay ==
  ASSUME FInv, NextDay
  PROVE  FreshInv'
  <1>1. /\ UNCHANGED <<orst, pending, pc, runDay, runSes, used, faults>> /\ pc = "loop"
        /\ Pending' = Pending
    BY DEF NextDay, passVars, runVars, streamVars, faultVars, Pending
  <1>2. ASSUME faults'["register"] = 0, NEW s \in Pending', NEW a \in Own(s)
        PROVE  ~Waits(s, a)'
    BY <1>1, <1>2, NoneWaitsOvernight DEF Waits
  <1>3. FreshRange'
    BY <1>1 DEF FInv, FreshInv, FreshRange
  <1> QED BY <1>1, <1>2, <1>3 DEF FInv, FreshInv, Own

LEMMA FreshQuiet ==
  ASSUME FInv,
         \/ Tick \/ (\E a \in Assets : Quote(a)) \/ UNCHANGED vars \/ StartCheck
         \/ (\E s \in Sessions : StartSession(s) \/ HaltSession(s))
         \/ PublishSignals \/ LogSignals \/ PhaseBDone \/ NotComplete \/ CloseSession
         \/ PhaseANoAsset \/ (\E a \in Assets : RegisterShadow(a))
         \/ \E k \in Sigs : ResolveShadow(k) \/ TakeSignal(k)
  PROVE  FreshInv'
  <1>1. UNCHANGED <<day, runDay, runSes, used, pending, faults>>
    BY DEF Tick, Quote, vars, StartCheck, StartSession, HaltSession, PublishSignals, LogSignals,
           PhaseBDone, NotComplete, CloseSession, PhaseANoAsset, RegisterShadow, ResolveShadow,
           TakeSignal, timeVars, runVars, streamVars, faultVars
  <1>2. \A a \in Assets : RangeOfToday(a) => RangeOfToday(a)'
    <2>1. ASSUME NEW b \in Assets, Quote(b), NEW a \in Assets, RangeOfToday(a)
          PROVE  RangeOfToday(a)'
      <3>1. PICK st \in QuoteMoves(b) : orst' = [orst EXCEPT ![b].st = st]
        BY <2>1 DEF Quote
      <3>2. st # "none"
        BY <3>1 DEF QuoteMoves
      <3>3. orst'[a].day = orst[a].day /\ (orst'[a].st = st \/ orst'[a].st = orst[a].st)
        BY <3>1 DEF FInv, IInv, TypeOK, RangeType
      <3> QED BY <1>1, <2>1, <3>2, <3>3 DEF RangeOfToday
    <2>2. ASSUME StartCheck, NEW a \in Assets, RangeOfToday(a) PROVE RangeOfToday(a)'
      <3>1. orst'[a] = orst[a] \/ orst'[a] = [orst[a] EXCEPT !.st = "expired"]
        BY <2>2 DEF StartCheck
      <3>2. orst'[a].day = orst[a].day /\ (orst'[a].st = "expired" \/ orst'[a].st = orst[a].st)
        BY <3>1 DEF FInv, IInv, TypeOK, RangeType
      <3> QED BY <1>1, <2>2, <3>2 DEF RangeOfToday
    <2>3. CASE UNCHANGED orst
      BY <1>1, <2>3 DEF RangeOfToday
    <2> QED BY <2>1, <2>2, <2>3
            DEF Tick, vars, StartSession, HaltSession, PublishSignals, LogSignals, PhaseBDone,
                NotComplete, CloseSession, PhaseANoAsset, RegisterShadow, ResolveShadow, TakeSignal
  <1>3. pc' = "phaseA" => pc = "phaseA" /\ ses' = ses
    BY DEF Tick, Quote, vars, StartCheck, StartSession, HaltSession, PublishSignals, LogSignals,
           PhaseBDone, NotComplete, CloseSession, VisitNext, PhaseANoAsset, BackToLoop,
           RegisterShadow, ResolveShadow, TakeSignal, passVars
  <1>4. faults["register"] = 0 /\ pc' = "phaseA" => \A a \in Own(ses') : RangeOfToday(a)'
    BY <1>2, <1>3, OwnAssets DEF FInv, FreshInv
  <1> QED BY <1>1, <1>2, <1>4, SessionsAssumption, FreshKept DEF Pending, Waits

LEMMA FreshRegisterEarly ==
  ASSUME FInv, RegisterEarly
  PROVE  FreshInv'
  <1>1. /\ UNCHANGED <<day, runDay, runSes, used, pending, faults, ses>> /\ ses \in Sessions
        /\ Register(Tracked(ses) \cap Active)
    BY DEF RegisterEarly, timeVars, runVars, streamVars, faultVars, FInv, IInv, TypeOK, PassOK
  <1>2. \A a \in Own(ses) : a \in Tracked(ses) \cap Active
    BY OwnAssets DEF Own, Tracked, HomeAssets
  <1>3. /\ \A a \in Assets : RangeOfToday(a) => RangeOfToday(a)'
        /\ \A a \in Own(ses') : RangeOfToday(a)'
    BY <1>1, <1>2, OwnAssets, Registered DEF FInv, IInv
  <1> QED BY <1>1, <1>3, SessionsAssumption, FreshKept DEF Pending, Waits

LEMMA FreshNewRun ==
  ASSUME FInv, TypeOK', PhaseANoUser \/ \E A \in SUBSET Assets : PhaseA(A)
  PROVE  FreshInv'
  <1>1. /\ pc = "phaseA" /\ pc' = "loop" /\ NewRun /\ ses \in Sessions
        /\ UNCHANGED <<day, used, faults>>
    BY DEF PhaseANoUser, PhaseA, BackToLoop, timeVars, streamVars, faultVars, FInv, IInv, TypeOK, PassOK
  <1>2. /\ runs \in Nat /\ runs' = runs + 1 /\ runs' \in Runs
        /\ runDay'[runs'] = day /\ runSes'[runs'] = ses
        /\ \A r \in Runs : r # runs' => runDay'[r] = runDay[r] /\ runSes'[r] = runSes[r]
    BY <1>1 DEF NewRun, FInv, IInv, TypeOK, HistoryOK, Runs
  <1>3. \A a \in Assets : used[<<runs', a>>] = 0
    <2>1. \A a \in Assets : <<runs', a>> \in Sigs /\ <<runs', a>>[1] > runs
      BY <1>2 DEF Sigs
    <2> QED BY <2>1 DEF FInv, IInv, RunInv
  <1>4. FreshRange'
    BY <1>1, <1>2, <1>3, SessionsAssumption DEF FInv, FreshInv, FreshRange
  <1>5. ASSUME NEW s \in Pending
        PROVE  /\ pending[s].run \in Runs /\ runSes'[pending[s].run] = s
               /\ runDay'[pending[s].run] = runDay[pending[s].run]
    <2>1. pending[s].run \in 1..runs /\ runs \in 0..MaxRuns /\ MaxRuns \in Nat
      BY TicksAssumption DEF FInv, IInv, RunInv, TypeOK, HistoryOK
    <2>2. pending[s].run \in Runs /\ pending[s].run # runs'
      BY <2>1, <1>2 DEF Runs
    <2> QED BY <1>2, <2>2 DEF FInv, FreshInv
  <1>6. CASE PhaseANoUser
    <2>1. UNCHANGED <<orst, pending>> /\ Pending' = Pending
      BY <1>6 DEF PhaseANoUser, Pending
    <2> QED BY <1>1, <1>4, <1>5, <2>1 DEF FInv, FreshInv, RangeOfToday, Waits, Own
  <1>7. ASSUME NEW A \in SUBSET Assets, PhaseA(A) PROVE FreshInv'
    <2>1. /\ pending' = [pending EXCEPT ![ses] = [run |-> runs', assets |-> A, resolved |-> {}]]
          /\ \A a \in Assets : RangeOfToday(a) => RangeOfToday(a)'
      BY <1>1, <1>7, Registered DEF PhaseA, FInv, IInv
    <2>2. /\ pending'[ses].run = runs'
          /\ \A s \in Sessions : s # ses => pending'[s] = pending[s]
          /\ Pending' = Pending \cup {ses}
      BY <1>1, <1>2, <2>1 DEF FInv, IInv, TypeOK, Pending, Runs
    <2>3. \A s \in Pending' : runSes'[pending'[s].run] = s
      BY <1>2, <1>5, <2>2 DEF Pending
    <2>4. ASSUME faults'["register"] = 0, NEW s \in Pending', NEW a \in Own(s), Waits(s, a)'
          PROVE  RangeOfToday(a)' /\ runDay'[pending'[s].run] = day'
      <3>1. CASE s = ses
        BY <1>1, <1>2, <2>1, <2>2, <2>4, <3>1, OwnAssets DEF FInv, FreshInv
      <3>2. CASE s # ses
        <4>1. s \in Pending /\ pending'[s] = pending[s] /\ Waits(s, a)
          BY <2>2, <2>4, <3>2 DEF Pending, Waits
        <4>2. RangeOfToday(a) /\ runDay[pending[s].run] = day
          BY <1>1, <2>4, <4>1 DEF FInv, FreshInv
        <4> QED BY <1>1, <1>5, <2>1, <4>1, <4>2, OwnAssets
      <3> QED BY <3>1, <3>2
    <2> QED BY <1>1, <1>4, <2>3, <2>4 DEF FreshInv, Own
  <1> QED BY <1>6, <1>7

LEMMA FreshVisit ==
  ASSUME FInv, NEW s \in Sessions, NEW H \in SUBSET Assets, Visit(s, H)
  PROVE  FreshInv'
  <1>1. /\ UNCHANGED <<day, orst, runDay, runSes, faults>> /\ pc' = "b6"
        /\ s \in Pending /\ H \subseteq Newly(s)
        /\ pending' = [pending EXCEPT ![s].resolved = @ \cup Newly(s)]
        /\ used' = [k \in Sigs |-> IF k \in KeysOf(s, H) THEN orst[k[2]].day ELSE used[k]]
    BY DEF Visit, Recommended, Breakouts, timeVars, runVars, faultVars, FInv, IInv, TypeOK
  <1>2. /\ \A t \in Sessions : /\ pending'[t].run = pending[t].run
                               /\ pending'[t].assets = pending[t].assets
                               /\ pending[t].resolved \subseteq pending'[t].resolved
        /\ Pending' = Pending
    BY <1>1, PendingFacts DEF FInv, IInv, TypeOK, Pending, PendingType
  <1>3. ASSUME NEW r \in Runs, NEW a \in Active,
               used'[<<r, a>>] # 0, HomeOf[a] = runSes'[r], faults'["register"] = 0
        PROVE  used'[<<r, a>>] = runDay'[r]
    <2>1. a \in Assets /\ <<r, a>> \in Sigs
      BY SessionsAssumption DEF Sigs
    <2>2. CASE <<r, a>> \in KeysOf(s, H)
      <3>1. r = pending[s].run /\ a \in H
        BY <2>2 DEF KeysOf
      <3>2. a \in Own(s) /\ Waits(s, a)
        BY <1>1, <1>3, <3>1 DEF Own, Waits, Newly, FInv, FreshInv
      <3>3. orst[a].day = runDay[r]
        BY <1>1, <1>3, <3>1, <3>2 DEF FInv, FreshInv, RangeOfToday
      <3> QED BY <1>1, <2>1, <2>2, <3>3
    <2>3. CASE <<r, a>> \notin KeysOf(s, H)
      <3>1. used'[<<r, a>>] = used[<<r, a>>]
        BY <1>1, <2>1, <2>3
      <3> QED BY <1>1, <1>3, <3>1 DEF FInv, FreshInv, FreshRange
    <2> QED BY <2>2, <2>3
  <1>4. FreshRange'
    BY <1>3 DEF FreshRange
  <1>5. \A t \in Pending : \A a : Waits(t, a)' => Waits(t, a)
    BY <1>2 DEF Waits, Pending
  <1>6. /\ \A t \in Pending' : runSes'[pending'[t].run] = t
        /\ \A a : RangeOfToday(a)' <=> RangeOfToday(a)
    BY <1>1, <1>2 DEF FInv, FreshInv, Pending, RangeOfToday
  <1> QED BY <1>1, <1>2, <1>4, <1>5, <1>6 DEF FInv, FreshInv, Own, Pending

LEMMA FreshFaults ==
  ASSUME FInv,
         \/ RegisterFails \/ PhaseARaises \/ PublishFails \/ B6Raises \/ CloseFails
         \/ PostLoopRaises \/ \E k \in Sigs : ResolveShadowFails(k)
  PROVE  FreshInv'
  <1>1. UNCHANGED <<day, orst, runDay, runSes, used, pending>>
    BY DEF RegisterFails, PhaseARaises, PublishFails, B6Raises, CloseFails, PostLoopRaises,
           ResolveShadowFails, timeVars, runVars, streamVars
  <1>2. CASE RegisterFails
    <2>1. faults'["register"] # 0
      BY <1>2, RegisterCounts DEF RegisterFails, FInv, IInv, Kinds
    <2> QED BY <1>1, <2>1 DEF FInv, FreshInv, FreshRange, Pending
  <1>3. CASE ~RegisterFails
    <2>1. \E k \in Kinds : Fault(k) /\ k # "register"
      BY <1>3 DEF PhaseARaises, PublishFails, B6Raises, CloseFails, PostLoopRaises,
                  ResolveShadowFails, Kinds
    <2>2. faults'["register"] = faults["register"]
      BY <2>1, RegisterCounts DEF FInv, IInv
    <2>3. pc' # "phaseA"
      BY <1>3 DEF PhaseARaises, PublishFails, B6Raises, CloseFails, PostLoopRaises, VisitNext,
                  BackToLoop, ResolveShadowFails, passVars
    <2> QED BY <1>1, <2>2, <2>3, FreshKept DEF Pending, Waits, RangeOfToday
  <1> QED BY <1>2, <1>3

LEMMA FreshForgets ==
  ASSUME FInv, EndCheck \/ Crash
  PROVE  FreshInv'
  <1>1. UNCHANGED <<day, runDay, runSes, used>> /\ pc' = "loop"
    BY DEF EndCheck, Crash, timeVars, runVars, streamVars
  <1>2. CASE EndCheck
    <2>1. UNCHANGED <<orst, faults>> /\ \A s \in Pending' : s \in Pending /\ pending'[s] = pending[s]
      BY <1>2 DEF EndCheck, faultVars, Pending, NoPending
    <2> QED BY <1>1, <2>1, FreshKept DEF Waits, RangeOfToday
  <1>3. CASE Crash
    <2>1. Pending' = {} /\ Fault("crash")
      BY <1>3 DEF Crash, Pending, NoPending
    <2>2. faults'["register"] = faults["register"]
      BY <2>1, RegisterCounts DEF FInv, IInv, Kinds
    <2> QED BY <1>1, <2>1, <2>2 DEF FInv, FreshInv, FreshRange
  <1> QED BY <1>2, <1>3

LEMMA FInit == Init => FInv
  <1> SUFFICES ASSUME Init PROVE FreshInv
    BY IInit DEF FInv
  <1>1. Pending = {}
    BY DEF Init, Pending, NoPending
  <1>2. FreshRange
    BY SessionsAssumption DEF Init, FreshRange, Sigs
  <1> QED BY <1>1, <1>2 DEF Init, FreshInv

LEMMA FNext == FInv /\ [Next]_vars => FInv'
  <1> SUFFICES ASSUME FInv, [Next]_vars PROVE FreshInv'
    BY INext DEF FInv
  <1>1. TypeOK'
    BY TypeNext DEF FInv, IInv
  <1> QED BY <1>1, FreshNextDay, FreshQuiet, FreshRegisterEarly, FreshNewRun, FreshVisit,
             FreshFaults, FreshForgets
          DEF Next, PhaseAStep, PhaseBStep, FaultStep

\* An ACTIVE asset is traded in its own session on the range of that day,
\* unless an early registration has failed.
THEOREM RangesAreFresh == Spec => []FreshRange
  <1>1. FInv => FreshRange
    BY DEF FInv, FreshInv
  <1> QED BY <1>1, FInit, FNext, PTL DEF Spec
=============================================================================
