-------------------------- MODULE AimLifecycleProofs --------------------------
(***************************************************************************)
(* Theorems about AimLifecycle: the types, and that only an AIM that was   *)
(* asked for is active.  Rows are written from what was read before, so    *)
(* the invariant speaks of the rows in hand, of the weights in hand and of *)
(* the counters as well as of the tables; it holds because what makes a    *)
(* row legitimate (Granted, and the end of the warm-up) never goes away.   *)
(***************************************************************************)
EXTENDS AimLifecycle, FiniteSetTheorems, TLAPS

Rows == [status : Statuses, progress : 0..MaxObs]
Pcs == {"idle", "load", "walk", "gate", "reset", "weights", "insert", "retrain",
        "retrained", "count", "diversity", "revive", "weigh", "scan", "keep", "drop",
        "refill", "compact weights"}
\* where the scheduler is at a seed type and not at an AIM
AtType == {"diversity", "revive", "weigh"}
Counts == [zero : 0..ZeroStreak, above : 0..AboveStreak]

-----------------------------------------------------------------------------
(* The types.                                                              *)

\* What a thread has in hand; while it looks at an AIM it is at one.
MemInv ==
    /\ pc \in [Threads -> Pcs] /\ at \in [Threads -> Nat \ {0}]
    /\ \A p \in Threads : pc[p] \notin AtType => at[p] \in Aims
    /\ seen \in [Threads -> [Aims -> Rows]]
    /\ act \in Aims \cup {NoAim} /\ task \in {"daily", "weekly", "monthly"}
    /\ DOMAIN draw \subseteq Aims
    /\ \A a \in DOMAIN draw : draw[a] \in {"zero", "low", "high"}
    /\ member \in Nat \ {0} /\ active \in Nat

\* The tables and the history.
StoreInv ==
    /\ d01 \in [Aims -> Rows] /\ past \subseteq Aims /\ d02 \in [Aims -> Weights]
    /\ streak \in [Aims -> Counts] /\ obs \in 0..MaxObs
    /\ granted \in [Aims -> SUBSET {"user", "check"}] /\ faults \in 0..MaxFaults

TypeInv == MemInv /\ StoreInv

LEMMA RowType ==
  ASSUME NEW s \in Statuses
  PROVE  Row(s) \in Rows
  BY BoundsAssumption DEF Row, Rows

LEMMA BlankType == Blank \in [Aims -> Rows]
  BY RowType DEF Blank, Statuses

LEMMA SeedType ==
  ASSUME NEW a \in Aims
  PROVE  Seed(a) \in Rows
  BY RowType DEF Seed, Statuses

LEMMA EqualType ==
  ASSUME NEW n
  PROVE  Equal(n) \in Weights
  BY DEF Equal, Weights

LEMMA LeastType ==
  ASSUME NEW m \in Nat, NEW n \in Nat
  PROVE  Least(m + 1, n) \in 0..n
  BY DEF Least

LEMMA CountedType ==
  ASSUME NEW c \in Counts, NEW w \in {"zero", "low", "high"}
  PROVE  Counted(c, w) \in Counts
  <1>1. c.zero \in Nat /\ c.above \in Nat
    BY BoundsAssumption DEF Counts
  <1>2. /\ Least(c.zero + 1, ZeroStreak) \in 0..ZeroStreak
        /\ Least(c.above + 1, AboveStreak) \in 0..AboveStreak
        /\ 0 \in 0..ZeroStreak /\ 0 \in 0..AboveStreak
    BY <1>1, LeastType, BoundsAssumption
  <1>3. CASE w = "zero"
    BY <1>2, <1>3 DEF Counted, Counts
  <1>4. CASE w = "high"
    BY <1>2, <1>4 DEF Counted, Counts
  <1>5. CASE w = "low"
    BY <1>2, <1>5 DEF Counted, Counts
  <1> QED BY <1>3, <1>4, <1>5

LEMMA HalfCountedType ==
  ASSUME NEW c \in Counts, NEW w \in {"zero", "low", "high"}
  PROVE  HalfCounted(c, w) \in Counts
  <1>1. c.zero \in Nat /\ c.above \in Nat
    BY BoundsAssumption DEF Counts
  <1>2. /\ Least(c.zero + 1, ZeroStreak) \in 0..ZeroStreak
        /\ Least(c.above + 1, AboveStreak) \in 0..AboveStreak
    BY <1>1, LeastType, BoundsAssumption
  <1>3. CASE w = "zero"
    BY <1>2, <1>3 DEF HalfCounted, Counts
  <1>4. CASE w = "high"
    BY <1>2, <1>4 DEF HalfCounted, Counts
  <1>5. CASE w = "low"
    BY <1>5 DEF HalfCounted
  <1> QED BY <1>3, <1>4, <1>5

\* The progress of a warm-up never runs ahead of the observations.
LEMMA ClampedType ==
  ASSUME StoreInv, NEW a \in Aims
  PROVE  Clamped(a) \in 0..MaxObs /\ Clamped(a) <= obs
  <1>1. obs \in Nat /\ obs <= MaxObs /\ MaxObs \in Nat /\ Required[a] \in Nat \ {0}
    BY AimsAssumption, BoundsAssumption DEF StoreInv
  <1> QED BY <1>1 DEF Clamped, Least

LEMMA MovedType ==
  ASSUME NEW p \in Threads, NEW a \in Aims, NEW s \in Statuses
  PROVE  Moved(p, a, s) \in Statuses
  BY DEF Moved, Statuses

LEMMA FirstAim == 1 \in Aims
  BY AimsAssumption DEF Aims

LEMMA EqualIsShare ==
  ASSUME NEW n
  PROVE  Equal(n) \in {"low", "high"}
  BY DEF Equal

LEMMA TypeInit == Init => TypeInv
  <1> SUFFICES ASSUME Init PROVE TypeInv
    OBVIOUS
  <1>1. MemInv
    BY FirstAim, BlankType DEF Init, MemInv, Pcs, AtType, NoDraw, NoAim
  <1>2. d02 \in [Aims -> Weights]
    BY EqualType DEF Init, Weights
  <1>3. streak \in [Aims -> Counts]
    BY BoundsAssumption DEF Init, Counts
  <1>4. StoreInv
    BY <1>2, <1>3, SeedType, BoundsAssumption DEF Init, StoreInv
  <1> QED BY <1>1, <1>4 DEF TypeInv

\* Going on to the next AIM, or to what comes after the life cycle.
LEMMA NextAimType ==
  ASSUME MemInv, NEW p \in Threads, pc[p] \in {"walk", "gate", "reset"},
         NextAim(p), UNCHANGED check
  PROVE  MemInv'
  <1>1. at[p] \in Aims
    BY DEF MemInv, AtType
  <1>2. Row("INSTALLED") \in Rows
    BY RowType DEF Statuses
  <1>3. CASE at[p] < NumAims
    <2>1. at[p] + 1 \in Aims
      BY <1>1, <1>3, AimsAssumption DEF Aims
    <2>2. at' = [at EXCEPT ![p] = @ + 1] /\ pc' = [pc EXCEPT ![p] = "walk"]
          /\ seen' = [seen EXCEPT ![p][at[p]] = Row("INSTALLED")]
          /\ UNCHANGED <<act, task, draw>>
      BY <1>3 DEF NextAim
    <2>3. seen' \in [Threads -> [Aims -> Rows]]
      BY <2>2, <1>2 DEF MemInv
    <2>4. at' \in [Threads -> Nat \ {0}]
      BY <2>1, <2>2 DEF MemInv, Aims
    <2>5. pc' \in [Threads -> Pcs]
      BY <2>2 DEF MemInv, Pcs
    <2>6. \A q \in Threads : pc'[q] \notin AtType => at'[q] \in Aims
      BY <2>1, <2>2 DEF MemInv
    <2> QED BY <2>2, <2>3, <2>4, <2>5, <2>6 DEF MemInv, check
  <1>4. CASE ~(at[p] < NumAims)
    <2>1. pc' = [pc EXCEPT ![p] = After(p)] /\ at' = [at EXCEPT ![p] = 1]
          /\ seen' = [seen EXCEPT ![p] = Blank] /\ draw' = draw
          /\ act' \in {act, NoAim} /\ task' \in {task, "daily"}
      BY <1>4 DEF NextAim
    <2>2. After(p) \in Pcs
      BY DEF After, Pcs, MemInv, Threads
    <2>3. seen' \in [Threads -> [Aims -> Rows]]
      BY <2>1, BlankType DEF MemInv
    <2>4. /\ pc' \in [Threads -> Pcs] /\ at' \in [Threads -> Nat \ {0}]
          /\ \A q \in Threads :
                pc'[q] \notin AtType => at'[q] \in Aims
      BY <2>1, <2>2, FirstAim DEF MemInv
    <2> QED BY <2>1, <2>3, <2>4 DEF MemInv, check
  <1> QED BY <1>3, <1>4

\* A row that is appended, to an AIM or past the end of the list.
LEMMA AppendType ==
  ASSUME d01 \in [Aims -> Rows], past \subseteq Aims, NEW a \in Aims,
         NEW r \in Rows, Append01(a, r)
  PROVE  d01' \in [Aims -> Rows] /\ past' \subseteq Aims
  BY DEF Append01

LEMMA TypeConsider ==
  ASSUME TypeInv, NEW p \in Threads, Consider(p)
  PROVE  TypeInv'
  <1> DEFINE a == at[p]
             s == seen[p][a].status
  <1>1. a \in Aims /\ s \in Statuses /\ pc[p] = "walk"
    BY DEF TypeInv, MemInv, Consider, Rows, AtType
  <1>2. Row(Moved(p, a, s)) \in Rows
    BY <1>1, MovedType, RowType
  <1>3. [status |-> "WARM_UP", progress |-> Clamped(a)] \in Rows
    BY <1>1, ClampedType DEF TypeInv, Rows, Statuses
  <1>4. /\ \/ UNCHANGED <<d01, past>>
           \/ \E r \in Rows : Append01(a, r)
        /\ UNCHANGED <<d02, streak, obs, check, granted, faults>>
    BY <1>2, <1>3 DEF Consider
  <1>5. StoreInv'
    BY <1>1, <1>4, AppendType DEF TypeInv, StoreInv
  <1>6. CASE NextAim(p)
    BY <1>1, <1>4, <1>5, <1>6, NextAimType DEF TypeInv
  <1>7. CASE /\ seen' = [seen EXCEPT ![p][a].progress = Clamped(a)]
             /\ pc' = [pc EXCEPT ![p] = "gate"]
             /\ UNCHANGED <<at, act, task, draw>>
    <2>1. [seen[p][a] EXCEPT !.progress = Clamped(a)] \in Rows
      <3>1. seen[p][a] \in Rows /\ Clamped(a) \in 0..MaxObs
        BY <1>1, ClampedType DEF TypeInv, MemInv
      <3> QED BY <3>1 DEF Rows
    <2>2. seen' \in [Threads -> [Aims -> Rows]]
      BY <1>7, <2>1 DEF TypeInv, MemInv
    <2>3. pc' \in [Threads -> Pcs]
      BY <1>7 DEF TypeInv, MemInv, Pcs
    <2>4. MemInv'
      BY <1>1, <1>4, <1>7, <2>2, <2>3 DEF TypeInv, MemInv, AtType, check
    <2> QED BY <1>5, <2>4 DEF TypeInv
  <1>8. CASE pc' = [pc EXCEPT ![p] = "reset"] /\ UNCHANGED <<at, seen, act, task, draw>>
    <2>1. MemInv'
      BY <1>1, <1>4, <1>8 DEF TypeInv, MemInv, Pcs, AtType, check
    <2> QED BY <1>5, <2>1 DEF TypeInv
  <1> QED BY <1>6, <1>7, <1>8 DEF Consider

LEMMA TypeWalk ==
  ASSUME TypeInv, NEW p \in Threads, Load(p) \/ Gate(p) \/ ResetStreak(p)
  PROVE  TypeInv'
  <1>1. CASE Load(p)
    <2>1. seen' \in [Threads -> [Aims -> Rows]]
      BY <1>1 DEF Load, TypeInv, MemInv, StoreInv
    <2>2. pc' \in [Threads -> Pcs]
      BY <1>1 DEF Load, TypeInv, MemInv, Pcs
    <2>3. /\ at' \in [Threads -> Nat \ {0}]
          /\ \A q \in Threads : pc'[q] \notin AtType => at'[q] \in Aims
      BY <1>1, FirstAim DEF Load, TypeInv, MemInv
    <2>4. MemInv'
      BY <1>1, <2>1, <2>2, <2>3 DEF Load, TypeInv, MemInv, check
    <2> QED BY <1>1, <2>4 DEF Load, TypeInv, StoreInv
  <1>2. CASE Gate(p)
    <2>1. MemInv' /\ at[p] \in Aims
      BY <1>2, NextAimType DEF Gate, TypeInv, MemInv, AtType
    <2>2. Row("ELIGIBLE") \in Rows
      BY RowType DEF Statuses
    <2>3. StoreInv'
      BY <1>2, <2>1, <2>2, AppendType DEF Gate, TypeInv, StoreInv
    <2> QED BY <2>1, <2>3 DEF TypeInv
  <1>3. CASE ResetStreak(p)
    <2>1. MemInv' /\ at[p] \in Aims
      BY <1>3, NextAimType DEF ResetStreak, TypeInv, MemInv, AtType
    <2>2. streak' \in [Aims -> Counts]
      BY <1>3, <2>1, BoundsAssumption DEF ResetStreak, TypeInv, StoreInv, Counts
    <2> QED BY <1>3, <2>1, <2>2 DEF ResetStreak, TypeInv, StoreInv
  <1> QED BY <1>1, <1>2, <1>3

LEMMA TypeListener ==
  ASSUME TypeInv,
         \/ TradeCloses \/ LoadWeights \/ CountTrade \/ InsertWeight
         \/ \E a \in Aims : Activate(a) \/ Deactivate(a)
  PROVE  TypeInv'
  <1> USE DEF TypeInv
  <1>1. CASE TradeCloses
    BY <1>1, BoundsAssumption DEF TradeCloses, StoreInv, MemInv, mem, check
  <1>2. CASE LoadWeights
    <2>1. PICK w \in Draws(Learners) : draw' = w
      BY <1>2 DEF LoadWeights
    <2>2. DOMAIN w = Learners /\ \A a \in DOMAIN w : w[a] \in {"zero", "low", "high"}
      BY EqualIsShare DEF Draws
    <2>3. Learners \subseteq Aims
      BY DEF Learners, StoreInv
    <2>4. pc' \in [Threads -> Pcs]
      BY <1>2 DEF LoadWeights, MemInv, Pcs
    <2>5. MemInv'
      BY <1>2, <2>1, <2>2, <2>3, <2>4 DEF LoadWeights, MemInv, Threads, AtType, check
    <2> QED BY <1>2, <2>5 DEF LoadWeights, StoreInv
  <1>3. CASE CountTrade
    <2>1. PICK a \in DOMAIN draw, c \in Counts, next \in {"insert", "idle"} :
            /\ streak' = [streak EXCEPT ![a] = c]
            /\ pc' = [pc EXCEPT !["listener"] = next]
            /\ draw' \in {draw, NoDraw} /\ faults' \in 0..MaxFaults
      <3>1. PICK a \in DOMAIN draw :
              \/ /\ streak' = [streak EXCEPT ![a] = Counted(@, draw[a])]
                 /\ pc' = [pc EXCEPT !["listener"] = "insert"]
                 /\ UNCHANGED <<draw, faults>>
              \/ /\ faults < MaxFaults /\ faults' = faults + 1
                 /\ streak' = [streak EXCEPT ![a] = HalfCounted(@, draw[a])]
                 /\ pc' = [pc EXCEPT !["listener"] = "idle"] /\ draw' = NoDraw
        BY <1>3 DEF CountTrade
      <3>2. a \in Aims /\ streak[a] \in Counts /\ draw[a] \in {"zero", "low", "high"}
        BY DEF MemInv, StoreInv
      <3>3. Counted(streak[a], draw[a]) \in Counts /\ HalfCounted(streak[a], draw[a]) \in Counts
        BY <3>2, CountedType, HalfCountedType
      <3>4. /\ faults \in 0..MaxFaults
            /\ faults < MaxFaults => faults + 1 \in 0..MaxFaults
        BY BoundsAssumption DEF StoreInv
      <3>5. CASE /\ streak' = [streak EXCEPT ![a] = Counted(@, draw[a])]
                 /\ pc' = [pc EXCEPT !["listener"] = "insert"]
                 /\ UNCHANGED <<draw, faults>>
        <4>1. streak' = [streak EXCEPT ![a] = Counted(streak[a], draw[a])]
          BY <3>2, <3>5 DEF StoreInv
        <4> QED BY <4>1, <3>3, <3>4, <3>5
      <3>6. CASE /\ faults < MaxFaults /\ faults' = faults + 1
                 /\ streak' = [streak EXCEPT ![a] = HalfCounted(@, draw[a])]
                 /\ pc' = [pc EXCEPT !["listener"] = "idle"] /\ draw' = NoDraw
        <4>1. streak' = [streak EXCEPT ![a] = HalfCounted(streak[a], draw[a])]
          BY <3>2, <3>6 DEF StoreInv
        <4> QED BY <4>1, <3>3, <3>4, <3>6
      <3> QED BY <3>1, <3>5, <3>6
    <2>2. streak' \in [Aims -> Counts]
      BY <2>1 DEF StoreInv
    <2>3. pc' \in [Threads -> Pcs]
      BY <2>1 DEF MemInv, Pcs
    <2>4. MemInv'
      BY <1>3, <2>1, <2>3 DEF CountTrade, MemInv, NoDraw, Threads, AtType, check
    <2> QED BY <1>3, <2>1, <2>2, <2>4 DEF CountTrade, StoreInv
  <1>6. CASE InsertWeight
    <2>1. PICK a \in DOMAIN draw, next \in {"weights", "idle"} :
            /\ d02' = [d02 EXCEPT ![a] = draw[a]]
            /\ draw' = [b \in DOMAIN draw \ {a} |-> draw[b]]
            /\ pc' = [pc EXCEPT !["listener"] = next]
      BY <1>6 DEF InsertWeight
    <2>2. d02' \in [Aims -> Weights]
      BY <2>1 DEF StoreInv, MemInv, Weights
    <2>3. pc' \in [Threads -> Pcs]
      BY <2>1 DEF MemInv, Pcs
    <2>4. /\ DOMAIN draw' \subseteq Aims
          /\ \A b \in DOMAIN draw' : draw'[b] \in {"zero", "low", "high"}
      BY <2>1 DEF MemInv
    <2>5. MemInv'
      BY <1>6, <2>1, <2>3, <2>4 DEF InsertWeight, MemInv, Threads, AtType, check
    <2> QED BY <1>6, <2>2, <2>5 DEF InsertWeight, StoreInv
  <1>4. ASSUME NEW a \in Aims, Activate(a) PROVE TypeInv'
    <2>1. MemInv'
      BY <1>4 DEF Activate, MemInv, Pcs, Threads, AtType, check
    <2>2. granted' \in [Aims -> SUBSET {"user", "check"}]
      BY <1>4 DEF Activate, StoreInv
    <2> QED BY <1>4, <2>1, <2>2 DEF Activate, StoreInv
  <1>5. ASSUME NEW a \in Aims, Deactivate(a) PROVE TypeInv'
    <2>1. Row("SUPPRESSED") \in Rows
      BY RowType DEF Statuses
    <2>2. StoreInv'
      BY <1>5, <2>1, AppendType DEF Deactivate, StoreInv
    <2> QED BY <1>5, <2>2 DEF Deactivate, MemInv, mem, check
  <1> QED BY <1>1, <1>2, <1>3, <1>4, <1>5, <1>6

LEMMA NextRetrainedType ==
  ASSUME MemInv, pc["scheduler"] \in {"retrain", "retrained"}, NextRetrained
  PROVE  /\ pc' \in [Threads -> Pcs] /\ at' \in [Threads -> Nat \ {0}]
         /\ \A p \in Threads : pc'[p] \notin AtType => at'[p] \in Aims
  <1>1. at["scheduler"] \in Aims
    BY DEF MemInv, Threads, AtType
  <1>2. at["scheduler"] < NumAims => at["scheduler"] + 1 \in Aims
    BY <1>1, AimsAssumption DEF Aims
  <1>3. "scheduler" \in Threads
    BY DEF Threads
  <1>4. PICK next \in {"retrain", "load"}, n \in Aims :
          pc' = [pc EXCEPT !["scheduler"] = next] /\ at' = [at EXCEPT !["scheduler"] = n]
    BY <1>1, <1>2, FirstAim DEF NextRetrained
  <1>5. pc' \in [Threads -> Pcs]
    BY <1>3, <1>4 DEF MemInv, Pcs
  <1>6. at' \in [Threads -> Nat \ {0}]
    BY <1>3, <1>4 DEF MemInv, Aims
  <1>7. \A p \in Threads : pc'[p] \notin AtType => at'[p] \in Aims
    BY <1>3, <1>4 DEF MemInv
  <1> QED BY <1>5, <1>6, <1>7

LEMMA NextTypeType ==
  ASSUME MemInv, NEW n \in Nat, NextType(n)
  PROVE  /\ member' \in Nat \ {0} /\ active' \in Nat
         /\ pc' \in [Threads -> Pcs] /\ at' \in [Threads -> Nat \ {0}]
         /\ \A p \in Threads : pc'[p] \notin AtType => at'[p] \in Aims
  <1>1. "scheduler" \in Threads
    BY DEF Threads
  <1>0. member' \in Nat \ {0} /\ active' \in Nat
    BY DEF NextType
  <1>2. CASE /\ at' = [at EXCEPT !["scheduler"] = @ + 1]
             /\ pc' = [pc EXCEPT !["scheduler"] = "diversity"]
    <2>1. at["scheduler"] + 1 \in Nat \ {0}
      BY <1>1 DEF MemInv
    <2> QED BY <1>1, <1>2, <2>1, <1>0 DEF MemInv, Pcs, AtType
  <1>3. CASE /\ at' = [at EXCEPT !["scheduler"] = 1]
             /\ pc' = [pc EXCEPT !["scheduler"] = "idle"]
    <2>1. pc' \in [Threads -> Pcs]
      BY <1>1, <1>3 DEF MemInv, Pcs
    <2>2. at' \in [Threads -> Nat \ {0}]
      BY <1>1, <1>3 DEF MemInv
    <2>3. \A p \in Threads : pc'[p] \notin AtType => at'[p] \in Aims
      BY <1>1, <1>3, FirstAim DEF MemInv
    <2> QED BY <1>0, <2>1, <2>2, <2>3
  <1> QED BY <1>2, <1>3 DEF NextType

LEMMA BestIsAim ==
  ASSUME NEW i \in Nat \ {0}, i <= Len(SeedTypes)
  PROVE  Best(SeedTypes[i]) \in Aims
  <1>1. SeedTypes[i] \in Seq(Aims) \ {<<>>}
    BY AimsAssumption
  <1> QED BY <1>1 DEF Best

LEMMA TypeScheduler ==
  ASSUME TypeInv,
         \/ \E t \in Tasks : StartTask(t)
         \/ Retrain \/ WriteRetrained \/ CountActive \/ LookAtMember \/ Revive \/ Weigh \/ Scan
  PROVE  TypeInv'
  <1> USE DEF TypeInv
  <1>1. ASSUME NEW t \in Tasks, StartTask(t) PROVE TypeInv'
    <2>1. PICK first \in {"load", "retrain", "keep", "compact weights"} :
            pc' = [pc EXCEPT !["scheduler"] = first]
      BY <1>1, TasksAssumption DEF StartTask
    <2>2. task' \in {"daily", "weekly", "monthly"}
      BY <1>1, TasksAssumption DEF StartTask, MemInv
    <2>3. MemInv'
      BY <1>1, <2>1, <2>2 DEF StartTask, MemInv, Pcs, Threads, AtType, check
    <2> QED BY <1>1, <2>3 DEF StartTask, StoreInv
  <1>2. CASE Retrain
    <2>1. CASE NextRetrained /\ UNCHANGED seen
      BY <1>2, <2>1, NextRetrainedType DEF Retrain, MemInv, StoreInv, check
    <2>2. CASE /\ seen' = [seen EXCEPT !["scheduler"][at["scheduler"]] = d01[at["scheduler"]]]
               /\ pc' = [pc EXCEPT !["scheduler"] = "retrained"] /\ UNCHANGED at
      <3>1. at["scheduler"] \in Aims
        BY <1>2 DEF Retrain, MemInv, Threads, AtType
      <3>2. MemInv'
        BY <1>2, <2>2, <3>1 DEF Retrain, MemInv, StoreInv, Pcs, Threads, AtType, check
      <3> QED BY <1>2, <3>2 DEF Retrain, StoreInv
    <2> QED BY <1>2, <2>1, <2>2 DEF Retrain
  <1>3. CASE WriteRetrained
    <2>1. at["scheduler"] \in Aims
      BY <1>3 DEF WriteRetrained, MemInv, Threads, AtType
    <2>2. Row(seen["scheduler"][at["scheduler"]].status) \in Rows
      BY <2>1, RowType DEF MemInv, Rows, Threads
    <2>3. StoreInv'
      BY <1>3, <2>1, <2>2, AppendType DEF WriteRetrained, StoreInv
    <2>4. MemInv'
      BY <1>3, BlankType, NextRetrainedType DEF WriteRetrained, MemInv, check
    <2> QED BY <2>3, <2>4
  <1>4. CASE CountActive
    <2>1. active' \in Nat
      <3>1. IsFiniteSet(ActiveAims)
        <4>1. IsFiniteSet(Aims)
          BY AimsAssumption, FS_Interval DEF Aims
        <4>2. ActiveAims \subseteq Aims
          BY DEF ActiveAims
        <4> QED BY <4>1, <4>2, FS_Subset
      <3> QED BY <1>4, <3>1, FS_CardinalityType DEF CountActive
    <2>2. PICK next \in {"idle", "diversity"} : pc' = [pc EXCEPT !["scheduler"] = next]
      BY <1>4 DEF CountActive
    <2>3. at["scheduler"] \in Aims
      BY <1>4 DEF CountActive, MemInv, Threads, AtType
    <2>4. pc' \in [Threads -> Pcs]
      BY <2>2 DEF MemInv, Pcs
    <2>5. \A p \in Threads : pc'[p] \notin AtType => at'[p] \in Aims
      BY <1>4, <2>2, <2>3 DEF CountActive, MemInv, Threads
    <2>6. MemInv'
      BY <1>4, <2>1, <2>4, <2>5 DEF CountActive, MemInv
    <2> QED BY <1>4, <2>6 DEF CountActive, StoreInv
  <1>7. CASE LookAtMember
    <2>1. CASE NextType(active)
      BY <1>7, <2>1, NextTypeType DEF LookAtMember, MemInv, StoreInv
    <2>2. CASE member' = member + 1 /\ UNCHANGED <<pc, at, active>>
      BY <1>7, <2>2 DEF LookAtMember, MemInv, StoreInv
    <2>3. CASE /\ pc' = [pc EXCEPT !["scheduler"] = "revive"] /\ member' = 1
               /\ UNCHANGED <<at, active>>
      <3>1. pc' \in [Threads -> Pcs]
        BY <2>3 DEF MemInv, Pcs
      <3>2. \A p \in Threads : pc'[p] \notin AtType => at'[p] \in Aims
        BY <2>3 DEF MemInv, Threads, AtType
      <3> QED BY <1>7, <2>3, <3>1, <3>2 DEF LookAtMember, MemInv, StoreInv
    <2> QED BY <1>7, <2>1, <2>2, <2>3 DEF LookAtMember
  <1>8. CASE Revive
    <2>1. /\ Best(CurrentType) \in Aims
      BY <1>8, BestIsAim DEF Revive, CurrentType, MemInv, Threads
    <2>2. Row("ACTIVE") \in Rows
      BY RowType DEF Statuses
    <2>3. StoreInv'
      BY <1>8, <2>1, <2>2, AppendType DEF Revive, StoreInv
    <2>4. MemInv'
      BY <1>8 DEF Revive, MemInv, Pcs, Threads, AtType, check
    <2> QED BY <2>3, <2>4
  <1>5. CASE Weigh
    <2>1. d02' \in [Aims -> Weights]
      BY <1>5, EqualType DEF Weigh, StoreInv
    <2>2. active + 1 \in Nat
      BY DEF MemInv
    <2> QED BY <1>5, <2>1, <2>2, NextTypeType DEF Weigh, MemInv, StoreInv
  <1>6. CASE Scan
    <2>1. Row("ACTIVE") \in Rows
      BY RowType DEF Statuses
    <2>2. StoreInv'
      <3>1. CASE UNCHANGED <<d01, past, granted>>
        BY <1>6, <3>1 DEF Scan, StoreInv
      <3>2. CASE /\ ScanAim # NoAim /\ Append01(ScanAim, Row("ACTIVE"))
                 /\ granted' = [granted EXCEPT ![ScanAim] = @ \cup {"check"}]
        <4>1. ScanAim \in Aims
          BY <3>2, AimsAssumption
        <4>2. granted' \in [Aims -> SUBSET {"user", "check"}]
          BY <3>2, <4>1 DEF StoreInv
        <4> QED BY <1>6, <2>1, <3>2, <4>1, <4>2, AppendType DEF Scan, StoreInv
      <3> QED BY <1>6, <3>1, <3>2 DEF Scan
    <2>3. MemInv'
      BY <1>6 DEF Scan, MemInv, Pcs, Threads, AtType, check
    <2> QED BY <2>2, <2>3
  <1> QED BY <1>1, <1>2, <1>3, <1>4, <1>5, <1>6, <1>7, <1>8

LEMMA TypeFaults ==
  ASSUME TypeInv,
         \/ Compact \/ (\E p \in Threads : Raises(p)) \/ Crash \/ UNCHANGED vars
  PROVE  TypeInv'
  <1> USE DEF TypeInv
  <1>0. "scheduler" \in Threads
    BY DEF Threads
  <1>1. CASE KeepStates
    <2>1. seen' \in [Threads -> [Aims -> Rows]]
      BY <1>0, <1>1 DEF KeepStates, MemInv, StoreInv
    <2>2. MemInv'
      BY <1>0, <1>1, <2>1 DEF KeepStates, MemInv, Pcs, AtType, check
    <2> QED BY <1>1, <2>2 DEF KeepStates, StoreInv
  <1>2. CASE DropStates
    <2>1. Row("ABSENT") \in Rows
      BY RowType DEF Statuses
    <2>2. MemInv'
      BY <1>0, <1>2 DEF DropStates, MemInv, Pcs, AtType, check
    <2> QED BY <1>2, <2>1, <2>2 DEF DropStates, StoreInv
  <1>3. CASE RefillStates
    <2>1. seen' \in [Threads -> [Aims -> Rows]]
      BY <1>0, <1>3, BlankType DEF RefillStates, MemInv
    <2>2. MemInv'
      BY <1>0, <1>3, <2>1 DEF RefillStates, MemInv, Pcs, AtType, check
    <2>3. PICK S \in SUBSET Aims :
            /\ Reached(S, Aims)
            /\ d01' = [a \in Aims |-> IF a \in S /\ d01[a].status = "ABSENT"
                                      THEN seen["scheduler"][a] ELSE d01[a]]
            /\ past' = past \cup {a \in S : seen["scheduler"][a].status = "ACTIVE"}
      BY <1>3 DEF RefillStates
    <2>4. faults' \in 0..MaxFaults
      BY <2>3, BoundsAssumption DEF Reached, StoreInv
    <2>5. d01' \in [Aims -> Rows] /\ past' \subseteq Aims
      BY <1>0, <2>3 DEF MemInv, StoreInv
    <2> QED BY <1>3, <2>2, <2>4, <2>5 DEF RefillStates, StoreInv
  <1>4. CASE CompactWeights
    <2>1. MemInv'
      BY <1>0, <1>4 DEF CompactWeights, MemInv, Pcs, AtType, check
    <2>2. PICK S \in SUBSET Aims :
            /\ Reached(S, Aims)
            /\ d02' = [a \in Aims |-> IF a \in S THEN d02[a] ELSE "none"]
      BY <1>4 DEF CompactWeights
    <2>3. faults' \in 0..MaxFaults
      BY <2>2, BoundsAssumption DEF Reached, StoreInv
    <2>4. d02' \in [Aims -> Weights]
      BY <2>2 DEF StoreInv, Weights
    <2> QED BY <1>4, <2>1, <2>3, <2>4 DEF CompactWeights, StoreInv
  <1>5. ASSUME NEW P \in SUBSET Threads, Idle(P) PROVE MemInv' /\ faults' \in 0..MaxFaults
    <2>1. pc' \in [Threads -> Pcs] /\ seen' \in [Threads -> [Aims -> Rows]]
      BY <1>5, BlankType DEF Idle, MemInv, Pcs
    <2>2. /\ at' \in [Threads -> Nat \ {0}]
          /\ \A q \in Threads : pc'[q] \notin AtType => at'[q] \in Aims
      BY <1>5, FirstAim DEF Idle, MemInv
    <2>3. /\ DOMAIN draw' \subseteq Aims
          /\ \A a \in DOMAIN draw' : draw'[a] \in {"zero", "low", "high"}
      BY <1>5 DEF Idle, MemInv, NoDraw
    <2>4. act' \in Aims \cup {NoAim} /\ task' \in {"daily", "weekly", "monthly"}
      BY <1>5 DEF Idle, MemInv
    <2>5. faults' \in 0..MaxFaults
      BY <1>5, BoundsAssumption DEF Idle, StoreInv
    <2>6. member' \in Nat \ {0} /\ active' \in Nat
      BY <1>5 DEF Idle, MemInv
    <2> QED BY <2>1, <2>2, <2>3, <2>4, <2>5, <2>6 DEF MemInv
  <1>6. ASSUME NEW p \in Threads, Raises(p) PROVE TypeInv'
    BY <1>5, <1>6 DEF Raises, Idle, StoreInv
  <1>7. CASE Crash
    <2>1. d01' \in [Aims -> Rows]
      BY <1>7, SeedType DEF Crash, StoreInv
    <2>2. MemInv' /\ faults' \in 0..MaxFaults
      BY <1>5, <1>7 DEF Crash
    <2> QED BY <1>7, <2>1, <2>2 DEF Crash, Idle, StoreInv
  <1>8. CASE UNCHANGED vars
    BY <1>8 DEF vars, mem, check, MemInv, StoreInv
  <1> QED BY <1>1, <1>2, <1>3, <1>4, <1>6, <1>7, <1>8 DEF Compact

LEMMA TypeNext == TypeInv /\ [Next]_vars => TypeInv'
  <1> SUFFICES ASSUME TypeInv, [Next]_vars PROVE TypeInv'
    OBVIOUS
  <1>1. CASE \E p \in Threads : Lifecycle(p)
    BY <1>1, TypeConsider, TypeWalk DEF Lifecycle
  <1> QED BY <1>1, TypeListener, TypeScheduler, TypeFaults
          DEF Next, ListenerStep, SchedulerStep, Threads

\* Every variable has its type, for any number of AIMs and seed types.
THEOREM TypeCorrect == Spec => []TypeOK
  <1>1. TypeInv => TypeOK
    BY DEF TypeInv, MemInv, StoreInv, TypeOK, Rows, Counts
  <1> QED BY <1>1, TypeInit, TypeNext, PTL DEF Spec

-----------------------------------------------------------------------------
(* An active AIM was asked for.                                            *)

Ready(a) == a \in Tier1 \/ obs >= Required[a]

\* A row that may be appended for AIM a, now or later.
RowOK(r, a) ==
    /\ r.status = "ACTIVE" => Granted(a)
    /\ r.status \in {"ELIGIBLE", "BOOTSTRAPPED"} => Ready(a)
    /\ r.progress <= obs

StatesInv ==
    /\ \A a \in Aims : RowOK(d01[a], a)
    /\ \A a \in past : Granted(a)

\* The rows that the threads have read, and the AIM that the user asks for.
HandInv ==
    /\ \A p \in Threads, a \in Aims : RowOK(seen[p][a], a)
    /\ act # NoAim => "user" \in granted[act]

\* Only an AIM that has been active takes part in the learning, so only such an
\* AIM has trades above the recovery threshold: the recovery of an AIM that the
\* user has suppressed in its warm-up cannot activate it.
LearnInv ==
    /\ \A a \in DOMAIN draw : Granted(a)
    /\ \A a \in Aims : streak[a].above > 0 => Granted(a)

GrantInv == StatesInv /\ HandInv /\ LearnInv

\* What makes a row legitimate stays.
Grown == obs' >= obs /\ \A a \in Aims : granted[a] \subseteq granted'[a]

LEMMA RowKept ==
  ASSUME TypeInv, TypeInv', Grown, NEW a \in Aims, NEW r \in Rows
  PROVE  /\ Granted(a) => Granted(a)'
         /\ Ready(a) => Ready(a)'
         /\ RowOK(r, a) => RowOK(r, a)'
  <1>1. {obs, obs', Required[a]} \subseteq Int /\ r.progress \in Int
    BY AimsAssumption, BoundsAssumption DEF TypeInv, StoreInv, Rows
  <1> QED BY <1>1 DEF Grown, Granted, Ready, RowOK

LEMMA GrownUnchanged ==
  ASSUME TypeInv, UNCHANGED <<obs, granted>>
  PROVE  Grown
  BY DEF TypeInv, StoreInv, Grown

LEMMA FreshRow ==
  ASSUME TypeInv, NEW s \in Statuses, NEW a \in Aims,
         s = "ACTIVE" => Granted(a),
         s \in {"ELIGIBLE", "BOOTSTRAPPED"} => Ready(a)
  PROVE  RowOK(Row(s), a)
  BY DEF RowOK, Row, TypeInv, StoreInv

LEMMA AppendKeeps ==
  ASSUME TypeInv, TypeInv', StatesInv, Grown, NEW a \in Aims, NEW r \in Rows,
         RowOK(r, a)', Append01(a, r)
  PROVE  StatesInv'
  <1>1. ASSUME NEW b \in Aims PROVE RowOK(d01[b], b)'
    <2>1. CASE b = a
      BY <2>1 DEF Append01, TypeInv, StoreInv, RowOK, Granted, Ready
    <2>2. CASE b # a
      <3>1. RowOK(d01[b], b) /\ d01[b] \in Rows /\ d01'[b] = d01[b]
        BY <2>2 DEF Append01, TypeInv, StoreInv, StatesInv
      <3> QED BY <3>1, RowKept DEF RowOK, Granted, Ready
    <2> QED BY <2>1, <2>2
  <1>2. \A b \in past' : Granted(b)'
    BY RowKept DEF TypeInv, StoreInv, StatesInv, Append01, RowOK
  <1> QED BY <1>1, <1>2 DEF StatesInv

LEMMA AppendOfOld ==
  ASSUME TypeInv, TypeInv', StatesInv, Grown, NEW a \in Aims, NEW r \in Rows,
         RowOK(r, a), Append01(a, r)
  PROVE  StatesInv'
  BY RowKept, AppendKeeps

LEMMA StatesKept ==
  ASSUME TypeInv, TypeInv', StatesInv, Grown, UNCHANGED <<d01, past>>
  PROVE  StatesInv'
  BY RowKept DEF TypeInv, StoreInv, StatesInv

\* Rows that are forgotten or kept.
LEMMA HandKept ==
  ASSUME TypeInv, TypeInv', HandInv, Grown, act' \in {act, NoAim},
         \A p \in Threads, a \in Aims : seen'[p][a] \in {seen[p][a], Row("INSTALLED")}
  PROVE  HandInv'
  <1>1. ASSUME NEW p \in Threads, NEW a \in Aims PROVE RowOK(seen[p][a], a)'
    <2>1. RowOK(seen[p][a], a) /\ seen[p][a] \in Rows
      BY DEF HandInv, TypeInv, MemInv
    <2>2. RowOK(Row("INSTALLED"), a)
      BY FreshRow DEF Statuses
    <2>3. Row("INSTALLED") \in Rows
      BY RowType DEF Statuses
    <2> QED BY <2>1, <2>2, <2>3, RowKept
  <1>2. act' # NoAim => "user" \in granted'[act']
    BY DEF HandInv, Grown, TypeInv, MemInv
  <1> QED BY <1>1, <1>2 DEF HandInv

LEMMA LearnKept ==
  ASSUME TypeInv, TypeInv', LearnInv, Grown,
         DOMAIN draw' \subseteq DOMAIN draw,
         \A a \in Aims : streak'[a].above > 0 => streak[a].above > 0 \/ a \in DOMAIN draw
  PROVE  LearnInv'
  <1>1. \E r \in Rows : TRUE
    BY RowType DEF Statuses
  <1> QED BY <1>1, RowKept DEF LearnInv, TypeInv, MemInv

LEMMA NextAimForgets ==
  ASSUME TypeInv, NEW p \in Threads, at[p] \in Aims, NextAim(p)
  PROVE  /\ act' \in {act, NoAim} /\ draw' = draw
         /\ \A q \in Threads, a \in Aims : seen'[q][a] \in {seen[q][a], Row("INSTALLED")}
  BY DEF NextAim, TypeInv, MemInv, Blank

\* The move of an AIM: it is activated for the user once it is ready, or it has
\* learned, and so been active, before.
LEMMA MovedOK ==
  ASSUME TypeInv, GrantInv, NEW p \in Threads, NEW a \in Aims, NEW r \in Rows,
         RowOK(r, a)
  PROVE  RowOK(Row(Moved(p, a, r.status)), a)
  <1> DEFINE s == r.status
             t == Moved(p, a, s)
  <1>1. s \in Statuses /\ t \in Statuses
    BY MovedType DEF Rows
  <1>2. t \in {"ELIGIBLE", "BOOTSTRAPPED"} => Ready(a)
    BY <1>1 DEF Moved, Ready, RowOK
  <1>3. CASE s \in {"ELIGIBLE", "BOOTSTRAPPED"} /\ act = a
    BY <1>3, <1>2, <1>1, FreshRow, AimsAssumption
       DEF GrantInv, HandInv, RowOK, Ready, Granted, Aims, NoAim
  <1>4. CASE s = "SUPPRESSED" /\ streak[a].above >= AboveStreak
    <2>1. streak[a].above > 0
      BY <1>4, BoundsAssumption DEF TypeInv, StoreInv, Counts
    <2> QED BY <2>1, <1>1, <1>2, FreshRow DEF GrantInv, LearnInv
  <1>5. CASE s = "ACTIVE"
    BY <1>1, <1>2, <1>5, FreshRow DEF RowOK
  <1>6. t = "ACTIVE" => \/ s \in {"ELIGIBLE", "BOOTSTRAPPED"} /\ act = a
                        \/ s = "SUPPRESSED" /\ streak[a].above >= AboveStreak
                        \/ s = "ACTIVE"
    BY DEF Moved
  <1> HIDE DEF s, t
  <1> QED BY <1>1, <1>2, <1>3, <1>4, <1>5, <1>6, FreshRow DEF s, t

\* Steps that touch neither the learning nor what it rests on.
LEMMA LearnSame ==
  ASSUME TypeInv, TypeInv', LearnInv, Grown, UNCHANGED <<draw, streak>>
  PROVE  LearnInv'
  BY LearnKept

LEMMA HandSame ==
  ASSUME TypeInv, TypeInv', HandInv, Grown, UNCHANGED <<act, seen>>
  PROVE  HandInv'
  BY HandKept

LEMMA GrantConsider ==
  ASSUME TypeInv, TypeInv', GrantInv, NEW p \in Threads, Consider(p)
  PROVE  GrantInv'
  <1> DEFINE a == at[p]
             r == seen[p][a]
             new == Moved(p, a, r.status)
  <1>1. pc[p] = "walk" /\ UNCHANGED <<d02, streak, obs, granted, faults>>
    BY DEF Consider
  <1>2. Grown
    BY <1>1, GrownUnchanged
  <1>3. a \in Aims /\ r \in Rows /\ RowOK(r, a)
    BY <1>1 DEF TypeInv, MemInv, GrantInv, HandInv, AtType
  <1>4. CASE r.status = "WARM_UP" /\ r.progress # Clamped(a)
    <2> DEFINE row == [status |-> "WARM_UP", progress |-> Clamped(a)]
    <2>1. /\ Append01(a, row) /\ seen' = [seen EXCEPT ![p][a].progress = Clamped(a)]
          /\ UNCHANGED <<at, act, task, draw>>
      BY <1>4 DEF Consider
    <2>0. Clamped(a) \in 0..MaxObs /\ Clamped(a) <= obs
      BY <1>3, ClampedType DEF TypeInv
    <2>2. row \in Rows /\ RowOK(row, a)
      BY <2>0 DEF Rows, Statuses, RowOK
    <2> HIDE DEF row, a
    <2>4. StatesInv'
      BY <2>1, <2>2, <1>2, <1>3, AppendOfOld DEF GrantInv
    <2> USE DEF a
    <2>5. ASSUME NEW q \in Threads, NEW b \in Aims PROVE RowOK(seen[q][b], b)'
      <3>1. RowOK(seen[q][b], b)
        BY DEF GrantInv, HandInv
      <3>2. CASE q = p /\ b = a
        <4>1. seen'[q][b].status = "WARM_UP" /\ seen'[q][b].progress = Clamped(a)
          BY <3>2, <2>1, <1>3, <1>4 DEF TypeInv, MemInv, Rows
        <4> QED BY <4>1, <2>0, <1>1 DEF RowOK, TypeInv, StoreInv
      <3>3. CASE ~(q = p /\ b = a)
        <4>1. seen'[q][b] = seen[q][b]
          BY <3>3, <2>1, <1>3 DEF TypeInv, MemInv
        <4> QED BY <4>1, <3>1, <1>1 DEF RowOK, Ready, Granted
      <3> QED BY <3>2, <3>3
    <2>6. HandInv'
      BY <2>1, <2>5, <1>1 DEF GrantInv, HandInv
    <2> QED BY <2>1, <2>4, <2>6, <1>1, <1>2, LearnSame DEF GrantInv
  <1>5. CASE ~(r.status = "WARM_UP" /\ r.progress # Clamped(a)) /\ new = r.status
    <2>1. NextAim(p) /\ UNCHANGED <<d01, past>>
      BY <1>5 DEF Consider
    <2> QED BY <2>1, <1>1, <1>2, <1>3, NextAimForgets, StatesKept, HandKept, LearnSame
            DEF GrantInv
  <1>6. CASE ~(r.status = "WARM_UP" /\ r.progress # Clamped(a)) /\ new # r.status
    <2>1. /\ Append01(a, Row(new))
          /\ NextAim(p) \/ UNCHANGED <<seen, act, draw>>
      BY <1>6 DEF Consider
    <2>2. new \in Statuses
      BY <1>3, MovedType DEF Rows
    <2>3. Row(new) \in Rows /\ RowOK(Row(new), a)
      BY <2>2, <1>3, RowType, MovedOK
    <2> HIDE DEF new, a
    <2>5. StatesInv'
      BY <2>1, <2>3, <1>2, <1>3, AppendOfOld DEF GrantInv
    <2> USE DEF a
    <2>6. HandInv' /\ LearnInv'
      BY <2>1, <1>1, <1>2, <1>3, NextAimForgets, HandKept, LearnSame DEF GrantInv
    <2> QED BY <2>5, <2>6 DEF GrantInv
  <1> QED BY <1>4, <1>5, <1>6

LEMMA GrantLifecycle ==
  ASSUME TypeInv, TypeInv', GrantInv, NEW p \in Threads, Lifecycle(p)
  PROVE  GrantInv'
  <1> DEFINE a == at[p]
  <1>1. UNCHANGED <<obs, granted>>
    BY DEF Lifecycle, Load, Consider, Gate, ResetStreak
  <1>2. Grown
    BY <1>1, GrownUnchanged
  <1>3. CASE Load(p)
    <2>1. UNCHANGED <<d01, past, streak, draw, act>>
      BY <1>3 DEF Load
    <2>2. \A q \in Threads, b \in Aims :
            seen'[q][b] = seen[q][b] \/ seen'[q][b] = d01[b]
      BY <1>3 DEF Load, TypeInv, MemInv
    <2>3. HandInv'
      BY <2>1, <2>2, <1>1 DEF GrantInv, HandInv, StatesInv, RowOK, Ready, Granted
    <2> QED BY <2>1, <2>3, <1>2, StatesKept, LearnSame DEF GrantInv
  <1>4. CASE Consider(p)
    BY <1>4, GrantConsider
  <1>5. CASE Gate(p)
    <2>1. a \in Aims /\ RowOK(seen[p][a], a) /\ NextAim(p) /\ UNCHANGED streak
      BY <1>5 DEF Gate, TypeInv, MemInv, GrantInv, HandInv, AtType
    <2>2. HandInv' /\ LearnInv'
      BY <2>1, <1>2, NextAimForgets, HandKept, LearnSame DEF GrantInv
    <2>3. CASE seen[p][a].progress >= Required[a]
      <3>1. Append01(a, Row("ELIGIBLE"))
        BY <1>5, <2>3 DEF Gate
      <3>2. obs \in Int /\ Required[a] \in Int /\ seen[p][a].progress \in Int
        BY <2>1, AimsAssumption, BoundsAssumption DEF TypeInv, MemInv, StoreInv, Rows
      <3>3. Ready(a)
        BY <2>1, <2>3, <3>2 DEF RowOK, Ready
      <3>4. Row("ELIGIBLE") \in Rows /\ RowOK(Row("ELIGIBLE"), a)
        BY <3>3, <2>1, FreshRow, RowType DEF Statuses
      <3> QED BY <3>1, <3>4, <2>1, <2>2, <1>2, AppendOfOld DEF GrantInv
    <2>4. CASE ~(seen[p][a].progress >= Required[a])
      <3>1. UNCHANGED <<d01, past>>
        BY <1>5, <2>4 DEF Gate
      <3> QED BY <3>1, <2>2, <1>2, StatesKept DEF GrantInv
    <2> QED BY <2>3, <2>4
  <1>6. CASE ResetStreak(p)
    <2>1. a \in Aims /\ NextAim(p) /\ UNCHANGED <<d01, past>>
      BY <1>6 DEF ResetStreak, TypeInv, MemInv, AtType
    <2>2. \A b \in Aims : streak'[b].above > 0 => streak[b].above > 0
      BY <1>6, <2>1 DEF ResetStreak, TypeInv, StoreInv, Counts
    <2> QED BY <2>1, <2>2, <1>2, NextAimForgets, HandKept, LearnKept, StatesKept
            DEF GrantInv
  <1> QED BY <1>3, <1>4, <1>5, <1>6 DEF Lifecycle

LEMMA GrantListener ==
  ASSUME TypeInv, TypeInv', GrantInv,
         \/ TradeCloses \/ LoadWeights \/ CountTrade \/ InsertWeight
         \/ \E a \in Aims : Activate(a) \/ Deactivate(a)
  PROVE  GrantInv'
  <1>1. CASE TradeCloses
    <2>1. /\ obs' = obs + 1
          /\ UNCHANGED <<d01, past, streak, seen, act, draw, granted>>
      BY <1>1 DEF TradeCloses, mem
    <2>2. Grown
      BY <2>1 DEF TypeInv, StoreInv, Grown
    <2> QED BY <2>1, <2>2, StatesKept, HandSame, LearnSame DEF GrantInv
  <1>2. CASE LoadWeights
    <2>1. UNCHANGED <<d01, past, streak, seen, act, obs, granted>>
      BY <1>2 DEF LoadWeights
    <2>2. Grown
      BY <2>1, GrownUnchanged
    <2>3. DOMAIN draw' \subseteq past
      BY <1>2 DEF LoadWeights, Draws, Learners
    <2>4. LearnInv'
      BY <2>1, <2>3 DEF GrantInv, StatesInv, LearnInv, Granted
    <2> QED BY <2>1, <2>2, <2>4, StatesKept, HandSame DEF GrantInv
  <1>3. CASE CountTrade \/ InsertWeight
    <2>1. UNCHANGED <<d01, past, seen, act, obs, granted>>
      BY <1>3 DEF CountTrade, InsertWeight
    <2>2. Grown
      BY <2>1, GrownUnchanged
    <2>3. /\ DOMAIN draw' \subseteq DOMAIN draw
          /\ \A a \in Aims : streak'[a] = streak[a] \/ a \in DOMAIN draw
      BY <1>3 DEF CountTrade, InsertWeight, NoDraw, TypeInv, StoreInv
    <2>4. LearnInv'
      BY <2>1, <2>2, <2>3, LearnKept DEF GrantInv
    <2> QED BY <2>1, <2>2, <2>4, StatesKept, HandSame DEF GrantInv
  <1>4. ASSUME NEW a \in Aims, Activate(a) PROVE GrantInv'
    <2>1. /\ UNCHANGED <<d01, past, streak, seen, draw, obs>> /\ act' = a
          /\ granted' = [granted EXCEPT ![a] = @ \cup {"user"}]
      BY <1>4 DEF Activate
    <2>2. Grown
      BY <2>1 DEF TypeInv, StoreInv, Grown
    <2>3. \A p \in Threads, b \in Aims : RowOK(seen[p][b], b)'
      <3> SUFFICES ASSUME NEW p \in Threads, NEW b \in Aims PROVE RowOK(seen[p][b], b)'
        OBVIOUS
      <3>1. RowOK(seen[p][b], b)
        BY DEF GrantInv, HandInv
      <3>2. granted[b] \subseteq granted'[b]
        BY <2>2 DEF Grown
      <3> QED BY <3>1, <3>2, <2>1 DEF RowOK, Ready, Granted
    <2>4. HandInv'
      BY <2>1, <2>3 DEF HandInv, TypeInv, StoreInv
    <2> QED BY <2>1, <2>2, <2>4, StatesKept, LearnSame DEF GrantInv
  <1>5. ASSUME NEW a \in Aims, Deactivate(a) PROVE GrantInv'
    <2>1. /\ UNCHANGED <<streak, seen, act, draw, obs, granted>>
          /\ Append01(a, Row("SUPPRESSED"))
      BY <1>5 DEF Deactivate, mem
    <2>2. Grown
      BY <2>1, GrownUnchanged
    <2>3. Row("SUPPRESSED") \in Rows /\ RowOK(Row("SUPPRESSED"), a)
      BY FreshRow, RowType DEF Statuses
    <2> QED BY <2>1, <2>2, <2>3, AppendOfOld, HandSame, LearnSame DEF GrantInv
  <1> QED BY <1>1, <1>2, <1>3, <1>4, <1>5

\* An AIM that the diversity check or the sensitivity scan activates.
LEMMA CheckActivates ==
  ASSUME TypeInv, TypeInv', GrantInv, NEW a \in Aims, Append01(a, Row("ACTIVE")),
         granted' = [granted EXCEPT ![a] = @ \cup {"check"}],
         UNCHANGED <<obs, seen, act, draw, streak>>
  PROVE  GrantInv'
  <1>1. Grown
    BY DEF TypeInv, StoreInv, Grown
  <1>2. "check" \in granted'[a]
    BY DEF TypeInv, StoreInv
  <1>3. PICK r \in Rows : r = Row("ACTIVE")
    BY RowType DEF Statuses
  <1>4. RowOK(r, a)'
    BY <1>2, <1>3 DEF Row, RowOK, Granted, TypeInv, StoreInv
  <1>5. StatesInv'
    BY <1>1, <1>3, <1>4, AppendKeeps DEF GrantInv
  <1> QED BY <1>1, <1>5, HandSame, LearnSame DEF GrantInv

LEMMA GrantScheduler ==
  ASSUME TypeInv, TypeInv', GrantInv,
         \/ \E t \in Tasks : StartTask(t)
         \/ Retrain \/ WriteRetrained \/ CountActive \/ LookAtMember \/ Revive \/ Weigh \/ Scan
  PROVE  GrantInv'
  <1> DEFINE a == at["scheduler"]
  <1> "scheduler" \in Threads
    BY DEF Threads
  <1>1. CASE (\E t \in Tasks : StartTask(t)) \/ CountActive \/ LookAtMember \/ Weigh
    <2>1. UNCHANGED <<d01, past, streak, seen, act, draw, obs, granted>>
      BY <1>1 DEF StartTask, CountActive, LookAtMember, Weigh
    <2> QED BY <2>1, GrownUnchanged, StatesKept, HandSame, LearnSame DEF GrantInv
  <1>2. CASE Retrain
    <2>1. UNCHANGED <<d01, past, streak, act, draw, obs, granted>>
      BY <1>2 DEF Retrain
    <2>2. \A q \in Threads, b \in Aims :
            seen'[q][b] = seen[q][b] \/ seen'[q][b] = d01[b]
      BY <1>2 DEF Retrain, TypeInv, MemInv
    <2>3. HandInv'
      BY <2>1, <2>2 DEF GrantInv, HandInv, StatesInv, RowOK, Ready, Granted
    <2> QED BY <2>1, <2>3, GrownUnchanged, StatesKept, LearnSame DEF GrantInv
  <1>3. CASE WriteRetrained
    <2>1. /\ UNCHANGED <<streak, act, draw, obs, granted>> /\ a \in Aims
          /\ Append01(a, Row(seen["scheduler"][a].status))
          /\ \A q \in Threads, b \in Aims : seen'[q][b] \in {seen[q][b], Row("INSTALLED")}
      BY <1>3 DEF WriteRetrained, TypeInv, MemInv, Blank, AtType
    <2>2. seen["scheduler"][a] \in Rows /\ RowOK(seen["scheduler"][a], a)
      BY <2>1 DEF TypeInv, MemInv, GrantInv, HandInv
    <2>3. seen["scheduler"][a].status \in Statuses
      BY <2>2 DEF Rows
    <2>4. /\ Row(seen["scheduler"][a].status) \in Rows
          /\ RowOK(Row(seen["scheduler"][a].status), a)
      BY <2>1, <2>2, <2>3, FreshRow, RowType DEF RowOK
    <2> HIDE DEF a
    <2>5. Grown
      BY <2>1, GrownUnchanged
    <2> QED BY <2>1, <2>4, <2>5, AppendOfOld, HandKept, LearnSame DEF GrantInv
  <1>4. CASE Revive
    <2>1. UNCHANGED <<streak, seen, act, draw, obs>>
      BY <1>4 DEF Revive
    <2>2. PICK b \in Aims : b = Best(CurrentType)
      BY <1>4, BestIsAim DEF Revive, CurrentType, TypeInv, MemInv
    <2>3. /\ Append01(b, Row("ACTIVE"))
          /\ granted' = [granted EXCEPT ![b] = @ \cup {"check"}]
      BY <1>4, <2>2 DEF Revive
    <2> QED BY <2>1, <2>3, CheckActivates
  <1>5. CASE Scan
    <2>1. UNCHANGED <<streak, seen, act, draw, obs>>
      BY <1>5 DEF Scan
    <2>2. CASE /\ ScanAim # NoAim /\ Append01(ScanAim, Row("ACTIVE"))
               /\ granted' = [granted EXCEPT ![ScanAim] = @ \cup {"check"}]
      <3>1. ScanAim \in Aims
        BY <2>2, AimsAssumption
      <3> QED BY <2>1, <2>2, <3>1, CheckActivates
    <2>3. CASE UNCHANGED <<d01, past, granted>>
      BY <2>1, <2>3, GrownUnchanged, StatesKept, HandSame, LearnSame DEF GrantInv
    <2> QED BY <1>5, <2>2, <2>3 DEF Scan
  <1> QED BY <1>1, <1>2, <1>3, <1>4, <1>5

LEMMA GrantFaults ==
  ASSUME TypeInv, TypeInv', GrantInv,
         \/ Compact \/ (\E p \in Threads : Raises(p)) \/ Crash \/ UNCHANGED vars
  PROVE  GrantInv'
  <1> "scheduler" \in Threads
    BY DEF Threads
  <1>1. UNCHANGED <<obs, granted>>
    BY DEF Compact, KeepStates, DropStates, RefillStates, CompactWeights, Raises,
           Crash, Idle, vars
  <1>2. Grown
    BY <1>1, GrownUnchanged
  <1>3. CASE KeepStates
    <2>1. UNCHANGED <<d01, past, streak, act, draw>>
      BY <1>3 DEF KeepStates
    <2>2. \A q \in Threads, b \in Aims :
            seen'[q][b] = seen[q][b] \/ seen'[q][b] = d01[b]
      BY <1>3 DEF KeepStates, TypeInv, MemInv
    <2>3. HandInv'
      BY <2>1, <2>2, <1>1 DEF GrantInv, HandInv, StatesInv, RowOK, Ready, Granted
    <2> QED BY <2>1, <2>3, <1>2, StatesKept, LearnSame DEF GrantInv
  <1>4. CASE DropStates
    <2>1. UNCHANGED <<streak, act, draw, seen>>
      BY <1>4 DEF DropStates
    <2>2. \A b \in Aims : d01'[b] = [status |-> "ABSENT", progress |-> 0]
      BY <1>4 DEF DropStates, Row
    <2>3. past' = {} /\ obs \in Int /\ 0 <= obs
      BY <1>4 DEF DropStates, TypeInv, StoreInv
    <2>4. StatesInv'
      BY <2>2, <2>3, <1>1 DEF StatesInv, RowOK
    <2> QED BY <2>1, <2>4, <1>2, HandSame, LearnSame DEF GrantInv
  <1>5. CASE RefillStates
    <2>1. UNCHANGED <<streak, act, draw>>
      BY <1>5 DEF RefillStates
    <2>2. \A q \in Threads, b \in Aims : seen'[q][b] \in {seen[q][b], Row("INSTALLED")}
      BY <1>5 DEF RefillStates, Blank, TypeInv, MemInv
    <2>3. \A b \in Aims : d01'[b] = d01[b] \/ d01'[b] = seen["scheduler"][b]
      BY <1>5 DEF RefillStates
    <2>4. \A b \in past' : \/ b \in past
                           \/ b \in Aims /\ seen["scheduler"][b].status = "ACTIVE"
      BY <1>5 DEF RefillStates
    <2>5. StatesInv'
      BY <2>3, <2>4, <1>1 DEF GrantInv, StatesInv, HandInv, RowOK, Ready, Granted
    <2> QED BY <2>1, <2>2, <2>5, <1>2, HandKept, LearnSame DEF GrantInv
  <1>6. CASE CompactWeights \/ UNCHANGED vars
    <2>1. UNCHANGED <<d01, past, streak, act, draw, seen>>
      BY <1>6 DEF CompactWeights, vars, mem
    <2> QED BY <2>1, <1>2, StatesKept, HandSame, LearnSame DEF GrantInv
  <1>7. ASSUME NEW P \in SUBSET Threads, Idle(P) PROVE HandInv' /\ LearnInv'
    <2>1. /\ act' \in {act, NoAim} /\ UNCHANGED streak /\ DOMAIN draw' \subseteq DOMAIN draw
          /\ \A q \in Threads, b \in Aims : seen'[q][b] \in {seen[q][b], Row("INSTALLED")}
      BY <1>7 DEF Idle, Blank, NoDraw
    <2>2. HandInv'
      BY <2>1, <1>2, HandKept DEF GrantInv
    <2>3. LearnInv'
      BY <2>1, <1>2, LearnKept DEF GrantInv
    <2> QED BY <2>2, <2>3
  <1>8. ASSUME NEW p \in Threads, Raises(p) PROVE GrantInv'
    <2>1. Idle({p}) /\ UNCHANGED <<d01, past>>
      BY <1>8 DEF Raises, Idle
    <2> QED BY <2>1, <1>2, <1>7, StatesKept DEF GrantInv
  <1>9. CASE Crash
    <2>1. Idle(Threads) /\ UNCHANGED past
      BY <1>9 DEF Crash, Idle
    <2>2. ASSUME NEW b \in Aims PROVE RowOK(d01[b], b)'
      <3>1. RowOK(Seed(b), b)
        BY FreshRow DEF Seed, Statuses, Ready
      <3>2. RowOK(d01[b], b)
        BY DEF GrantInv, StatesInv
      <3>3. d01'[b] = d01[b] \/ d01'[b] = Seed(b)
        BY <1>9 DEF Crash
      <3> QED BY <3>1, <3>2, <3>3, <1>1 DEF RowOK, Ready, Granted
    <2>3. StatesInv'
      BY <2>1, <2>2, <1>1 DEF GrantInv, StatesInv, Granted
    <2> QED BY <2>1, <2>3, <1>7 DEF GrantInv
  <1> QED BY <1>3, <1>4, <1>5, <1>6, <1>8, <1>9 DEF Compact

LEMMA GrantInit == Init => GrantInv
  <1> SUFFICES ASSUME Init PROVE GrantInv
    OBVIOUS
  <1>1. TypeInv
    BY TypeInit
  <1>2. \A a \in Aims : RowOK(Seed(a), a) /\ RowOK(Row("INSTALLED"), a)
    BY <1>1, FreshRow DEF Seed, Statuses, Ready
  <1>3. StatesInv
    BY <1>2 DEF Init, StatesInv
  <1>4. HandInv
    BY <1>2 DEF Init, HandInv, Blank
  <1>5. LearnInv
    BY DEF Init, LearnInv, NoDraw
  <1> QED BY <1>3, <1>4, <1>5 DEF GrantInv

LEMMA GrantNext == TypeInv /\ TypeInv' /\ GrantInv /\ [Next]_vars => GrantInv'
  <1> SUFFICES ASSUME TypeInv, TypeInv', GrantInv, [Next]_vars PROVE GrantInv'
    OBVIOUS
  <1>1. CASE \E p \in Threads : Lifecycle(p)
    BY <1>1, GrantLifecycle
  <1> QED BY <1>1, GrantListener, GrantScheduler, GrantFaults
          DEF Next, ListenerStep, SchedulerStep, Threads

\* An active AIM was activated for the user when it was ready, or by the
\* diversity check or the sensitivity scan, whatever the two threads have read
\* before they write, and whichever of them raises or dies.
THEOREM OnlyGrantedAreActive == Spec => []ActiveIsGranted
  <1>1. GrantInv => ActiveIsGranted
    BY DEF GrantInv, StatesInv, RowOK, ActiveIsGranted, ActiveAims
  <1> QED BY <1>1, TypeInit, TypeNext, GrantInit, GrantNext, PTL DEF Spec
=============================================================================
