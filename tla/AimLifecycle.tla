---------------------------- MODULE AimLifecycle ----------------------------
(***************************************************************************)
(* The life cycle of the adaptive indicator modules (AIMs) of one asset in *)
(* Captain Offline.  The status of an AIM is its latest row in P3-D01, its *)
(* weight its latest row in P3-D02; how long its weight has been zero or   *)
(* high is counted in Redis.  Two threads read these, think (every update  *)
(* takes a version snapshot first), and append a row: the listener         *)
(* (outcomes, and the user's commands) and the scheduler (daily life       *)
(* cycle, weekly retraining and diversity check, monthly sensitivity scan, *)
(* the compaction of both tables).  Nothing keeps the one from writing     *)
(* over what the other has written since it read.                          *)
(*                                                                         *)
(* QuestDB applies WHERE before LATEST ON: a query for the latest row with *)
(* status ACTIVE finds every AIM that still has such a row, whatever its   *)
(* latest row says.                                                        *)
(*                                                                         *)
(* A weight is zero, high (above RECOVERY_WEIGHT_THRESHOLD) or low.  The   *)
(* drift detection is left out: its autoencoder is never fitted, so it     *)
(* skips every AIM.  The life cycle reads trades, weight and counters of   *)
(* an AIM and appends its row in one step; its status it read before.      *)
(***************************************************************************)
EXTENDS Integers, Sequences, FiniteSets

CONSTANTS
    NumAims,        \* NUM_AIMS
    Tier1,          \* TIER1_AIMS: seeded as BOOTSTRAPPED, retrained weekly
    Tier23,         \* TIER_23_AIMS: retrained monthly
    SeedTypes,      \* SEED_TYPES: sequence of sequences of AIMs
    ScanAim,        \* the AIM the sensitivity scan speaks for (13), or 0
    Required,       \* warmup_required of each AIM
    MaxObs,         \* bound: trades counted
    ZeroStreak,     \* SUPPRESSION_CONSECUTIVE_ZERO
    AboveStreak,    \* RECOVERY_CONSECUTIVE
    Tasks,          \* the scheduler's tasks: daily, weekly, monthly, compact
    MaxFaults       \* bound: exceptions and crashes

Aims == 1..NumAims
Threads == {"listener", "scheduler"}
Statuses == {"INSTALLED", "COLLECTING", "WARM_UP", "ELIGIBLE", "BOOTSTRAPPED",
             "ACTIVE", "SUPPRESSED", "ABSENT"}
Weights == {"none", "zero", "low", "high"}
NoAim == 0

ASSUME AimsAssumption ==
    /\ NumAims \in Nat \ {0} /\ Tier1 \subseteq Aims /\ Tier23 \subseteq Aims
    /\ ScanAim \in Aims \cup {NoAim} /\ Required \in [Aims -> Nat \ {0}]
    /\ SeedTypes \in Seq(Seq(Aims) \ {<<>>})
ASSUME TasksAssumption == Tasks \subseteq {"daily", "weekly", "monthly", "compact"}
ASSUME BoundsAssumption ==
    /\ ZeroStreak \in Nat \ {0} /\ AboveStreak \in Nat \ {0}
    /\ MaxObs \in Nat /\ MaxFaults \in Nat

VARIABLES
    d01,        \* latest row of each AIM: status, observations in warmup_progress
    past,       \* AIMs with a row of status ACTIVE in P3-D01
    d02,        \* latest weight of each AIM
    streak,     \* Redis: consecutive trades with weight zero, above the threshold
    obs,        \* trades of the asset in P3-D03, up to MaxObs
    pc,         \* what each thread is doing
    at,         \* the AIM (or seed type) it is at
    seen,       \* the rows it has loaded and not yet looked at
    act,        \* the AIM of the ACTIVATE_AIM in hand
    task,       \* whose life cycle the scheduler runs
    draw,       \* the weights of the DMA update that are not yet written
    member,     \* which AIM of the seed type the diversity check looks at
    active,     \* num_active of the diversity check
    granted,    \* history: who has wanted each AIM active
    faults

check == <<member, active>>
mem == <<pc, at, seen, act, task, draw, check>>
vars == <<d01, past, d02, streak, obs, mem, granted, faults>>

Least(m, n) == IF m < n THEN m ELSE n
\* appending a row to P3-D01
Append01(a, row) ==
    /\ d01' = [d01 EXCEPT ![a] = row]
    /\ past' = IF row.status = "ACTIVE" THEN past \cup {a} ELSE past
\* the progress is only looked at while the AIM warms up
Row(s) == [status |-> s, progress |-> 0]
Blank == [a \in Aims |-> Row("INSTALLED")]
NoDraw == [a \in {} |-> "none"]
\* _seed_aim_states: an AIM without a row, when Offline starts
Seed(a) == Row(IF a \in Tier1 THEN "BOOTSTRAPPED" ELSE "INSTALLED")
ActiveAims == {a \in Aims : d01[a].status = "ACTIVE"}
\* the weight 1/n
Equal(n) == IF n < 10 THEN "high" ELSE "low"

Init ==
    /\ d01 = [a \in Aims |-> Seed(a)] /\ past = {}
    /\ d02 = [a \in Aims |-> IF a \in Tier1 THEN Equal(Cardinality(Tier1)) ELSE "none"]
    /\ streak = [a \in Aims |-> [zero |-> 0, above |-> 0]]
    /\ obs = 0
    /\ pc = [p \in Threads |-> "idle"] /\ at = [p \in Threads |-> 1]
    /\ seen = [p \in Threads |-> Blank]
    /\ act = NoAim /\ task = "daily" /\ draw = NoDraw /\ member = 1 /\ active = 0
    /\ granted = [a \in Aims |-> {}] /\ faults = 0

-----------------------------------------------------------------------------
(* run_aim_lifecycle: all rows are loaded, then each AIM is looked at.      *)

\* what follows the life cycle in the scheduler's task
After(p) ==
    CASE p = "listener" \/ task = "daily" -> "idle"
      [] p = "scheduler" /\ task = "weekly" -> "count"
      [] p = "scheduler" /\ task = "monthly" -> "scan"

NextAim(p) ==
    IF at[p] < NumAims
    THEN /\ pc' = [pc EXCEPT ![p] = "walk"] /\ at' = [at EXCEPT ![p] = @ + 1]
         /\ seen' = [seen EXCEPT ![p][at[p]] = Row("INSTALLED")]
         /\ UNCHANGED <<act, task, draw>>
    ELSE /\ pc' = [pc EXCEPT ![p] = After(p)] /\ at' = [at EXCEPT ![p] = 1]
         /\ seen' = [seen EXCEPT ![p] = Blank]
         /\ IF p = "listener" THEN act' = NoAim /\ UNCHANGED task
                              ELSE task' = "daily" /\ UNCHANGED act
         /\ UNCHANGED draw

Load(p) ==
    /\ pc[p] = "load"
    /\ seen' = [seen EXCEPT ![p] = d01] /\ at' = [at EXCEPT ![p] = 1]
    /\ pc' = [pc EXCEPT ![p] = "walk"]
    /\ UNCHANGED <<d01, past, d02, streak, obs, act, task, draw, check, granted, faults>>

Weightless(a) == d02[a] \in {"none", "zero"}

\* mutant: on the user's command every AIM ready is activated
MovedUnasked(p, a, s) ==
    CASE s = "INSTALLED" -> "COLLECTING"
      [] s = "COLLECTING" /\ obs > 0 -> "WARM_UP"
      [] s = "WARM_UP" /\ obs >= Required[a] -> "ELIGIBLE"
      [] s \in {"ELIGIBLE", "BOOTSTRAPPED"} /\ p = "listener" -> "ACTIVE"
      [] s = "ACTIVE" /\ Weightless(a) /\ streak[a].zero >= ZeroStreak -> "SUPPRESSED"
      [] s = "SUPPRESSED" /\ d02[a] = "high" /\ streak[a].above >= AboveStreak -> "ACTIVE"
      [] OTHER -> s

\* mutant: the suppression looks at the counter of the recovery
MovedWrongCount(p, a, s) ==
    CASE s = "INSTALLED" -> "COLLECTING"
      [] s = "COLLECTING" /\ obs > 0 -> "WARM_UP"
      [] s = "WARM_UP" /\ obs >= Required[a] -> "ELIGIBLE"
      [] s \in {"ELIGIBLE", "BOOTSTRAPPED"} /\ p = "listener" /\ act = a -> "ACTIVE"
      [] s = "ACTIVE" /\ Weightless(a) /\ streak[a].above >= ZeroStreak -> "SUPPRESSED"
      [] s = "SUPPRESSED" /\ d02[a] = "high" /\ streak[a].above >= AboveStreak -> "ACTIVE"
      [] OTHER -> s

\* the status an AIM seen in status s moves to
Moved(p, a, s) ==
    CASE s = "INSTALLED" -> "COLLECTING"
      [] s = "COLLECTING" /\ obs > 0 -> "WARM_UP"
      [] s = "WARM_UP" /\ obs >= Required[a] -> "ELIGIBLE"
      [] s \in {"ELIGIBLE", "BOOTSTRAPPED"} /\ p = "listener" /\ act = a -> "ACTIVE"
      [] s = "ACTIVE" /\ Weightless(a) /\ streak[a].zero >= ZeroStreak -> "SUPPRESSED"
      [] s = "SUPPRESSED" /\ d02[a] = "high" /\ streak[a].above >= AboveStreak -> "ACTIVE"
      [] OTHER -> s

\* the progress of a warm-up, in observations
Clamped(a) == Least(obs, Required[a])

\* an AIM is looked at, and its new status or progress appended
Consider(p) ==
    /\ pc[p] = "walk"
    /\ LET a == at[p]
           s == seen[p][a].status
           new == Moved(p, a, s)
       IN  IF s = "WARM_UP" /\ seen[p][a].progress # Clamped(a)
           THEN /\ Append01(a, [status |-> "WARM_UP", progress |-> Clamped(a)])
                /\ seen' = [seen EXCEPT ![p][a].progress = Clamped(a)]
                /\ pc' = [pc EXCEPT ![p] = "gate"]
                /\ UNCHANGED <<at, act, task, draw>>
           ELSE IF new = s
           THEN NextAim(p) /\ UNCHANGED <<d01, past>>
           ELSE /\ Append01(a, Row(new))
                /\ IF s \in {"ACTIVE", "SUPPRESSED"}
                   THEN pc' = [pc EXCEPT ![p] = "reset"] /\ UNCHANGED <<at, seen, act, task, draw>>
                   ELSE NextAim(p)
    /\ UNCHANGED <<d02, streak, obs, check, granted, faults>>

\* after the progress has been written, with the same observations
Gate(p) ==
    LET a == at[p] IN
    /\ pc[p] = "gate"
    /\ IF seen[p][a].progress >= Required[a]
       THEN Append01(a, Row("ELIGIBLE")) ELSE UNCHANGED <<d01, past>>
    /\ NextAim(p)
    /\ UNCHANGED <<d02, streak, obs, check, granted, faults>>

\* the counter that was used up starts again
ResetStreak(p) ==
    /\ pc[p] = "reset"
    /\ streak' = [streak EXCEPT ![at[p]] =
            IF seen[p][at[p]].status = "ACTIVE" THEN [@ EXCEPT !.zero = 0] ELSE [@ EXCEPT !.above = 0]]
    /\ NextAim(p)
    /\ UNCHANGED <<d01, past, d02, obs, check, granted, faults>>

Lifecycle(p) == Load(p) \/ Consider(p) \/ Gate(p) \/ ResetStreak(p)

-----------------------------------------------------------------------------
(* The listener: outcomes and commands.                                     *)

\* Online books a trade in P3-D03
TradeCloses ==
    /\ obs < MaxObs /\ obs' = obs + 1
    /\ UNCHANGED <<d01, past, d02, streak, mem, granted, faults>>

\* _load_active_aims: every AIM that has been active since the last compaction
Learners == {a \in past : d02[a] # "none"}

\* the weights a DMA update can lead to: a weight of zero stays zero, unless
\* all are zero and start again as equal ones; the others sum up to one
Draws(L) ==
    LET spread == {w \in [L -> {"zero", "low", "high"}] :
                    LET alive == {a \in L : w[a] # "zero"}
                    IN  /\ \A a \in L : d02[a] = "zero" => w[a] = "zero"
                        /\ alive # {}
                        /\ Cardinality(alive) < 10 => \E a \in alive : w[a] = "high"}
    IN  spread \cup {[a \in L |-> Equal(Cardinality(L))]}

\* the outcome of a trade, or the theoretical one of a signal nobody took
LoadWeights ==
    /\ pc["listener"] = "idle"
    /\ Learners # {}
    /\ \E w \in Draws(Learners) : draw' = w
    /\ pc' = [pc EXCEPT !["listener"] = "weights"]
    /\ UNCHANGED <<d01, past, d02, streak, obs, at, seen, act, task, check, granted, faults>>

\* in Redis one counter goes up and the other starts again, or both do
Counted(c, w) ==
    CASE w = "zero" -> [zero |-> Least(c.zero + 1, ZeroStreak), above |-> 0]
      [] w = "high" -> [zero |-> 0, above |-> Least(c.above + 1, AboveStreak)]
      [] w = "low" -> [zero |-> 0, above |-> 0]

\* the counter that goes up, before the other one starts again
HalfCounted(c, w) ==
    CASE w = "zero" -> [c EXCEPT !.zero = Least(@ + 1, ZeroStreak)]
      [] w = "high" -> [c EXCEPT !.above = Least(@ + 1, AboveStreak)]
      [] w = "low" -> c

\* the update goes AIM by AIM
Foremost(a) == \A b \in DOMAIN draw : a <= b

\* the counters in Redis come first, in two calls of which the second may raise
CountTrade ==
    /\ pc["listener"] = "weights"
    /\ \E a \in DOMAIN draw :
        /\ Foremost(a)
        /\ \/ /\ streak' = [streak EXCEPT ![a] = Counted(@, draw[a])]
              /\ pc' = [pc EXCEPT !["listener"] = "insert"]
              /\ UNCHANGED <<draw, faults>>
           \/ /\ faults < MaxFaults /\ faults' = faults + 1
              /\ streak' = [streak EXCEPT ![a] = HalfCounted(@, draw[a])]
              /\ pc' = [pc EXCEPT !["listener"] = "idle"] /\ draw' = NoDraw
    /\ UNCHANGED <<d01, past, d02, obs, at, seen, act, task, check, granted>>

\* then the weight, if the INSERT does not raise (Raises)
InsertWeight ==
    /\ pc["listener"] = "insert"
    /\ \E a \in DOMAIN draw :
        /\ Foremost(a)
        /\ d02' = [d02 EXCEPT ![a] = draw[a]]
        /\ draw' = [b \in DOMAIN draw \ {a} |-> draw[b]]
        /\ pc' = [pc EXCEPT !["listener"] = IF DOMAIN draw = {a} THEN "idle" ELSE "weights"]
    /\ UNCHANGED <<d01, past, streak, obs, at, seen, act, task, check, granted, faults>>

\* ACTIVATE_AIM: the life cycle of all AIMs, one of them activated
Activate(a) ==
    /\ pc["listener"] = "idle"
    /\ act' = a /\ pc' = [pc EXCEPT !["listener"] = "load"]
    /\ granted' = [granted EXCEPT ![a] = @ \cup {"user"}]
    /\ UNCHANGED <<d01, past, d02, streak, obs, at, seen, task, draw, check, faults>>

\* DEACTIVATE_AIM: whatever the status was
Deactivate(a) ==
    /\ pc["listener"] = "idle"
    /\ Append01(a, Row("SUPPRESSED"))
    /\ UNCHANGED <<d02, streak, obs, mem, granted, faults>>

-----------------------------------------------------------------------------
(* The scheduler: daily, weekly and monthly tasks.                          *)

StartTask(t) ==
    /\ pc["scheduler"] = "idle"
    /\ task' = IF t = "compact" THEN task ELSE t
    /\ \E first \in (CASE t = "daily" -> {"load"}
                       [] t \in {"weekly", "monthly"} -> {"retrain"}
                       [] t = "compact" -> {"keep", "compact weights"}) :
            pc' = [pc EXCEPT !["scheduler"] = first]
    /\ UNCHANGED <<d01, past, d02, streak, obs, at, seen, act, draw, check, granted, faults>>

Tier == IF task = "weekly" THEN Tier1 ELSE Tier23

\* run_tier_retrain goes on to the next AIM, or to the life cycle
NextRetrained ==
    IF at["scheduler"] < NumAims
    THEN /\ at' = [at EXCEPT !["scheduler"] = @ + 1]
         /\ pc' = [pc EXCEPT !["scheduler"] = "retrain"]
    ELSE /\ at' = [at EXCEPT !["scheduler"] = 1]
         /\ pc' = [pc EXCEPT !["scheduler"] = "load"]

Retrain ==
    LET a == at["scheduler"] IN
    /\ pc["scheduler"] = "retrain"
    /\ IF a \in Tier /\ d01[a].status \in {"ACTIVE", "BOOTSTRAPPED"}
       THEN /\ seen' = [seen EXCEPT !["scheduler"][a] = d01[a]]
            /\ pc' = [pc EXCEPT !["scheduler"] = "retrained"]
            /\ UNCHANGED at
       ELSE NextRetrained /\ UNCHANGED seen
    /\ UNCHANGED <<d01, past, d02, streak, obs, act, task, draw, check, granted, faults>>

\* the status that was read is written back with the time of the retraining
WriteRetrained ==
    LET a == at["scheduler"] IN
    /\ pc["scheduler"] = "retrained"
    /\ Append01(a, Row(seen["scheduler"][a].status))
    /\ seen' = [seen EXCEPT !["scheduler"] = Blank]
    /\ NextRetrained
    /\ UNCHANGED <<d02, streak, obs, act, task, draw, check, granted, faults>>

-----------------------------------------------------------------------------
(* run_hdwm_diversity_check: the active AIMs are counted once, then the     *)
(* statuses of each seed type are read AIM by AIM.                          *)

\* the next seed type, with n AIMs active
NextType(n) ==
    /\ member' = 1
    /\ IF at["scheduler"] < Len(SeedTypes)
       THEN /\ at' = [at EXCEPT !["scheduler"] = @ + 1] /\ active' = n
            /\ pc' = [pc EXCEPT !["scheduler"] = "diversity"]
       ELSE /\ at' = [at EXCEPT !["scheduler"] = 1] /\ active' = 0
            /\ pc' = [pc EXCEPT !["scheduler"] = "idle"]

Members(T) == {T[i] : i \in DOMAIN T}
CurrentType == SeedTypes[at["scheduler"]]

CountActive ==
    /\ pc["scheduler"] = "count"
    /\ active' = Cardinality(ActiveAims)
    /\ pc' = [pc EXCEPT !["scheduler"] = IF SeedTypes = <<>> THEN "idle" ELSE "diversity"]
    /\ UNCHANGED <<d01, past, d02, streak, obs, at, seen, act, task, draw, member, granted, faults>>

\* mutant: a type is dead only if all of its AIMs are suppressed
NotSuppressed(a) == d01[a].status # "SUPPRESSED"

\* a type is dead if none of its AIMs is active, whatever they are instead
Alive(a) == d01[a].status = "ACTIVE"

LookAtMember ==
    /\ pc["scheduler"] = "diversity" /\ at["scheduler"] <= Len(SeedTypes)
    /\ IF member <= Len(CurrentType)
       THEN IF Alive(CurrentType[member])
            THEN NextType(active)
            ELSE member' = member + 1 /\ UNCHANGED <<pc, at, active>>
       ELSE /\ pc' = [pc EXCEPT !["scheduler"] = "revive"] /\ member' = 1
            /\ UNCHANGED <<at, active>>
    /\ UNCHANGED <<d01, past, d02, streak, obs, seen, act, task, draw, granted, faults>>

\* max over recent_effectiveness, which every writer of P3-D02 leaves at 0.0:
\* the first AIM of the type
Best(T) == T[1]

\* after a snapshot, the row of P3-D01
Revive ==
    /\ pc["scheduler"] = "revive"
    /\ at["scheduler"] <= Len(SeedTypes)
    /\ LET a == Best(CurrentType) IN
        /\ Append01(a, Row("ACTIVE"))
        /\ granted' = [granted EXCEPT ![a] = @ \cup {"check"}]
    /\ pc' = [pc EXCEPT !["scheduler"] = "weigh"]
    /\ UNCHANGED <<d02, streak, obs, at, seen, act, task, draw, check, faults>>

\* after another one, the weight of one more than were active
Weigh ==
    /\ pc["scheduler"] = "weigh"
    /\ d02' = [d02 EXCEPT ![Best(CurrentType)] = Equal(active + 1)]
    /\ NextType(active + 1)
    /\ UNCHANGED <<d01, past, streak, obs, seen, act, task, draw, granted, faults>>

\* run_sensitivity_scan writes ACTIVE, robust or fragile, if there are returns enough
Scan ==
    /\ pc["scheduler"] = "scan"
    /\ pc' = [pc EXCEPT !["scheduler"] = "idle"]
    /\ \/ /\ ScanAim # NoAim
          /\ Append01(ScanAim, Row("ACTIVE"))
          /\ granted' = [granted EXCEPT ![ScanAim] = @ \cup {"check"}]
       \/ UNCHANGED <<d01, past, granted>>
    /\ UNCHANGED <<d02, streak, obs, at, seen, act, task, draw, check, faults>>

-----------------------------------------------------------------------------
(* The compaction of P3-D01, then of P3-D02: the latest rows are read, the  *)
(* table is dropped and created, and the rows are inserted again with       *)
(* their old times.  A table with few rows to spare is left as it is.  For  *)
(* P3-D02 it is one step: a weight written meanwhile is not lost.           *)

\* all rows are inserted, or some and a call raises
Reached(S, all) ==
    \/ S = all /\ UNCHANGED faults
    \/ S # all /\ faults < MaxFaults /\ faults' = faults + 1

KeepStates ==
    /\ pc["scheduler"] = "keep"
    /\ seen' = [seen EXCEPT !["scheduler"] = d01]
    /\ pc' = [pc EXCEPT !["scheduler"] = "drop"]
    /\ UNCHANGED <<d01, past, d02, streak, obs, at, act, task, draw, check, granted, faults>>

DropStates ==
    /\ pc["scheduler"] = "drop"
    /\ d01' = [a \in Aims |-> Row("ABSENT")] /\ past' = {}
    /\ pc' = [pc EXCEPT !["scheduler"] = "refill"]
    /\ UNCHANGED <<d02, streak, obs, at, seen, act, task, draw, check, granted, faults>>

\* the row kept is the latest one, unless a newer one has been written
\* meanwhile; all are inserted, unless an INSERT fails or the compaction is
\* killed after its five minutes
RefillStates ==
    /\ pc["scheduler"] = "refill"
    /\ \E S \in SUBSET Aims :
        /\ Reached(S, Aims)
        /\ d01' = [a \in Aims |-> IF a \in S /\ d01[a].status = "ABSENT"
                                  THEN seen["scheduler"][a] ELSE d01[a]]
        /\ past' = past \cup {a \in S : seen["scheduler"][a].status = "ACTIVE"}
    /\ seen' = [seen EXCEPT !["scheduler"] = Blank]
    /\ \E next \in {"compact weights", "idle"} : pc' = [pc EXCEPT !["scheduler"] = next]
    /\ UNCHANGED <<d02, streak, obs, at, act, task, draw, check, granted>>

CompactWeights ==
    /\ pc["scheduler"] = "compact weights"
    /\ \E S \in SUBSET Aims :
        /\ Reached(S, Aims)
        /\ d02' = [a \in Aims |-> IF a \in S THEN d02[a] ELSE "none"]
    /\ pc' = [pc EXCEPT !["scheduler"] = "idle"]
    /\ UNCHANGED <<d01, past, streak, obs, at, seen, act, task, draw, check, granted>>

Compact == KeepStates \/ DropStates \/ RefillStates \/ CompactWeights

-----------------------------------------------------------------------------
\* what a thread forgets when an exception ends its work
Idle(P) ==
    /\ pc' = [p \in Threads |-> IF p \in P THEN "idle" ELSE pc[p]]
    /\ at' = [p \in Threads |-> IF p \in P THEN 1 ELSE at[p]]
    /\ seen' = [p \in Threads |-> IF p \in P THEN Blank ELSE seen[p]]
    /\ IF "listener" \in P THEN act' = NoAim /\ draw' = NoDraw ELSE UNCHANGED <<act, draw>>
    /\ IF "scheduler" \in P THEN task' = "daily" /\ member' = 1 /\ active' = 0
                           ELSE UNCHANGED <<task, member, active>>
    /\ faults < MaxFaults /\ faults' = faults + 1
    /\ UNCHANGED <<past, d02, streak, obs, granted>>

\* a call to QuestDB or Redis raises: the rest of the task or message is left out
Raises(p) == pc[p] # "idle" /\ Idle({p}) /\ UNCHANGED d01

\* Captain Offline dies and comes back, and seeds the AIMs that have no row
Crash ==
    /\ \E p \in Threads : pc[p] # "idle"
    /\ Idle(Threads)
    /\ d01' = [a \in Aims |-> IF d01[a].status = "ABSENT" THEN Seed(a) ELSE d01[a]]

ListenerStep == CountTrade \/ InsertWeight \/ Lifecycle("listener")
SchedulerStep ==
    \/ Lifecycle("scheduler") \/ Retrain \/ WriteRetrained
    \/ CountActive \/ LookAtMember \/ Revive \/ Weigh \/ Scan
    \/ Compact

Next ==
    \/ TradeCloses \/ LoadWeights \/ ListenerStep \/ SchedulerStep
    \/ \E a \in Aims : Activate(a) \/ Deactivate(a)
    \/ \E t \in Tasks : StartTask(t)
    \/ \E p \in Threads : Raises(p)
    \/ Crash

Spec == Init /\ [][Next]_vars

\* both threads go on, and each of the scheduler's dates comes again and again
Fairness ==
    /\ WF_vars(ListenerStep) /\ WF_vars(SchedulerStep)
    /\ SF_vars(StartTask("daily")) /\ SF_vars(StartTask("weekly"))

FairSpec == Spec /\ Fairness

-----------------------------------------------------------------------------
\* The types of the variables: rows of P3-D01 and P3-D02, counters, and what
\* the threads have in hand.
TypeOK ==
    /\ d01 \in [Aims -> [status : Statuses, progress : 0..MaxObs]]
    /\ past \subseteq Aims /\ d02 \in [Aims -> Weights]
    /\ streak \in [Aims -> [zero : 0..ZeroStreak, above : 0..AboveStreak]]
    /\ obs \in 0..MaxObs
    /\ seen \in [Threads -> [Aims -> [status : Statuses, progress : 0..MaxObs]]]
    /\ at \in [Threads -> Nat] /\ act \in Aims \cup {NoAim} /\ task \in {"daily", "weekly", "monthly"}
    /\ member \in Nat \ {0} /\ active \in Nat
    /\ granted \in [Aims -> SUBSET {"user", "check"}]
    /\ faults \in 0..MaxFaults

\* An AIM is active only if the user has asked for it when it was through with
\* its warm-up or seeded from history, or the diversity check or the
\* sensitivity scan made it so: no stale write, retraining, recovery,
\* compaction or restart activates any other.
Granted(a) ==
    \/ "user" \in granted[a] /\ (a \in Tier1 \/ obs >= Required[a])
    \/ "check" \in granted[a]
ActiveIsGranted == \A a \in ActiveAims : Granted(a)

\* An active AIM whose weight has been zero for ZeroStreak trades does not stay
\* so: the daily life cycle suppresses it, unless its weight or its count
\* changes before.
StreakIsSuppressed ==
    \A a \in Aims :
        d01[a].status = "ACTIVE" /\ Weightless(a) /\ streak[a].zero >= ZeroStreak
        ~> ~(d01[a].status = "ACTIVE" /\ Weightless(a) /\ streak[a].zero >= ZeroStreak)

\* A seed type with no active AIM has one again, whatever the statuses of its
\* AIMs are: the weekly diversity check sees to it.
DiversityRestored ==
    \A i \in DOMAIN SeedTypes :
        Members(SeedTypes[i]) \cap ActiveAims = {} ~> Members(SeedTypes[i]) \cap ActiveAims # {}
=============================================================================
