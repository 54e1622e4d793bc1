--------------------------- MODULE OfflineLearning ---------------------------
(***************************************************************************)
(* The learning loop of Captain Offline.  The listener thread reads trade  *)
(* outcomes (real) and signal outcomes (theoretical) in turn, a batch at a *)
(* time, takes each through the blocks that learn from it, and             *)
(* acknowledges it; what was delivered and not acknowledged is never read  *)
(* again.  The decay detectors live in memory and in P3-D04, of which a    *)
(* restart restores the latest row; decay events, calibrations, the daily  *)
(* drift detection and the bootstrap of an asset append rows without       *)
(* detector columns to the same table.  Level 3 halts an asset and         *)
(* enqueues two jobs, which the listener dispatches in part at once and    *)
(* the scheduler thread sweeps daily.                                      *)
(*                                                                         *)
(* An outcome is named by its stream and its place in it.  What is         *)
(* abstracted: the books (DMA, Kelly, CB, TSM) to which outcomes they have *)
(* learned; the gate to its verdict; the detectors to the outcomes they    *)
(* have seen, the changepoint probability to where it lies among the two   *)
(* thresholds (DecayDetection says which of these BOCPD can report), and   *)
(* CUSUM to breach or not.  NKD outcomes, which are only acknowledged, and *)
(* the commands other than ASSET_ADDED are left out.                       *)
(***************************************************************************)
EXTENDS Integers, Sequences, FiniteSets

CONSTANTS
    Assets,
    NoOutcome,
    NoAsset,
    Queue,          \* the assets of the outcomes of each stream, in order
    BatchCount,     \* count of read_stream
    Cps,            \* changepoint probabilities: subset of low, mid, high
    SustainedWindow,\* LEVEL3_SUSTAINED_WINDOW
    MaxJobs,        \* bound: jobs enqueued
    MaxCalibrations,\* bound: CUSUM calibrations and bootstraps
    MaxRuns,        \* bound: executions of a job that are counted
    MaxFaults       \* bound: faults of all kinds together

Streams == {"trade", "signal"}
Threads == {"listener", "scheduler"}
JobTypes == {"P1P2_RERUN", "AIM14_EXPANSION"}
Jobs == 1..MaxJobs
\* a block raises; the listener's own calls raise (checkpoint, XACK, XREADGROUP);
\* the daily tasks or a dispatch raise; the process dies; it dies and the restart
\* does not get to the end of D04
Kinds == {"block", "listener", "scheduler", "crash", "restore"}
Outcomes == UNION {{<<k, i>> : i \in DOMAIN Queue[k]} : k \in Streams}
AssetOf(o) == Queue[o[1]][o[2]]
Other(k) == IF k = "trade" THEN "signal" ELSE "trade"

ASSUME QueueAssumption ==
    /\ Queue \in [Streams -> Seq(Assets)]
    /\ NoOutcome \notin Outcomes /\ NoAsset \notin Assets /\ IsFiniteSet(Assets)
    /\ Cps \subseteq {"low", "mid", "high"}
ASSUME BoundsAssumption ==
    /\ BatchCount \in Nat \ {0} /\ SustainedWindow \in Nat \ {0}
    /\ MaxJobs \in Nat /\ MaxCalibrations \in Nat /\ MaxFaults \in Nat
    /\ MaxRuns \in Nat \ {0}

VARIABLES
    published,  \* entries of each stream so far
    delivered,  \* entries the consumer group has delivered
    acked,      \* outcomes acknowledged
    turn,       \* the stream the listener reads next
    batch,      \* outcomes of the current read, the first one in hand
    step,       \* the block the listener is in
    passed,     \* blocks each outcome has been through
    learned,    \* times each outcome has gone into the detectors
    det,        \* _detectors: seen outcomes, streak of high changepoints
    row,        \* what the latest D04 row of each asset restores
    reading,    \* the detectors' verdict on the outcome in hand
    level2,     \* assets in _level2_active
    decayed,    \* assets a Level 3 has halted
    jobs,       \* jobs enqueued: type and asset
    ran,        \* times each job was executed, up to MaxRuns
    todo,       \* jobs the dispatch of each thread has still to execute
    daily,      \* the daily tasks of today are over
    drift,      \* assets whose drift detection is still to come today
    calibrations,
    faults,     \* faults of each kind
    left        \* faults that may still happen

streamVars == <<published, delivered, acked, turn>>
handVars   == <<batch, step, passed, learned>>
decayVars  == <<det, row, reading, level2, decayed>>
jobVars    == <<jobs, ran, todo>>
schedVars  == <<daily, drift, calibrations>>
faultVars  == <<faults, left>>
vars == <<streamVars, handVars, decayVars, jobVars, schedVars, faultVars>>

NoDetector == [seen |-> {}, streak |-> 0]
NoReading  == [cp |-> "low", breach |-> FALSE]

\* the blocks of _handle_trade_outcome and _handle_signal_outcome, in order
Blocks(k) == IF k = "trade"
             THEN <<"dma", "detect", "persist", "level", "kelly", "cb", "tsm">>
             ELSE <<"dma", "detect", "persist", "level", "kelly">>
Steps == {Blocks("trade")[i] : i \in 1..7}

Cur == IF batch = <<>> THEN NoOutcome ELSE Head(batch)

\* the block after s, or the acknowledgement
After(k, s) ==
    LET i == CHOOSE i \in DOMAIN Blocks(k) : Blocks(k)[i] = s
    IN  IF i = Len(Blocks(k)) THEN "ack" ELSE Blocks(k)[i + 1]

Fault(k) ==
    /\ left > 0 /\ left' = left - 1
    /\ faults' = [faults EXCEPT ![k] = @ + 1]

Init ==
    /\ published = [k \in Streams |-> 0] /\ delivered = [k \in Streams |-> 0]
    /\ acked = {} /\ turn = "trade"
    /\ batch = <<>> /\ step = "read"
    /\ passed = [o \in Outcomes |-> {}] /\ learned = [o \in Outcomes |-> 0]
    /\ det = [a \in Assets |-> NoDetector] /\ row = [a \in Assets |-> NoDetector]
    /\ reading = NoReading /\ level2 = {} /\ decayed = {}
    /\ jobs = <<>> /\ ran = [j \in Jobs |-> 0]
    /\ todo = [t \in Threads |-> {}]
    /\ daily = FALSE /\ drift = Assets /\ calibrations = 0
    /\ faults = [k \in Kinds |-> 0] /\ left = MaxFaults

-----------------------------------------------------------------------------
(* Captain Online publishes, the listener reads.                           *)

Publish(k) ==
    /\ published[k] < Len(Queue[k])
    /\ published' = [published EXCEPT ![k] = @ + 1]
    /\ UNCHANGED <<delivered, acked, turn, handVars, decayVars, jobVars,
                   schedVars, faultVars>>

\* read_stream of the stream whose turn it is: up to BatchCount new entries
Read ==
    /\ step = "read"
    /\ LET n == delivered[turn]
           m == IF published[turn] - n > BatchCount THEN n + BatchCount
                ELSE published[turn]
       IN  /\ batch' = [i \in 1..(m - n) |-> <<turn, n + i>>]
           /\ delivered' = [delivered EXCEPT ![turn] = m]
           /\ step' = IF m = n THEN "read" ELSE "dma"
           \* the read of a stream that is empty only passes the turn on
           /\ m > n \/ published[Other(turn)] > delivered[Other(turn)]
    /\ turn' = Other(turn)
    /\ UNCHANGED <<published, acked, passed, learned, decayVars, jobVars,
                   schedVars, faultVars>>

\* the block in hand is through
Passed ==
    /\ passed' = [passed EXCEPT ![Cur] = @ \union {step}]
    /\ step' = After(Cur[1], step)

\* DMA, Kelly, CB parameters, TSM simulation: a proposal that is trivial or
\* that the gate adopts is committed, one it rejects is not; either way the
\* outcome is through
Learn ==
    /\ step \in {"dma", "kelly", "cb", "tsm"}
    /\ Passed
    /\ UNCHANGED <<streamVars, batch, learned, decayVars, jobVars, schedVars,
                   faultVars>>

\* run_bocpd_update and run_cusum_update change the objects in memory
Detect ==
    /\ step = "detect"
    /\ Passed
    /\ learned' = [learned EXCEPT ![Cur] = @ + 1]
    /\ \E cp \in Cps, breach \in BOOLEAN :
        /\ reading' = [cp |-> cp, breach |-> breach]
        /\ det' = [det EXCEPT ![AssetOf(Cur)] =
                [seen   |-> @.seen \union {Cur},
                 streak |-> IF cp # "high" THEN 0
                            ELSE IF @.streak < SustainedWindow THEN @.streak + 1
                            ELSE @.streak]]
    /\ UNCHANGED <<streamVars, batch, row, level2, decayed, jobVars, schedVars,
                   faultVars>>

\* mutant: the row holds this outcome only
PersistFreshRow ==
    /\ step = "persist"
    /\ Passed
    /\ row' = [row EXCEPT ![AssetOf(Cur)] = [seen |-> {Cur}, streak |-> 0]]
    /\ UNCHANGED <<streamVars, batch, learned, det, reading, level2, decayed,
                   jobVars, schedVars, faultVars>>

\* persist_combined_detector_state: one row with both detectors
Persist ==
    /\ step = "persist"
    /\ Passed
    /\ row' = [row EXCEPT ![AssetOf(Cur)] = det[AssetOf(Cur)]]
    /\ UNCHANGED <<streamVars, batch, learned, det, reading, level2, decayed,
                   jobVars, schedVars, faultVars>>

\* a row of D04 with no detector columns: _log_decay_event
EventRow(a) == row' = [row EXCEPT ![a] = NoDetector]

Enqueued(a) == <<[type |-> "P1P2_RERUN", asset |-> a],
                 [type |-> "AIM14_EXPANSION", asset |-> a]>>
Sustained(a) == det[a].streak = SustainedWindow

\* check_level_escalation, trigger_level3
Level3 ==
    /\ step = "level" /\ Sustained(AssetOf(Cur))
    /\ Len(jobs) + 2 <= MaxJobs
    /\ decayed' = decayed \union {AssetOf(Cur)}
    /\ level2' = level2 \ {AssetOf(Cur)}
    /\ EventRow(AssetOf(Cur))
    /\ jobs' = jobs \o Enqueued(AssetOf(Cur))
    /\ step' = "dispatch" /\ reading' = NoReading
    /\ UNCHANGED <<streamVars, batch, passed, learned, det, ran, todo,
                   schedVars, faultVars>>

\* the writes of trigger_level3 up to the one that raises, with effect or not:
\* status, event, the two jobs; the rest and the later blocks are skipped
Level3Fails ==
    /\ step = "level" /\ Sustained(AssetOf(Cur))
    /\ Fault("block")
    /\ \E n \in 0..4 :
        /\ decayed' = IF n > 0 THEN decayed \union {AssetOf(Cur)} ELSE decayed
        /\ IF n > 1 THEN EventRow(AssetOf(Cur)) ELSE UNCHANGED row
        /\ n > 2 => Len(jobs) + (n - 2) <= MaxJobs
        /\ jobs' = IF n > 2 THEN jobs \o SubSeq(Enqueued(AssetOf(Cur)), 1, n - 2)
                   ELSE jobs
    /\ step' = "ack" /\ reading' = NoReading
    /\ UNCHANGED <<streamVars, batch, passed, learned, det, level2, ran, todo,
                   schedVars>>

\* _level2_active: set where Level 2 fires or has fired, reset below the threshold
Level2Active(a) == IF reading.cp = "low" THEN level2 \ {a} ELSE level2 \union {a}

\* Level 2, by the changepoint probability (a rise refires it) and by CUSUM
Level2 ==
    /\ step = "level" /\ ~Sustained(AssetOf(Cur))
    /\ Passed
    /\ LET a == AssetOf(Cur) IN
        /\ level2' = Level2Active(a)
        /\ \E rise \in BOOLEAN :
            IF \/ reading.breach
               \/ reading.cp # "low" /\ (a \notin level2 \/ rise)
            THEN EventRow(a) ELSE UNCHANGED row
    /\ reading' = NoReading
    /\ UNCHANGED <<streamVars, batch, learned, det, decayed, jobVars, schedVars,
                   faultVars>>

\* trigger_level2 raises, of the changepoint or of the breach: _level2_active is
\* set before it is called, and an event may have been written
Level2Fails ==
    /\ step = "level" /\ ~Sustained(AssetOf(Cur)) /\ reading # NoReading
    /\ Fault("block")
    /\ level2' = Level2Active(AssetOf(Cur))
    /\ EventRow(AssetOf(Cur)) \/ UNCHANGED row
    /\ step' = "ack" /\ reading' = NoReading
    /\ UNCHANGED <<streamVars, batch, passed, learned, det, decayed, jobVars,
                   schedVars>>

\* mutant: the exception leaves the handler and ends the read
BlockRaisesThrough ==
    /\ step \in Steps
    /\ Fault("block")
    /\ batch' = <<>> /\ step' = "read" /\ reading' = NoReading
    /\ UNCHANGED <<streamVars, passed, learned, det, row, level2, decayed, jobVars,
                   schedVars>>

\* the handler swallows what a block raises: the later blocks are skipped and
\* the outcome is acknowledged.  The INSERT of persist may have taken effect; new
\* detectors enter _detectors only after it.
BlockRaises ==
    /\ step \in Steps \ {"level"}
    /\ Fault("block")
    /\ \/ UNCHANGED row
       \/ step = "persist" /\ row' = [row EXCEPT ![AssetOf(Cur)] = det[AssetOf(Cur)]]
    /\ det' = IF step = "persist" /\ det[AssetOf(Cur)].seen = {Cur}
              THEN [det EXCEPT ![AssetOf(Cur)] = NoDetector] ELSE det
    /\ step' = "ack" /\ reading' = NoReading
    /\ UNCHANGED <<streamVars, batch, passed, learned, level2, decayed, jobVars,
                   schedVars>>

Ack ==
    /\ step = "ack"
    /\ acked' = acked \union {Cur}
    /\ batch' = Tail(batch)
    /\ step' = IF Len(batch) = 1 THEN "read" ELSE "dma"
    /\ UNCHANGED <<published, delivered, turn, passed, learned, decayVars,
                   jobVars, schedVars, faultVars>>

\* a checkpoint, XACK or the answer of XREADGROUP: the listener reconnects and
\* reads new entries only
ListenerRaises ==
    /\ step \in {"dma", "ack"}
    /\ Fault("listener")
    /\ batch' = <<>> /\ step' = "read" /\ turn' = "trade"
    /\ UNCHANGED <<published, delivered, acked, passed, learned, decayVars,
                   jobVars, schedVars>>

-----------------------------------------------------------------------------
(* The jobs.  The table is a journal and a PENDING row is never taken      *)
(* away, so a dispatch finds every job there ever was.                     *)

\* mutant: the sweep leaves the expansions to the immediate dispatch
AllPendingReruns == {j \in DOMAIN jobs : jobs[j].type = "P1P2_RERUN"}
AllPending == DOMAIN jobs
ExpansionsOf(a) ==
    {j \in DOMAIN jobs : jobs[j] = [type |-> "AIM14_EXPANSION", asset |-> a]}

\* the read of _dispatch_pending_jobs by the listener, right after Level 3
DispatchAtOnce ==
    /\ step = "dispatch"
    /\ todo' = [todo EXCEPT !["listener"] = ExpansionsOf(AssetOf(Cur))]
    /\ step' = "expand"
    /\ UNCHANGED <<streamVars, batch, passed, learned, decayVars, jobs, ran,
                   schedVars, faultVars>>

\* the oldest job: the RUNNING row, the execution and the row with its result; a
\* job that fails is one that was executed
RunJob(t) ==
    /\ \E j \in todo[t] :
        /\ \A k \in todo[t] : j <= k
        /\ ran' = [ran EXCEPT ![j] = IF @ < MaxRuns THEN @ + 1 ELSE @]
        /\ todo' = [todo EXCEPT ![t] = @ \ {j}]
    /\ UNCHANGED <<streamVars, handVars, decayVars, jobs, schedVars, faultVars>>

\* a QuestDB call of the dispatch raises: the rest waits for the next one
DispatchRaises(t) ==
    /\ todo[t] # {}
    /\ Fault("scheduler")
    /\ todo' = [todo EXCEPT ![t] = {}]
    /\ UNCHANGED <<streamVars, handVars, decayVars, jobs, ran, schedVars>>

Expanded ==
    /\ step = "expand" /\ todo["listener"] = {}
    /\ passed' = [passed EXCEPT ![Cur] = @ \union {"level"}]
    /\ step' = After(Cur[1], "level")
    /\ UNCHANGED <<streamVars, batch, learned, decayVars, jobVars, schedVars,
                   faultVars>>

-----------------------------------------------------------------------------
(* The scheduler.                                                          *)

\* run_drift_detection of an asset, which ends with a row of its own in D04
DriftRow(a) ==
    /\ ~daily /\ a \in drift
    /\ drift' = drift \ {a}
    /\ EventRow(a)
    /\ UNCHANGED <<streamVars, handVars, det, reading, level2, decayed, jobVars,
                   daily, calibrations, faultVars>>

\* _save_drift_states swallows the INSERT that raises
DriftSaveFails(a) ==
    /\ ~daily /\ a \in drift
    /\ drift' = drift \ {a}
    /\ Fault("scheduler")
    /\ UNCHANGED <<streamVars, handVars, decayVars, jobVars, daily, calibrations>>

\* _run_daily comes to the dispatch
Daily ==
    /\ ~daily /\ drift = {}
    /\ daily' = TRUE
    /\ todo' = [todo EXCEPT !["scheduler"] = AllPending]
    /\ UNCHANGED <<streamVars, handVars, decayVars, jobs, ran, drift, calibrations,
                   faultVars>>

\* an earlier task of the day raises, and no task is repeated that day
DailyRaises ==
    /\ ~daily
    /\ daily' = TRUE /\ drift' = {}
    /\ Fault("scheduler")
    /\ UNCHANGED <<streamVars, handVars, decayVars, jobVars, calibrations>>

\* 16:00 of the next day
NextDay ==
    /\ daily /\ todo["scheduler"] = {}
    /\ daily' = FALSE /\ drift' = Assets
    /\ UNCHANGED <<streamVars, handVars, decayVars, jobVars, calibrations,
                   faultVars>>

\* calibrate_and_persist of an asset by the quarterly tasks, which the scheduler
\* runs between two daily ones
Calibrate(a) ==
    /\ todo["scheduler"] = {} /\ (daily \/ drift = Assets)
    /\ calibrations < MaxCalibrations /\ calibrations' = calibrations + 1
    /\ EventRow(a)
    /\ UNCHANGED <<streamVars, handVars, det, reading, level2, decayed, jobVars,
                   daily, drift, faultVars>>

\* ASSET_ADDED, a command the listener handles between two reads: the bootstrap
\* writes a row without the BOCPD state, whose columns of CUSUM are a fresh one's
AssetAdded(a) ==
    /\ step = "read"
    /\ calibrations < MaxCalibrations /\ calibrations' = calibrations + 1
    /\ EventRow(a)
    /\ UNCHANGED <<streamVars, handVars, det, reading, level2, decayed, jobVars,
                   daily, drift, faultVars>>

-----------------------------------------------------------------------------
(* Crashes.                                                                *)

\* what dies with the process; last_daily dies too, and the day begins again
Dies ==
    /\ batch' = <<>> /\ step' = "read" /\ turn' = "trade"
    /\ todo' = [t \in Threads |-> {}] /\ daily' = FALSE /\ drift' = Assets
    /\ reading' = NoReading /\ level2' = {}

\* mutant: the restart also reads what was not acknowledged
CrashRereads ==
    /\ Fault("crash") /\ Dies
    /\ det' = row
    /\ delivered' = [k \in Streams |-> Cardinality({o \in acked : o[1] = k})]
    /\ UNCHANGED <<published, acked, passed, learned, row, decayed, jobs, ran,
                   calibrations>>

\* _init_cusum_calibration of the assets without limits
Calibrated(new) ==
    /\ calibrations + Cardinality(new) <= MaxCalibrations
    /\ calibrations' = calibrations + Cardinality(new)
    /\ row' = [a \in Assets |-> IF a \in new THEN NoDetector ELSE row[a]]

\* the process dies; start() restores the detectors and calibrates
Crash ==
    /\ Fault("crash") /\ Dies
    /\ det' = row
    /\ \E new \in SUBSET Assets : Calibrated(new)
    /\ UNCHANGED <<published, delivered, acked, passed, learned, decayed, jobs,
                   ran>>

\* the restore raises at the query or at a row; _restore_detectors swallows it and
\* the process goes on with the detectors it got to
CrashUnrestored ==
    /\ Fault("restore") /\ Dies
    /\ \E got \in SUBSET Assets :
        det' = [a \in Assets |-> IF a \in got THEN row[a] ELSE NoDetector]
    /\ \E new \in SUBSET Assets : Calibrated(new)
    /\ UNCHANGED <<published, delivered, acked, passed, learned, decayed, jobs,
                   ran>>

Listener ==
    \/ Read \/ Learn \/ Detect \/ Persist \/ Level3 \/ Level2 \/ Ack
    \/ DispatchAtOnce \/ Expanded \/ RunJob("listener")
    \/ Level3Fails \/ Level2Fails \/ BlockRaises \/ ListenerRaises
    \/ DispatchRaises("listener")

Scheduler ==
    \/ \E a \in Assets : DriftRow(a) \/ DriftSaveFails(a)
    \/ Daily \/ DailyRaises \/ RunJob("scheduler") \/ DispatchRaises("scheduler")

Next ==
    \/ \E k \in Streams : Publish(k)
    \/ Listener \/ Scheduler \/ NextDay
    \/ \E a \in Assets : Calibrate(a) \/ AssetAdded(a)
    \/ Crash \/ CrashUnrestored

Spec == Init /\ [][Next]_vars

\* both threads go on for as long as the process lives, and days pass
Fairness == WF_vars(Listener) /\ WF_vars(Scheduler) /\ WF_vars(NextDay)
FairSpec == Spec /\ Fairness

-----------------------------------------------------------------------------
(* Properties.                                                             *)

Detectors == [seen : SUBSET Outcomes, streak : 0..SustainedWindow]

\* The types of the variables (OfflineOrchestrator's fields, the streams, the
\* tables D04 and p3_offline_job_queue); an outcome is in hand from its read to
\* its acknowledgement.
TypeOK ==
    /\ published \in [Streams -> Nat] /\ delivered \in [Streams -> Nat]
    /\ \A k \in Streams : delivered[k] <= published[k] /\ published[k] <= Len(Queue[k])
    /\ acked \subseteq Outcomes /\ turn \in Streams
    /\ batch \in Seq(Outcomes) /\ Len(batch) <= BatchCount
    /\ step \in Steps \union {"read", "ack", "dispatch", "expand"}
    /\ step = "read" <=> batch = <<>>
    /\ passed \in [Outcomes -> SUBSET Steps] /\ learned \in [Outcomes -> Nat]
    /\ det \in [Assets -> Detectors] /\ row \in [Assets -> Detectors]
    /\ level2 \subseteq Assets /\ decayed \subseteq Assets
    /\ reading \in [cp : {"low", "mid", "high"}, breach : BOOLEAN]
    /\ jobs \in Seq([type : JobTypes, asset : Assets]) /\ Len(jobs) <= MaxJobs
    /\ ran \in [Jobs -> 0..MaxRuns]
    /\ todo \in [Threads -> SUBSET Jobs]
    /\ daily \in BOOLEAN /\ drift \subseteq Assets /\ calibrations \in 0..MaxCalibrations
    /\ faults \in [Kinds -> Nat] /\ left \in 0..MaxFaults

\* The detectors take an outcome in at most once, whatever fails: an outcome
\* that was delivered is not delivered again (_redis_listener reads ">" only),
\* so a crash between learning and XACK does not teach it twice.
LearnedAtMostOnce == \A o \in Outcomes : learned[o] <= 1

Delivered == {o \in Outcomes : o[2] <= delivered[o[1]]}
InHand    == {batch[i] : i \in DOMAIN batch}
All(o)    == {Blocks(o[1])[i] : i \in DOMAIN Blocks(o[1])}
Missed    == {o \in Delivered \ InHand : passed[o] # All(o)}

\* Of what was delivered, an exception in a block costs the later blocks one
\* outcome (_handle_trade_outcome goes on to the acknowledgement), and one in the
\* listener or a crash at most the rest of a batch; without faults every outcome
\* goes through every block.
LossIsBounded ==
    Cardinality(Missed) <=
        faults["block"]
            + BatchCount * (faults["listener"] + faults["crash"] + faults["restore"])

\* what was persisted is in the detectors, and in the next state is not
Forgotten(o) ==
    /\ "persist" \in passed[o] /\ o \in det[AssetOf(o)].seen
    /\ o \notin det'[AssetOf(o)].seen

\* Whatever raises and in whatever order the two threads write D04, an outcome
\* that reached the row is forgotten by a restart only, and then only if the
\* latest row of its asset has no detector columns or the restore itself raises
\* (persist_combined_detector_state, _restore_detectors).
DetectorsRemember ==
    [][\A o \in Outcomes : Forgotten(o) =>
          \/ faults'["crash"] > faults["crash"] /\ row[AssetOf(o)] = NoDetector
          \/ faults'["restore"] > faults["restore"]]_vars

\* _restore_detectors: "accumulated detector state survives restarts"; restarts
\* whose restore raises are left out.
RestartKeepsDetectors ==
    \A o \in Outcomes :
        "persist" \in passed[o] /\ faults["restore"] = 0 =>
            o \in det[AssetOf(o)].seen

\* Every job a Level 3 has enqueued is executed in the end, at once or by a
\* daily sweep, whichever thread fails or dies in between (_dispatch_pending_jobs).
JobsAreRun == \A j \in Jobs : j <= Len(jobs) ~> ran[j] > 0

=============================================================================
