---------------------------- MODULE DecayDetection ----------------------------
(***************************************************************************)
(* The decay detectors of one asset and the escalation of their verdicts:  *)
(* the Bayesian changepoint detector (b2_bocpd.py), whose update is a loop *)
(* over run lengths, CUSUM (b2_cusum.py), and Level 2 and Level 3          *)
(* (b2_level_escalation.py).                                               *)
(*                                                                         *)
(* What is abstracted: the posterior is known up to a common factor (whole *)
(* weights instead of floats that add up to 1), so the changepoint         *)
(* probability is a fraction; the Student-t likelihood of an observation   *)
(* under each run length is any positive weight, whatever the data.        *)
(* Returns, allowance and limits are whole multiples of a unit as small as *)
(* one likes, where the code has floats: sums do not round, and no         *)
(* property counts the observations it takes to get somewhere.             *)
(***************************************************************************)
EXTENDS Integers

CONSTANTS
    MaxRun,          \* MAX_RUN_LENGTH
    HazardNum,       \* DEFAULT_HAZARD_RATE = HazardNum / HazardDen
    HazardDen,
    Likelihoods,     \* likelihoods of each observation
    Returns,         \* per-contract returns
    Allowance,       \* allowance of CUSUM
    DefaultLimit,    \* default_limit
    Limits,          \* sequential_limits: sprint lengths to limits
    MaxLimit,        \* the highest limit
    SustainedWindow, \* LEVEL3_SUSTAINED_WINDOW
    MaxObs           \* bound: observations

\* thresholds in hundredths
LEVEL2_THRESHOLD    == 80
LEVEL3_THRESHOLD    == 90
LEVEL2_REFIRE_DELTA == 5

\* a hazard rate that is a probability and no alarm by itself
ASSUME HazardAssumption ==
    /\ HazardNum \in Nat \ {0} /\ HazardDen \in Nat \ {0}
    /\ HazardNum <= HazardDen
    /\ HazardNum * 100 <= HazardDen * LEVEL2_THRESHOLD
ASSUME BocpdAssumption ==
    /\ MaxRun \in Nat /\ MaxObs \in Nat /\ SustainedWindow \in Nat \ {0}
    /\ Likelihoods \in [1..MaxObs -> SUBSET (Nat \ {0})]
ASSUME CusumAssumption ==
    /\ Returns \subseteq Int /\ Allowance \in Nat /\ DefaultLimit \in Nat
    /\ MaxLimit \in Nat /\ DefaultLimit <= MaxLimit
    /\ \A s \in DOMAIN Limits : Limits[s] \in 0..MaxLimit

VARIABLES
    n,      \* observations whose update has begun
    pc,     \* where the update is
    x,      \* the observation
    r,      \* the run length the loop is at
    post,   \* run_length_posterior
    joint,  \* new_joint
    mass,   \* its sum
    cp,     \* cp_probability
    streak, \* the last of cp_history that lie above Level 3
    up, down, sprint,   \* c_up, c_down, sprint_length
    breach, \* the answer of CUSUM
    level2, \* _level2_active: the severity last fired, if any
    fired,  \* what has triggered a level so far
    rises,  \* what each stretch of observations since the last breach that
            \* lasts until now adds up to above the allowance
    falls   \* and below it

bocpdVars == <<r, post, joint, mass, cp, streak>>
cusumVars == <<up, down, sprint, breach, rises, falls>>
levelVars == <<level2, fired>>
vars == <<n, pc, x, bocpdVars, cusumVars, levelVars>>

Triggers == {"L3", "L2 BOCPD", "L2 CUSUM"}
Lengths  == 0..MaxRun
Fraction == [num : Nat, den : Nat]
NoneYet  == [num |-> 0, den |-> 1]
Zeros    == [k \in 0..(MaxRun + 1) |-> 0]

\* mutant: the denominator is forgotten
ExceedsBare(p, hundredths) == p.num * 100 > hundredths
Exceeds(p, hundredths) == p.num * 100 > p.den * hundredths

Init ==
    /\ n = 0 /\ pc = "idle" /\ x = 0
    /\ r = 0 /\ joint = Zeros /\ mass = 0
    /\ post = [k \in Lengths |-> IF k = 0 THEN 1 ELSE 0]
    /\ cp = NoneYet /\ streak = 0
    /\ up = 0 /\ down = 0 /\ sprint = 0 /\ breach = FALSE
    /\ rises = {} /\ falls = {}
    /\ level2 = NoneYet /\ fired = {}

Observe ==
    /\ pc = "idle" /\ n < MaxObs
    /\ n' = n + 1 /\ pc' = "loop"
    /\ x' \in Returns
    /\ r' = 0 /\ joint' = Zeros /\ mass' = 0
    /\ UNCHANGED <<post, cp, streak, cusumVars, levelVars>>

\* mutant: the change point has a likelihood of its own
GrowFresh ==
    /\ pc = "loop" /\ r <= MaxRun /\ post[r] > 0
    /\ \E p \in Likelihoods[n] :
        /\ joint' = [joint EXCEPT
                ![r + 1] = @ + post[r] * p * (HazardDen - HazardNum),
                ![0]     = @ + post[r] * HazardNum]
        /\ mass' = mass + post[r] * p * (HazardDen - HazardNum) + post[r] * HazardNum
    /\ r' = r + 1
    /\ UNCHANGED <<n, pc, x, post, cp, streak, cusumVars, levelVars>>

\* one turn of the loop: the run goes on or a change point ends it
Grow ==
    /\ pc = "loop" /\ r <= MaxRun /\ post[r] > 0
    /\ \E p \in Likelihoods[n] :
        /\ joint' = [joint EXCEPT
                ![r + 1] = @ + post[r] * p * (HazardDen - HazardNum),
                ![0]     = @ + post[r] * p * HazardNum]
        /\ mass' = mass + post[r] * p * HazardDen
    /\ r' = r + 1
    /\ UNCHANGED <<n, pc, x, post, cp, streak, cusumVars, levelVars>>

\* a run length without mass
Skip ==
    /\ pc = "loop" /\ r <= MaxRun /\ post[r] = 0
    /\ r' = r + 1
    /\ UNCHANGED <<n, pc, x, post, joint, mass, cp, streak, cusumVars, levelVars>>

\* the longest run is cut off and the rest normalised again
Normalise ==
    /\ pc = "loop" /\ r > MaxRun
    /\ post' = [k \in Lengths |-> joint[k]]
    /\ cp' = [num |-> joint[0], den |-> mass - joint[MaxRun + 1]]
    /\ streak' = IF ~Exceeds(cp', LEVEL3_THRESHOLD) THEN 0
                 ELSE IF streak < SustainedWindow THEN streak + 1 ELSE streak
    /\ pc' = "cusum"
    /\ UNCHANGED <<n, x, r, joint, mass, cusumVars, levelVars>>

Floor0(v) == IF v < 0 THEN 0 ELSE v
Limit(s) == IF s \in DOMAIN Limits THEN Limits[s] ELSE DefaultLimit

\* the stretches so far go on, and one begins
Prolonged(sums, v) == {t + v : t \in sums \union {0}}

\* mutant: only a fall is compared with the limit
CusumDownOnly ==
    /\ pc = "cusum"
    /\ LET u == Floor0(up + x - Allowance)
           d == Floor0(down - x - Allowance)
           s == IF u = 0 /\ d = 0 THEN 0 ELSE sprint + 1
           b == d > Limit(s)
       IN  /\ breach' = b
           /\ up' = IF b THEN 0 ELSE u
           /\ down' = IF b THEN 0 ELSE d
           /\ sprint' = IF b THEN 0 ELSE s
           /\ rises' = IF b THEN {} ELSE Prolonged(rises, x - Allowance)
           /\ falls' = IF b THEN {} ELSE Prolonged(falls, -x - Allowance)
    /\ pc' = "level"
    /\ UNCHANGED <<n, x, bocpdVars, levelVars>>

Cusum ==
    /\ pc = "cusum"
    /\ LET u == Floor0(up + x - Allowance)
           d == Floor0(down - x - Allowance)
           s == IF u = 0 /\ d = 0 THEN 0 ELSE sprint + 1
           b == u > Limit(s) \/ d > Limit(s)
       IN  /\ breach' = b
           /\ up' = IF b THEN 0 ELSE u
           /\ down' = IF b THEN 0 ELSE d
           /\ sprint' = IF b THEN 0 ELSE s
           /\ rises' = IF b THEN {} ELSE Prolonged(rises, x - Allowance)
           /\ falls' = IF b THEN {} ELSE Prolonged(falls, -x - Allowance)
    /\ pc' = "level"
    /\ UNCHANGED <<n, x, bocpdVars, levelVars>>

\* the severity has risen by the delta since it last fired
Risen == (cp.num * level2.den - level2.num * cp.den) * 100
             >= LEVEL2_REFIRE_DELTA * cp.den * level2.den

\* check_level_escalation: Level 3 takes precedence
Level3 ==
    /\ pc = "level" /\ streak = SustainedWindow
    /\ fired' = fired \union {"L3"} /\ level2' = NoneYet
    /\ pc' = "idle"
    /\ UNCHANGED <<n, x, bocpdVars, cusumVars>>

Level2 ==
    /\ pc = "level" /\ streak < SustainedWindow
    /\ LET high == Exceeds(cp, LEVEL2_THRESHOLD)
           fires == high /\ (level2 = NoneYet \/ Risen)
       IN  /\ level2' = IF ~high THEN NoneYet ELSE IF fires THEN cp ELSE level2
           /\ fired' = fired \union (IF fires THEN {"L2 BOCPD"} ELSE {})
                             \union (IF breach THEN {"L2 CUSUM"} ELSE {})
    /\ pc' = "idle"
    /\ UNCHANGED <<n, x, bocpdVars, cusumVars>>

Next ==
    \/ Observe \/ Grow \/ Skip \/ Normalise \/ Cusum \/ Level3 \/ Level2

Spec == Init /\ [][Next]_vars

-----------------------------------------------------------------------------
(* Properties.                                                             *)

\* The types of the variables: the posterior has a weight for every run length
\* and some of it on 0, the probability is a fraction.
TypeOK ==
    /\ n \in 0..MaxObs /\ pc \in {"idle", "loop", "cusum", "level"} /\ x \in Int
    /\ r \in 0..(MaxRun + 1)
    /\ post \in [Lengths -> Nat] /\ post[0] > 0
    /\ joint \in [0..(MaxRun + 1) -> Nat] /\ mass \in Nat
    /\ cp \in Fraction /\ level2 \in Fraction
    /\ streak \in 0..SustainedWindow
    /\ up \in Nat /\ down \in Nat /\ sprint \in Nat
    /\ rises \subseteq Int /\ falls \subseteq Int
    /\ breach \in BOOLEAN
    /\ fired \in SUBSET Triggers

\* What BOCPDDetector.update reports as the probability of a change point is the
\* hazard rate itself, whatever the data, until a run as long as MAX_RUN_LENGTH
\* is cut off: growth and change point share one likelihood, so it cancels.
CpIsHazard ==
    pc \in {"cusum", "level"} /\ n <= MaxRun =>
        cp.num * HazardDen = cp.den * HazardNum

\* So neither Level 3 nor a Level 2 of BOCPD is triggered within the first
\* MAX_RUN_LENGTH observations of a detector (check_level_escalation); the
\* Level 2 of CUSUM is the only one that is.
SilentUntilCutOff == n <= MaxRun => "L3" \notin fired /\ "L2 BOCPD" \notin fired

\* A shift is found, of whatever size and however slow: no stretch of observations
\* without a breach rises above the allowance, or falls below it, by more in total
\* than the highest limit (CUSUMDetector.update, whose two sums start again at
\* zero).
ShiftIsBreached == \A t \in rises \union falls : t <= MaxLimit

=============================================================================
