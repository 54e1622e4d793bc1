------------------------ MODULE DecayDetectionProofs ------------------------
(***************************************************************************)
(* What the detectors report, for every hazard rate below Level 2, every   *)
(* longest run, all likelihoods, returns and limits.                       *)
(***************************************************************************)
EXTENDS DecayDetection, TLAPS

(***************************************************************************)
(* The inductive invariant.  After n observations no run is longer than n, *)
(* and so nothing is cut off while n <= MaxRun; within the loop the share  *)
(* of run length 0 in the mass is the hazard rate, and it and what will be *)
(* cut off are disjoint parts of the mass.                                 *)
(***************************************************************************)
PosteriorInv ==
    \A k \in Lengths : k > (IF pc = "loop" THEN n - 1 ELSE n) => post[k] = 0

LoopInv ==
    pc = "loop" =>
        /\ n > 0
        /\ \A k \in 0..(MaxRun + 1) : k > n => joint[k] = 0
        /\ joint[0] * HazardDen = mass * HazardNum
        /\ joint[0] + joint[MaxRun + 1] <= mass
        /\ r > 0 => joint[0] > 0

CpInv ==
    n <= MaxRun =>
        /\ streak = 0
        /\ pc # "idle" /\ pc # "loop" => cp.num * HazardDen = cp.den * HazardNum

(* The two sums are no less than what any stretch adds up to. *)
CusumInv ==
    /\ \A t \in rises : t <= up
    /\ \A t \in falls : t <= down
    /\ up <= MaxLimit /\ down <= MaxLimit

IInv ==
    /\ TypeOK /\ PosteriorInv /\ LoopInv /\ CpInv /\ SilentUntilCutOff /\ CusumInv

LEMMA HazardTypes ==
    HazardNum \in Nat \ {0} /\ HazardDen \in Nat \ {0} /\ HazardNum <= HazardDen
  BY HazardAssumption

-----------------------------------------------------------------------------

(* One turn of the loop adds weight y times the likelihood to the mass.  *)
LEMMA ShareKept ==
    ASSUME NEW j \in Nat, NEW m \in Nat, NEW y \in Nat,
           j * HazardDen = m * HazardNum
    PROVE  (j + y * HazardNum) * HazardDen = (m + y * HazardDen) * HazardNum
<1>1. (j + y * HazardNum) * HazardDen = j * HazardDen + y * HazardNum * HazardDen
  BY HazardTypes
<1>2. (m + y * HazardDen) * HazardNum = m * HazardNum + y * HazardNum * HazardDen
  BY HazardTypes
<1> QED  BY <1>1, <1>2

(* Parts of an added weight. *)
LEMMA PartsOf ==
    ASSUME NEW y \in Nat
    PROVE  /\ y * HazardNum \in Nat /\ y * HazardDen \in Nat
           /\ y * (HazardDen - HazardNum) \in Nat
           /\ y * HazardNum + y * (HazardDen - HazardNum) = y * HazardDen
           /\ y > 0 => y * HazardNum > 0
  BY HazardTypes

(* A probability equal to the hazard rate lies below both levels. *)
LEMMA HazardIsQuiet ==
    ASSUME NEW a \in Nat, NEW d \in Nat, a * HazardDen = d * HazardNum
    PROVE  ~(a * 100 > d * 80) /\ ~(a * 100 > d * 90)
<1>1. (a * 100) * HazardDen = d * (HazardNum * 100)
  <2>1. (a * 100) * HazardDen = (a * HazardDen) * 100
    BY HazardTypes
  <2>2. d * (HazardNum * 100) = (d * HazardNum) * 100
    BY HazardTypes
  <2> QED  BY <2>1, <2>2
<1>2. d * (HazardNum * 100) <= d * (HazardDen * 80)
  BY HazardAssumption DEF LEVEL2_THRESHOLD
<1>3. (a * 100) * HazardDen <= (d * 80) * HazardDen
  BY <1>1, <1>2, HazardTypes
<1>4. a * 100 <= d * 80
  BY <1>3, HazardTypes
<1> QED  BY <1>4

(* Weight put on two entries of a function. *)
LEMMA Deposits ==
    ASSUME NEW S, NEW f \in [S -> Nat], NEW h, NEW i \in S, NEW k0 \in S, i # k0,
           NEW a \in Nat, NEW b \in Nat,
           h = [f EXCEPT ![i] = @ + a, ![k0] = @ + b]
    PROVE  /\ h \in [S -> Nat] /\ h[i] = f[i] + a /\ h[k0] = f[k0] + b
           /\ \A k \in S : k # i /\ k # k0 => h[k] = f[k]
<1>1. f[i] + a \in Nat /\ f[k0] + b \in Nat
  OBVIOUS
<1>2. h = [k \in S |-> IF k = i THEN f[i] + a ELSE IF k = k0 THEN f[k0] + b ELSE f[k]]
  OBVIOUS
<1> QED  BY <1>1, <1>2

(* Parts of the mass grow no faster than the mass. *)
LEMMA PartsGrow ==
    ASSUME NEW a \in Nat, NEW b \in Nat, NEW m \in Nat, NEW a1 \in Nat, NEW b1 \in Nat,
           NEW c \in Nat, NEW g \in Nat, a + b <= m, a1 = a + c, b1 <= b + g
    PROVE  a1 + b1 <= m + (c + g)
  OBVIOUS

USE BocpdAssumption, CusumAssumption

LEMMA Initial == Init => IInv
<1> SUFFICES ASSUME Init PROVE IInv
  OBVIOUS
<1>1. TypeOK
  <2>1. post \in [Lengths -> Nat] /\ post[0] > 0 /\ joint \in [0..(MaxRun + 1) -> Nat]
    BY DEF Init, Lengths, Zeros
  <2>2. cp \in Fraction /\ level2 \in Fraction
    BY DEF Init, NoneYet, Fraction
  <2>3. /\ n \in 0..MaxObs /\ x \in Int /\ r \in 0..(MaxRun + 1) /\ mass \in Nat
        /\ streak \in 0..SustainedWindow /\ up \in Nat /\ down \in Nat
        /\ sprint \in Nat /\ rises \subseteq Int /\ falls \subseteq Int
    BY DEF Init
  <2>4. breach \in BOOLEAN /\ fired \in SUBSET Triggers
    BY DEF Init
  <2> QED  BY <2>1, <2>2, <2>3, <2>4 DEF Init, TypeOK
<1>2. PosteriorInv /\ LoopInv
  BY DEF Init, PosteriorInv, LoopInv, Lengths
<1>3. CpInv /\ SilentUntilCutOff
  BY DEF Init, CpInv, SilentUntilCutOff
<1>4. CusumInv
  BY DEF Init, CusumInv
<1> QED  BY <1>1, <1>2, <1>3, <1>4 DEF IInv

-----------------------------------------------------------------------------

LEMMA ObserveKeeps == IInv /\ Observe => IInv'
<1> SUFFICES ASSUME IInv, Observe PROVE IInv'
  OBVIOUS
<1>0. TypeOK /\ PosteriorInv /\ CpInv /\ SilentUntilCutOff /\ CusumInv
  BY DEF IInv
<1>1. /\ pc = "idle" /\ pc' = "loop" /\ n' = n + 1 /\ n < MaxObs /\ x' \in Returns
      /\ r' = 0 /\ joint' = Zeros /\ mass' = 0
      /\ UNCHANGED <<post, cp, streak, up, down, sprint, breach, rises, falls, level2, fired>>
  BY DEF Observe, cusumVars, levelVars
<1>2. n \in Nat /\ n \in 0..MaxObs
  BY <1>0 DEF TypeOK
<1>3. joint' \in [0..(MaxRun + 1) -> Nat] /\ \A k \in 0..(MaxRun + 1) : joint'[k] = 0
  BY <1>1 DEF Zeros
<1>4. TypeOK'
  <2>1. n' \in 0..MaxObs /\ x' \in Int /\ r' \in 0..(MaxRun + 1) /\ mass' \in Nat
    BY <1>1, <1>2
  <2> QED  BY <1>0, <1>1, <1>3, <2>1 DEF TypeOK
<1>5. PosteriorInv'
  BY <1>0, <1>1, <1>2 DEF PosteriorInv, Lengths
<1>6. LoopInv'
  <2>1. joint'[0] = 0 /\ joint'[MaxRun + 1] = 0
    BY <1>3
  <2> QED  BY <1>1, <1>2, <1>3, <2>1, HazardTypes DEF LoopInv
<1>7. CpInv' /\ SilentUntilCutOff'
  <2>1. n' <= MaxRun => n <= MaxRun
    BY <1>1, <1>2
  <2> QED  BY <1>0, <1>1, <2>1 DEF CpInv, SilentUntilCutOff
<1>8. CusumInv'
  BY <1>0, <1>1 DEF CusumInv
<1> QED  BY <1>4, <1>5, <1>6, <1>7, <1>8 DEF IInv

LEMMA GrowKeeps == IInv /\ Grow => IInv'
<1> SUFFICES ASSUME IInv, Grow PROVE IInv'
  OBVIOUS
<1>0. TypeOK /\ PosteriorInv /\ LoopInv /\ CpInv /\ SilentUntilCutOff /\ CusumInv
  BY DEF IInv
<1>1. /\ pc = "loop" /\ r <= MaxRun /\ post[r] > 0 /\ r' = r + 1 /\ n > 0
      /\ UNCHANGED <<n, pc, x, post, cp, streak, up, down, sprint, breach, rises, falls,
                     level2, fired>>
  BY <1>0 DEF Grow, LoopInv, cusumVars, levelVars
<1>2. r \in Lengths /\ r \in Nat /\ post[r] \in Nat /\ n \in 1..MaxObs /\ r + 1 \in 0..(MaxRun + 1)
  BY <1>0, <1>1 DEF TypeOK, Lengths
<1>3. PICK p \in Likelihoods[n] :
        /\ joint' = [joint EXCEPT
                ![r + 1] = @ + post[r] * p * (HazardDen - HazardNum),
                ![0]     = @ + post[r] * p * HazardNum]
        /\ mass' = mass + post[r] * p * HazardDen
  BY DEF Grow
<1> DEFINE y == post[r] * p
<1>4. p \in Nat \ {0}
  BY <1>2
<1>5. y \in Nat /\ y > 0
  BY <1>1, <1>2, <1>4
<1> DEFINE c == y * HazardNum
           g == y * (HazardDen - HazardNum)
           t == y * HazardDen
<1>6. c \in Nat /\ g \in Nat /\ t \in Nat /\ c + g = t /\ c > 0
  BY <1>5, PartsOf
<1>7. /\ joint' = [joint EXCEPT ![r + 1] = @ + g, ![0] = @ + c]
      /\ mass' = mass + t
  BY <1>3
<1>8. joint \in [0..(MaxRun + 1) -> Nat] /\ mass \in Nat
  BY <1>0 DEF TypeOK
<1> HIDE DEF y, c, g, t
<1>9. /\ joint' \in [0..(MaxRun + 1) -> Nat] /\ mass' \in Nat
      /\ joint'[0] = joint[0] + c /\ joint'[r + 1] = joint[r + 1] + g
      /\ \A k \in 0..(MaxRun + 1) : k # 0 /\ k # r + 1 => joint'[k] = joint[k]
  <2>1. 0 \in 0..(MaxRun + 1) /\ r + 1 \in 0..(MaxRun + 1) /\ r + 1 # 0
    BY <1>2
  <2>2. mass' \in Nat
    BY <1>6, <1>7, <1>8
  <2> QED  BY ONLY <2>1, <2>2, <1>6, <1>7, <1>8, Deposits
<1>10. TypeOK'
  <2>1. r' \in 0..(MaxRun + 1)
    BY <1>1, <1>2
  <2> QED  BY <1>0, <1>1, <1>9, <2>1 DEF TypeOK
<1>11. PosteriorInv' /\ CpInv' /\ SilentUntilCutOff' /\ CusumInv'
  BY <1>0, <1>1 DEF PosteriorInv, CpInv, SilentUntilCutOff, CusumInv
<1>12. LoopInv'
  <2>1. r <= n - 1
    BY <1>0, <1>1, <1>2 DEF PosteriorInv
  <2>2. \A k \in 0..(MaxRun + 1) : k > n => joint'[k] = 0
    <3> SUFFICES ASSUME NEW k \in 0..(MaxRun + 1), k > n PROVE joint'[k] = 0
      OBVIOUS
    <3>1. k # 0 /\ k # r + 1
      BY <1>2, <2>1
    <3>2. joint[k] = 0
      BY <1>0, <1>1 DEF LoopInv
    <3> QED  BY <1>9, <3>1, <3>2
  <2>3. joint'[0] * HazardDen = mass' * HazardNum
    <3>1. joint[0] \in Nat /\ joint[0] * HazardDen = mass * HazardNum
      BY <1>0, <1>1, <1>8 DEF LoopInv
    <3>2. (joint[0] + y * HazardNum) * HazardDen = (mass + y * HazardDen) * HazardNum
      BY <1>5, <1>8, <3>1, ShareKept
    <3> QED  BY <1>7, <1>9, <3>2 DEF c, t
  <2>4. joint'[0] + joint'[MaxRun + 1] <= mass'
    <3> DEFINE last == MaxRun + 1
    <3>1. last \in 0..(MaxRun + 1) /\ last # 0 /\ 0 \in 0..(MaxRun + 1)
      OBVIOUS
    <3>2. joint[last] \in Nat /\ joint'[last] \in Nat /\ joint[0] \in Nat /\ joint'[0] \in Nat
      BY <1>8, <1>9, <3>1
    <3>3. joint[0] + joint[last] <= mass
      BY <1>0, <1>1 DEF LoopInv
    <3> HIDE DEF last
    <3>4. joint'[last] <= joint[last] + g
      <4>1. CASE last = r + 1
        BY <1>6, <1>9, <3>2, <4>1
      <4>2. CASE last # r + 1
        BY <1>6, <1>9, <3>1, <3>2, <4>2
      <4> QED  BY <4>1, <4>2
    <3>5. joint'[0] + joint'[last] <= mass + (c + g)
      BY <1>6, <1>8, <1>9, <3>2, <3>3, <3>4, PartsGrow
    <3> QED  BY <1>6, <1>7, <3>5 DEF last
  <2>5. joint'[0] > 0
    BY <1>6, <1>8, <1>9
  <2> QED  BY <1>1, <2>2, <2>3, <2>4, <2>5 DEF LoopInv
<1> QED  BY <1>10, <1>11, <1>12 DEF IInv

LEMMA SkipKeeps == IInv /\ Skip => IInv'
<1> SUFFICES ASSUME IInv, Skip PROVE IInv'
  OBVIOUS
<1> USE DEF IInv, Skip, cusumVars, levelVars
<1>1. r > 0
  BY DEF TypeOK
<1>2. TypeOK'
  BY DEF TypeOK
<1>3. PosteriorInv' /\ LoopInv' /\ CpInv' /\ SilentUntilCutOff' /\ CusumInv'
  BY <1>1 DEF TypeOK, PosteriorInv, LoopInv, CpInv, SilentUntilCutOff, CusumInv
<1> QED  BY <1>2, <1>3

LEMMA NormaliseKeeps == IInv /\ Normalise => IInv'
<1> SUFFICES ASSUME IInv, Normalise PROVE IInv'
  OBVIOUS
<1>0. TypeOK /\ PosteriorInv /\ LoopInv /\ CpInv /\ SilentUntilCutOff /\ CusumInv
  BY DEF IInv
<1>1. /\ pc = "loop" /\ pc' = "cusum" /\ r > 0 /\ n > 0
      /\ post' = [k \in Lengths |-> joint[k]]
      /\ cp' = [num |-> joint[0], den |-> mass - joint[MaxRun + 1]]
      /\ UNCHANGED <<n, x, r, joint, mass, up, down, sprint, breach, rises, falls,
                     level2, fired>>
  BY <1>0 DEF Normalise, TypeOK, LoopInv, cusumVars, levelVars
<1>2. /\ joint[0] \in Nat /\ joint[MaxRun + 1] \in Nat /\ mass \in Nat /\ joint[0] > 0
      /\ joint[0] + joint[MaxRun + 1] <= mass /\ n \in Nat
      /\ joint[0] * HazardDen = mass * HazardNum
  BY <1>0, <1>1 DEF TypeOK, LoopInv
<1>3. n <= MaxRun => cp'.num * HazardDen = cp'.den * HazardNum
  <2> SUFFICES ASSUME n <= MaxRun PROVE cp'.num * HazardDen = cp'.den * HazardNum
    OBVIOUS
  <2>1. joint[MaxRun + 1] = 0
    BY <1>0, <1>1, <1>2 DEF LoopInv
  <2>2. cp'.num = joint[0] /\ cp'.den = mass
    BY <1>1, <1>2, <2>1
  <2> QED  BY <1>2, <2>2
<1>4. cp' \in Fraction
  BY <1>1, <1>2 DEF Fraction
<1>5. streak' \in 0..SustainedWindow /\ (n <= MaxRun => streak' = 0)
  <2>1. n <= MaxRun => ~Exceeds(cp', LEVEL3_THRESHOLD)
    <3> SUFFICES ASSUME n <= MaxRun PROVE ~Exceeds(cp', LEVEL3_THRESHOLD)
      OBVIOUS
    <3>1. cp'.num \in Nat /\ cp'.den \in Nat
      BY <1>4 DEF Fraction
    <3>2. ~(cp'.num * 100 > cp'.den * 90)
      BY <1>3, <3>1, HazardIsQuiet
    <3> QED  BY <3>2 DEF Exceeds, LEVEL3_THRESHOLD
  <2>2. streak \in 0..SustainedWindow
    BY <1>0 DEF TypeOK
  <2> QED  BY <2>1, <2>2 DEF Normalise
<1>6. post' \in [Lengths -> Nat] /\ post'[0] > 0
  BY <1>0, <1>1, <1>2 DEF TypeOK, Lengths
<1>7. TypeOK'
  BY <1>0, <1>1, <1>4, <1>5, <1>6 DEF TypeOK
<1>8. PosteriorInv' /\ LoopInv'
  <2>1. \A k \in Lengths : post'[k] = joint[k]
    BY <1>1
  <2>2. \A k \in 0..(MaxRun + 1) : k > n => joint[k] = 0
    BY <1>0, <1>1 DEF LoopInv
  <2>3. \A k \in Lengths : k > n => post'[k] = 0
    BY <2>1, <2>2 DEF Lengths
  <2> QED  BY <1>1, <2>3 DEF PosteriorInv, LoopInv
<1>9. CpInv' /\ SilentUntilCutOff' /\ CusumInv'
  BY <1>0, <1>1, <1>3, <1>5 DEF CpInv, SilentUntilCutOff, CusumInv
<1> QED  BY <1>7, <1>8, <1>9 DEF IInv

(* A bound of the stretches moves with them. *)
LEMMA ProlongedBounded ==
    ASSUME NEW S, S \subseteq Int, NEW m \in Nat, \A t \in S : t <= m, NEW v \in Int
    PROVE  Prolonged(S, v) \subseteq Int /\ \A t \in Prolonged(S, v) : t <= m + v
  BY DEF Prolonged

LEMMA CusumKeeps == IInv /\ Cusum => IInv'
<1> SUFFICES ASSUME IInv, Cusum PROVE IInv'
  OBVIOUS
<1>0. TypeOK /\ PosteriorInv /\ LoopInv /\ CpInv /\ SilentUntilCutOff /\ CusumInv
  BY DEF IInv
<1> DEFINE u == Floor0(up + x - Allowance)
           d == Floor0(down - x - Allowance)
           s == IF u = 0 /\ d = 0 THEN 0 ELSE sprint + 1
           b == u > Limit(s) \/ d > Limit(s)
<1>1. /\ pc = "cusum" /\ pc' = "level"
      /\ breach' = b
      /\ up' = (IF b THEN 0 ELSE u) /\ down' = (IF b THEN 0 ELSE d)
      /\ sprint' = (IF b THEN 0 ELSE s)
      /\ rises' = (IF b THEN {} ELSE Prolonged(rises, x - Allowance))
      /\ falls' = (IF b THEN {} ELSE Prolonged(falls, -x - Allowance))
      /\ UNCHANGED <<n, x, r, post, joint, mass, cp, streak, level2, fired>>
  BY DEF Cusum, bocpdVars, levelVars
<1>2. /\ up \in Nat /\ down \in Nat /\ sprint \in Nat /\ x \in Int
      /\ rises \subseteq Int /\ falls \subseteq Int
      /\ (\A t \in rises : t <= up) /\ (\A t \in falls : t <= down)
  BY <1>0 DEF TypeOK, CusumInv
<1>3. /\ u \in Nat /\ d \in Nat /\ s \in Nat
      /\ u >= up + (x - Allowance) /\ d >= down + (-x - Allowance)
  BY <1>2 DEF Floor0
<1>4. Limit(s) \in Nat /\ Limit(s) <= MaxLimit
  BY DEF Limit
<1>5. b \in BOOLEAN
  OBVIOUS
<1> HIDE DEF u, d, s
<1>6. /\ up' \in Nat /\ down' \in Nat /\ sprint' \in Nat
      /\ rises' \subseteq Int /\ falls' \subseteq Int /\ CusumInv'
  <2>1. CASE b
    BY <1>1, <2>1 DEF CusumInv
  <2>2. CASE ~b
    <3>1. /\ up' = u /\ down' = d /\ sprint' = s /\ u <= Limit(s) /\ d <= Limit(s)
          /\ rises' = Prolonged(rises, x - Allowance)
          /\ falls' = Prolonged(falls, -x - Allowance)
      BY <1>1, <1>3, <1>4, <2>2
    <3>2. /\ rises' \subseteq Int /\ \A t \in rises' : t <= up + (x - Allowance)
          /\ falls' \subseteq Int /\ \A t \in falls' : t <= down + (-x - Allowance)
      <4>1. x - Allowance \in Int /\ -x - Allowance \in Int
        BY <1>2
      <4> QED  BY <1>2, <3>1, <4>1, ProlongedBounded
    <3> QED  BY <1>2, <1>3, <1>4, <3>1, <3>2 DEF CusumInv
  <2> QED  BY <2>1, <2>2
<1>7. TypeOK'
  BY <1>0, <1>1, <1>5, <1>6 DEF TypeOK
<1>8. PosteriorInv' /\ LoopInv' /\ CpInv' /\ SilentUntilCutOff'
  BY <1>0, <1>1 DEF PosteriorInv, LoopInv, CpInv, SilentUntilCutOff
<1> QED  BY <1>6, <1>7, <1>8 DEF IInv, CusumInv

LEMMA LevelKeeps == IInv /\ (Level3 \/ Level2) => IInv'
<1> SUFFICES ASSUME IInv, Level3 \/ Level2 PROVE IInv'
  OBVIOUS
<1>0. TypeOK /\ PosteriorInv /\ LoopInv /\ CpInv /\ SilentUntilCutOff /\ CusumInv
  BY DEF IInv
<1>1. /\ pc = "level" /\ pc' = "idle"
      /\ UNCHANGED <<n, x, r, post, joint, mass, cp, streak, up, down, sprint,
                     breach, rises, falls>>
  BY DEF Level3, Level2, bocpdVars, cusumVars
<1>2. cp \in Fraction /\ level2 \in Fraction /\ cp.num \in Nat /\ cp.den \in Nat
  BY <1>0 DEF TypeOK, Fraction
<1>3. level2' \in Fraction
  <2>1. NoneYet \in Fraction
    BY DEF NoneYet, Fraction
  <2>2. level2' \in {NoneYet, cp, level2}
    BY DEF Level3, Level2
  <2> QED  BY <1>2, <2>1, <2>2
<1>4. fired' \in SUBSET Triggers
  <2>1. fired \in SUBSET Triggers
    BY <1>0 DEF TypeOK
  <2> QED  BY <2>1 DEF Level3, Level2, Triggers
<1>5. SilentUntilCutOff'
  <2> SUFFICES ASSUME n <= MaxRun PROVE "L3" \notin fired' /\ "L2 BOCPD" \notin fired'
    BY <1>1 DEF SilentUntilCutOff
  <2>1. streak = 0 /\ cp.num * HazardDen = cp.den * HazardNum
    BY <1>0, <1>1 DEF CpInv
  <2>2. ~Exceeds(cp, LEVEL2_THRESHOLD)
    BY <1>2, <2>1, HazardIsQuiet DEF Exceeds, LEVEL2_THRESHOLD
  <2>3. ~Level3
    BY <2>1 DEF Level3
  <2>4. "L3" \notin fired /\ "L2 BOCPD" \notin fired
    BY <1>0 DEF SilentUntilCutOff
  <2>5. fired' = fired \union {} \union (IF breach THEN {"L2 CUSUM"} ELSE {})
    BY <2>2, <2>3 DEF Level2
  <2> QED  BY <2>4, <2>5
<1>6. TypeOK'
  BY <1>0, <1>1, <1>3, <1>4 DEF TypeOK
<1>7. PosteriorInv' /\ LoopInv' /\ CpInv' /\ CusumInv'
  BY <1>0, <1>1 DEF PosteriorInv, LoopInv, CpInv, CusumInv
<1> QED  BY <1>5, <1>6, <1>7 DEF IInv

LEMMA StepKeeps == IInv /\ [Next]_vars => IInv'
<1> SUFFICES ASSUME IInv, [Next]_vars PROVE IInv'
  OBVIOUS
<1>1. CASE UNCHANGED vars
  BY <1>1 DEF vars, bocpdVars, cusumVars, levelVars, IInv, TypeOK, PosteriorInv,
              LoopInv, CpInv, SilentUntilCutOff, CusumInv
<1>2. CASE Next
  BY <1>2, ObserveKeeps, GrowKeeps, SkipKeeps, NormaliseKeeps, CusumKeeps,
     LevelKeeps DEF Next
<1> QED  BY <1>1, <1>2

LEMMA Invariance == Spec => []IInv
  BY Initial, StepKeeps, PTL DEF Spec

-----------------------------------------------------------------------------

\* The variables keep their types: the posterior never loses its weight on run
\* length 0 and the changepoint probability stays a fraction.
THEOREM TypeCorrect == Spec => []TypeOK
<1>1. IInv => TypeOK
  BY DEF IInv
<1> QED  BY <1>1, Invariance, PTL

\* BOCPDDetector.update reports the hazard rate until a run is cut off.
THEOREM ProbabilityIsHazard == Spec => []CpIsHazard
<1>1. IInv => CpIsHazard
  BY DEF IInv, CpInv, CpIsHazard
<1> QED  BY <1>1, Invariance, PTL

\* check_level_escalation fires neither Level 3 nor a Level 2 of BOCPD until then.
THEOREM Silent == Spec => []SilentUntilCutOff
<1>1. IInv => SilentUntilCutOff
  BY DEF IInv
<1> QED  BY <1>1, Invariance, PTL

\* CUSUM answers every rise and every fall that adds up to more than its highest
\* limit.
THEOREM ShiftFound == Spec => []ShiftIsBreached
<1>1. IInv => ShiftIsBreached
  <2> SUFFICES ASSUME IInv, NEW t \in rises \union falls PROVE t <= MaxLimit
    BY DEF ShiftIsBreached
  <2> QED  BY DEF IInv, TypeOK, CusumInv
<1> QED  BY <1>1, Invariance, PTL

=============================================================================
