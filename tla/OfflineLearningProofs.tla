------------------------ MODULE OfflineLearningProofs ------------------------
(***************************************************************************)
(* Theorems about OfflineLearning: no outcome goes into the detectors      *)
(* twice, they forget what was persisted only at a restart that finds a    *)
(* bare row or whose restore raises, and the outcomes that miss a block    *)
(* are no more than the faults account for.                                *)
(* The first two rest on what is fresh: an outcome that has not been       *)
(* delivered, or waits in the batch behind the one in hand, has met no     *)
(* detector; and the outcomes of a batch are different ones, since the     *)
(* group delivers each entry once.  The last is a count: at each step at   *)
(* most one outcome is lost by a block and a batch of them by a crash.     *)
(***************************************************************************)
EXTENDS OfflineLearning, FiniteSetTheorems, SequenceTheorems, TLAPS

BlockSet(k) == {Blocks(k)[i] : i \in DOMAIN Blocks(k)}

\* Neither learned from nor persisted.
Fresh(o) == learned[o] = 0 /\ "persist" \notin passed[o]

StreamInv ==
    /\ published \in [Streams -> Nat] /\ delivered \in [Streams -> Nat]
    /\ \A k \in Streams : delivered[k] <= published[k] /\ published[k] <= Len(Queue[k])
    /\ turn \in Streams

BookInv ==
    /\ passed \in [Outcomes -> SUBSET Steps] /\ learned \in [Outcomes -> Nat]
    /\ det \in [Assets -> Detectors] /\ row \in [Assets -> Detectors]

\* What the listener has in hand: different outcomes, all delivered, the first
\* of them in a block of its stream.
HandInv ==
    /\ batch \in Seq(Outcomes)
    /\ step \in Steps \union {"read", "ack", "dispatch", "expand"}
    /\ step = "read" <=> batch = <<>>
    /\ step \in Steps => step \in BlockSet(Cur[1])
    /\ \A i \in DOMAIN batch : batch[i][2] <= delivered[batch[i][1]]
    /\ \A i, j \in DOMAIN batch : batch[i] = batch[j] => i = j

\* Who is fresh.
FreshInv ==
    /\ \A o \in Outcomes : o[2] > delivered[o[1]] => Fresh(o)
    /\ \A i \in DOMAIN batch : i > 1 => Fresh(batch[i])
    /\ step \in {"dma", "detect"} => Fresh(Cur)
    /\ step = "persist" => "persist" \notin passed[Cur]
    /\ LearnedAtMostOnce

\* What was persisted and is remembered is in the latest row, unless that is bare.
RowInv ==
    /\ step = "persist" => Cur \in det[AssetOf(Cur)].seen
    /\ \A o \in Outcomes : "persist" \in passed[o] /\ o \in det[AssetOf(o)].seen =>
            o \in row[AssetOf(o)].seen \/ row[AssetOf(o)] = NoDetector

TypeInv == StreamInv /\ BookInv /\ HandInv
IInv == TypeInv /\ FreshInv /\ RowInv

-----------------------------------------------------------------------------
(* Outcomes and blocks.                                                    *)

LEMMA OutcomeParts ==
  ASSUME NEW o \in Outcomes
  PROVE  /\ o[1] \in Streams /\ o[2] \in Nat \ {0} /\ o[2] <= Len(Queue[o[1]])
         /\ o = <<o[1], o[2]>> /\ AssetOf(o) \in Assets
  <1>1. PICK k \in Streams : o \in {<<k, i>> : i \in DOMAIN Queue[k]}
    BY DEF Outcomes
  <1>2. PICK i \in DOMAIN Queue[k] : o = <<k, i>>
    BY <1>1
  <1>3. Queue[k] \in Seq(Assets)
    BY QueueAssumption
  <1> QED BY <1>2, <1>3 DEF AssetOf

LEMMA OutcomeMade ==
  ASSUME NEW k \in Streams, NEW i \in 1..Len(Queue[k])
  PROVE  <<k, i>> \in Outcomes
  <1>1. Queue[k] \in Seq(Assets)
    BY QueueAssumption
  <1>2. i \in DOMAIN Queue[k]
    BY <1>1
  <1> QED BY <1>2 DEF Outcomes

LEMMA BlocksShape ==
  ASSUME NEW k \in Streams
  PROVE  /\ Len(Blocks(k)) \in {5, 7} /\ DOMAIN Blocks(k) = 1..Len(Blocks(k))
         /\ Blocks(k)[1] = "dma" /\ Blocks(k)[2] = "detect" /\ Blocks(k)[3] = "persist"
         /\ Blocks(k)[4] = "level" /\ Blocks(k)[5] = "kelly"
         /\ Len(Blocks(k)) = 7 => Blocks(k)[6] = "cb" /\ Blocks(k)[7] = "tsm"
  <1>1. CASE k = "trade"
    BY <1>1 DEF Blocks
  <1>2. CASE k = "signal"
    BY <1>2 DEF Blocks
  <1> QED BY <1>1, <1>2 DEF Streams

LEMMA AfterIs ==
  ASSUME NEW k \in Streams, NEW i \in DOMAIN Blocks(k)
  PROVE  After(k, Blocks(k)[i]) =
            IF i = Len(Blocks(k)) THEN "ack" ELSE Blocks(k)[i + 1]
  <1>1. i \in 1..7 /\ DOMAIN Blocks(k) \subseteq 1..7
    BY BlocksShape
  <1>2. \A j \in DOMAIN Blocks(k) : Blocks(k)[j] = Blocks(k)[i] => j = i
    BY <1>1, BlocksShape
  <1> DEFINE c == CHOOSE j \in DOMAIN Blocks(k) : Blocks(k)[j] = Blocks(k)[i]
  <1>3. c = i
    BY <1>2
  <1> QED BY <1>3 DEF After

\* The listener meets the blocks in order: no block leads back to the first
\* one, to the detectors only the first, to the row only the detectors.
LEMMA AfterStep ==
  ASSUME NEW k \in Streams, NEW s \in BlockSet(k)
  PROVE  /\ After(k, s) \in BlockSet(k) \union {"ack"}
         /\ After(k, s) # "dma"
         /\ After(k, s) = "detect" => s = "dma"
         /\ After(k, s) = "persist" => s = "detect"
  <1>1. PICK i \in DOMAIN Blocks(k) : s = Blocks(k)[i]
    BY DEF BlockSet
  <1>2. i \in 1..7 /\ DOMAIN Blocks(k) = 1..Len(Blocks(k))
    BY BlocksShape
  <1>3. CASE i = Len(Blocks(k))
    BY <1>1, <1>3, AfterIs
  <1>4. CASE i # Len(Blocks(k))
    <2> DEFINE n == Len(Blocks(k))
    <2>1. n \in {5, 7} /\ i \in 1..n
      BY <1>2, BlocksShape
    <2>2. i + 1 \in 1..n
      BY <2>1, <1>4
    <2>3. After(k, s) = Blocks(k)[i + 1]
      BY <1>1, <1>4, AfterIs
    <2>4. After(k, s) \in BlockSet(k)
      BY <1>2, <2>2, <2>3 DEF BlockSet
    <2>5. i # n
      BY <1>4
    <2> HIDE DEF n
    <2>6. i \in 1..6 /\ (i > 4 => n = 7)
      BY <2>1, <2>5
    <2>7. \/ i = 1 /\ s = "dma" /\ After(k, s) = "detect"
          \/ i = 2 /\ s = "detect" /\ After(k, s) = "persist"
          \/ i = 3 /\ After(k, s) = "level"
          \/ i = 4 /\ After(k, s) = "kelly"
          \/ i = 5 /\ After(k, s) = "cb"
          \/ i = 6 /\ After(k, s) = "tsm"
      BY <1>1, <2>3, <2>6, BlocksShape DEF n
    <2> QED BY <2>4, <2>7
  <1> QED BY <1>3, <1>4

LEMMA BlocksAreSteps ==
  ASSUME NEW k \in Streams
  PROVE  /\ BlockSet(k) \subseteq Steps
         /\ {"dma", "detect", "persist", "level", "kelly"} \subseteq BlockSet(k)
  <1>1. \A i \in 1..7 : Blocks("trade")[i] \in Steps
    BY DEF Steps
  <1>2. {"dma", "detect", "persist", "level", "kelly"} \subseteq Steps
    BY <1>1, BlocksShape DEF Streams
  <1>3. BlockSet(k) \subseteq Steps
    <2>1. CASE k = "trade"
      BY <2>1, <1>1, BlocksShape DEF BlockSet
    <2>2. CASE k = "signal"
      <3>1. DOMAIN Blocks(k) = 1..5
        BY <2>2 DEF Blocks
      <3> QED BY <1>2, <3>1, BlocksShape DEF BlockSet
    <2> QED BY <2>1, <2>2 DEF Streams
  <1> QED BY <1>3, BlocksShape DEF BlockSet

LEMMA NotSteps == Steps \cap {"read", "ack", "dispatch", "expand"} = {}
  <1>1. \A i \in 1..7 : Blocks("trade")[i] \notin {"read", "ack", "dispatch", "expand"}
    BY BlocksShape DEF Streams, Blocks
  <1> QED BY <1>1 DEF Steps

LEMMA InHandFacts ==
  ASSUME TypeInv, step # "read"
  PROVE  /\ batch # <<>> /\ 1 \in DOMAIN batch /\ Cur = batch[1]
         /\ Cur \in Outcomes /\ Cur[1] \in Streams /\ AssetOf(Cur) \in Assets
         /\ Cur[2] <= delivered[Cur[1]]
  <1>1. batch # <<>> /\ batch \in Seq(Outcomes)
    BY DEF TypeInv, HandInv
  <1>2. 1 \in DOMAIN batch /\ Cur = batch[1] /\ Cur \in Outcomes
    BY <1>1 DEF Cur
  <1> QED BY <1>1, <1>2, OutcomeParts DEF TypeInv, HandInv

-----------------------------------------------------------------------------
(* What the steps have in common.                                          *)

\* The listener goes on with the outcome in hand.
LEMMA HandMoves ==
  ASSUME TypeInv, step # "read", UNCHANGED <<batch, delivered>>,
         step' \in BlockSet(Cur[1]) \union {"ack", "dispatch", "expand"}
  PROVE  HandInv' /\ Cur' = Cur
  <1>1. Cur' = Cur /\ Cur[1] \in Streams /\ batch # <<>>
    BY InHandFacts DEF Cur
  <1>2. step' \in Steps \union {"ack", "dispatch", "expand"}
    BY <1>1, BlocksAreSteps
  <1>3. step' # "read" /\ (step' \in Steps => step' \in BlockSet(Cur[1]))
    BY <1>2, NotSteps
  <1> QED BY <1>1, <1>2, <1>3 DEF TypeInv, HandInv

LEMMA FreshMoves ==
  ASSUME IInv, step # "read", UNCHANGED <<batch, delivered>>, step' # "dma",
         \A o \in Outcomes : o # Cur =>
            learned'[o] = learned[o] /\ passed'[o] = passed[o],
         learned'[Cur] <= 1,
         step' = "detect" => Fresh(Cur)',
         step' = "persist" => "persist" \notin passed'[Cur]
  PROVE  FreshInv'
  <1>1. Cur' = Cur /\ Cur = batch[1] /\ 1 \in DOMAIN batch /\ Cur[2] <= delivered[Cur[1]]
    BY InHandFacts DEF IInv, Cur
  <1>2. ASSUME NEW o \in Outcomes, o[2] > delivered[o[1]] PROVE learned'[o] = 0 /\ "persist" \notin passed'[o]
    <2>1. o # Cur
      BY <1>1, <1>2, OutcomeParts DEF IInv, TypeInv, StreamInv
    <2> QED BY <2>1, <1>2 DEF IInv, FreshInv, Fresh
  <1>3. ASSUME NEW i \in DOMAIN batch, i > 1
        PROVE  learned'[batch[i]] = 0 /\ "persist" \notin passed'[batch[i]]
    <2>1. batch[i] \in Outcomes /\ batch[i] # batch[1]
      BY <1>1, <1>3 DEF IInv, TypeInv, HandInv
    <2> QED BY <1>1, <1>3, <2>1 DEF IInv, FreshInv, Fresh
  <1>4. LearnedAtMostOnce'
    BY DEF IInv, FreshInv, LearnedAtMostOnce
  <1> QED BY <1>1, <1>2, <1>3, <1>4 DEF FreshInv, Fresh

\* A row without detector columns only concerns its own asset, whose row is bare
\* from then on.
EventOrNone == (\E a \in Assets : EventRow(a)) \/ UNCHANGED row

LEMMA EventKeeps ==
  ASSUME IInv, UNCHANGED det, EventOrNone,
         \A o \in Outcomes : "persist" \in passed'[o] => "persist" \in passed[o]
  PROVE  /\ row' \in [Assets -> Detectors]
         /\ \A o \in Outcomes : "persist" \in passed'[o] /\ o \in det'[AssetOf(o)].seen =>
                o \in row'[AssetOf(o)].seen \/ row'[AssetOf(o)] = NoDetector
  <1>1. NoDetector \in Detectors
    BY BoundsAssumption DEF NoDetector, Detectors
  <1>2. row' \in [Assets -> Detectors]
    BY <1>1 DEF EventOrNone, EventRow, IInv, TypeInv, BookInv
  <1>3. ASSUME NEW o \in Outcomes, "persist" \in passed'[o], o \in det'[AssetOf(o)].seen
        PROVE  o \in row'[AssetOf(o)].seen \/ row'[AssetOf(o)] = NoDetector
    <2>1. AssetOf(o) \in Assets
      BY OutcomeParts
    <2>2. row'[AssetOf(o)] = row[AssetOf(o)] \/ row'[AssetOf(o)] = NoDetector
      BY <2>1 DEF EventOrNone, EventRow, IInv, TypeInv, BookInv
    <2> QED BY <2>2, <1>3 DEF IInv, RowInv
  <1> QED BY <1>2, <1>3

\* A block other than the detectors and the row: one more is through.
LEMMA PassedOn ==
  ASSUME IInv, step \in Steps \ {"detect", "persist"}, Passed,
         EventOrNone,
         UNCHANGED <<published, delivered, turn, batch, learned, det>>
  PROVE  IInv'
  <1>1. step # "read" /\ step \in BlockSet(Cur[1]) /\ Cur \in Outcomes /\ Cur[1] \in Streams
    BY NotSteps, InHandFacts DEF IInv, TypeInv, HandInv
  <1>2. /\ step' \in BlockSet(Cur[1]) \union {"ack"} /\ step' \notin {"dma", "persist"}
        /\ step' = "detect" => step = "dma"
    BY <1>1, AfterStep DEF Passed
  <1>3. HandInv' /\ Cur' = Cur
    BY <1>1, <1>2, HandMoves DEF IInv
  <1>4. /\ passed' \in [Outcomes -> SUBSET Steps]
        /\ passed'[Cur] = passed[Cur] \union {step}
        /\ \A o \in Outcomes : o # Cur => passed'[o] = passed[o]
        /\ \A o \in Outcomes : "persist" \in passed'[o] => "persist" \in passed[o]
    BY <1>1 DEF Passed, IInv, TypeInv, BookInv
  <1>5. FreshInv'
    <2>1. learned'[Cur] <= 1
      BY <1>1 DEF IInv, FreshInv, LearnedAtMostOnce
    <2>2. step' = "detect" => Fresh(Cur)'
      BY <1>1, <1>2, <1>3, <1>4 DEF IInv, FreshInv, Fresh
    <2> QED BY <1>1, <1>2, <1>4, <2>1, <2>2, FreshMoves
  <1>6. RowInv' /\ BookInv'
    BY <1>2, <1>4, EventKeeps DEF RowInv, BookInv, IInv, TypeInv
  <1>7. StreamInv'
    BY DEF IInv, TypeInv, StreamInv
  <1> QED BY <1>3, <1>5, <1>6, <1>7 DEF IInv, TypeInv

\* The listener leaves the block: an acknowledgement or a dispatch comes next.
LEMMA LeavesBlock ==
  ASSUME IInv, step # "read", step' \in {"ack", "dispatch", "expand"},
         EventOrNone,
         UNCHANGED <<published, delivered, turn, batch, learned, passed, det>>
  PROVE  IInv'
  <1>1. HandInv' /\ Cur' = Cur
    BY HandMoves DEF IInv
  <1>2. Cur \in Outcomes
    BY InHandFacts DEF IInv
  <1>3. FreshInv'
    BY <1>2, FreshMoves DEF IInv, FreshInv, LearnedAtMostOnce
  <1>4. RowInv' /\ BookInv'
    BY EventKeeps DEF RowInv, BookInv, IInv, TypeInv
  <1>5. StreamInv'
    BY DEF IInv, TypeInv, StreamInv
  <1> QED BY <1>1, <1>3, <1>4, <1>5 DEF IInv, TypeInv

\* What does not concern the listener's outcomes at all.
LEMMA ElsewhereKeeps ==
  ASSUME IInv, StreamInv',
         EventOrNone,
         UNCHANGED <<delivered, batch, step, learned, passed, det>>
  PROVE  IInv'
  <1>1. HandInv' /\ FreshInv'
    BY DEF IInv, TypeInv, HandInv, FreshInv, Fresh, LearnedAtMostOnce, Cur
  <1>2. RowInv' /\ BookInv'
    BY EventKeeps DEF RowInv, BookInv, IInv, TypeInv, Cur
  <1> QED BY <1>1, <1>2 DEF IInv, TypeInv

-----------------------------------------------------------------------------
(* The steps.                                                              *)

LEMMA StepRead ==
  ASSUME IInv, Read
  PROVE  IInv'
  <1> DEFINE n == delivered[turn]
             m == IF published[turn] - n > BatchCount THEN n + BatchCount
                  ELSE published[turn]
  <1>1. /\ turn \in Streams /\ n \in Nat /\ m \in Nat /\ n <= m
        /\ m <= published[turn] /\ published[turn] <= Len(Queue[turn])
        /\ published[turn] \in Nat
    BY BoundsAssumption DEF IInv, TypeInv, StreamInv
  <1>2. /\ batch' = [i \in 1..(m - n) |-> <<turn, n + i>>]
        /\ delivered' = [delivered EXCEPT ![turn] = m]
        /\ step' = IF m = n THEN "read" ELSE "dma"
        /\ turn' = Other(turn)
        /\ UNCHANGED <<published, passed, learned, det, row>>
    BY DEF Read, decayVars
  <1>3. Len(Queue[turn]) \in Nat
    BY <1>1, QueueAssumption
  <1> HIDE DEF n, m
  <1>11. StreamInv'
    <2>1. delivered' \in [Streams -> Nat]
      BY <1>1, <1>2 DEF IInv, TypeInv, StreamInv
    <2>2. \A k \in Streams : delivered'[k] <= published[k] /\ published[k] <= Len(Queue[k])
      BY <1>1, <1>2 DEF IInv, TypeInv, StreamInv
    <2> QED BY <1>1, <1>2, <2>1, <2>2 DEF IInv, TypeInv, StreamInv, Other, Streams
  <1>4. /\ m - n \in Nat
        /\ \A i \in 1..(m - n) : /\ <<turn, n + i>> \in Outcomes
                                 /\ n + i > delivered[turn] /\ n + i <= m
    <2>1. m - n \in Nat
      BY <1>1
    <2>2. ASSUME NEW i \in 1..(m - n)
          PROVE  <<turn, n + i>> \in Outcomes /\ n + i > delivered[turn] /\ n + i <= m
      <3>1. n + i \in 1..Len(Queue[turn]) /\ n + i <= m
        BY <1>1, <1>3, <2>1
      <3> QED BY <1>1, <3>1, OutcomeMade DEF n
    <2> QED BY <2>1, <2>2
  <1>5. /\ batch' \in Seq(Outcomes) /\ DOMAIN batch' = 1..(m - n)
        /\ batch' = <<>> <=> m = n
        /\ m # n => Cur' = batch'[1] /\ 1 \in 1..(m - n)
    <2>1. batch' \in Seq(Outcomes) /\ DOMAIN batch' = 1..(m - n) /\ Len(batch') = m - n
      BY <1>2, <1>4
    <2> QED BY <2>1, <1>1 DEF Cur
  <1>6. \A i \in 1..(m - n) : batch'[i] = <<turn, n + i>>
    BY <1>2
  <1>7. \A i \in 1..(m - n) : batch'[i] \in Outcomes /\ Fresh(batch'[i])
    BY <1>4, <1>6 DEF IInv, FreshInv
  <1>8. HandInv'
    <2>1. step' \in {"read", "dma"} /\ (step' = "read" <=> m = n)
      BY <1>2
    <2>2. step' \in Steps => step' \in BlockSet(Cur'[1])
      <3>1. CASE m = n
        BY <3>1, <1>2, NotSteps
      <3>2. CASE m # n
        BY <3>2, <1>1, <1>2, <1>5, <1>6, BlocksAreSteps
      <3> QED BY <3>1, <3>2
    <2>3. step' \in Steps \union {"read", "ack", "dispatch", "expand"}
      BY <2>1, BlocksAreSteps DEF Streams
    <2>4. \A i \in DOMAIN batch' : batch'[i][2] <= delivered'[batch'[i][1]]
      BY <1>1, <1>2, <1>4, <1>5, <1>6 DEF IInv, TypeInv, StreamInv
    <2>5. \A i, j \in DOMAIN batch' : batch'[i] = batch'[j] => i = j
      <3> SUFFICES ASSUME NEW i \in 1..(m - n), NEW j \in 1..(m - n), batch'[i] = batch'[j]
                   PROVE  i = j
        BY <1>5
      <3>1. <<turn, n + i>> = <<turn, n + j>>
        BY <1>6
      <3>2. n + i = n + j
        BY <3>1
      <3> QED BY <3>2, <1>1
    <2> QED BY <1>5, <2>1, <2>2, <2>3, <2>4, <2>5 DEF HandInv
  <1>9. FreshInv'
    <2>1. \A o \in Outcomes : o[2] > delivered'[o[1]] => Fresh(o)
      <3> SUFFICES ASSUME NEW o \in Outcomes, o[2] > delivered'[o[1]] PROVE Fresh(o)
        OBVIOUS
      <3>1. o[1] \in Streams /\ o[2] \in Nat
        BY OutcomeParts
      <3>2. delivered[o[1]] <= delivered'[o[1]] /\ delivered[o[1]] \in Nat /\ delivered'[o[1]] \in Nat
        BY <3>1, <1>1, <1>2 DEF IInv, TypeInv, StreamInv, n
      <3>3. o[2] > delivered[o[1]]
        BY <3>1, <3>2
      <3> QED BY <3>3 DEF IInv, FreshInv
    <2>2. \A o \in Outcomes : Fresh(o)' <=> Fresh(o)
      BY <1>2 DEF Fresh
    <2>3. step' \in {"dma", "detect"} => Cur' \in Outcomes /\ Fresh(Cur)'
      BY <1>2, <1>5, <1>7 DEF Fresh
    <2>4. \A i \in DOMAIN batch' : i > 1 => Fresh(batch[i])'
      BY <1>2, <1>5, <1>7 DEF Fresh
    <2>5. step' # "persist" /\ LearnedAtMostOnce'
      BY <1>2 DEF IInv, FreshInv, LearnedAtMostOnce
    <2> QED BY <2>1, <2>2, <2>3, <2>4, <2>5 DEF FreshInv
  <1>10. RowInv' /\ BookInv'
    BY <1>2 DEF IInv, TypeInv, RowInv, BookInv
  <1> QED BY <1>11, <1>8, <1>9, <1>10 DEF IInv, TypeInv

LEMMA StepDetect ==
  ASSUME IInv, Detect
  PROVE  IInv'
  <1>1. step = "detect" /\ Passed /\ UNCHANGED <<published, delivered, turn, batch, row>>
    BY DEF Detect, streamVars
  <1>2. /\ Cur \in Outcomes /\ Cur[1] \in Streams /\ AssetOf(Cur) \in Assets
        /\ "detect" \in BlockSet(Cur[1])
    BY <1>1, InHandFacts, BlocksAreSteps DEF IInv
  <1>3. step' \in BlockSet(Cur[1]) \union {"ack"} /\ step' \notin {"dma", "detect"}
    BY <1>1, <1>2, AfterStep DEF Passed
  <1>4. HandInv' /\ Cur' = Cur
    BY <1>1, <1>3, HandMoves DEF IInv
  <1>5. learned' = [learned EXCEPT ![Cur] = @ + 1]
    BY DEF Detect
  <1>6. learned[Cur] = 0 /\ "persist" \notin passed[Cur]
    BY <1>1 DEF IInv, FreshInv, Fresh
  <1>7. passed' = [passed EXCEPT ![Cur] = @ \union {"detect"}]
    BY <1>1 DEF Passed
  <1>8. PICK s \in 0..SustainedWindow :
            det' = [det EXCEPT ![AssetOf(Cur)] = [seen |-> @.seen \union {Cur}, streak |-> s]]
    <2>1. det[AssetOf(Cur)].streak \in 0..SustainedWindow
      BY <1>2 DEF IInv, TypeInv, BookInv, Detectors
    <2>2. PICK cp \in Cps :
            det' = [det EXCEPT ![AssetOf(Cur)] =
                [seen   |-> @.seen \union {Cur},
                 streak |-> IF cp # "high" THEN 0
                            ELSE IF @.streak < SustainedWindow THEN @.streak + 1
                            ELSE @.streak]]
      BY DEF Detect
    <2> DEFINE s == IF cp # "high" THEN 0
                    ELSE IF det[AssetOf(Cur)].streak < SustainedWindow
                    THEN det[AssetOf(Cur)].streak + 1 ELSE det[AssetOf(Cur)].streak
    <2>3. s \in 0..SustainedWindow
      BY <2>1, BoundsAssumption
    <2>4. det' = [det EXCEPT ![AssetOf(Cur)] = [seen |-> @.seen \union {Cur}, streak |-> s]]
      BY <2>2
    <2> QED BY <2>3, <2>4
  <1>9. /\ passed' \in [Outcomes -> SUBSET Steps] /\ learned' \in [Outcomes -> Nat]
        /\ learned'[Cur] = 1 /\ "persist" \notin passed'[Cur]
        /\ \A o \in Outcomes : o # Cur => learned'[o] = learned[o] /\ passed'[o] = passed[o]
    BY <1>1, <1>2, <1>5, <1>6, <1>7, BlocksAreSteps DEF IInv, TypeInv, BookInv
  <1>10. /\ det' \in [Assets -> Detectors] /\ Cur \in det'[AssetOf(Cur)].seen
         /\ \A a \in Assets : det[a].seen \subseteq det'[a].seen
    BY <1>2, <1>8 DEF IInv, TypeInv, BookInv, Detectors
  <1>11. FreshInv'
    BY <1>1, <1>3, <1>9, FreshMoves
  <1>12. RowInv'
    <2>1. ASSUME NEW o \in Outcomes, "persist" \in passed'[o], o \in det'[AssetOf(o)].seen
          PROVE  o \in row[AssetOf(o)].seen \/ row[AssetOf(o)] = NoDetector
      <3>1. "persist" \in passed[o] /\ AssetOf(o) \in Assets /\ o # Cur
        BY <2>1, <1>9, OutcomeParts
      <3>2. o \in det[AssetOf(o)].seen
        BY <3>1, <2>1, <1>2, <1>8 DEF IInv, TypeInv, BookInv
      <3> QED BY <3>1, <3>2 DEF IInv, RowInv
    <2> QED BY <2>1, <1>1, <1>4, <1>10 DEF RowInv
  <1>13. StreamInv' /\ BookInv'
    BY <1>1, <1>9, <1>10 DEF IInv, TypeInv, StreamInv, BookInv
  <1> QED BY <1>4, <1>11, <1>12, <1>13 DEF IInv, TypeInv

LEMMA StepPersist ==
  ASSUME IInv, Persist
  PROVE  IInv'
  <1>1. /\ step = "persist" /\ Passed
        /\ UNCHANGED <<published, delivered, turn, batch, learned, det>>
        /\ row' = [row EXCEPT ![AssetOf(Cur)] = det[AssetOf(Cur)]]
    BY DEF Persist, streamVars
  <1>2. /\ Cur \in Outcomes /\ Cur[1] \in Streams /\ AssetOf(Cur) \in Assets
        /\ "persist" \in BlockSet(Cur[1])
    BY <1>1, InHandFacts, BlocksAreSteps DEF IInv
  <1>3. step' \in BlockSet(Cur[1]) \union {"ack"} /\ step' \notin {"dma", "detect", "persist"}
    BY <1>1, <1>2, AfterStep DEF Passed
  <1>4. HandInv' /\ Cur' = Cur
    BY <1>1, <1>3, HandMoves DEF IInv
  <1>5. /\ passed' \in [Outcomes -> SUBSET Steps]
        /\ \A o \in Outcomes : o # Cur => passed'[o] = passed[o]
    BY <1>1, <1>2, BlocksAreSteps DEF Passed, IInv, TypeInv, BookInv
  <1>6. FreshInv'
    BY <1>1, <1>2, <1>3, <1>5, FreshMoves DEF IInv, FreshInv, LearnedAtMostOnce
  <1>7. BookInv'
    BY <1>1, <1>2, <1>5 DEF IInv, TypeInv, BookInv
  <1>8. RowInv'
    <2>1. ASSUME NEW o \in Outcomes, "persist" \in passed'[o], o \in det[AssetOf(o)].seen
          PROVE  o \in row'[AssetOf(o)].seen \/ row'[AssetOf(o)] = NoDetector
      <3>1. AssetOf(o) \in Assets
        BY OutcomeParts
      <3>2. CASE AssetOf(o) = AssetOf(Cur)
        BY <3>1, <3>2, <2>1, <1>1 DEF IInv, TypeInv, BookInv
      <3>3. CASE AssetOf(o) # AssetOf(Cur)
        <4>1. o # Cur
          BY <3>3
        <4> QED BY <3>1, <3>3, <4>1, <2>1, <1>1, <1>5 DEF IInv, TypeInv, BookInv, RowInv
      <3> QED BY <3>2, <3>3
    <2> QED BY <2>1, <1>1, <1>3 DEF RowInv
  <1>9. StreamInv'
    BY <1>1 DEF IInv, TypeInv, StreamInv
  <1> QED BY <1>4, <1>6, <1>7, <1>8, <1>9 DEF IInv, TypeInv

LEMMA StepAck ==
  ASSUME IInv, Ack
  PROVE  IInv'
  <1>1. /\ step = "ack" /\ batch' = Tail(batch)
        /\ step' = IF Len(batch) = 1 THEN "read" ELSE "dma"
        /\ UNCHANGED <<published, delivered, turn, passed, learned, det, row>>
    BY DEF Ack, decayVars
  <1>2. batch \in Seq(Outcomes) /\ batch # <<>>
    BY <1>1, InHandFacts DEF IInv, TypeInv, HandInv
  <1>3. /\ batch' \in Seq(Outcomes) /\ Len(batch') = Len(batch) - 1 /\ Len(batch) \in Nat \ {0}
        /\ \A i \in DOMAIN batch' : i + 1 \in DOMAIN batch /\ batch'[i] = batch[i + 1] /\ i \in Nat \ {0}
    BY <1>1, <1>2
  <1>4. batch' = <<>> <=> Len(batch) = 1
    BY <1>3
  <1>5. batch' # <<>> => 1 \in DOMAIN batch' /\ Cur' = batch'[1]
    BY <1>3 DEF Cur
  <1>6. HandInv'
    <2>1. step' \in Steps => step' \in BlockSet(Cur'[1])
      <3>1. CASE batch' = <<>>
        BY <3>1, <1>1, <1>4, NotSteps
      <3>2. CASE batch' # <<>>
        <4>1. Cur' \in Outcomes
          BY <3>2, <1>3, <1>5
        <4>2. Cur'[1] \in Streams
          BY <4>1, OutcomeParts
        <4> QED BY <4>2, <3>2, <1>1, <1>4, BlocksAreSteps
      <3> QED BY <3>1, <3>2
    <2>2. step' \in Steps \union {"read", "ack", "dispatch", "expand"}
      BY <1>1, BlocksAreSteps DEF Streams
    <2>3. \A i \in DOMAIN batch' : batch'[i][2] <= delivered'[batch'[i][1]]
      BY <1>1, <1>3 DEF IInv, TypeInv, HandInv
    <2>4. \A i, j \in DOMAIN batch' : batch'[i] = batch'[j] => i = j
      <3> SUFFICES ASSUME NEW i \in DOMAIN batch', NEW j \in DOMAIN batch', batch'[i] = batch'[j]
                   PROVE  i = j
        OBVIOUS
      <3>1. i + 1 = j + 1
        BY <1>3 DEF IInv, TypeInv, HandInv
      <3> QED BY <3>1, <1>3
    <2> QED BY <1>1, <1>3, <1>4, <2>1, <2>2, <2>3, <2>4 DEF HandInv
  <1>7. FreshInv'
    <2>1. \A i \in DOMAIN batch' : Fresh(batch[i])'
      <3> SUFFICES ASSUME NEW i \in DOMAIN batch'
                   PROVE  learned[batch'[i]] = 0 /\ "persist" \notin passed[batch'[i]]
        BY <1>1 DEF Fresh
      <3>1. i + 1 > 1
        BY <1>3
      <3> QED BY <3>1, <1>3 DEF IInv, FreshInv, Fresh
    <2>2. step' \in {"dma", "detect"} => Fresh(Cur)'
      BY <2>1, <1>1, <1>4, <1>5 DEF Fresh
    <2> QED BY <1>1, <2>1, <2>2 DEF IInv, FreshInv, Fresh, LearnedAtMostOnce
  <1>8. RowInv' /\ BookInv' /\ StreamInv'
    BY <1>1 DEF IInv, TypeInv, RowInv, BookInv, StreamInv
  <1> QED BY <1>6, <1>7, <1>8 DEF IInv, TypeInv

\* A batch that is dropped: by an exception of the listener's own, or a crash.
LEMMA BatchDropped ==
  ASSUME IInv, batch' = <<>>, step' = "read", turn' \in Streams,
         UNCHANGED <<published, delivered, learned, passed>>
  PROVE  HandInv' /\ FreshInv' /\ StreamInv'
  <1>1. HandInv'
    BY NotSteps DEF HandInv
  <1>2. FreshInv' /\ StreamInv'
    BY DEF IInv, TypeInv, FreshInv, StreamInv, Fresh, LearnedAtMostOnce
  <1> QED BY <1>1, <1>2

LEMMA StepFails ==
  ASSUME IInv, BlockRaises \/ ListenerRaises \/ Crash \/ CrashUnrestored
  PROVE  IInv'
  <1>0. NoDetector \in Detectors /\ NoDetector.seen = {}
    BY BoundsAssumption DEF NoDetector, Detectors
  <1>1. CASE ListenerRaises
    <2>1. /\ batch' = <<>> /\ step' = "read" /\ turn' \in Streams
          /\ UNCHANGED <<published, delivered, learned, passed, det, row>>
      BY <1>1 DEF ListenerRaises, decayVars, Streams
    <2>2. RowInv' /\ BookInv'
      BY <2>1 DEF IInv, TypeInv, RowInv, BookInv
    <2> QED BY <2>1, <2>2, BatchDropped DEF IInv, TypeInv
  <1>2. CASE Crash \/ CrashUnrestored
    <2>1. /\ batch' = <<>> /\ step' = "read" /\ turn' \in Streams
          /\ UNCHANGED <<published, delivered, learned, passed>>
      BY <1>2 DEF Crash, CrashUnrestored, Dies, Streams
    <2>2. PICK new \in SUBSET Assets :
            row' = [a \in Assets |-> IF a \in new THEN NoDetector ELSE row[a]]
      BY <1>2 DEF Crash, CrashUnrestored, Calibrated
    <2>3. PICK got \in SUBSET Assets :
            det' = [a \in Assets |-> IF a \in got THEN row[a] ELSE NoDetector]
      <3>1. CASE Crash
        <4>1. det' = [a \in Assets |-> IF a \in Assets THEN row[a] ELSE NoDetector]
          BY <3>1 DEF Crash, IInv, TypeInv, BookInv
        <4> QED BY <4>1
      <3>2. CASE CrashUnrestored
        BY <3>2 DEF CrashUnrestored
      <3> QED BY <1>2, <3>1, <3>2
    <2>4. BookInv'
      BY <1>0, <2>1, <2>2, <2>3 DEF IInv, TypeInv, BookInv
    <2>5. ASSUME NEW o \in Outcomes, o \in det'[AssetOf(o)].seen
          PROVE  o \in row'[AssetOf(o)].seen \/ row'[AssetOf(o)] = NoDetector
      BY <1>0, <2>2, <2>3, <2>5, OutcomeParts
    <2>6. RowInv'
      BY <2>1, <2>5 DEF RowInv
    <2> QED BY <2>1, <2>4, <2>6, BatchDropped DEF IInv, TypeInv
  <1>3. CASE BlockRaises
    <2>1. /\ step \in Steps /\ step' = "ack"
          /\ UNCHANGED <<published, delivered, turn, batch, learned, passed>>
      BY <1>3 DEF BlockRaises, streamVars
    <2>2. step # "read" /\ Cur \in Outcomes /\ AssetOf(Cur) \in Assets
      BY <2>1, NotSteps, InHandFacts DEF IInv
    <2>3. HandInv'
      BY <2>1, <2>2, HandMoves DEF IInv
    <2>4. FreshInv'
      BY <2>1, <2>2, FreshMoves DEF IInv, FreshInv, LearnedAtMostOnce
    <2>5. /\ det \in [Assets -> Detectors] /\ row \in [Assets -> Detectors]
          /\ det' = det \/ det' = [det EXCEPT ![AssetOf(Cur)] = NoDetector]
          /\ row' = row \/ row' = [row EXCEPT ![AssetOf(Cur)] = det[AssetOf(Cur)]]
      BY <1>3 DEF BlockRaises, IInv, TypeInv, BookInv
    <2>6. BookInv'
      BY <1>0, <2>1, <2>2, <2>5 DEF IInv, TypeInv, BookInv
    <2>7. StreamInv'
      BY <2>1 DEF IInv, TypeInv, StreamInv
    <2>8. ASSUME NEW o \in Outcomes, "persist" \in passed[o], o \in det'[AssetOf(o)].seen
          PROVE  o \in row'[AssetOf(o)].seen \/ row'[AssetOf(o)] = NoDetector
      <3>1. AssetOf(o) \in Assets
        BY OutcomeParts
      <3>2. o \in det[AssetOf(o)].seen
        BY <1>0, <2>2, <2>5, <2>8, <3>1
      <3>3. o \in row[AssetOf(o)].seen \/ row[AssetOf(o)] = NoDetector
        BY <2>8, <3>2 DEF IInv, RowInv
      <3> QED BY <2>2, <2>5, <3>1, <3>2, <3>3
    <2>9. RowInv'
      BY <2>1, <2>8 DEF RowInv
    <2> QED BY <2>3, <2>4, <2>6, <2>7, <2>9 DEF IInv, TypeInv
  <1> QED BY <1>1, <1>2, <1>3

\* The blocks that leave the detectors as they are.
LEMMA StepBlocks ==
  ASSUME IInv, Learn \/ Level2 \/ Expanded \/ Level3 \/ Level3Fails \/ Level2Fails \/ DispatchAtOnce
  PROVE  IInv'
  <1>1. CASE Learn
    <2>1. /\ step \in {"dma", "kelly", "cb", "tsm"} /\ Passed
          /\ UNCHANGED <<published, delivered, turn, batch, learned, det, row>>
      BY <1>1 DEF Learn, streamVars, decayVars
    <2>2. step \in Steps
      BY <2>1 DEF IInv, TypeInv, HandInv
    <2> QED BY <2>1, <2>2, PassedOn DEF EventOrNone
  <1>2. CASE Level2
    <2>1. /\ step = "level" /\ Passed
          /\ UNCHANGED <<published, delivered, turn, batch, learned, det>>
          /\ EventRow(AssetOf(Cur)) \/ UNCHANGED row
      BY <1>2 DEF Level2, streamVars
    <2>2. step \in Steps /\ AssetOf(Cur) \in Assets
      BY <2>1, BlocksAreSteps, InHandFacts DEF IInv, Streams
    <2> QED BY <2>1, <2>2, PassedOn DEF EventOrNone
  <1>3. CASE Expanded
    <2>1. /\ step = "expand" /\ step' = After(Cur[1], "level")
          /\ passed' = [passed EXCEPT ![Cur] = @ \union {"level"}]
          /\ UNCHANGED <<published, delivered, turn, batch, learned, det, row>>
      BY <1>3 DEF Expanded, streamVars, decayVars
    <2>2. Cur \in Outcomes /\ Cur[1] \in Streams /\ "level" \in BlockSet(Cur[1])
      BY <2>1, InHandFacts, BlocksAreSteps DEF IInv
    <2>3. /\ step' \in BlockSet(Cur[1]) \union {"ack"}
          /\ step' \notin {"dma", "detect", "persist"}
      BY <2>1, <2>2, AfterStep
    <2>4. HandInv'
      BY <2>1, <2>3, HandMoves DEF IInv
    <2>5. /\ passed' \in [Outcomes -> SUBSET Steps]
          /\ \A o \in Outcomes : o # Cur => passed'[o] = passed[o]
          /\ \A o \in Outcomes : "persist" \in passed'[o] => "persist" \in passed[o]
      BY <2>1, <2>2, BlocksAreSteps DEF IInv, TypeInv, BookInv
    <2>6. FreshInv'
      BY <2>1, <2>2, <2>3, <2>5, FreshMoves DEF IInv, FreshInv, LearnedAtMostOnce
    <2>7. RowInv' /\ BookInv' /\ StreamInv'
      BY <2>1, <2>3, <2>5 DEF IInv, TypeInv, RowInv, BookInv, StreamInv
    <2> QED BY <2>4, <2>6, <2>7 DEF IInv, TypeInv
  <1>4. CASE Level3 \/ Level3Fails \/ Level2Fails
    <2>1. /\ step = "level" /\ step' \in {"dispatch", "ack"}
          /\ UNCHANGED <<published, delivered, turn, batch, learned, passed, det>>
          /\ EventRow(AssetOf(Cur)) \/ UNCHANGED row
      BY <1>4 DEF Level3, Level3Fails, Level2Fails, streamVars
    <2>2. AssetOf(Cur) \in Assets
      BY <2>1, InHandFacts DEF IInv
    <2> QED BY <2>1, <2>2, LeavesBlock DEF EventOrNone
  <1>5. CASE DispatchAtOnce
    <2>1. /\ step = "dispatch" /\ step' = "expand"
          /\ UNCHANGED <<published, delivered, turn, batch, learned, passed, det, row>>
      BY <1>5 DEF DispatchAtOnce, streamVars, decayVars
    <2> QED BY <2>1, LeavesBlock DEF EventOrNone
  <1> QED BY <1>1, <1>2, <1>3, <1>4, <1>5

LEMMA StepElsewhere ==
  ASSUME IInv,
         \/ (\E k \in Streams : Publish(k)) \/ (\E t \in Threads : RunJob(t) \/ DispatchRaises(t))
         \/ Daily \/ DailyRaises \/ NextDay \/ UNCHANGED vars
         \/ (\E a \in Assets : DriftRow(a) \/ DriftSaveFails(a) \/ Calibrate(a) \/ AssetAdded(a))
  PROVE  IInv'
  <1>1. /\ UNCHANGED <<delivered, turn, batch, step, learned, passed, det>>
        /\ EventOrNone
    BY DEF Publish, RunJob, DispatchRaises, Daily, DailyRaises, NextDay, DriftRow, DriftSaveFails,
           Calibrate, AssetAdded, vars, EventOrNone, streamVars, handVars, decayVars
  <1>2. StreamInv'
    <2>1. CASE \E k \in Streams : Publish(k)
      <3>1. PICK k \in Streams : Publish(k)
        BY <2>1
      <3>2. Len(Queue[k]) \in Nat
        BY QueueAssumption
      <3> QED BY <3>1, <3>2 DEF Publish, IInv, TypeInv, StreamInv
    <2>2. CASE UNCHANGED published
      BY <1>1, <2>2 DEF IInv, TypeInv, StreamInv
    <2> QED BY <2>1, <2>2 DEF RunJob, DispatchRaises, Daily, DailyRaises, NextDay,
              DriftRow, DriftSaveFails, Calibrate, AssetAdded, vars, streamVars
  <1> QED BY <1>1, <1>2, ElsewhereKeeps

-----------------------------------------------------------------------------
LEMMA IInit == Init => IInv
  <1> SUFFICES ASSUME Init PROVE IInv
    OBVIOUS
  <1>1. NoDetector \in Detectors
    BY BoundsAssumption DEF NoDetector, Detectors
  <1>2. StreamInv
    BY QueueAssumption DEF Init, StreamInv, Streams
  <1>3. BookInv
    BY <1>1 DEF Init, BookInv
  <1>4. HandInv
    BY NotSteps DEF Init, HandInv
  <1>5. FreshInv /\ RowInv
    BY DEF Init, FreshInv, Fresh, LearnedAtMostOnce, RowInv
  <1> QED BY <1>2, <1>3, <1>4, <1>5 DEF IInv, TypeInv

LEMMA INext == IInv /\ [Next]_vars => IInv'
  <1> SUFFICES ASSUME IInv, [Next]_vars PROVE IInv'
    OBVIOUS
  <1> QED BY StepRead, StepDetect, StepPersist, StepAck, StepFails, StepBlocks, StepElsewhere
          DEF Next, Listener, Scheduler, Threads

\* The detectors take no outcome in twice, for any number of outcomes, sizes of
\* a batch, exceptions and crashes.
THEOREM LearnedOnce == Spec => []LearnedAtMostOnce
  <1>1. IInv => LearnedAtMostOnce
    BY DEF IInv, FreshInv
  <1> QED BY <1>1, IInit, INext, PTL DEF Spec

-----------------------------------------------------------------------------
(* What is lost.  The outcome in hand is through the blocks before the one *)
(* it is in, so it is through all of them when it comes to its end.  An    *)
(* outcome is lost as soon as it waits for its acknowledgement without     *)
(* them, or is no longer in hand: each loss is paid for by a fault.        *)

Lost == Missed \cup {o \in InHand : step = "ack" /\ o = Cur /\ passed[o] # All(o)}

Place == IF step \in {"dispatch", "expand"} THEN "level" ELSE step

ThroughInv ==
    /\ \A o \in Outcomes : passed[o] \subseteq All(o)
    /\ step \notin {"read", "ack"} =>
          \A i, j \in DOMAIN Blocks(Cur[1]) :
             Blocks(Cur[1])[i] = Place /\ j < i => Blocks(Cur[1])[j] \in passed[Cur]

Paid ==
    faults["block"]
        + BatchCount * (faults["listener"] + faults["crash"] + faults["restore"])

LossInv ==
    /\ faults \in [Kinds -> Nat] /\ Len(batch) <= BatchCount
    /\ ThroughInv /\ Cardinality(Lost) <= Paid

LEMMA OutcomesFinite == IsFiniteSet(Outcomes)
  <1> DEFINE Of(k) == {<<k, i>> : i \in DOMAIN Queue[k]}
  <1>1. Outcomes = Of("trade") \cup Of("signal")
    BY DEF Outcomes, Streams
  <1>2. ASSUME NEW k \in Streams PROVE IsFiniteSet(Of(k))
    <2>1. PICK n \in Nat : DOMAIN Queue[k] = 1..n
      BY QueueAssumption
    <2>2. IsFiniteSet({k})
      BY FS_Singleton
    <2>3. IsFiniteSet(1..n)
      <3>1. 1 \in Int /\ n \in Int
        OBVIOUS
      <3> QED BY <3>1, FS_Interval
    <2>4. IsFiniteSet({k} \X (1..n))
      BY <2>2, <2>3, FS_Product
    <2>5. Of(k) \subseteq {k} \X (1..n)
      BY <2>1
    <2> QED BY <2>4, <2>5, FS_Subset
  <1> HIDE DEF Of
  <1> QED BY <1>1, <1>2, FS_Union DEF Streams

LEMMA LostIsFinite ==
  ASSUME TypeInv
  PROVE  /\ Lost \subseteq Outcomes /\ IsFiniteSet(Lost) /\ Cardinality(Lost) \in Nat
         /\ InHand \subseteq Outcomes /\ IsFiniteSet(InHand)
         /\ Cardinality(InHand) \in Nat /\ Cardinality(InHand) <= Len(batch)
  <1>1. batch \in Seq(Outcomes) /\ Len(batch) \in Nat /\ DOMAIN batch = 1..Len(batch)
    BY DEF TypeInv, HandInv
  <1>2. InHand \subseteq Outcomes /\ Lost \subseteq Outcomes
    BY <1>1 DEF InHand, Lost, Missed, Delivered
  <1>3. batch \in Surjection(1..Len(batch), InHand)
    BY <1>1 DEF Surjection, InHand
  <1>4. ExistsSurjection(1..Len(batch), InHand)
    BY <1>3 DEF ExistsSurjection
  <1> QED BY <1>1, <1>2, <1>4, OutcomesFinite, FS_Subset, FS_CardinalityType,
             FS_SurjCardinalityBound

LEMMA LostGrows ==
  ASSUME TypeInv, NEW T, NEW X, T \subseteq Lost \cup X, IsFiniteSet(X)
  PROVE  Cardinality(T) <= Cardinality(Lost) + Cardinality(X)
  <1>1. IsFiniteSet(Lost \cup X) /\ Cardinality(Lost \cap X) \in Nat
        /\ Cardinality(Lost \cup X) = Cardinality(Lost) + Cardinality(X) - Cardinality(Lost \cap X)
    BY LostIsFinite, FS_Union, FS_Intersection, FS_CardinalityType
  <1>2. Cardinality(T) <= Cardinality(Lost \cup X) /\ Cardinality(T) \in Nat
    BY <1>1, FS_Subset, FS_CardinalityType
  <1>3. Cardinality(Lost) \in Nat /\ Cardinality(X) \in Nat
    BY LostIsFinite, FS_CardinalityType
  <1> QED BY <1>1, <1>2, <1>3

LEMMA BlockIndices ==
  ASSUME NEW k \in Streams
  PROVE  /\ DOMAIN Blocks(k) \subseteq 1..7 /\ {1, 4} \subseteq DOMAIN Blocks(k)
         /\ \A i, j \in DOMAIN Blocks(k) : Blocks(k)[i] = Blocks(k)[j] => i = j
         /\ \A i \in DOMAIN Blocks(k), j \in 1..7 : j < i => j \in DOMAIN Blocks(k)
  <1>1. DOMAIN Blocks(k) \in {1..5, 1..7}
    BY BlocksShape
  <1>2. DOMAIN Blocks(k) \subseteq 1..7 /\ {1, 4} \subseteq DOMAIN Blocks(k)
    BY <1>1
  <1>3. \A i, j \in DOMAIN Blocks(k) : Blocks(k)[i] = Blocks(k)[j] => i = j
    BY <1>2, BlocksShape
  <1>4. \A i \in DOMAIN Blocks(k), j \in 1..7 : j < i => j \in DOMAIN Blocks(k)
    BY <1>1
  <1> QED BY <1>2, <1>3, <1>4

\* The block in hand is done: the outcome is through one block more, and
\* through all of them if an acknowledgement comes next.
LEMMA ThroughStep ==
  ASSUME IInv, ThroughInv, step \notin {"read", "ack"}, UNCHANGED batch,
         passed' = [passed EXCEPT ![Cur] = @ \union {Place}], step' = After(Cur[1], Place),
         Place \in BlockSet(Cur[1])
  PROVE  /\ ThroughInv'
         /\ step' = "ack" => passed'[Cur] = All(Cur)
         /\ \A o \in Outcomes : o # Cur => passed'[o] = passed[o]
  <1> DEFINE B == Blocks(Cur[1])
  <1>1. Cur \in Outcomes /\ Cur[1] \in Streams /\ Cur' = Cur
    BY InHandFacts DEF IInv, Cur
  <1>2. PICK p \in DOMAIN B : B[p] = Place
    BY DEF BlockSet
  <1>3. step' = IF p = Len(B) THEN "ack" ELSE B[p + 1]
    BY <1>1, <1>2, AfterIs
  <1>4. \A j \in DOMAIN B : j < p => B[j] \in passed[Cur]
    BY <1>2 DEF ThroughInv
  <1>5. passed'[Cur] = passed[Cur] \cup {B[p]} /\ \A o \in Outcomes : o # Cur => passed'[o] = passed[o]
    BY <1>1, <1>2 DEF IInv, TypeInv, BookInv
  <1>6. \A o \in Outcomes : passed'[o] \subseteq All(o)
    <2>1. B[p] \in All(Cur)
      BY <1>2 DEF All
    <2> QED BY <1>1, <1>5, <2>1 DEF ThroughInv
  <1>7. p \in Nat /\ DOMAIN B = 1..Len(B) /\ Len(B) \in Nat /\ p <= Len(B)
    BY <1>1, BlocksShape
  <1>8. \A j \in DOMAIN B : j <= p => B[j] \in passed'[Cur]
    BY <1>4, <1>5, <1>7
  <1>9. CASE p = Len(B)
    <2>1. step' = "ack"
      BY <1>3, <1>9
    <2>2. passed'[Cur] = All(Cur)
      BY <1>1, <1>6, <1>7, <1>8, <1>9 DEF All
    <2> QED BY <1>5, <1>6, <2>1, <2>2 DEF ThroughInv
  <1>10. CASE p # Len(B)
    <2>1. p + 1 \in DOMAIN B /\ step' = B[p + 1]
      BY <1>3, <1>7, <1>10
    <2>2. step' \in Steps
      BY <1>1, <2>1, BlocksAreSteps DEF BlockSet
    <2>3. step' \notin {"ack", "read", "dispatch", "expand"} /\ Place' = step'
      BY <2>2, NotSteps DEF Place
    <2>4. ASSUME NEW i \in DOMAIN B, NEW j \in DOMAIN B, B[i] = Place', j < i
          PROVE  B[j] \in passed'[Cur]
      <3>1. i = p + 1
        BY <1>1, <2>1, <2>3, <2>4, BlockIndices
      <3> QED BY <1>7, <1>8, <2>4, <3>1
    <2> QED BY <1>1, <1>5, <1>6, <2>3, <2>4 DEF ThroughInv
  <1> QED BY <1>9, <1>10

LEMMA PaidType ==
  ASSUME LossInv
  PROVE  /\ \A k \in Kinds : faults[k] \in Nat
         /\ BatchCount \in Nat /\ Paid \in Nat
  <1>1. (\A k \in Kinds : faults[k] \in Nat) /\ BatchCount \in Nat
    BY BoundsAssumption DEF LossInv
  <1> DEFINE a == faults["listener"] + faults["crash"] + faults["restore"]
  <1>2. a \in Nat /\ faults["block"] \in Nat
    BY <1>1 DEF Kinds
  <1>3. \A m, n \in Nat : m * n \in Nat
    OBVIOUS
  <1>4. BatchCount * a \in Nat
    BY <1>1, <1>2, <1>3
  <1> HIDE DEF a
  <1>5. faults["block"] + BatchCount * a \in Nat
    BY <1>2, <1>4
  <1> QED BY <1>1, <1>5 DEF Paid, a

\* What a fault pays for.
LEMMA FaultPays ==
  ASSUME LossInv, NEW k \in Kinds, Fault(k)
  PROVE  /\ faults' \in [Kinds -> Nat] /\ faults'[k] > faults[k]
         /\ Paid' = Paid + (IF k = "block" THEN 1
                            ELSE IF k = "scheduler" THEN 0 ELSE BatchCount)
  <1>1. faults' = [faults EXCEPT ![k] = faults[k] + 1] /\ faults \in [Kinds -> Nat]
    BY DEF LossInv, Fault
  <1>2. /\ faults' \in [Kinds -> Nat] /\ faults'[k] = faults[k] + 1
        /\ \A l \in Kinds : l # k => faults'[l] = faults[l]
    BY <1>1
  <1> DEFINE a == faults["listener"] + faults["crash"] + faults["restore"]
             b == faults["block"]
  <1>3. a \in Nat /\ b \in Nat /\ BatchCount \in Nat
    BY PaidType DEF Kinds
  <1>4. \A m, n \in Nat : m * (n + 1) = m * n + m /\ m * n \in Nat
    OBVIOUS
  <1>5. /\ Paid = b + BatchCount * a
        /\ Paid' = b' + BatchCount * a'
    BY DEF Paid
  <1>6. /\ k = "block" => b' = b + 1 /\ a' = a
        /\ k = "scheduler" => b' = b /\ a' = a
        /\ k \in {"listener", "crash", "restore"} => b' = b /\ a' = a + 1
    BY <1>1, <1>2 DEF Kinds
  <1>7. BatchCount * (a + 1) = BatchCount * a + BatchCount /\ BatchCount * a \in Nat
    BY <1>3, <1>4
  <1>8. k \in {"block", "scheduler", "listener", "crash", "restore"} /\ faults[k] \in Nat
    BY <1>1 DEF Kinds
  <1> HIDE DEF a, b
  <1> DEFINE x == BatchCount * a
  <1>9. /\ Paid = b + x /\ x \in Nat
        /\ k = "block" => Paid' = b + 1 + x
        /\ k = "scheduler" => Paid' = b + x
        /\ k \in {"listener", "crash", "restore"} => Paid' = b + (x + BatchCount)
    BY <1>5, <1>6, <1>7
  <1> HIDE DEF x
  <1> QED BY <1>2, <1>3, <1>8, <1>9

-----------------------------------------------------------------------------
(* The steps.                                                              *)

LEMMA LossInit == Init => LossInv
  <1> SUFFICES ASSUME Init PROVE LossInv
    OBVIOUS
  <1>1. faults \in [Kinds -> Nat] /\ Len(batch) <= BatchCount
    BY BoundsAssumption DEF Init
  <1>2. ThroughInv
    BY DEF Init, ThroughInv
  <1>3. Lost = {}
    <2>1. Delivered = {}
      BY OutcomeParts DEF Init, Delivered
    <2>2. InHand = {}
      BY DEF Init, InHand
    <2> QED BY <2>1, <2>2 DEF Lost, Missed
  <1>4. Paid = 0
    <2>1. /\ faults["block"] = 0 /\ faults["listener"] = 0 /\ faults["crash"] = 0
          /\ faults["restore"] = 0
      BY DEF Init, Kinds
    <2>2. BatchCount * 0 = 0
      BY BoundsAssumption
    <2> QED BY <2>1, <2>2 DEF Paid
  <1> QED BY <1>1, <1>2, <1>3, <1>4, FS_EmptySet DEF LossInv

\* Nothing is lost by a step without a fault that loses nothing.
LEMMA NothingLost ==
  ASSUME IInv, LossInv, faults' \in [Kinds -> Nat], Paid' = Paid, Len(batch') <= BatchCount,
         ThroughInv', Lost' \subseteq Lost
  PROVE  LossInv'
  <1>1. Cardinality(Lost') <= Cardinality(Lost) /\ Cardinality(Lost') \in Nat
    BY LostIsFinite, FS_Subset, FS_CardinalityType DEF IInv
  <1>2. Cardinality(Lost) <= Paid /\ Paid \in Nat /\ Cardinality(Lost) \in Nat
    BY LostIsFinite, PaidType DEF LossInv, IInv
  <1>3. Cardinality(Lost)' <= Paid'
    BY <1>1, <1>2
  <1> QED BY <1>3 DEF LossInv

LEMMA LossElsewhere ==
  ASSUME IInv, LossInv,
         \/ (\E k \in Streams : Publish(k)) \/ (\E t \in Threads : RunJob(t) \/ DispatchRaises(t))
         \/ Daily \/ DailyRaises \/ NextDay \/ UNCHANGED vars
         \/ (\E a \in Assets : DriftRow(a) \/ DriftSaveFails(a) \/ Calibrate(a) \/ AssetAdded(a))
         \/ DispatchAtOnce \/ Level3
  PROVE  LossInv'
  <1>1. /\ UNCHANGED <<delivered, batch, passed>>
        /\ UNCHANGED step \/ (step = "level" /\ step' = "dispatch")
                          \/ (step = "dispatch" /\ step' = "expand")
        /\ UNCHANGED faults \/ Fault("scheduler")
    BY DEF Publish, RunJob, DispatchRaises, Daily, DailyRaises, NextDay, DriftRow,
           DriftSaveFails, Calibrate, AssetAdded, vars, DispatchAtOnce, Level3, streamVars, handVars, faultVars
  <1>2. faults' \in [Kinds -> Nat] /\ Paid' = Paid
    <2>1. CASE UNCHANGED faults
      BY <2>1 DEF LossInv, Paid
    <2>2. CASE Fault("scheduler")
      BY <2>2, FaultPays, PaidType DEF Kinds
    <2> QED BY <1>1, <2>1, <2>2
  <1>3. Place' = Place /\ Cur' = Cur /\ (step' \in {"read", "ack"} <=> step \in {"read", "ack"})
        /\ (step' = "ack" <=> step = "ack")
    BY <1>1 DEF Place, Cur
  <1>4. ThroughInv'
    BY <1>1, <1>3 DEF ThroughInv, LossInv
  <1>5. Lost' = Lost
    BY <1>1, <1>3 DEF Lost, Missed, Delivered, InHand
  <1> QED BY <1>1, <1>2, <1>4, <1>5, NothingLost DEF LossInv

LEMMA LossRead ==
  ASSUME IInv, IInv', LossInv, Read
  PROVE  LossInv'
  <1> DEFINE n == delivered[turn]
             m == IF published[turn] - n > BatchCount THEN n + BatchCount ELSE published[turn]
  <1>1. /\ step = "read" /\ batch' = [i \in 1..(m - n) |-> <<turn, n + i>>]
        /\ delivered' = [delivered EXCEPT ![turn] = m]
        /\ step' = IF m = n THEN "read" ELSE "dma"
        /\ UNCHANGED <<passed, faults>>
    BY DEF Read, faultVars
  <1>2. /\ turn \in Streams /\ n \in Nat /\ m \in Nat /\ n <= m /\ m - n <= BatchCount
        /\ batch = <<>> /\ published[turn] \in Nat
    BY <1>1, BoundsAssumption DEF IInv, TypeInv, StreamInv, HandInv
  <1> HIDE DEF n, m
  <1>3. Len(batch') <= BatchCount /\ DOMAIN batch' = 1..(m - n)
    BY <1>1, <1>2
  <1>4. ThroughInv'
    <2>1. CASE m = n
      BY <1>1, <2>1 DEF LossInv, ThroughInv
    <2>2. CASE m # n
      <3>1. step' = "dma" /\ Place' = "dma"
        BY <1>1, <2>2 DEF Place
      <3>2. Cur' \in Outcomes /\ Cur'[1] \in Streams
        <4>1. batch' # <<>> /\ batch' \in Seq(Outcomes) /\ step' # "read"
          BY <3>1 DEF IInv, TypeInv, HandInv
        <4>2. Cur' = Head(batch')
          BY <4>1 DEF Cur
        <4> QED BY <4>1, <4>2, OutcomeParts
      <3>3. ASSUME NEW i \in DOMAIN Blocks(Cur'[1]), NEW j \in DOMAIN Blocks(Cur'[1]),
                   Blocks(Cur'[1])[i] = "dma", j < i
            PROVE  FALSE
        <4>1. Blocks(Cur'[1])[1] = "dma" /\ 1 \in DOMAIN Blocks(Cur'[1])
          BY <3>2, BlocksShape, BlockIndices
        <4>2. i = 1 /\ j \in 1..7
          BY <3>2, <3>3, <4>1, BlockIndices
        <4> QED BY <3>3, <4>2
      <3>4. \A o \in Outcomes : passed'[o] \subseteq All(o)
        BY <1>1 DEF LossInv, ThroughInv
      <3> QED BY <3>1, <3>3, <3>4 DEF ThroughInv
    <2> QED BY <2>1, <2>2
  <1>5. Lost' \subseteq Lost
    <2>1. step' # "ack" /\ InHand = {}
      BY <1>1, <1>2 DEF InHand
    <2>2. ASSUME NEW o \in Delivered', o \notin InHand'
          PROVE  o \in Delivered
      <3>1. o \in Outcomes /\ o[1] \in Streams /\ o[2] \in Nat /\ o = <<o[1], o[2]>> /\ o[2] <= delivered'[o[1]]
        BY OutcomeParts DEF Delivered
      <3>2. CASE o[1] # turn
        BY <1>1, <3>1, <3>2 DEF Delivered, IInv, TypeInv, StreamInv
      <3>3. CASE o[1] = turn
        <4>1. o[2] <= m
          BY <1>1, <3>1, <3>3 DEF IInv, TypeInv, StreamInv
        <4>2. o[2] <= n
          <5> SUFFICES ASSUME o[2] > n PROVE FALSE
            BY <1>2, <3>1
          <5>1. o[2] - n \in 1..(m - n) /\ n + (o[2] - n) = o[2]
            BY <1>2, <3>1, <4>1
          <5>2. batch'[o[2] - n] = o
            BY <1>1, <3>1, <3>3, <5>1
          <5> QED BY <1>3, <2>2, <5>1, <5>2 DEF InHand
        <4> QED BY <3>1, <3>3, <4>2 DEF Delivered, n
      <3> QED BY <3>2, <3>3
    <2>3. \A o \in Lost' : o \in Delivered' /\ o \notin InHand' /\ passed[o] # All(o)
      BY <1>1, <2>1 DEF Lost, Missed
    <2> QED BY <2>1, <2>2, <2>3 DEF Lost, Missed
  <1>6. Paid' = Paid /\ faults' \in [Kinds -> Nat]
    BY <1>1 DEF Paid, LossInv
  <1> QED BY <1>3, <1>4, <1>5, <1>6, NothingLost

\* A block that the outcome is through.
LEMMA LossBlock ==
  ASSUME IInv, LossInv, Learn \/ Detect \/ Persist \/ Level2 \/ Expanded
  PROVE  LossInv'
  <1>1. /\ step \notin {"read", "ack"} /\ Place \in BlockSet(Cur[1])
        /\ passed' = [passed EXCEPT ![Cur] = @ \union {Place}] /\ step' = After(Cur[1], Place)
        /\ UNCHANGED <<delivered, batch, faults>>
    <2>1. CASE Learn \/ Detect \/ Persist \/ Level2
      <3>1. step \in Steps
        BY <2>1 DEF Learn, Detect, Persist, Level2, IInv, TypeInv, HandInv
      <3>2. step \notin {"read", "ack", "dispatch", "expand"} /\ step \in BlockSet(Cur[1])
        BY <3>1, NotSteps DEF IInv, TypeInv, HandInv
      <3> QED BY <2>1, <3>2 DEF Learn, Detect, Persist, Level2, Passed, Place, streamVars, faultVars
    <2>2. CASE Expanded
      <3>1. step = "expand"
        BY <2>2 DEF Expanded
      <3>2. Cur[1] \in Streams
        BY <3>1, InHandFacts DEF IInv
      <3> QED BY <2>2, <3>1, <3>2, BlocksAreSteps DEF Expanded, Place, streamVars, faultVars
    <2> QED BY <2>1, <2>2
  <1>2. /\ ThroughInv' /\ (step' = "ack" => passed'[Cur] = All(Cur))
        /\ \A o \in Outcomes : o # Cur => passed'[o] = passed[o]
    BY <1>1, ThroughStep DEF LossInv
  <1>3. Lost' \subseteq Lost
    <2>1. Cur' = Cur /\ InHand' = InHand /\ Delivered' = Delivered
      BY <1>1 DEF Cur, InHand, Delivered
    <2>2. Cur \in InHand
      BY <1>1, InHandFacts DEF IInv, InHand
    <2>3. Missed' \subseteq Missed
      BY <1>2, <2>1, <2>2 DEF Missed, Delivered
    <2>4. \A o \in InHand : step' = "ack" /\ o = Cur => passed'[o] = All(o)
      BY <1>2
    <2> QED BY <2>1, <2>3, <2>4 DEF Lost
  <1>4. Paid' = Paid /\ faults' \in [Kinds -> Nat] /\ Len(batch') <= BatchCount
    BY <1>1 DEF Paid, LossInv
  <1> QED BY <1>2, <1>3, <1>4, NothingLost

LEMMA LossAck ==
  ASSUME IInv, IInv', LossInv, Ack
  PROVE  LossInv'
  <1>1. /\ step = "ack" /\ batch' = Tail(batch) /\ UNCHANGED <<delivered, passed, faults>>
        /\ step' = IF Len(batch) = 1 THEN "read" ELSE "dma"
    BY DEF Ack, faultVars
  <1>2. batch \in Seq(Outcomes) /\ batch # <<>> /\ Cur = batch[1]
    BY <1>1, InHandFacts DEF IInv, TypeInv, HandInv
  <1>3. /\ Len(batch) \in Nat /\ Len(batch') = Len(batch) - 1 /\ batch' \in Seq(Outcomes)
        /\ \A i \in 1..Len(batch') : batch'[i] = batch[i + 1]
    BY <1>1, <1>2
  <1>4. Len(batch') <= BatchCount
    BY <1>3, BoundsAssumption DEF LossInv
  <1>5. ThroughInv'
    <2>1. CASE step' = "read"
      BY <1>1, <2>1 DEF LossInv, ThroughInv
    <2>2. CASE step' # "read"
      <3>1. step' = "dma" /\ Place' = "dma"
        BY <1>1, <2>2 DEF Place
      <3>2. Cur' \in Outcomes /\ Cur'[1] \in Streams
        <4>1. batch' # <<>> /\ batch' \in Seq(Outcomes)
          BY <3>1 DEF IInv, TypeInv, HandInv
        <4>2. Cur' = Head(batch')
          BY <4>1 DEF Cur
        <4> QED BY <4>1, <4>2, OutcomeParts
      <3>3. ASSUME NEW i \in DOMAIN Blocks(Cur'[1]), NEW j \in DOMAIN Blocks(Cur'[1]),
                   Blocks(Cur'[1])[i] = "dma", j < i
            PROVE  FALSE
        <4>1. Blocks(Cur'[1])[1] = "dma" /\ 1 \in DOMAIN Blocks(Cur'[1])
          BY <3>2, BlocksShape, BlockIndices
        <4>2. i = 1 /\ j \in 1..7
          BY <3>2, <3>3, <4>1, BlockIndices
        <4> QED BY <3>3, <4>2
      <3>4. \A o \in Outcomes : passed'[o] \subseteq All(o)
        BY <1>1 DEF LossInv, ThroughInv
      <3> QED BY <3>1, <3>3, <3>4 DEF ThroughInv
    <2> QED BY <2>1, <2>2
  <1>6. Lost' \subseteq Lost
    <2>1. \A o \in InHand : o = Cur \/ o \in InHand'
      <3> SUFFICES ASSUME NEW i \in DOMAIN batch, i # 1 PROVE batch[i] \in InHand'
        BY <1>2 DEF InHand
      <3>1. i - 1 \in 1..Len(batch') /\ batch'[i - 1] = batch[i]
        BY <1>2, <1>3
      <3>2. DOMAIN batch' = 1..Len(batch')
        BY <1>3
      <3> QED BY <3>1, <3>2 DEF InHand
    <2>2. Cur \in InHand /\ Delivered' = Delivered /\ step' # "ack"
      BY <1>1, <1>2 DEF InHand, Delivered
    <2>3. \A o \in Lost' : o \in Delivered /\ o \notin InHand' /\ passed[o] # All(o)
      BY <1>1, <2>2 DEF Lost, Missed
    <2> QED BY <1>1, <2>1, <2>2, <2>3 DEF Lost, Missed
  <1>7. Paid' = Paid /\ faults' \in [Kinds -> Nat]
    BY <1>1 DEF Paid, LossInv
  <1> QED BY <1>4, <1>5, <1>6, <1>7, NothingLost

\* An exception in a block loses the outcome in hand.
LEMMA LossRaises ==
  ASSUME IInv, LossInv, BlockRaises \/ Level3Fails \/ Level2Fails
  PROVE  LossInv'
  <1>1. /\ step \notin {"read", "ack"} /\ step' = "ack" /\ Fault("block")
        /\ UNCHANGED <<delivered, batch, passed>>
    BY NotSteps DEF BlockRaises, Level3Fails, Level2Fails, streamVars
  <1>2. faults' \in [Kinds -> Nat] /\ Paid' = Paid + 1 /\ Paid \in Nat
    BY <1>1, FaultPays, PaidType DEF Kinds
  <1>3. Cur \in Outcomes /\ Cur' = Cur
    BY <1>1, InHandFacts DEF IInv, Cur
  <1>4. Lost' \subseteq Lost \cup {Cur}
    BY <1>1, <1>3 DEF Lost, Missed, Delivered, InHand
  <1>5. Cardinality(Lost') <= Cardinality(Lost) + 1
    BY <1>4, LostGrows, FS_Singleton DEF IInv
  <1>6. Lost' \subseteq Outcomes
    BY <1>3, <1>4, LostIsFinite DEF IInv
  <1>7. Cardinality(Lost') \in Nat /\ Cardinality(Lost) \in Nat
    BY <1>6, LostIsFinite, OutcomesFinite, FS_Subset, FS_CardinalityType DEF IInv
  <1>8. Cardinality(Lost') <= Paid'
    BY <1>2, <1>5, <1>7 DEF LossInv
  <1>9. ThroughInv'
    BY <1>1 DEF LossInv, ThroughInv
  <1>10. (Cardinality(Lost) <= Paid)'
    BY <1>8
  <1> QED BY <1>1, <1>2, <1>9, <1>10 DEF LossInv

\* An exception of the listener or a crash loses what is in hand.
LEMMA LossDrops ==
  ASSUME IInv, LossInv, ListenerRaises \/ Crash \/ CrashUnrestored
  PROVE  LossInv'
  <1>1. /\ batch' = <<>> /\ step' = "read" /\ UNCHANGED <<delivered, passed>>
        /\ Fault("listener") \/ Fault("crash") \/ Fault("restore")
    BY DEF ListenerRaises, Crash, CrashUnrestored, Dies
  <1>2. faults' \in [Kinds -> Nat] /\ Paid' = Paid + BatchCount /\ Paid \in Nat /\ BatchCount \in Nat
    BY <1>1, FaultPays, PaidType DEF Kinds
  <1>3. Lost' \subseteq Lost \cup InHand
    BY <1>1 DEF Lost, Missed, Delivered
  <1>4. /\ Cardinality(Lost') <= Cardinality(Lost) + Cardinality(InHand)
        /\ Cardinality(InHand) \in Nat /\ Cardinality(InHand) <= BatchCount
    <2>1. Cardinality(InHand) <= Len(batch) /\ Len(batch) <= BatchCount /\ Len(batch) \in Nat
      BY LostIsFinite DEF LossInv, IInv, TypeInv, HandInv
    <2> QED BY <1>2, <1>3, <2>1, LostGrows, LostIsFinite DEF IInv
  <1>5. Lost' \subseteq Outcomes
    BY <1>3, LostIsFinite DEF IInv
  <1>6. Cardinality(Lost') \in Nat /\ Cardinality(Lost) \in Nat
    BY <1>5, LostIsFinite, OutcomesFinite, FS_Subset, FS_CardinalityType DEF IInv
  <1>7. (Cardinality(Lost) <= Paid)'
    BY <1>2, <1>4, <1>6 DEF LossInv
  <1>8. ThroughInv' /\ Len(batch') <= BatchCount
    BY <1>1, <1>2 DEF LossInv, ThroughInv
  <1> QED BY <1>2, <1>7, <1>8 DEF LossInv

LEMMA LossInvariance == Spec => [](IInv /\ LossInv)
  <1>1. IInv /\ LossInv /\ [Next]_vars => LossInv'
    <2> SUFFICES ASSUME IInv, LossInv, [Next]_vars PROVE LossInv'
      OBVIOUS
    <2>1. IInv'
      BY INext
    <2> QED BY <2>1, LossElsewhere, LossRead, LossBlock, LossAck, LossRaises, LossDrops
            DEF Next, Listener, Scheduler, Threads
  <1> QED BY <1>1, IInit, INext, LossInit, PTL DEF Spec

\* What is delivered goes through every block but for what the faults cost: an
\* exception in a block one outcome, one in the listener or a crash a batch.
THEOREM LossIsPaidFor == Spec => []LossIsBounded
  <1>1. IInv /\ LossInv => LossIsBounded
    <2> SUFFICES ASSUME IInv, LossInv PROVE LossIsBounded
      OBVIOUS
    <2>1. Missed \subseteq Lost
      BY DEF Lost
    <2>2. Cardinality(Missed) <= Cardinality(Lost) /\ Cardinality(Missed) \in Nat
      BY <2>1, LostIsFinite, FS_Subset, FS_CardinalityType DEF IInv
    <2>3. Cardinality(Missed) <= Paid
      BY <2>2, LostIsFinite, PaidType DEF LossInv, IInv
    <2> QED BY <2>3 DEF LossIsBounded, Paid
  <1> QED BY <1>1, LossInvariance, PTL

-----------------------------------------------------------------------------
(* What is forgotten.                                                      *)

\* Only a restart, or an exception before the row, takes anything out of the
\* detectors; and what the exception takes out is not persisted.
LEMMA ForgottenByRestart ==
  ASSUME IInv, LossInv, [Next]_vars, NEW o \in Outcomes, Forgotten(o)
  PROVE  \/ faults'["crash"] > faults["crash"] /\ row[AssetOf(o)] = NoDetector
         \/ faults'["restore"] > faults["restore"]
  <1>1. /\ "persist" \in passed[o] /\ o \in det[AssetOf(o)].seen
        /\ o \notin det'[AssetOf(o)].seen /\ AssetOf(o) \in Assets
    BY OutcomeParts DEF Forgotten
  <1>2. CASE Crash
    <2>1. o \notin row[AssetOf(o)].seen
      BY <1>1, <1>2 DEF Crash
    <2>2. row[AssetOf(o)] = NoDetector
      BY <1>1, <2>1 DEF IInv, RowInv
    <2> QED BY <1>2, <2>2, FaultPays DEF Crash, Kinds
  <1>3. CASE CrashUnrestored
    BY <1>3, FaultPays DEF CrashUnrestored, Kinds
  <1>4. CASE Detect
    <2>1. AssetOf(Cur) \in Assets /\ det \in [Assets -> Detectors]
      BY <1>4, InHandFacts DEF Detect, IInv, TypeInv, BookInv
    <2>2. PICK t : det' = [det EXCEPT ![AssetOf(Cur)] = [seen |-> @.seen \union {Cur}, streak |-> t]]
      BY <1>4 DEF Detect
    <2> QED BY <1>1, <2>1, <2>2
  <1>5. CASE BlockRaises
    <2>1. det' # det
      BY <1>1
    <2>2. /\ step = "persist" /\ det[AssetOf(Cur)].seen = {Cur}
          /\ det' = [det EXCEPT ![AssetOf(Cur)] = NoDetector]
      BY <1>5, <2>1 DEF BlockRaises
    <2>3. AssetOf(o) = AssetOf(Cur)
      BY <1>1, <2>2 DEF IInv, TypeInv, BookInv
    <2>4. o = Cur
      BY <1>1, <2>2, <2>3
    <2> QED BY <1>1, <2>2, <2>4 DEF IInv, FreshInv
  <1>6. CASE UNCHANGED det
    BY <1>1, <1>6
  <1>7. \/ Crash \/ CrashUnrestored \/ Detect \/ BlockRaises \/ UNCHANGED det
    BY DEF Next, Listener, Scheduler, Publish, Read, Learn, Persist, Level3, Level2, Ack,
           DispatchAtOnce, Expanded, RunJob, Level3Fails, Level2Fails, ListenerRaises,
           DispatchRaises, DriftRow, DriftSaveFails, Daily, DailyRaises, NextDay, Calibrate,
           AssetAdded, vars, decayVars
  <1> QED BY <1>2, <1>3, <1>4, <1>5, <1>6, <1>7

\* What was persisted is forgotten only by a restart that finds the latest row
\* bare, or whose restore raises; over any exceptions, and any order in which the
\* two threads write D04.
THEOREM Remembered == Spec => DetectorsRemember
  <1> DEFINE Kept == \A o \in Outcomes : Forgotten(o) =>
                        \/ faults'["crash"] > faults["crash"] /\ row[AssetOf(o)] = NoDetector
                        \/ faults'["restore"] > faults["restore"]
  <1>1. IInv /\ LossInv /\ [Next]_vars => [Kept]_vars
    BY ForgottenByRestart
  <1>2. DetectorsRemember <=> [][Kept]_vars
    BY DEF DetectorsRemember
  <1> HIDE DEF Kept
  <1> QED BY <1>1, <1>2, LossInvariance, PTL DEF Spec

-----------------------------------------------------------------------------
(* The types of the rest: the books of the decay, of the jobs and of the   *)
(* scheduler.                                                              *)

DecayTypes ==
    /\ acked \subseteq Outcomes /\ level2 \subseteq Assets /\ decayed \subseteq Assets
    /\ reading \in [cp : {"low", "mid", "high"}, breach : BOOLEAN]

JobBookTypes ==
    /\ jobs \in Seq([type : JobTypes, asset : Assets]) /\ Len(jobs) <= MaxJobs
    /\ ran \in [Jobs -> 0..MaxRuns]
    /\ todo \in [Threads -> SUBSET Jobs]

SchedTypes ==
    /\ daily \in BOOLEAN /\ drift \subseteq Assets /\ calibrations \in 0..MaxCalibrations
    /\ left \in 0..MaxFaults

LEMMA LeftType ==
  ASSUME left \in 0..MaxFaults, NEW k, Fault(k)
  PROVE  left' \in 0..MaxFaults
  BY BoundsAssumption DEF Fault

LEMMA DecayTypesKept ==
  ASSUME IInv, DecayTypes, [Next]_vars
  PROVE  DecayTypes'
  <1> USE DEF DecayTypes
  <1>1. NoReading \in [cp : {"low", "mid", "high"}, breach : BOOLEAN]
    BY DEF NoReading
  <1>2. CASE Ack
    <2>1. Cur \in Outcomes
      BY <1>2, InHandFacts DEF Ack, IInv
    <2> QED BY <1>2, <2>1 DEF Ack, decayVars
  <1>3. CASE Detect
    <2>1. reading' \in [cp : {"low", "mid", "high"}, breach : BOOLEAN]
      BY <1>3, QueueAssumption DEF Detect
    <2> QED BY <1>3, <2>1 DEF Detect, streamVars
  <1>4. CASE Level2 \/ Level3 \/ Level3Fails \/ Level2Fails
    <2>1. AssetOf(Cur) \in Assets
      BY <1>4, InHandFacts DEF Level2, Level3, Level3Fails, Level2Fails, IInv
    <2>2. level2' \subseteq Assets /\ decayed' \subseteq Assets /\ reading' = NoReading
      BY <1>4, <2>1 DEF Level2, Level3, Level3Fails, Level2Fails, Level2Active
    <2>3. acked' = acked
      BY <1>4 DEF Level2, Level3, Level3Fails, Level2Fails, streamVars
    <2> QED BY <1>1, <2>2, <2>3
  <1>5. CASE BlockRaises \/ Crash \/ CrashUnrestored
    BY <1>1, <1>5 DEF BlockRaises, Crash, CrashUnrestored, Dies, streamVars
  <1>6. CASE \/ Read \/ Learn \/ Persist \/ DispatchAtOnce \/ Expanded \/ ListenerRaises
             \/ NextDay \/ Scheduler \/ UNCHANGED vars
             \/ (\E t \in Threads : RunJob(t) \/ DispatchRaises(t))
             \/ (\E k \in Streams : Publish(k)) \/ (\E a \in Assets : Calibrate(a) \/ AssetAdded(a))
    BY <1>6 DEF Read, Learn, Persist, DispatchAtOnce, Expanded, ListenerRaises, NextDay,
          Scheduler, DriftRow, DriftSaveFails, Daily, DailyRaises, RunJob, DispatchRaises,
          Publish, Calibrate, AssetAdded, vars, streamVars, decayVars
  <1> QED BY <1>2, <1>3, <1>4, <1>5, <1>6 DEF Next, Listener, Threads

LEMMA Concatenated ==
  ASSUME NEW J, NEW s \in Seq(J), NEW t \in Seq(J)
  PROVE  s \o t \in Seq(J) /\ Len(s \o t) = Len(s) + Len(t)
  OBVIOUS

LEMMA PairPrefix ==
  ASSUME NEW J, NEW t \in Seq(J), Len(t) = 2, NEW q \in 1..2
  PROVE  SubSeq(t, 1, q) \in Seq(J) /\ Len(SubSeq(t, 1, q)) = q
  <1>1. q \in Int /\ 1 \in Int /\ 1 <= q /\ q - 1 + 1 = q
    OBVIOUS
  <1>2. ASSUME NEW i \in 1..q PROVE t[i] \in J
    <2>1. i \in 1..Len(t)
      OBVIOUS
    <2>2. QED
      BY <2>1
  <1>3. /\ SubSeq(t, 1, q) \in Seq(J)
        /\ Len(SubSeq(t, 1, q)) = IF 1 <= q THEN q - 1 + 1 ELSE 0
    BY ONLY <1>1, <1>2, SubSeqProperties, Zenon
  <1>4. QED
    BY <1>1, <1>3

LEMMA Lengthened ==
  ASSUME NEW J, NEW m \in Nat, NEW s \in Seq(J), Len(s) <= m,
         NEW t \in Seq(J), Len(t) = 2, NEW r,
         \/ r = s \o t /\ Len(s) + 2 <= m
         \/ \E n \in 3..4 : r = s \o SubSeq(t, 1, n - 2) /\ Len(s) + (n - 2) <= m
         \/ r = s
  PROVE  r \in Seq(J) /\ Len(r) <= m
  <1>1. CASE r = s \o t /\ Len(s) + 2 <= m
    BY <1>1, Concatenated
  <1>2. ASSUME NEW n \in 3..4, r = s \o SubSeq(t, 1, n - 2), Len(s) + (n - 2) <= m
        PROVE  r \in Seq(J) /\ Len(r) <= m
    <2>1. n - 2 \in 1..2
      OBVIOUS
    <2>2. SubSeq(t, 1, n - 2) \in Seq(J) /\ Len(SubSeq(t, 1, n - 2)) = n - 2
      BY <2>1, PairPrefix
    <2> QED BY <1>2, <2>2, Concatenated
  <1> QED BY <1>1, <1>2

LEMMA JobBooksKept ==
  ASSUME IInv, JobBookTypes, [Next]_vars
  PROVE  JobBookTypes'
  <1> USE DEF JobBookTypes
  <1>1. DOMAIN jobs \subseteq Jobs
    BY BoundsAssumption DEF Jobs
  <1>2. CASE Level3 \/ Level3Fails
    <2>1. AssetOf(Cur) \in Assets
      BY <1>2, InHandFacts DEF Level3, Level3Fails, IInv
    <2> DEFINE J == [type : JobTypes, asset : Assets]
               E == Enqueued(AssetOf(Cur))
    <2>2. E \in Seq(J) /\ Len(E) = 2
      BY <2>1 DEF Enqueued, JobTypes
    <2>3. jobs' \in Seq(J) /\ Len(jobs') <= MaxJobs
      <3>1. \/ jobs' = jobs \o E /\ Len(jobs) + 2 <= MaxJobs
            \/ \E n \in 3..4 : jobs' = jobs \o SubSeq(E, 1, n - 2) /\ Len(jobs) + (n - 2) <= MaxJobs
            \/ jobs' = jobs
        <4>1. CASE Level3
          BY <4>1 DEF Level3
        <4>2. CASE Level3Fails
          <5>1. PICK n \in 0..4 :
                  /\ n > 2 => Len(jobs) + (n - 2) <= MaxJobs
                  /\ jobs' = IF n > 2 THEN jobs \o SubSeq(E, 1, n - 2) ELSE jobs
            BY <4>2 DEF Level3Fails
          <5>2. CASE n > 2
            <6>1. n \in 3..4
              BY <5>2
            <6> QED BY <5>1, <5>2, <6>1
          <5> QED BY <5>1, <5>2
        <4> QED BY <1>2, <4>1, <4>2
      <3>2. jobs \in Seq(J) /\ Len(jobs) \in Nat /\ Len(jobs) <= MaxJobs /\ MaxJobs \in Nat
        BY BoundsAssumption
      <3> HIDE DEF J, E, JobBookTypes
      <3> QED BY <2>2, <3>1, <3>2, Lengthened
    <2>4. ran' = ran /\ todo' = todo
      BY <1>2 DEF Level3, Level3Fails
    <2> QED BY <2>3, <2>4
  <1>3. ASSUME NEW t \in Threads, RunJob(t) PROVE JobBookTypes'
    <2>1. PICK j \in todo[t] : /\ ran' = [ran EXCEPT ![j] = IF @ < MaxRuns THEN @ + 1 ELSE @]
                               /\ todo' = [todo EXCEPT ![t] = @ \ {j}]
      BY <1>3 DEF RunJob
    <2>2. ran' \in [Jobs -> 0..MaxRuns]
      BY <2>1, BoundsAssumption
    <2>3. jobs' = jobs
      BY <1>3 DEF RunJob
    <2> QED BY <2>1, <2>2, <2>3
  <1>4. CASE DispatchAtOnce \/ Daily
    <2>1. ExpansionsOf(AssetOf(Cur)) \subseteq Jobs /\ AllPending \subseteq Jobs
      BY <1>1 DEF ExpansionsOf, AllPending
    <2> QED BY <1>4, <2>1 DEF DispatchAtOnce, Daily
  <1>5. CASE \/ Crash \/ CrashUnrestored \/ \E t \in Threads : DispatchRaises(t)
    BY <1>5 DEF Crash, CrashUnrestored, Dies, DispatchRaises
  <1>6. CASE \/ Read \/ Learn \/ Detect \/ Persist \/ Level2 \/ Ack \/ Expanded \/ BlockRaises
             \/ ListenerRaises \/ DailyRaises \/ NextDay \/ Level2Fails \/ UNCHANGED vars
             \/ (\E k \in Streams : Publish(k))
             \/ (\E a \in Assets : Calibrate(a) \/ AssetAdded(a) \/ DriftRow(a) \/ DriftSaveFails(a))
    BY <1>6 DEF Read, Learn, Detect, Persist, Level2, Ack, Expanded, BlockRaises, ListenerRaises,
          DailyRaises, NextDay, Level2Fails, Publish, Calibrate, AssetAdded, DriftRow,
          DriftSaveFails, vars, jobVars
  <1> QED BY <1>2, <1>3, <1>4, <1>5, <1>6 DEF Next, Listener, Scheduler, Threads

LEMMA SchedTypesKept ==
  ASSUME SchedTypes, [Next]_vars
  PROVE  SchedTypes'
  <1> USE DEF SchedTypes
  <1>1. ASSUME NEW a \in Assets, Calibrate(a) \/ AssetAdded(a) PROVE SchedTypes'
    BY <1>1, BoundsAssumption DEF Calibrate, AssetAdded, faultVars
  <1>2. CASE Crash \/ CrashUnrestored
    <2>1. PICK new \in SUBSET Assets : Calibrated(new)
      BY <1>2 DEF Crash, CrashUnrestored
    <2>2. Cardinality(new) \in Nat
      BY QueueAssumption, FS_Subset, FS_CardinalityType
    <2>3. left' \in 0..MaxFaults /\ daily' = FALSE /\ drift' = Assets
      BY <1>2, LeftType DEF Crash, CrashUnrestored, Dies
    <2>4. calibrations' \in 0..MaxCalibrations
      <3>1. ASSUME NEW n \in Nat, n = Cardinality(new) PROVE calibrations' \in 0..MaxCalibrations
        BY <2>1, <3>1, BoundsAssumption DEF Calibrated
      <3> QED BY <2>2, <3>1
    <2> QED BY <2>3, <2>4
  <1>3. CASE \/ Level3Fails \/ Level2Fails \/ BlockRaises \/ ListenerRaises
             \/ \E t \in Threads : DispatchRaises(t)
    <2>1. left' \in 0..MaxFaults
      BY <1>3, LeftType DEF Level3Fails, Level2Fails, BlockRaises, ListenerRaises, DispatchRaises
    <2> QED BY <1>3, <2>1 DEF Level3Fails, Level2Fails, BlockRaises, ListenerRaises,
              DispatchRaises, schedVars
  <1>4. CASE DailyRaises \/ \E a \in Assets : DriftSaveFails(a)
    <2>1. left' \in 0..MaxFaults
      BY <1>4, LeftType DEF DailyRaises, DriftSaveFails
    <2> QED BY <1>4, <2>1 DEF DailyRaises, DriftSaveFails
  <1>5. CASE Daily \/ NextDay \/ \E a \in Assets : DriftRow(a)
    BY <1>5 DEF Daily, NextDay, DriftRow, faultVars
  <1>6. CASE \/ Read \/ Learn \/ Detect \/ Persist \/ Level3 \/ Level2 \/ Ack \/ DispatchAtOnce
             \/ Expanded \/ UNCHANGED vars
             \/ (\E t \in Threads : RunJob(t)) \/ (\E k \in Streams : Publish(k))
    BY <1>6 DEF Read, Learn, Detect, Persist, Level3, Level2, Ack, DispatchAtOnce, Expanded,
          RunJob, Publish, vars, schedVars, faultVars
  <1> QED BY <1>1, <1>2, <1>3, <1>4, <1>5, <1>6 DEF Next, Listener, Scheduler, Threads

\* Every variable has its type, for any streams, assets, jobs and faults.
THEOREM TypeCorrect == Spec => []TypeOK
  <1> DEFINE Types == DecayTypes /\ JobBookTypes /\ SchedTypes
  <1>1. Init => Types
    <2> SUFFICES ASSUME Init PROVE Types
      OBVIOUS
    <2>1. DecayTypes
      BY DEF Init, DecayTypes, NoReading
    <2>2. JobBookTypes
      BY BoundsAssumption DEF Init, JobBookTypes
    <2>3. SchedTypes
      <3>1. 0 \in 0..MaxCalibrations /\ MaxFaults \in 0..MaxFaults
        BY BoundsAssumption
      <3> QED BY <3>1 DEF Init, SchedTypes
    <2> QED BY <2>1, <2>2, <2>3
  <1>2. IInv /\ Types /\ [Next]_vars => Types'
    BY DecayTypesKept, JobBooksKept, SchedTypesKept
  <1>3. IInv /\ LossInv /\ Types => TypeOK
    BY DEF IInv, TypeInv, StreamInv, BookInv, HandInv, LossInv, DecayTypes, JobBookTypes,
           SchedTypes, TypeOK
  <1> HIDE DEF Types
  <1> QED BY <1>1, <1>2, <1>3, LossInvariance, PTL DEF Spec
=============================================================================
