------------------------ MODULE PositionLifecycleProofs ------------------------
(***************************************************************************)
(* Theorems about PositionLifecycle.  The frame lemmas first say, for each *)
(* group of variables, which actions can change it; the rest of the proofs *)
(* then looks only at those.                                               *)
(***************************************************************************)
EXTENDS PositionLifecycle, TLAPS

\* Who moves the stream and its consumer group.
LEMMA StreamFrame ==
  ASSUME [Next]_vars
  PROVE
    \/ \E s \in Signals : PublishTaken(s)
    \/ ReadBatch \/ ReadFails \/ AckTaken \/ AckFails
    \/ UNCHANGED streamVars
  BY DEF vars, Next, ListenerStep, MonitorStep, UserStreamStep, FaultStep,
         PriceMoves, OpenPosition, PersistPosition, PersistFails,
         StartPass, KeepOpen, WriteTrade, WriteSilo, WriteBreaker,
         PublishOutcome, PublishFails, WriteTradeFails, WriteSiloFails,
         WriteBreakerFails, FinishScan, RemoveResolved, RemoveFails, EndPass,
         OnPositionUpdate, CaptureBracketChild, WriteBack, WriteBackFails,
         Crash, Restart, RestartBlind, AbortPass, ReadStored, BackToScan

\* Who moves the command listener.
LEMMA ListenerFrame ==
  ASSUME [Next]_vars
  PROVE
    \/ ReadBatch \/ OpenPosition \/ PersistPosition \/ PersistFails \/
       AckTaken \/ AckFails \/ Crash
    \/ UNCHANGED listenerVars
  BY DEF vars, Next, ReadFails, ListenerStep, MonitorStep, UserStreamStep, FaultStep,
         PublishTaken, PriceMoves, StartPass, KeepOpen, WriteTrade, WriteSilo,
         WriteBreaker, PublishOutcome, PublishFails, WriteTradeFails,
         WriteSiloFails, WriteBreakerFails, FinishScan, RemoveResolved,
         RemoveFails, EndPass, OnPositionUpdate, CaptureBracketChild,
         WriteBack, WriteBackFails, Restart, RestartBlind, AbortPass,
         ReadStored, BackToScan

\* Who writes captain:open_positions.
LEMMA HashFrame ==
  ASSUME [Next]_vars
  PROVE
    \/ \E s \in Signals : WriteBack(s) \/ WriteBackFails(s)
    \/ \E i \in Ids : RemoveResolved(i) \/ RemoveFails(i)
    \/ PersistPosition \/ PersistFails
    \/ UNCHANGED hash
  BY DEF vars, Next, ReadFails, ListenerStep, MonitorStep, UserStreamStep, FaultStep,
         PublishTaken, PriceMoves, ReadBatch, OpenPosition, AckTaken,
         AckFails, StartPass, KeepOpen, WriteTrade, WriteSilo,
         WriteBreaker, PublishOutcome, PublishFails, WriteTradeFails,
         WriteSiloFails, WriteBreakerFails, FinishScan, EndPass,
         OnPositionUpdate, CaptureBracketChild, Crash,
         Restart, RestartBlind, AbortPass, ReadStored, BackToScan

\* Who writes the snapshot of a UserStream callback.
LEMMA SnapshotFrame ==
  ASSUME [Next]_vars
  PROVE
    \/ \E s \in Signals : CaptureBracketChild(s) \/ WriteBack(s) \/ WriteBackFails(s)
    \/ \E a \in Assets : OnPositionUpdate(a)
    \/ Crash
    \/ UNCHANGED ucb
  BY DEF vars, Next, ReadFails, ListenerStep, MonitorStep, UserStreamStep, FaultStep,
         PublishTaken, PriceMoves, ReadBatch, OpenPosition, PersistPosition,
         AckTaken, PersistFails, AckFails, StartPass, KeepOpen, WriteTrade,
         WriteSilo, WriteBreaker, PublishOutcome, PublishFails,
         WriteTradeFails, WriteSiloFails, WriteBreakerFails, FinishScan,
         RemoveResolved, RemoveFails, EndPass, Restart, RestartBlind,
         AbortPass, BackToScan

\* Who moves the B7 pass or changes the list.
LEMMA MonitorFrame ==
  ASSUME [Next]_vars
  PROVE
    \/ \E i \in Ids : KeepOpen(i) \/ WriteTrade(i) \/ WriteTradeFails(i) \/
       RemoveResolved(i) \/ RemoveFails(i)
    \/ OpenPosition \/ StartPass \/ WriteSilo \/ WriteBreaker \/
       PublishOutcome \/ PublishFails \/ WriteSiloFails \/ WriteBreakerFails
       \/ FinishScan \/ EndPass \/ Crash \/ Restart
    \/ UNCHANGED <<open, monitorVars>>
  BY DEF vars, Next, ReadFails, ListenerStep, MonitorStep, UserStreamStep, FaultStep,
         PublishTaken, PriceMoves, ReadBatch, PersistPosition, AckTaken,
         PersistFails, AckFails, OnPositionUpdate, CaptureBracketChild,
         WriteBack, WriteBackFails, RestartBlind, ReadStored

\* Who writes a book.
LEMMA LedgerFrame ==
  ASSUME [Next]_vars
  PROVE
    \/ \E i \in Ids : WriteTrade(i) \/ WriteTradeFails(i)
    \/ WriteSilo \/ WriteSiloFails \/ WriteBreaker \/ WriteBreakerFails \/
       PublishOutcome \/ PublishFails
    \/ UNCHANGED ledgerVars
  BY DEF vars, Next, ReadFails, ListenerStep, MonitorStep, UserStreamStep, FaultStep,
         PublishTaken, PriceMoves, ReadBatch, OpenPosition, PersistPosition,
         AckTaken, PersistFails, AckFails, StartPass, KeepOpen,
         FinishScan, RemoveResolved, RemoveFails, EndPass, OnPositionUpdate,
         CaptureBracketChild, WriteBack, WriteBackFails, Crash, Restart,
         RestartBlind, ReadStored, BackToScan

\* Who changes the market, the process or the fault budgets: everyone else
\* needs the process to be up.
LEMMA ProcessFrame ==
  ASSUME [Next]_vars
  PROVE
    \/ \E s \in Signals : PublishTaken(s) \/ PriceMoves(s) \/ WriteBackFails(s)
    \/ \E i \in Ids : RemoveFails(i)
    \/ ReadFails \/ PersistFails \/ AckFails \/ PublishFails
    \/ Crash \/ Restart \/ RestartBlind \/ (up /\ AbortPass)
    \/ up /\ UNCHANGED <<hit, up, faultVars>>
    \/ UNCHANGED vars
  BY DEF Next, ListenerStep, MonitorStep, UserStreamStep, FaultStep,
         ReadBatch, OpenPosition, PersistPosition, AckTaken, StartPass,
         KeepOpen, WriteTrade, WriteSilo, WriteBreaker, PublishOutcome,
         WriteTradeFails, WriteSiloFails, WriteBreakerFails, FinishScan,
         RemoveResolved, EndPass, OnPositionUpdate, CaptureBracketChild,
         WriteBack, ReadStored
-----------------------------------------------------------------------------
(* Type correctness, one part of TypeOK at a time.                         *)

\* The stream only grows: what was delivered stays where it is.
LEMMA StreamType ==
  ASSUME TypeOK, [Next]_vars
  PROVE  /\ StreamOK'
         /\ last <= last'
         /\ \A k \in 1..last : log'[k] = log[k]
  <1> USE BoundsAssumption DEF TypeOK, StreamOK, ListenerOK
  <1>1. ASSUME NEW s \in Signals, PublishTaken(s)
        PROVE  StreamOK' /\ last = last' /\ \A k \in 1..last : log'[k] = log[k]
    <2>1. log' = Append(log, s) /\ last' = last /\ pel' = pel /\ Len(log) < MaxTaken
      BY <1>1 DEF PublishTaken
    <2>2. Len(log') = Len(log) + 1 /\ log' \in Seq(Signals)
      BY <2>1
    <2>3. \A k \in 1..Len(log) : log'[k] = log[k]
      BY <2>1
    <2>4. QED
      BY <2>1, <2>2, <2>3
  <1>2. CASE ReadBatch
    <2>1. log' = log /\ last < Len(log) /\ last' \in (last + 1)..Len(log)
      BY <1>2 DEF ReadBatch
    <2>2. pel' = pel \cup ((last + 1)..last')
      BY <1>2 DEF ReadBatch
    <2>3. QED
      BY <2>1, <2>2
  <1>3. CASE AckTaken \/ AckFails
    <2>1. UNCHANGED <<log, last>> /\ pel' \subseteq pel
      BY <1>3 DEF AckTaken, AckFails
    <2>2. QED
      BY <2>1
  <1>4. CASE UNCHANGED streamVars
    BY <1>4 DEF streamVars
  <1>5. CASE ReadFails
    <2>1. log' = log /\ last < Len(log) /\ last' \in (last + 1)..Len(log)
      BY <1>5 DEF ReadFails
    <2>2. pel' = pel \cup ((last + 1)..last')
      BY <1>5 DEF ReadFails
    <2>3. QED
      BY <2>1, <2>2
  <1>6. QED
    BY <1>1, <1>2, <1>3, <1>4, <1>5, StreamFrame

\* The listener's place in its batch stays within what was delivered.
LEMMA ListenerType ==
  ASSUME TypeOK, [Next]_vars
  PROVE  ListenerOK'
  <1> USE DEF TypeOK, StreamOK, ListenerOK
  <1>1. last <= last' /\ last' \in Nat
    BY StreamType
  <1>2. CASE ReadBatch
    BY <1>1, <1>2, BoundsAssumption DEF ReadBatch
  <1>3. CASE OpenPosition \/ PersistPosition \/ PersistFails \/ AckFails \/ Crash
    BY <1>1, <1>3 DEF OpenPosition, PersistPosition, PersistFails, AckFails, Crash
  <1>4. CASE AckTaken
    BY <1>1, <1>4 DEF AckTaken, NextOfBatch
  <1>5. CASE UNCHANGED listenerVars
    BY <1>1, <1>5 DEF listenerVars
  <1>6. QED
    BY <1>2, <1>3, <1>4, <1>5, ListenerFrame

\* A slot that is cleared still holds only positions of its signal.
LEMMA ClearedSlot ==
  ASSUME NEW slot, SlotOK(slot), NEW x
  PROVE  SlotOK([slot EXCEPT ![x] = NoPos])
  <1> DEFINE cleared == [slot EXCEPT ![x] = NoPos]
  <1>1. slot \in [Signals -> 0..MaxTaken] /\ NoPos \in 0..MaxTaken
    BY BoundsAssumption DEF SlotOK, NoPos
  <1>2. cleared \in [Signals -> 0..MaxTaken]
    BY <1>1
  <1>3. \A s \in Signals : cleared[s] # NoPos => cleared[s] = slot[s]
    BY <1>1
  <1>4. QED
    BY <1>2, <1>3 DEF SlotOK

\* ... and so does one that gets a delivered entry of its signal.
LEMMA FilledSlot ==
  ASSUME NEW slot, SlotOK(slot), StreamOK, NEW i \in 1..last
  PROVE  SlotOK([slot EXCEPT ![log[i]] = i])
  BY BoundsAssumption DEF SlotOK, NoPos, StreamOK

\* ... and one that is left alone while the stream grows.
LEMMA KeptSlot ==
  ASSUME TypeOK, [Next]_vars, NEW slot, SlotOK(slot)
  PROVE  /\ slot \in [Signals -> 0..MaxTaken]
         /\ \A s \in Signals :
               slot[s] # NoPos => slot[s] \in 1..last' /\ log'[slot[s]] = s
  <1>1. last \in Nat /\ last' \in Nat /\ last <= last'
    BY StreamType DEF StreamOK, TypeOK
  <1>2. \A k \in 1..last : k \in 1..last' /\ log'[k] = log[k]
    BY <1>1, StreamType
  <1>3. QED
    BY <1>2 DEF SlotOK

\* Both copies of the Redis hash hold only positions of the field's signal.
LEMMA SlotType ==
  ASSUME TypeOK, [Next]_vars
  PROVE  SlotOK(hash)' /\ SlotOK(ucb)'
  <1>1. StreamOK /\ SlotOK(hash) /\ SlotOK(ucb)
    BY DEF TypeOK
  <1>2. ASSUME NEW slot, SlotOK(slot), UNCHANGED <<log, last>>, hash' = slot
        PROVE  SlotOK(hash)'
    BY <1>2 DEF SlotOK
  <1>3. ASSUME NEW slot, SlotOK(slot), UNCHANGED <<log, last>>, ucb' = slot
        PROVE  SlotOK(ucb)'
    BY <1>3 DEF SlotOK
  <1>4. ASSUME UNCHANGED hash PROVE SlotOK(hash)'
    BY <1>1, <1>4, KeptSlot DEF SlotOK
  <1>5. ASSUME UNCHANGED ucb PROVE SlotOK(ucb)'
    BY <1>1, <1>5, KeptSlot DEF SlotOK
  <1>6. CASE PersistPosition \/ PersistFails
    <2>1. cur \in 1..last
      BY <1>6 DEF PersistPosition, PersistFails, TypeOK, StreamOK, ListenerOK
    <2>2. SlotOK([hash EXCEPT ![log[cur]] = cur])
      BY <1>1, <2>1, FilledSlot
    <2>3. QED
      BY <1>1, <1>2, <1>5, <1>6, <2>2 DEF PersistPosition, PersistFails, streamVars
  <1>7. ASSUME NEW i \in Ids, RemoveResolved(i) \/ RemoveFails(i)
        PROVE  SlotOK(hash)' /\ SlotOK(ucb)'
    <2>1. SlotOK([hash EXCEPT ![log[i]] = NoPos])
      BY <1>1, ClearedSlot
    <2>2. QED
      BY <1>1, <1>2, <1>5, <1>7, <2>1 DEF RemoveResolved, RemoveFails, streamVars
  <1>8. ASSUME NEW s \in Signals, WriteBack(s) \/ WriteBackFails(s)
        PROVE  SlotOK(hash)' /\ SlotOK(ucb)'
    <2>1. ucb[s] \in 1..last /\ log[ucb[s]] = s
      BY <1>1, <1>8 DEF WriteBack, WriteBackFails, SlotOK
    <2>2. SlotOK([hash EXCEPT ![s] = ucb[s]]) /\ SlotOK([ucb EXCEPT ![s] = NoPos])
      BY <1>1, <2>1, FilledSlot, ClearedSlot
    <2>3. UNCHANGED <<log, last>>
      BY <1>8 DEF WriteBack, WriteBackFails, streamVars
    <2>4. SlotOK(NoSnapshot)
      BY BoundsAssumption DEF SlotOK, NoSnapshot, NoPos
    <2>5. QED
      BY <1>1, <1>2, <1>3, <1>8, <2>2, <2>3, <2>4 DEF WriteBack, WriteBackFails
  <1>9. ASSUME NEW S, ReadStored(S) PROVE SlotOK(hash)' /\ SlotOK(ucb)'
    <2>1. SlotOK([s \in Signals |-> IF s \in S THEN hash[s] ELSE NoPos])
      BY <1>1, BoundsAssumption DEF SlotOK, NoPos
    <2>2. QED
      BY <1>3, <1>4, <1>9, <2>1 DEF ReadStored, streamVars
  <1>10. ASSUME NEW a \in Assets, OnPositionUpdate(a)
         PROVE  SlotOK(hash)' /\ SlotOK(ucb)'
    BY <1>9, <1>10 DEF OnPositionUpdate
  <1>11. ASSUME NEW s \in Signals, CaptureBracketChild(s)
         PROVE  SlotOK(hash)' /\ SlotOK(ucb)'
    BY <1>9, <1>11 DEF CaptureBracketChild
  <1>12. CASE Crash
    <2>1. SlotOK(NoSnapshot)
      BY BoundsAssumption DEF SlotOK, NoSnapshot, NoPos
    <2>2. QED
      BY <1>3, <1>4, <1>12, <2>1 DEF Crash, streamVars
  <1>13. QED
    BY <1>4, <1>5, <1>6, <1>7, <1>8, <1>10, <1>11, <1>12, HashFrame, SnapshotFrame

\* The pass works on open, unvisited positions, and forgets its list with its end.
LEMMA MonitorType ==
  ASSUME TypeOK, [Next]_vars
  PROVE  MonitorOK'
  <1> USE BoundsAssumption DEF TypeOK, StreamOK, MonitorOK, Ids, NoPos
  <1>1. last <= last' /\ last' \in Nat
    BY StreamType DEF StreamOK
  <1>2. CASE OpenPosition
    BY <1>1, <1>2 DEF OpenPosition, LockFree, monitorVars, ListenerOK
  <1>3. ASSUME NEW i \in Ids, KeepOpen(i) PROVE MonitorOK'
    BY <1>1, <1>3 DEF KeepOpen
  <1>4. ASSUME NEW i \in Ids, RemoveResolved(i) \/ RemoveFails(i) PROVE MonitorOK'
    <2>1. /\ mpc = "remove" /\ UNCHANGED <<mpc, visited, mcur, tries>>
          /\ open' = open \ {i} /\ resolved' = resolved \ {i}
      BY <1>4 DEF RemoveResolved, RemoveFails
    <2>2. QED
      BY <1>1, <2>1
  <1>5. ASSUME NEW i \in Ids, WriteTrade(i) PROVE MonitorOK'
    BY <1>1, <1>5 DEF WriteTrade, Unvisited
  <1>6. CASE WriteSilo
    BY <1>1, <1>6 DEF WriteSilo
  <1>7. CASE PublishOutcome \/ PublishFails
    <2>1. /\ mpc = "publish" /\ UNCHANGED open
          /\ \/ BackToScan
             \/ /\ tries + 1 < Attempts /\ tries' = tries + 1
                /\ UNCHANGED <<visited, resolved, mpc, mcur>>
      BY <1>7 DEF PublishOutcome, PublishFails
    <2>2. mcur \in open /\ mcur \in 1..MaxTaken
      BY <2>1
    <2>3. CASE BackToScan
      <3>1. /\ visited' = visited \cup {mcur} /\ resolved' = resolved \cup {mcur}
            /\ mpc' = "scan" /\ mcur' = 0 /\ tries' = 0
        BY <2>3 DEF BackToScan
      <3>2. 0 \in 0..(Attempts - 1)
        OBVIOUS
      <3>3. open \subseteq 1..last' /\ visited' \subseteq 1..MaxTaken
            /\ resolved' \subseteq open /\ resolved' \subseteq visited'
        BY <1>1, <2>2, <3>1
      <3>4. QED
        BY <2>1, <3>1, <3>2, <3>3
    <2>4. CASE tries + 1 < Attempts /\ tries' = tries + 1
               /\ UNCHANGED <<visited, resolved, mpc, mcur>>
      <3>1. tries' \in 0..(Attempts - 1)
        BY <2>4
      <3>2. QED
        BY <1>1, <2>1, <2>4, <3>1
    <2>5. QED
      BY <2>1, <2>3, <2>4
  <1>8. CASE WriteSiloFails
    BY <1>1, <1>8 DEF WriteSiloFails, AbortPass
  <1>9. ASSUME NEW i \in Ids, WriteTradeFails(i) PROVE MonitorOK'
    BY <1>1, <1>9 DEF WriteTradeFails, AbortPass
  <1>10. CASE Crash
    BY <1>1, <1>10 DEF Crash
  <1>11. CASE Restart
    BY <1>1, <1>11 DEF Restart, Stored, SlotOK, ProcessOK, monitorVars
  <1>12. CASE UNCHANGED <<open, monitorVars>>
    BY <1>1, <1>12 DEF monitorVars
  <1>13. CASE WriteBreaker
    BY <1>1, <1>13 DEF WriteBreaker
  <1>14. CASE WriteBreakerFails
    BY <1>1, <1>14 DEF WriteBreakerFails, AbortPass
  <1>15. CASE StartPass
    BY <1>1, <1>15 DEF StartPass, LockFree
  <1>16. CASE FinishScan
    <2>1. /\ mpc = "scan" /\ mpc' = "remove"
          /\ UNCHANGED <<open, resolved, visited, mcur, tries>>
      BY <1>16 DEF FinishScan
    <2>2. QED
      BY <1>1, <2>1
  <1>17. CASE EndPass
    <2>1. /\ mpc = "remove" /\ mpc' = "idle" /\ resolved = {} /\ visited' = {}
          /\ UNCHANGED <<open, resolved, mcur, tries>>
      BY <1>17 DEF EndPass
    <2>2. QED
      BY <1>1, <2>1
  <1>18. QED
    BY <1>2, <1>3, <1>4, <1>5, <1>6, <1>7, <1>8, <1>9, <1>10, <1>11, <1>12,
       <1>13, <1>14, <1>15, <1>16, <1>17, MonitorFrame

\* The books are counters.
LEMMA LedgerType ==
  ASSUME TypeOK, [Next]_vars
  PROVE  LedgerOK'
  <1> USE DEF TypeOK, LedgerOK
  <1>1. mpc \in {"silo", "breaker", "publish"} => mcur \in Ids
    BY BoundsAssumption DEF MonitorOK, StreamOK, Ids
  <1>2. ASSUME NEW i \in Ids, WriteTrade(i) \/ WriteTradeFails(i) PROVE LedgerOK'
    BY <1>2 DEF WriteTrade, WriteTradeFails
  <1>3. CASE WriteSilo \/ WriteSiloFails
    BY <1>1, <1>3 DEF WriteSilo, WriteSiloFails
  <1>4. CASE WriteBreaker \/ WriteBreakerFails
    BY <1>1, <1>4 DEF WriteBreaker, WriteBreakerFails
  <1>5. CASE PublishOutcome \/ PublishFails
    BY <1>1, <1>5 DEF PublishOutcome, PublishFails
  <1>6. CASE UNCHANGED ledgerVars
    BY <1>6 DEF ledgerVars
  <1>7. QED
    BY <1>2, <1>3, <1>4, <1>5, <1>6, LedgerFrame

\* The fault budgets are kept, and a process that is down holds nothing.
LEMMA ProcessType ==
  ASSUME TypeOK, [Next]_vars
  PROVE  ProcessOK'
  <1> USE BoundsAssumption DEF ProcessOK, faultVars
  <1>1. ProcessOK
    BY DEF TypeOK
  <1>2. ASSUME NEW s \in Signals, PriceMoves(s) PROVE ProcessOK'
    BY <1>1, <1>2 DEF PriceMoves, listenerVars, monitorVars
  <1>3. CASE Crash
    <2>1. up' = FALSE /\ crashes' = crashes + 1 /\ crashes < MaxCrashes
      BY <1>3 DEF Crash
    <2>2. open' = {} /\ lpc' = "read" /\ mpc' = "idle" /\ ucb' = NoSnapshot'
      BY <1>3 DEF Crash, NoSnapshot
    <2>3. UNCHANGED <<hit, dbFails, redisFails, streamFails>>
      BY <1>3 DEF Crash
    <2>4. hit' \subseteq Signals /\ up' \in BOOLEAN
      BY <1>1, <2>1, <2>3
    <2>5. crashes' \in 0..MaxCrashes /\ dbFails' \in 0..MaxDbFails
          /\ redisFails' \in 0..MaxRedisFails /\ streamFails' \in 0..redisFails'
      BY <1>1, <2>1, <2>3
    <2>6. QED
      BY <2>2, <2>4, <2>5
  <1>4. CASE Restart \/ RestartBlind
    <2>1. up' = TRUE /\ UNCHANGED <<hit, crashes, dbFails, streamFails>>
      BY <1>4 DEF Restart, RestartBlind, RedisRaises
    <2>2. redisFails' = redisFails \/ (redisFails < MaxRedisFails /\ redisFails' = redisFails + 1)
      BY <1>4 DEF Restart, RestartBlind, RedisRaises
    <2>3. QED
      BY <1>1, <2>1, <2>2
  <1>5. CASE ReadFails \/ PersistFails \/ AckFails \/ PublishFails
    <2>1. up /\ RedisRaises /\ UNCHANGED <<hit, up>>
      BY <1>5 DEF ReadFails, PersistFails, AckFails, PublishFails
    <2>2. streamFails' \in {streamFails, streamFails + 1}
      BY <1>5 DEF ReadFails, PersistFails, AckFails, PublishFails
    <2>3. QED
      BY <1>1, <2>1, <2>2 DEF RedisRaises
  <1>6. ASSUME NEW i \in Ids, RemoveFails(i) PROVE ProcessOK'
    BY <1>1, <1>6 DEF RemoveFails, RedisRaises
  <1>7. CASE up /\ AbortPass
    BY <1>1, <1>7 DEF AbortPass
  <1>8. CASE up /\ UNCHANGED <<hit, up, faultVars>>
    BY <1>1, <1>8
  <1>9. ASSUME NEW s \in Signals, PublishTaken(s) PROVE ProcessOK'
    BY <1>1, <1>9 DEF PublishTaken, listenerVars, monitorVars
  <1>10. CASE UNCHANGED vars
    BY <1>1, <1>10 DEF vars, listenerVars, monitorVars
  <1>11. ASSUME NEW s \in Signals, WriteBackFails(s) PROVE ProcessOK'
    BY <1>1, <1>11 DEF WriteBackFails, RedisRaises
  <1>12. QED
    BY <1>2, <1>3, <1>4, <1>5, <1>6, <1>7, <1>8, <1>9, <1>10, <1>11, ProcessFrame

\* Every variable keeps its type, whatever fails and whoever runs.
THEOREM TypeCorrect == Spec => []TypeOK
  <1>1. Init => TypeOK
    <2> SUFFICES ASSUME Init PROVE TypeOK
      OBVIOUS
    <2> USE BoundsAssumption DEF Init, NoPos, NoSnapshot, Ids
    <2>1. StreamOK /\ ListenerOK /\ MonitorOK
      BY DEF StreamOK, ListenerOK, MonitorOK
    <2>2. SlotOK(hash) /\ SlotOK(ucb)
      BY DEF SlotOK
    <2>3. LedgerOK /\ ProcessOK
      BY DEF LedgerOK, ProcessOK
    <2>4. QED
      BY <2>1, <2>2, <2>3 DEF TypeOK
  <1>2. TypeOK /\ [Next]_vars => TypeOK'
    BY StreamType, ListenerType, SlotType, MonitorType, LedgerType, ProcessType
    DEF TypeOK
  <1>3. QED
    BY <1>1, <1>2, PTL DEF Spec

-----------------------------------------------------------------------------
(* A booking too many needs a fault.                                       *)

\* Position i can be booked (once more) without a further fault: its TAKEN is
\* not delivered or still in the listener's hand, or it is open and the pass
\* has not booked it, or the process is down and will recover it.
Bookable(i) ==
    \/ i > last \/ InHand(i)
    \/ i \in open \ resolved /\ i # mcur
    \/ ~up /\ i \in Stored

\* The inductive invariant: a position that can still be booked has one booking
\* less than the faults allow.
BookingsInv ==
    /\ \A i \in open : ~InHand(i)
    /\ \A i \in Ids : d03[i] + (IF Bookable(i) THEN 1 ELSE 0) <= 1 + crashes + dbFails

\* What the listener holds after a step it held before, or it was not delivered.
LEMMA HandShrinks ==
  ASSUME TypeOK, [Next]_vars, NEW i \in Ids, InHand(i)'
  PROVE  InHand(i) \/ i > last
  <1> USE DEF InHand, TypeOK, StreamOK, ListenerOK, Ids
  <1>1. CASE ReadBatch
    BY <1>1 DEF ReadBatch
  <1>2. CASE OpenPosition \/ PersistPosition \/ PersistFails \/ AckFails \/ Crash
    BY <1>2 DEF OpenPosition, PersistPosition, PersistFails, AckFails, Crash
  <1>3. CASE AckTaken
    BY <1>3, BoundsAssumption DEF AckTaken, NextOfBatch
  <1>4. CASE UNCHANGED listenerVars
    BY <1>4 DEF listenerVars
  <1>5. QED
    BY <1>1, <1>2, <1>3, <1>4, ListenerFrame

\* A position of the list was there before, was just opened, or was recovered.
LEMMA OpenGrows ==
  ASSUME TypeOK, [Next]_vars, NEW i \in open'
  PROVE  \/ i \in open
         \/ OpenPosition /\ i = cur
         \/ Restart /\ i \in Stored
  <1>1. CASE OpenPosition
    BY <1>1 DEF OpenPosition
  <1>2. CASE Restart
    BY <1>2 DEF Restart
  <1>3. ASSUME NEW j \in Ids, RemoveResolved(j) \/ RemoveFails(j) PROVE i \in open
    BY <1>3 DEF RemoveResolved, RemoveFails
  <1>4. CASE Crash
    BY <1>4 DEF Crash
  <1>5. CASE open' \subseteq open
    BY <1>5
  <1>6. QED
    BY <1>1, <1>2, <1>3, <1>4, <1>5, MonitorFrame
    DEF StartPass, KeepOpen, WriteTrade, WriteSilo, WriteBreaker, PublishOutcome,
        PublishFails, WriteTradeFails, WriteSiloFails, WriteBreakerFails,
        AbortPass, FinishScan, EndPass

\* Neither a crash nor a failing QuestDB write: such a step makes nothing
\* bookable.
LEMMA BookableShrinks ==
  ASSUME TypeOK, [Next]_vars, ~Crash, ~AbortPass, NEW i \in Ids, Bookable(i)'
  PROVE  Bookable(i)
  <1> USE DEF Bookable
  <1>1. CASE i > last'
    BY <1>1, StreamType DEF TypeOK, StreamOK, Ids
  <1>2. CASE InHand(i)'
    BY <1>2, HandShrinks
  <1>3. CASE i \in open' \ resolved' /\ i # mcur'
    <2>1. CASE OpenPosition /\ i = cur
      BY <2>1 DEF OpenPosition, InHand, Ids
    <2>2. CASE Restart /\ i \in Stored
      BY <2>2 DEF Restart
    <2>3. CASE i \in open
      <3>1. i \notin resolved /\ i # mcur
        <4> USE <1>3 DEF TypeOK, MonitorOK, NoPos, Ids
        <4>1. CASE StartPass \/ FinishScan \/ EndPass
          BY <4>1 DEF StartPass, FinishScan, EndPass, LockFree
        <4>2. CASE PublishOutcome \/ PublishFails
          BY <4>2 DEF PublishOutcome, PublishFails, BackToScan
        <4>3. CASE OpenPosition \/ WriteSilo \/ WriteBreaker \/ Restart
          BY <4>3 DEF OpenPosition, WriteSilo, WriteBreaker, Restart, monitorVars
        <4>4. ASSUME NEW j \in Ids,
                     KeepOpen(j) \/ WriteTrade(j) \/ RemoveResolved(j) \/ RemoveFails(j)
              PROVE  i \notin resolved /\ i # mcur
          BY <4>4 DEF KeepOpen, WriteTrade, RemoveResolved, RemoveFails
        <4>5. CASE UNCHANGED <<open, monitorVars>>
          BY <4>5 DEF monitorVars
        <4>6. QED
          BY <4>1, <4>2, <4>3, <4>4, <4>5, MonitorFrame
          DEF WriteTradeFails, WriteSiloFails, WriteBreakerFails
      <3>2. QED
        BY <2>3, <3>1
    <2>4. QED
      BY <1>3, <2>1, <2>2, <2>3, OpenGrows
  <1>4. CASE ~up' /\ (i \in Stored)'
    <2>1. ~up /\ UNCHANGED hash
      BY <1>4, HashFrame, ProcessFrame
      DEF TypeOK, ProcessOK, PersistPosition, RemoveResolved, WriteBack, Restart,
          RestartBlind, PublishTaken, PriceMoves, ReadFails, RemoveFails,
          PersistFails, AckFails, PublishFails, WriteBackFails, vars, faultVars
    <2>2. QED
      BY <1>4, <2>1 DEF Stored
  <1>5. QED
    BY <1>1, <1>2, <1>3, <1>4

\* A step books at most one trade, of a position that was bookable.
LEMMA OneBooking ==
  ASSUME TypeOK, [Next]_vars, NEW i \in Ids
  PROVE  \/ d03'[i] = d03[i]
         \/ d03'[i] = d03[i] + 1 /\ Bookable(i) /\ (WriteTrade(i) \/ AbortPass)
  <1>1. d03 \in [Ids -> Nat]
    BY DEF TypeOK, LedgerOK
  <1>2. ASSUME NEW j \in Ids, WriteTrade(j) \/ WriteTradeFails(j)
        PROVE  \/ d03'[i] = d03[i]
               \/ i = j /\ d03'[i] = d03[i] + 1
    BY <1>1, <1>2 DEF WriteTrade, WriteTradeFails
  <1>3. ASSUME WriteTrade(i) \/ WriteTradeFails(i)
        PROVE  Bookable(i) /\ (WriteTrade(i) \/ AbortPass)
    BY <1>3 DEF WriteTrade, WriteTradeFails, Unvisited, Bookable, TypeOK,
                MonitorOK, NoPos, Ids
  <1>4. CASE UNCHANGED d03
    BY <1>4
  <1>5. QED
    BY <1>2, <1>3, <1>4, LedgerFrame
    DEF WriteSilo, WriteSiloFails, WriteBreaker, WriteBreakerFails,
        PublishOutcome, PublishFails, ledgerVars

\* Only a crash and a failing QuestDB write use these two budgets.
LEMMA FaultCount ==
  ASSUME TypeOK, [Next]_vars
  PROVE  \/ (Crash \/ AbortPass) /\ crashes' + dbFails' = crashes + dbFails + 1
         \/ crashes' = crashes /\ dbFails' = dbFails
  <1>1. crashes \in Nat /\ dbFails \in Nat
    BY BoundsAssumption DEF TypeOK, ProcessOK
  <1>2. CASE Crash
    BY <1>1, <1>2 DEF Crash
  <1>3. CASE AbortPass
    BY <1>1, <1>3 DEF AbortPass
  <1>4. QED
    BY <1>2, <1>3, ProcessFrame
    DEF PublishTaken, PriceMoves, ReadFails, RemoveFails, PersistFails, AckFails,
        PublishFails, WriteBackFails, RedisRaises, Restart, RestartBlind, faultVars,
        vars

\* Whatever the step, a booking is paid for: by the position that was bookable,
\* or by the fault that makes it bookable again.
LEMMA BookingsInvStep ==
  ASSUME TypeOK, BookingsInv, [Next]_vars
  PROVE  BookingsInv'
  <1> USE DEF BookingsInv
  <1>1. \A i \in open' : ~InHand(i)'
    <2> SUFFICES ASSUME NEW i \in open', InHand(i)' PROVE FALSE
      OBVIOUS
    <2>1. i \in Ids /\ i \in 1..last'
      BY MonitorType, StreamType, BoundsAssumption DEF MonitorOK, StreamOK, Ids
    <2>2. InHand(i) \/ i > last
      BY <2>1, HandShrinks
    <2>3. CASE i \in open
      BY <2>2, <2>3 DEF TypeOK, MonitorOK, StreamOK
    <2>4. CASE OpenPosition /\ i = cur
      BY <2>4 DEF OpenPosition, InHand, TypeOK, ListenerOK, StreamOK
    <2>5. CASE Restart /\ i \in Stored
      BY <2>5 DEF Restart, InHand, listenerVars, TypeOK, ProcessOK
    <2>6. QED
      BY <2>3, <2>4, <2>5, OpenGrows
  <1>2. ASSUME NEW i \in Ids
        PROVE  d03'[i] + (IF Bookable(i)' THEN 1 ELSE 0) <= 1 + crashes' + dbFails'
    <2> DEFINE room == IF Bookable(i) THEN 1 ELSE 0
               room2 == IF Bookable(i)' THEN 1 ELSE 0
    <2>1. /\ d03[i] \in Nat /\ crashes \in Nat /\ dbFails \in Nat
          /\ d03'[i] \in Nat /\ crashes' \in Nat /\ dbFails' \in Nat
      BY BoundsAssumption, LedgerType, ProcessType
      DEF TypeOK, LedgerOK, ProcessOK
    <2>2. d03[i] + room <= 1 + crashes + dbFails
      OBVIOUS
    <2>3. d03'[i] <= d03[i] + room
      BY <2>1, OneBooking
    <2>4. CASE Crash \/ AbortPass
      <3>1. CASE Crash
        <4>1. crashes' = crashes + 1 /\ dbFails' = dbFails
          BY <3>1 DEF Crash
        <4>2. room \in 0..1 /\ room2 \in 0..1
          OBVIOUS
        <4>3. d03'[i] + room2 <= 1 + crashes' + dbFails'
          BY <2>1, <2>2, <2>3, <4>1, <4>2
        <4>4. QED
          BY <4>3
      <3>2. CASE AbortPass
        <4>1. dbFails' = dbFails + 1 /\ crashes' = crashes
          BY <3>2 DEF AbortPass
        <4>2. room \in 0..1 /\ room2 \in 0..1
          OBVIOUS
        <4>3. d03'[i] + room2 <= 1 + crashes' + dbFails'
          BY <2>1, <2>2, <2>3, <4>1, <4>2
        <4>4. QED
          BY <4>3
      <3>3. QED
        BY <2>4, <3>1, <3>2
    <2>5. CASE ~Crash /\ ~AbortPass
      <3>1. crashes' = crashes /\ dbFails' = dbFails
        BY <2>5, FaultCount
      <3>2. room2 <= room
        BY <2>5, BookableShrinks
      <3>3. CASE d03'[i] = d03[i]
        BY <2>1, <2>2, <3>1, <3>2, <3>3
      <3>4. CASE WriteTrade(i) /\ d03'[i] = d03[i] + 1 /\ Bookable(i)
        <4>1. ~Bookable(i)'
          BY <3>4 DEF WriteTrade, Unvisited, Bookable, InHand, streamVars,
                      listenerVars, TypeOK, StreamOK, MonitorOK, NoPos, Ids
        <4>2. QED
          BY <2>1, <2>2, <3>1, <3>4, <4>1
      <3>5. QED
        BY <2>5, <3>3, <3>4, OneBooking
    <2>6. QED
      BY <2>4, <2>5
  <1>3. QED
    BY <1>1, <1>2

\* Each crash and each failing QuestDB write costs a position at most one
\* booking too many, for any number of positions, threads' steps and faults.
THEOREM BookingsBounded == Spec => []BookingsBoundedByFaults
  <1>1. Init => BookingsInv
    BY DEF Init, BookingsInv, Ids
  <1>2. TypeOK /\ BookingsInv /\ [Next]_vars => BookingsInv'
    BY BookingsInvStep
  <1>3. TypeOK /\ BookingsInv => BookingsBoundedByFaults
    BY BoundsAssumption
    DEF BookingsInv, BookingsBoundedByFaults, TypeOK, LedgerOK, ProcessOK
  <1>4. QED
    BY <1>1, <1>2, <1>3, TypeCorrect, PTL DEF Spec

-----------------------------------------------------------------------------
(* The order of the books.                                                 *)

\* The inductive invariant: while a position is in resolve_position, the book
\* that is next is one behind the book that was written last.
BooksInv ==
    /\ BooksInOrder
    /\ mpc = "silo" => d16[mcur] < d03[mcur]
    /\ mpc = "breaker" => d23[mcur] < d16[mcur]
    /\ mpc = "publish" =>
          /\ out[mcur] < d23[mcur] + redisFails
          /\ out[mcur] + (Attempts - tries) <= Attempts * d23[mcur]

\* What raises is counted once, and no count is given back.
LEMMA RedisCount ==
  ASSUME TypeOK, [Next]_vars
  PROVE  /\ redisFails \in Nat /\ redisFails' \in Nat
         /\ redisFails' = redisFails \/ (RedisRaises /\ redisFails' = redisFails + 1)
  <1>1. redisFails \in Nat
    BY BoundsAssumption DEF TypeOK, ProcessOK
  <1>2. RedisRaises => redisFails' = redisFails + 1
    BY DEF RedisRaises
  <1>3. redisFails' = redisFails \/ RedisRaises
    BY ProcessFrame
    DEF PublishTaken, PriceMoves, ReadFails, RemoveFails, PersistFails, AckFails,
        PublishFails, WriteBackFails, Crash, Restart, RestartBlind, AbortPass,
        faultVars, vars
  <1>4. QED
    BY <1>1, <1>2, <1>3

\* Each booking in the breaker entitles to that many entries more.
LEMMA EntriesPerLoss ==
  ASSUME NEW n \in Nat
  PROVE  /\ Attempts * n \in Nat /\ Attempts * (n + 1) = Attempts * n + Attempts
         /\ Attempts * 0 = 0 /\ n <= Attempts * n
  <1>1. PICK a \in Nat \ {0} : a = Attempts
    BY BoundsAssumption
  <1>2. a * n \in Nat /\ a * (n + 1) = a * n + a /\ a * 0 = 0 /\ n <= a * n
    BY <1>1
  <1>3. QED
    BY <1>1, <1>2

\* No step, fault or restart breaks the order of the books.
LEMMA BooksInvStep ==
  ASSUME TypeOK, BooksInv, [Next]_vars
  PROVE  BooksInv'
  <1> USE DEF BooksInv, BooksInOrder, TypeOK, LedgerOK
  <1>1. mpc \in {"silo", "breaker", "publish"} => mcur \in Ids
    BY BoundsAssumption DEF MonitorOK, StreamOK, Ids
  <1>0. redisFails \in Nat /\ redisFails' \in Nat /\ redisFails <= redisFails'
    BY RedisCount
  <1>2. ASSUME NEW i \in Ids, WriteTrade(i) PROVE BooksInv'
    BY <1>0, <1>2 DEF WriteTrade
  <1>3. CASE WriteSilo
    BY <1>0, <1>1, <1>3 DEF WriteSilo
  <1>4. CASE WriteBreaker
    <2>1. /\ mcur \in Ids /\ tries = 0 /\ UNCHANGED <<d03, d16, out, mcur, tries>>
          /\ d23' = [d23 EXCEPT ![mcur] = @ + 1] /\ mpc' = "publish"
          /\ d23[mcur] < d16[mcur]
      BY <1>1, <1>4 DEF WriteBreaker, MonitorOK
    <2>2. /\ d23[mcur] \in Nat /\ out[mcur] \in Nat /\ d16[mcur] \in Nat
          /\ d23'[mcur] = d23[mcur] + 1
          /\ \A i \in Ids : i # mcur => d23'[i] = d23[i]
      BY <2>1
    <2>3. /\ Attempts * d23'[mcur] = Attempts * d23[mcur] + Attempts
          /\ Attempts * d23[mcur] \in Nat /\ Attempts \in Nat
      BY <2>2, EntriesPerLoss, BoundsAssumption
    <2>4. /\ out'[mcur] < d23'[mcur] + redisFails'
          /\ out'[mcur] + (Attempts - tries') <= Attempts * d23'[mcur]
      <3>1. out[mcur] <= d23[mcur] + redisFails /\ out[mcur] <= Attempts * d23[mcur]
        BY <2>1
      <3>2. QED
        BY <1>0, <2>1, <2>2, <2>3, <3>1
    <2>5. d23'[mcur] <= d16'[mcur]
      BY <2>1, <2>2
    <2>6. ASSUME NEW i \in Ids
          PROVE  /\ d23'[i] <= d16'[i] /\ d16'[i] <= d03'[i]
                 /\ out'[i] <= d23'[i] + redisFails' /\ out'[i] <= Attempts * d23'[i]
      <3>1. CASE i = mcur
        <4>1. d16'[i] <= d03'[i]
          BY <2>1
        <4>2. /\ out'[mcur] <= d23'[mcur] + redisFails'
              /\ out'[mcur] <= Attempts * d23'[mcur]
          BY <1>0, <2>1, <2>2, <2>3, <2>4, BoundsAssumption
        <4>3. QED
          BY <2>5, <3>1, <4>1, <4>2
      <3>2. CASE i # mcur
        <4>1. /\ d23'[i] = d23[i] /\ d16'[i] = d16[i] /\ d03'[i] = d03[i]
              /\ out'[i] = out[i] /\ d23[i] \in Nat /\ out[i] \in Nat
          BY <2>1, <2>2, <3>2
        <4>2. /\ d23[i] <= d16[i] /\ d16[i] <= d03[i]
              /\ out[i] <= d23[i] + redisFails /\ out[i] <= Attempts * d23[i]
          OBVIOUS
        <4>3. QED
          BY <1>0, <4>1, <4>2
      <3>3. QED
        BY <3>1, <3>2
    <2>7. QED
      BY <2>1, <2>4, <2>6
  <1>5. CASE PublishOutcome
    <2>1. /\ mcur \in Ids /\ tries \in 0..(Attempts - 1) /\ mpc' = "scan"
          /\ UNCHANGED <<d03, d16, d23>> /\ out' = [out EXCEPT ![mcur] = @ + 1]
      BY <1>1, <1>5 DEF PublishOutcome, BackToScan, MonitorOK
    <2>2. out[mcur] \in Nat /\ d23[mcur] \in Nat /\ out'[mcur] = out[mcur] + 1
      BY <2>1
    <2>3. /\ out[mcur] < d23[mcur] + redisFails
          /\ out[mcur] + (Attempts - tries) <= Attempts * d23[mcur]
      BY <1>5 DEF PublishOutcome
    <2>4. /\ out'[mcur] <= d23[mcur] + redisFails'
          /\ out'[mcur] <= Attempts * d23[mcur]
      BY <1>0, <2>1, <2>2, <2>3, EntriesPerLoss, BoundsAssumption
    <2>5. \A i \in Ids : i # mcur => out'[i] = out[i]
      BY <2>1
    <2>6. QED
      BY <1>0, <2>1, <2>4, <2>5
  <1>6. ASSUME NEW i \in Ids, WriteTradeFails(i) PROVE BooksInv'
    BY <1>0, <1>6 DEF WriteTradeFails, AbortPass
  <1>7. CASE WriteSiloFails
    BY <1>0, <1>1, <1>7 DEF WriteSiloFails, AbortPass
  <1>8. CASE WriteBreakerFails
    <2>1. /\ mcur \in Ids /\ mpc' = "idle" /\ UNCHANGED <<d03, d16, out>>
          /\ d23' \in {d23, [d23 EXCEPT ![mcur] = @ + 1]} /\ d23[mcur] < d16[mcur]
      BY <1>1, <1>8 DEF WriteBreakerFails, AbortPass
    <2>2. ASSUME NEW i \in Ids
          PROVE  /\ d23'[i] <= d16[i] /\ d23[i] \in Nat
                 /\ d23'[i] \in {d23[i], d23[i] + 1}
      BY <2>1
    <2>3. ASSUME NEW i \in Ids
          PROVE  out[i] <= d23'[i] + redisFails' /\ out[i] <= Attempts * d23'[i]
      <3>1. out[i] \in Nat /\ out[i] <= d23[i] + redisFails /\ out[i] <= Attempts * d23[i]
        OBVIOUS
      <3>2. Attempts * d23[i] <= Attempts * d23'[i]
        BY <2>2, EntriesPerLoss, BoundsAssumption
      <3>3. Attempts * d23[i] \in Nat /\ Attempts * d23'[i] \in Nat
        BY <2>2, EntriesPerLoss
      <3>4. QED
        BY <1>0, <2>2, <3>1, <3>2, <3>3
    <2>4. QED
      BY <2>1, <2>2, <2>3
  <1>9. CASE UNCHANGED ledgerVars /\ mpc' \in {"idle", "scan", "remove"}
    BY <1>0, <1>9 DEF ledgerVars
  <1>10. CASE UNCHANGED <<ledgerVars, mpc, mcur, tries>>
    <2>1. \A i \in Ids : out[i] \in Nat /\ d23[i] \in Nat
      OBVIOUS
    <2>2. mpc = "publish" => out'[mcur] < d23'[mcur] + redisFails'
      BY <1>0, <1>1, <1>10, <2>1 DEF ledgerVars
    <2>3. \A i \in Ids : out'[i] <= d23'[i] + redisFails'
      BY <1>0, <1>10, <2>1 DEF ledgerVars
    <2>4. QED
      BY <1>10, <2>2, <2>3 DEF ledgerVars
  <1>11. CASE PublishFails
    <2>1. /\ mpc = "publish" /\ mcur \in Ids /\ tries \in 0..(Attempts - 1)
          /\ UNCHANGED <<d03, d16, d23>>
          /\ out' \in {out, [out EXCEPT ![mcur] = @ + 1]}
          /\ redisFails' = redisFails + 1
      BY <1>1, <1>11 DEF PublishFails, RedisRaises, MonitorOK
    <2>2. mpc' = "scan" \/ (mpc' = "publish" /\ mcur' = mcur /\ tries' = tries + 1)
      BY <1>11, <2>1 DEF PublishFails, BackToScan
    <2>3. /\ out[mcur] \in Nat /\ d23[mcur] \in Nat
          /\ out'[mcur] \in {out[mcur], out[mcur] + 1}
          /\ Attempts * d23[mcur] \in Nat /\ Attempts \in Nat
      BY <2>1, EntriesPerLoss, BoundsAssumption
    <2>4. /\ out[mcur] < d23[mcur] + redisFails
          /\ out[mcur] + (Attempts - tries) <= Attempts * d23[mcur]
      BY <2>1
    <2>5. /\ out'[mcur] < d23[mcur] + redisFails'
          /\ out'[mcur] + (Attempts - (tries + 1)) <= Attempts * d23[mcur]
          /\ out'[mcur] <= d23[mcur] + redisFails' /\ out'[mcur] <= Attempts * d23[mcur]
      BY <1>0, <2>1, <2>3, <2>4
    <2>6. \A i \in Ids : i # mcur => out'[i] = out[i] /\ out[i] \in Nat /\ d23[i] \in Nat
      BY <2>1
    <2>7. \A i \in Ids : /\ d23'[i] <= d16'[i] /\ d16'[i] <= d03'[i]
                         /\ out'[i] <= d23'[i] + redisFails'
                         /\ out'[i] <= Attempts * d23'[i]
      BY <1>0, <2>1, <2>5, <2>6
    <2>8. QED
      BY <2>1, <2>2, <2>5, <2>7
  <1>12. QED
    BY <1>2, <1>3, <1>4, <1>5, <1>6, <1>7, <1>8, <1>9, <1>10, <1>11, LedgerFrame,
       MonitorFrame
    DEF OpenPosition, StartPass, KeepOpen, BackToScan, FinishScan,
        RemoveResolved, RemoveFails, EndPass, Crash, Restart, monitorVars

\* No interleaving, failure or restart reverses the order of the books.
THEOREM BooksAreInOrder == Spec => []BooksInOrder
  <1>1. Init => BooksInv
    BY EntriesPerLoss DEF Init, BooksInv, BooksInOrder
  <1>2. TypeOK /\ BooksInv /\ [Next]_vars => BooksInv'
    BY BooksInvStep
  <1>3. BooksInv => BooksInOrder
    BY DEF BooksInv
  <1>4. QED
    BY <1>1, <1>2, <1>3, TypeCorrect, PTL DEF Spec

-----------------------------------------------------------------------------
(* Durability.                                                             *)

Alone(i) == OnlyTakenOfItsSignal(i)

\* The inductive invariant: unless a Redis call failed, an open position is in
\* the hash once the listener has persisted it, what the pass will remove is in
\* all books, and so is an acknowledged position that is no longer in the hash.
DurableInv ==
  redisFails = 0 =>
    /\ \A i \in open : Alone(i) /\ ~(i = cur /\ lpc = "persist") => hash[log[i]] = i
    /\ \A i \in resolved : Booked(i)
    /\ \A i \in Ids : Alone(i) /\ (Acked(i) \/ (lpc = "ack" /\ i = cur))
                        => hash[log[i]] = i \/ Booked(i)

\* The budget of failing Redis calls is never given back.
LEMMA NoRedisFail ==
  ASSUME TypeOK, [Next]_vars, redisFails' = 0
  PROVE  /\ redisFails = 0
         /\ ~ReadFails /\ ~PersistFails /\ ~AckFails /\ ~PublishFails
         /\ ~RestartBlind /\ \A i \in Ids : ~RemoveFails(i)
         /\ \A s \in Signals : ~WriteBackFails(s)
  <1>1. redisFails = 0 /\ ~RedisRaises
    BY RedisCount DEF RedisRaises
  <1>2. QED
    BY <1>1 DEF ReadFails, PersistFails, AckFails, PublishFails, WriteBackFails,
                RestartBlind, RemoveFails

\* A delivered entry that is alone now was alone before.
LEMMA AloneBefore ==
  ASSUME TypeOK, [Next]_vars, NEW i \in 1..last, Alone(i)'
  PROVE  Alone(i) /\ log'[i] = log[i] /\ log[i] \in Signals
  <1>1. /\ log \in Seq(Signals) /\ last \in 0..Len(log) /\ log'[i] = log[i]
        /\ i \in 1..Len(log)
    BY StreamType DEF TypeOK, StreamOK
  <1>2. 1..Len(log) \subseteq 1..Len(log') /\ \A k \in 1..Len(log) : log'[k] = log[k]
    <2>1. ASSUME NEW s \in Signals, PublishTaken(s)
          PROVE  1..Len(log) \subseteq 1..Len(log') /\ \A k \in 1..Len(log) : log'[k] = log[k]
      BY <1>1, <2>1 DEF PublishTaken
    <2>2. CASE UNCHANGED log
      BY <2>2
    <2>3. QED
      BY <2>1, <2>2, StreamFrame
      DEF ReadBatch, ReadFails, AckTaken, AckFails, streamVars
  <1>3. QED
    BY <1>1, <1>2 DEF Alone, OnlyTakenOfItsSignal

\* What is in all books stays there.
LEMMA BookedStays ==
  ASSUME TypeOK, [Next]_vars, NEW i \in Ids, Booked(i)
  PROVE  Booked(i)'
  <1> USE DEF TypeOK, LedgerOK, Booked
  <1>1. mpc \in {"silo", "breaker", "publish"} => mcur \in Ids
    BY BoundsAssumption DEF MonitorOK, StreamOK, Ids
  <1>2. ASSUME NEW j \in Ids, WriteTrade(j) \/ WriteTradeFails(j) PROVE Booked(i)'
    BY <1>2 DEF WriteTrade, WriteTradeFails
  <1>3. CASE WriteSilo \/ WriteSiloFails
    BY <1>1, <1>3 DEF WriteSilo, WriteSiloFails
  <1>4. CASE WriteBreaker \/ WriteBreakerFails
    BY <1>1, <1>4 DEF WriteBreaker, WriteBreakerFails
  <1>5. CASE PublishOutcome \/ PublishFails
    BY <1>1, <1>5 DEF PublishOutcome, PublishFails
  <1>6. CASE UNCHANGED ledgerVars
    BY <1>6 DEF ledgerVars
  <1>7. QED
    BY <1>2, <1>3, <1>4, <1>5, <1>6, LedgerFrame

\* The field of a position that is alone is written only with that position, and
\* cleared only when it is removed.
LEMMA FieldStays ==
  ASSUME TypeOK, [Next]_vars, redisFails' = 0,
         NEW i \in 1..last, Alone(i), hash[log[i]] = i
  PROVE  hash'[log[i]] = i \/ RemoveResolved(i)
  <1>1. /\ log[i] \in Signals /\ hash \in [Signals -> 0..MaxTaken]
        /\ \A j \in 1..last : log[j] = log[i] => j = i
    BY DEF TypeOK, StreamOK, SlotOK, Alone, OnlyTakenOfItsSignal
  <1>2. CASE PersistPosition
    <2>1. cur \in 1..last
      BY <1>2 DEF PersistPosition, TypeOK, ListenerOK, StreamOK
    <2>2. QED
      BY <1>1, <1>2, <2>1 DEF PersistPosition
  <1>3. ASSUME NEW s \in Signals, WriteBack(s) PROVE hash'[log[i]] = i
    <2>1. ucb[s] \in 1..last /\ log[ucb[s]] = s
      BY <1>3 DEF WriteBack, TypeOK, SlotOK
    <2>2. QED
      BY <1>1, <1>3, <2>1 DEF WriteBack
  <1>4. ASSUME NEW j \in Ids, RemoveResolved(j)
        PROVE  hash'[log[i]] = i \/ RemoveResolved(i)
    <2>1. j \in 1..last
      BY <1>4 DEF RemoveResolved, TypeOK, MonitorOK
    <2>2. QED
      BY <1>1, <1>4, <2>1 DEF RemoveResolved
  <1>5. QED
    BY <1>2, <1>3, <1>4, HashFrame, NoRedisFail

\* An open position keeps its field, gets it from the listener, or was found in it.
LEMMA OpenKept ==
  ASSUME TypeOK, DurableInv, [Next]_vars, redisFails' = 0,
         NEW i \in open', Alone(i)', ~(i = cur' /\ lpc' = "persist")
  PROVE  hash'[log'[i]] = i
  <1>1. i \in 1..last
    <2>1. CASE i \in open
      BY <2>1 DEF TypeOK, MonitorOK
    <2>2. CASE OpenPosition /\ i = cur
      BY <2>2 DEF OpenPosition, TypeOK, ListenerOK, StreamOK
    <2>3. CASE i \in Stored
      BY <2>3 DEF Stored, TypeOK, SlotOK
    <2>4. QED
      BY <2>1, <2>2, <2>3, OpenGrows
  <1>2. Alone(i) /\ log'[i] = log[i] /\ redisFails = 0 /\ log[i] \in Signals
    BY <1>1, AloneBefore, NoRedisFail
  <1>3. CASE PersistPosition /\ i = cur
    BY <1>2, <1>3 DEF PersistPosition, TypeOK, SlotOK
  <1>4. CASE Restart /\ i \in Stored
    <2>1. PICK s \in Signals : hash[s] = i /\ i # NoPos
      BY <1>4 DEF Stored
    <2>2. log[i] = s
      BY <2>1 DEF TypeOK, SlotOK
    <2>3. QED
      BY <1>2, <1>4, <2>1, <2>2 DEF Restart
  <1>5. CASE OpenPosition /\ i = cur
    BY <1>5 DEF OpenPosition
  <1>6. CASE i \in open /\ ~(PersistPosition /\ i = cur)
    <2>1. ~(i = cur /\ lpc = "persist")
      <3>1. ~Crash
        BY <1>6 DEF Crash
      <3>2. QED
        BY <1>6, <3>1, NoRedisFail, ListenerFrame
        DEF ReadBatch, OpenPosition, AckTaken, listenerVars
    <2>2. hash[log[i]] = i
      BY <1>2, <1>6, <2>1 DEF DurableInv
    <2>3. ~RemoveResolved(i)
      BY DEF RemoveResolved
    <2>4. QED
      BY <1>1, <1>2, <2>2, <2>3, FieldStays
  <1>7. QED
    BY <1>3, <1>4, <1>5, <1>6, OpenGrows

\* The list `resolved` gets a position whose outcome was published.
LEMMA ResolvedKept ==
  ASSUME TypeOK, BooksInv, DurableInv, [Next]_vars, redisFails' = 0, NEW i \in resolved'
  PROVE  Booked(i)'
  <1>1. redisFails = 0 /\ ~PublishFails
    BY NoRedisFail
  <1>2. CASE i \in resolved
    <2>1. i \in Ids
      BY <1>2, BoundsAssumption DEF TypeOK, MonitorOK, StreamOK, Ids
    <2>2. QED
      BY <1>1, <1>2, <2>1, BookedStays DEF DurableInv
  <1>3. CASE PublishOutcome /\ i = mcur
    <2>1. mcur \in Ids
      BY <1>3, BoundsAssumption DEF PublishOutcome, TypeOK, MonitorOK, StreamOK, Ids
    <2>2. /\ out[i] \in Nat /\ d23[i] \in Nat /\ d16[i] \in Nat /\ d03[i] \in Nat
          /\ out \in [Ids -> Nat]
      BY <1>3, <2>1 DEF TypeOK, LedgerOK
    <2>3. out[i] < d23[i] /\ d23[i] <= d16[i] /\ d16[i] <= d03[i]
      BY <1>1, <1>3, <2>1, <2>2 DEF PublishOutcome, BooksInv, BooksInOrder
    <2>4. out'[i] = out[i] + 1 /\ UNCHANGED <<d03, d16, d23>>
      BY <1>3, <2>1, <2>2 DEF PublishOutcome
    <2>5. QED
      BY <2>2, <2>3, <2>4 DEF Booked
  <1>4. i \in resolved \/ (PublishOutcome /\ i = mcur)
    BY <1>1, MonitorFrame
    DEF OpenPosition, StartPass, KeepOpen, WriteTrade, WriteSilo, WriteBreaker,
        PublishOutcome, BackToScan, WriteTradeFails, WriteSiloFails,
        WriteBreakerFails, AbortPass, FinishScan, RemoveResolved, RemoveFails,
        EndPass, Crash, Restart, monitorVars
  <1>5. QED
    BY <1>2, <1>3, <1>4

\* An entry is acknowledged after it was persisted, and leaves the hash only booked.
LEMMA AckedKept ==
  ASSUME TypeOK, DurableInv, [Next]_vars, redisFails' = 0, NEW i \in Ids, Alone(i)',
         Acked(i)' \/ (lpc' = "ack" /\ i = cur')
  PROVE  hash'[log'[i]] = i \/ Booked(i)'
  <1> USE DEF TypeOK, StreamOK, ListenerOK
  <1>1. redisFails = 0 /\ ~ReadFails /\ ~PersistFails /\ ~AckFails
    BY NoRedisFail
  <1>2. \/ Acked(i) \/ (lpc = "ack" /\ i = cur)
        \/ PersistPosition /\ i = cur
    <2>1. CASE Acked(i)'
      <3>1. CASE ReadBatch
        BY <2>1, <3>1 DEF ReadBatch, Acked
      <3>2. CASE AckTaken
        BY <2>1, <3>2 DEF AckTaken, Acked
      <3>3. ASSUME NEW s \in Signals, PublishTaken(s) PROVE Acked(i)
        BY <2>1, <3>3 DEF PublishTaken, Acked
      <3>4. CASE UNCHANGED streamVars
        BY <2>1, <3>4 DEF streamVars, Acked
      <3>5. QED
        BY <1>1, <3>1, <3>2, <3>3, <3>4, StreamFrame
    <2>2. CASE lpc' = "ack" /\ i = cur'
      BY <1>1, <2>2, ListenerFrame
      DEF ReadBatch, OpenPosition, PersistPosition, AckTaken, NextOfBatch, Crash,
          listenerVars
    <2>3. QED
      BY <2>1, <2>2
  <1>3. i \in 1..last
    BY <1>2 DEF Acked, PersistPosition
  <1>4. Alone(i) /\ log'[i] = log[i] /\ log[i] \in Signals
    BY <1>3, AloneBefore
  <1>5. CASE PersistPosition /\ i = cur
    BY <1>4, <1>5 DEF PersistPosition, SlotOK
  <1>6. CASE Booked(i)
    BY <1>6, BookedStays
  <1>7. CASE hash[log[i]] = i
    <2>1. RemoveResolved(i) => Booked(i)
      BY <1>1 DEF RemoveResolved, DurableInv
    <2>2. QED
      BY <1>3, <1>4, <1>6, <1>7, <2>1, FieldStays
  <1>8. QED
    BY <1>1, <1>2, <1>4, <1>5, <1>6, <1>7 DEF DurableInv

LEMMA Durable == Spec => []DurableInv
  <1>1. Init => DurableInv
    BY DEF Init, DurableInv, Acked
  <1>2. TypeOK /\ BooksInv /\ DurableInv /\ [Next]_vars => DurableInv'
    <2> SUFFICES ASSUME TypeOK, BooksInv, DurableInv, [Next]_vars, redisFails' = 0
                 PROVE  DurableInv'
      BY DEF DurableInv
    <2>1. QED
      BY OpenKept, ResolvedKept, AckedKept DEF DurableInv
  <1>3. Init => BooksInv
    BY EntriesPerLoss DEF Init, BooksInv, BooksInOrder
  <1>4. TypeOK /\ BooksInv /\ [Next]_vars => BooksInv'
    BY BooksInvStep
  <1>5. QED
    BY <1>1, <1>2, <1>3, <1>4, TypeCorrect, PTL DEF Spec

\* An acknowledged TAKEN is in the Redis hash until its trade is in every book, for
\* any number of positions and any crashes and failing QuestDB writes.
THEOREM AckedSurvives == Spec => []AckedIsDurable
  <1>1. DurableInv => AckedIsDurable
    BY DEF DurableInv, AckedIsDurable, Alone
  <1>2. QED
    BY <1>1, Durable, PTL

\* What Online watches it would still watch after a crash at this very moment.
THEOREM MemorySurvives == Spec => []MemoryIsRecoverable
  <1>1. DurableInv => MemoryIsRecoverable
    BY DEF DurableInv, MemoryIsRecoverable, Alone
  <1>2. QED
    BY <1>1, Durable, PTL

-----------------------------------------------------------------------------
(* Exactly once.                                                           *)

FaultFree == crashes + dbFails + redisFails = 0

\* still to be booked, but for the position in resolve_position
Due(i) == i > last \/ InHand(i) \/ i \in open \ resolved

Copies(i, trade, capital, loss, outcome) ==
    d03[i] = trade /\ d16[i] = capital /\ d23[i] = loss /\ out[i] = outcome

\* The inductive invariant: without faults a position is in no book while it is
\* due, in one more with each step of resolve_position, and in each of them after.
ExactInv ==
  FaultFree =>
    /\ up
    /\ mpc = "silo" => Copies(mcur, 1, 0, 0, 0)
    /\ mpc = "breaker" => Copies(mcur, 1, 1, 0, 0)
    /\ mpc = "publish" => Copies(mcur, 1, 1, 1, 0)
    /\ \A i \in Ids : i # mcur =>
          IF Due(i) THEN Copies(i, 0, 0, 0, 0) ELSE Copies(i, 1, 1, 1, 1)

LEMMA SumOfNone ==
  ASSUME NEW a \in Nat, NEW b \in Nat, NEW c \in Nat, a + b + c = 0
  PROVE  a = 0 /\ b = 0 /\ c = 0
  OBVIOUS

\* A behaviour that is free of faults has taken none of their steps.
LEMMA NoFault ==
  ASSUME TypeOK, [Next]_vars, FaultFree'
  PROVE  FaultFree /\ ~Crash /\ ~AbortPass /\ redisFails' = 0
  <1>1. /\ crashes \in Nat /\ dbFails \in Nat /\ redisFails \in Nat
        /\ crashes' \in Nat /\ dbFails' \in Nat /\ redisFails' \in Nat
    BY BoundsAssumption, ProcessType DEF TypeOK, ProcessOK
  <1>2. crashes' = 0 /\ dbFails' = 0 /\ redisFails' = 0
    <2>1. crashes' + dbFails' + redisFails' = 0
      BY DEF FaultFree
    <2>2. QED
      BY <1>1, <2>1, SumOfNone
  <1>3. ~Crash /\ ~AbortPass
    BY <1>1, <1>2 DEF Crash, AbortPass
  <1>4. crashes = 0 /\ dbFails = 0 /\ redisFails = 0
    BY <1>2, <1>3, FaultCount, NoRedisFail
  <1>5. QED
    BY <1>2, <1>3, <1>4 DEF FaultFree

\* Without faults a position becomes due in no step, and is no longer due only when
\* its trade is being written or its outcome was published.
LEMMA DueKept ==
  ASSUME TypeOK, BookingsInv, ExactInv, [Next]_vars, FaultFree', NEW i \in Ids,
         i # mcur, i # mcur'
  PROVE  Due(i)' <=> Due(i)
  <1> USE DEF TypeOK, StreamOK, ListenerOK, MonitorOK, Ids, NoPos
  <1>0. /\ up /\ ~Crash /\ ~AbortPass /\ ~PublishFails
        /\ ~ReadFails /\ ~PersistFails /\ ~AckFails
        /\ \A j \in Ids : ~RemoveFails(j)
    BY NoFault, NoRedisFail DEF ExactInv
  <1>1. CASE ReadBatch
    BY <1>1, BoundsAssumption DEF ReadBatch, Due, InHand, monitorVars
  <1>2. CASE OpenPosition
    BY <1>2 DEF OpenPosition, Due, InHand, streamVars, monitorVars, LockFree
  <1>3. CASE PersistPosition
    BY <1>3 DEF PersistPosition, Due, InHand, streamVars, monitorVars
  <1>4. CASE AckTaken
    BY <1>4 DEF AckTaken, NextOfBatch, Due, InHand, monitorVars
  <1>5. CASE UNCHANGED <<last, listenerVars>>
    <2>1. i > last' <=> i > last
      BY <1>5
    <2>2. InHand(i)' <=> InHand(i)
      BY <1>5 DEF InHand, listenerVars
    <2>3. i \in open' \ resolved' <=> i \in open \ resolved
      <3>1. ASSUME NEW j \in Ids, RemoveResolved(j)
            PROVE  i \in open' \ resolved' <=> i \in open \ resolved
        BY <3>1 DEF RemoveResolved
      <3>2. CASE StartPass
        BY <3>2 DEF StartPass, LockFree
      <3>3. CASE PublishOutcome
        BY <3>3 DEF PublishOutcome, BackToScan
      <3>4. CASE UNCHANGED <<open, resolved>>
        BY <3>4
      <3>5. ~OpenPosition /\ ~Restart
        BY <1>0, <1>5 DEF OpenPosition, Restart, listenerVars
      <3>6. QED
        BY <1>0, <3>1, <3>2, <3>3, <3>4, <3>5, MonitorFrame
        DEF KeepOpen, WriteTrade, WriteSilo, WriteBreaker, WriteTradeFails,
            WriteSiloFails, WriteBreakerFails, FinishScan, EndPass, monitorVars
    <2>4. QED
      BY <2>1, <2>2, <2>3 DEF Due
  <1>6. QED
    BY <1>0, <1>1, <1>2, <1>3, <1>4, <1>5, ListenerFrame, StreamFrame
    DEF PublishTaken, streamVars, listenerVars

\* The books of the other positions are left alone.
LEMMA OthersKept ==
  ASSUME TypeOK, [Next]_vars, NEW i \in Ids, i # mcur, i # mcur', ~AbortPass
  PROVE  d03'[i] = d03[i] /\ d16'[i] = d16[i] /\ d23'[i] = d23[i] /\ out'[i] = out[i]
  <1> USE DEF TypeOK, LedgerOK
  <1>1. ASSUME NEW j \in Ids, WriteTrade(j)
        PROVE  d03'[i] = d03[i] /\ UNCHANGED <<d16, d23, out>>
    BY <1>1 DEF WriteTrade
  <1>2. CASE WriteSilo
    BY <1>2 DEF WriteSilo
  <1>3. CASE WriteBreaker
    BY <1>3 DEF WriteBreaker
  <1>4. CASE PublishOutcome \/ PublishFails
    BY <1>4 DEF PublishOutcome, PublishFails
  <1>5. CASE UNCHANGED ledgerVars
    BY <1>5 DEF ledgerVars
  <1>6. QED
    BY <1>1, <1>2, <1>3, <1>4, <1>5, LedgerFrame
    DEF WriteTradeFails, WriteSiloFails, WriteBreakerFails

\* The position in resolve_position gets its books one by one.
LEMMA ResolutionKept ==
  ASSUME TypeOK, ExactInv, [Next]_vars, FaultFree'
  PROVE  /\ mpc' = "silo" => Copies(mcur, 1, 0, 0, 0)'
         /\ mpc' = "breaker" => Copies(mcur, 1, 1, 0, 0)'
         /\ mpc' = "publish" => Copies(mcur, 1, 1, 1, 0)'
  <1> USE DEF TypeOK, LedgerOK, Copies
  <1>0. FaultFree /\ ~Crash /\ ~AbortPass /\ ~PublishFails
    BY NoFault, NoRedisFail
  <1>1. mpc \in {"silo", "breaker", "publish"} => mcur \in Ids
    BY BoundsAssumption DEF MonitorOK, StreamOK, Ids
  <1>2. ASSUME NEW i \in Ids, WriteTrade(i)
        PROVE  mpc' = "silo" /\ mcur' = i /\ Copies(i, 1, 0, 0, 0)'
    <2>1. i \in open \ resolved /\ i # mcur
      BY <1>2 DEF WriteTrade, Unvisited, MonitorOK, NoPos, Ids
    <2>2. Copies(i, 0, 0, 0, 0)
      BY <1>0, <2>1 DEF ExactInv, Due
    <2>3. QED
      BY <1>2, <2>2 DEF WriteTrade
  <1>3. CASE WriteSilo
    BY <1>0, <1>1, <1>3 DEF WriteSilo, ExactInv
  <1>4. CASE WriteBreaker
    BY <1>0, <1>1, <1>4 DEF WriteBreaker, ExactInv
  <1>5. CASE mpc' \in {"idle", "scan", "remove"}
    BY <1>5
  <1>6. CASE UNCHANGED <<ledgerVars, mpc, mcur>>
    BY <1>0, <1>6 DEF ExactInv, ledgerVars
  <1>7. QED
    BY <1>0, <1>2, <1>3, <1>4, <1>5, <1>6, LedgerFrame, MonitorFrame
    DEF OpenPosition, StartPass, KeepOpen, PublishOutcome, BackToScan, FinishScan,
        RemoveResolved, RemoveFails, EndPass, Restart, WriteTradeFails,
        WriteSiloFails, WriteBreakerFails, AbortPass, monitorVars, ledgerVars

\* When resolve_position is done, its position is in every book and no longer due.
LEMMA DoneIsBooked ==
  ASSUME TypeOK, BookingsInv, ExactInv, [Next]_vars, FaultFree', NEW i \in Ids,
         i = mcur, mcur' # i
  PROVE  ~Due(i)' /\ Copies(i, 1, 1, 1, 1)'
  <1>0. FaultFree /\ ~Crash /\ ~AbortPass /\ ~PublishFails
    BY NoFault, NoRedisFail
  <1>1. mpc \in {"silo", "breaker", "publish"} /\ i \in open /\ i \in 1..last
    BY DEF TypeOK, MonitorOK, StreamOK, Ids, NoPos
  <1>2. PublishOutcome
    BY <1>0, <1>1, MonitorFrame
    DEF OpenPosition, StartPass, KeepOpen, WriteTrade, WriteSilo, WriteBreaker,
        WriteTradeFails, WriteSiloFails, WriteBreakerFails, FinishScan,
        RemoveResolved, RemoveFails, EndPass, Restart, LockFree, monitorVars
  <1>3. ~Due(i)'
    <2>1. ~InHand(i)
      BY <1>1 DEF BookingsInv
    <2>2. last' = last /\ UNCHANGED listenerVars /\ resolved' = resolved \cup {i}
      BY <1>2 DEF PublishOutcome, BackToScan, streamVars
    <2>3. ~(i > last)
      BY <1>1 DEF TypeOK, StreamOK
    <2>4. QED
      BY <2>1, <2>2, <2>3 DEF Due, InHand, listenerVars
  <1>4. Copies(i, 1, 1, 1, 1)'
    BY <1>0, <1>2 DEF PublishOutcome, ExactInv, Copies, TypeOK, LedgerOK
  <1>5. QED
    BY <1>3, <1>4

\* Who is not in resolve_position stays as he was.
LEMMA ExactInvStep ==
  ASSUME TypeOK, BookingsInv, ExactInv, [Next]_vars
  PROVE  ExactInv'
  <1> SUFFICES ASSUME FaultFree' PROVE ExactInv'
    BY DEF ExactInv
  <1>0. FaultFree /\ ~Crash /\ ~AbortPass
    BY NoFault
  <1>1. up'
    BY <1>0, ProcessFrame
    DEF ExactInv, PublishTaken, PriceMoves, ReadFails, RemoveFails, PersistFails, AckFails,
        PublishFails, WriteBackFails, Restart, RestartBlind, vars
  <1>2. ASSUME NEW i \in Ids, i # mcur'
        PROVE  IF Due(i)' THEN Copies(i, 0, 0, 0, 0)' ELSE Copies(i, 1, 1, 1, 1)'
    <2>1. CASE i = mcur
      BY <1>2, <2>1, DoneIsBooked
    <2>2. CASE i # mcur
      <3>1. Due(i)' <=> Due(i)
        BY <1>2, <2>2, DueKept
      <3>2. d03'[i] = d03[i] /\ d16'[i] = d16[i] /\ d23'[i] = d23[i] /\ out'[i] = out[i]
        BY <1>0, <1>2, <2>2, OthersKept
      <3>3. IF Due(i) THEN Copies(i, 0, 0, 0, 0) ELSE Copies(i, 1, 1, 1, 1)
        BY <1>0, <2>2 DEF ExactInv
      <3>4. QED
        BY <3>1, <3>2, <3>3 DEF Copies
    <2>3. QED
      BY <2>1, <2>2
  <1>3. QED
    BY <1>1, <1>2, ResolutionKept DEF ExactInv

\* Without faults each position that is done is in each of the four books once,
\* for any number of positions, however many share a signal.
THEOREM ExactlyOnce == Spec => []FaultFreeExactlyOnce
  <1>1. Init => BookingsInv /\ ExactInv
    <2>1. Init => BookingsInv
      BY DEF Init, BookingsInv, Ids
    <2>2. Init => ExactInv
      BY DEF Init, ExactInv, Due, Copies, Ids
    <2>3. QED
      BY <2>1, <2>2
  <1>2. TypeOK /\ BookingsInv /\ ExactInv /\ [Next]_vars => BookingsInv' /\ ExactInv'
    BY BookingsInvStep, ExactInvStep
  <1>3. TypeOK /\ ExactInv => FaultFreeExactlyOnce
    <2> SUFFICES ASSUME TypeOK, ExactInv, FaultFree, NEW i \in 1..last \ open, ~InHand(i)
                 PROVE  Copies(i, 1, 1, 1, 1)
      BY DEF FaultFreeExactlyOnce, FaultFree, Copies
    <2>1. i \in Ids /\ ~(i > last)
      BY BoundsAssumption DEF TypeOK, StreamOK, Ids
    <2>2. i # mcur
      BY <2>1 DEF TypeOK, MonitorOK, NoPos, Ids
    <2>3. QED
      BY <2>1, <2>2 DEF ExactInv, Due
  <1>4. QED
    BY <1>1, <1>2, <1>3, TypeCorrect, PTL DEF Spec

-----------------------------------------------------------------------------
(* The refinement.                                                         *)

\* What the mapping needs besides the two invariants above: what the pass will
\* remove is in the daily losses, and only a crash ends the process.
SettledInv ==
    /\ \A i \in resolved : d23[i] > 0
    /\ ~up => crashes > 0

\* Only the end of resolve_position adds to `resolved`, after the breaker.
LEMMA SettledInvStep ==
  ASSUME TypeOK, BooksInv, SettledInv, [Next]_vars
  PROVE  SettledInv'
  <1> USE DEF SettledInv
  <1>1. \A i \in Ids : d23[i] \in Nat /\ d23'[i] \in Nat /\ d23[i] <= d23'[i]
    <2>0. mpc \in {"silo", "breaker", "publish"} => mcur \in Ids
      BY BoundsAssumption DEF TypeOK, MonitorOK, StreamOK, Ids
    <2>1. d23 \in [Ids -> Nat] /\ (mpc = "breaker" => mcur \in Ids)
      BY <2>0 DEF TypeOK, LedgerOK
    <2>2. CASE WriteBreaker \/ WriteBreakerFails
      BY <2>1, <2>2 DEF WriteBreaker, WriteBreakerFails
    <2>3. CASE UNCHANGED d23
      BY <2>1, <2>3
    <2>4. QED
      BY <2>2, <2>3, LedgerFrame
      DEF WriteTrade, WriteTradeFails, WriteSilo, WriteSiloFails, PublishOutcome,
          PublishFails, ledgerVars
  <1>2. resolved \subseteq Ids
    BY BoundsAssumption DEF TypeOK, MonitorOK, StreamOK, Ids
  <1>3. \A i \in resolved' : d23'[i] > 0
    <2>1. CASE PublishOutcome \/ PublishFails
      <3>1. mcur \in Ids /\ d23[mcur] > 0
        <4>1. mpc = "publish"
          BY <2>1 DEF PublishOutcome, PublishFails
        <4>2. mcur \in Ids
          BY <4>1, BoundsAssumption DEF TypeOK, MonitorOK, StreamOK, Ids
        <4>3. /\ out[mcur] \in Nat /\ d23[mcur] \in Nat
              /\ tries \in 0..(Attempts - 1) /\ Attempts \in Nat
          BY <4>2, BoundsAssumption DEF TypeOK, LedgerOK, MonitorOK
        <4>4. out[mcur] + (Attempts - tries) <= Attempts * d23[mcur]
          BY <4>1 DEF BooksInv
        <4>5. QED
          BY <4>2, <4>3, <4>4, EntriesPerLoss
      <3>2. resolved' \subseteq resolved \cup {mcur} /\ d23' = d23
        BY <2>1 DEF PublishOutcome, PublishFails, BackToScan
      <3>3. QED
        BY <3>1, <3>2
    <2>2. CASE resolved' \subseteq resolved
      BY <1>1, <1>2, <2>2
    <2>3. QED
      BY <2>1, <2>2, MonitorFrame
      DEF OpenPosition, StartPass, KeepOpen, WriteTrade, WriteSilo, WriteBreaker,
          WriteTradeFails, WriteSiloFails, WriteBreakerFails, AbortPass, FinishScan,
          RemoveResolved, RemoveFails, EndPass, Crash, Restart, monitorVars
  <1>4. ~up' => crashes' > 0
    <2>1. crashes \in Nat
      BY BoundsAssumption DEF TypeOK, ProcessOK
    <2>2. CASE Crash
      BY <2>1, <2>2 DEF Crash
    <2>3. CASE up' = up /\ crashes' = crashes
      BY <2>3
    <2>4. CASE up'
      BY <2>4
    <2>5. QED
      BY <2>2, <2>3, <2>4, ProcessFrame
      DEF PublishTaken, PriceMoves, ReadFails, RemoveFails, PersistFails, AckFails,
          PublishFails, WriteBackFails, RedisRaises, Restart, RestartBlind, AbortPass,
          faultVars, vars
  <1>5. QED
    BY <1>3, <1>4

\* What a step costs: a crash or a failing QuestDB write, a Redis call that
\* raises, or nothing.
LEMMA CostOf ==
  ASSUME TypeOK, [Next]_vars
  PROVE  \/ /\ Crash \/ AbortPass
            /\ (crashes + dbFails)' = crashes + dbFails + 1 /\ redisFails' = redisFails
         \/ /\ RedisRaises
            /\ UNCHANGED (crashes + dbFails) /\ redisFails' = redisFails + 1
         \/ /\ ~Crash /\ ~AbortPass /\ ~RedisRaises
            /\ UNCHANGED (crashes + dbFails) /\ redisFails' = redisFails
  <1>1. crashes \in Nat /\ dbFails \in Nat
    BY BoundsAssumption DEF TypeOK, ProcessOK
  <1>2. CASE Crash \/ AbortPass
    <2>1. redisFails' = redisFails
      BY <1>2 DEF Crash, AbortPass
    <2>2. CASE Crash
      BY <1>1, <1>2, <2>1, <2>2 DEF Crash
    <2>3. CASE AbortPass
      BY <1>1, <1>2, <2>1, <2>3 DEF AbortPass
    <2>4. QED
      BY <1>2, <2>2, <2>3
  <1>3. CASE RedisRaises
    BY <1>3 DEF RedisRaises
  <1>4. QED
    BY <1>2, <1>3, FaultCount, RedisCount

\* A step that writes no book and keeps the list is a stutter, or a crash, a
\* failed write or a failed call without effect.
LEMMA OtherSteps ==
  ASSUME TypeOK, [Next]_vars, UNCHANGED <<open, ledgerVars>>, ~Crash
  PROVE  [Ledger!Next]_(Ledger!vars)
  <1>1. UNCHANGED <<open, d03, d16, d23, out>>
    BY DEF ledgerVars
  <1>2. CASE (crashes + dbFails)' = crashes + dbFails + 1 /\ redisFails' = redisFails
    BY <1>1, <1>2 DEF Ledger!Next, Ledger!FailedWrite, Ledger!books
  <1>3. CASE UNCHANGED (crashes + dbFails) /\ redisFails' = redisFails + 1
    BY <1>1, <1>3 DEF Ledger!Next, Ledger!LostAnswer, Ledger!books
  <1>4. CASE UNCHANGED (crashes + dbFails) /\ redisFails' = redisFails
    BY <1>1, <1>4 DEF Ledger!vars, Ledger!books, Ledger!costs
  <1>5. QED
    BY <1>2, <1>3, <1>4, CostOf

\* A booking is one that the faults so far allow.
LEMMA BookingSteps ==
  ASSUME TypeOK, BookingsInv, [Next]_vars, NEW i \in Ids,
         WriteTrade(i) \/ WriteTradeFails(i)
  PROVE  [Ledger!Next]_(Ledger!vars)
  <1>1. i \in open /\ open' = open /\ UNCHANGED <<d16, d23, out, redisFails>>
    BY DEF WriteTrade, WriteTradeFails, AbortPass, Unvisited, faultVars
  <1>2. d03[i] <= crashes + dbFails
    <2>1. Bookable(i)
      BY DEF WriteTrade, WriteTradeFails, Unvisited, Bookable, TypeOK, MonitorOK,
             NoPos, Ids
    <2>2. d03[i] \in Nat /\ crashes \in Nat /\ dbFails \in Nat
      BY BoundsAssumption DEF TypeOK, LedgerOK, ProcessOK
    <2>3. d03[i] + 1 <= 1 + crashes + dbFails
      BY <2>1 DEF BookingsInv
    <2>4. QED
      BY <2>2, <2>3
  <1>3. d03' = [d03 EXCEPT ![i] = @ + 1] => Ledger!Log(i)
    BY <1>1, <1>2 DEF Ledger!Log, Ledger!OncePer
  <1>4. CASE WriteTrade(i)
    <2>1. Ledger!Write(i)
      BY <1>3, <1>4 DEF WriteTrade, Ledger!Write
    <2>2. UNCHANGED <<open, crashes + dbFails, redisFails>>
      BY <1>4 DEF WriteTrade, faultVars
    <2>3. QED
      BY <2>1, <2>2 DEF Ledger!Next, Ledger!costs
  <1>5. CASE WriteTradeFails(i)
    <2>1. (crashes + dbFails)' = crashes + dbFails + 1
      BY <1>5, FaultCount, BoundsAssumption
      DEF WriteTradeFails, AbortPass, TypeOK, ProcessOK
    <2>2. UNCHANGED Ledger!books \/ Ledger!Write(i)
      BY <1>1, <1>3, <1>5 DEF WriteTradeFails, Ledger!books, Ledger!Write
    <2>3. QED
      BY <1>1, <2>1, <2>2 DEF Ledger!Next, Ledger!FailedWrite
  <1>6. QED
    BY <1>4, <1>5

\* The later books follow the one before, and the position is still open.
LEMMA LaterSteps ==
  ASSUME TypeOK, BooksInv, [Next]_vars,
         WriteSilo \/ WriteSiloFails \/ WriteBreaker \/ WriteBreakerFails
  PROVE  [Ledger!Next]_(Ledger!vars)
  <1>1. /\ mcur \in open /\ mcur \in Ids
        /\ mpc \in {"silo", "breaker"} /\ redisFails' = redisFails
    BY BoundsAssumption
    DEF WriteSilo, WriteSiloFails, WriteBreaker, WriteBreakerFails, AbortPass,
        TypeOK, MonitorOK, StreamOK, Ids, faultVars
  <1>2. CASE WriteSilo \/ WriteBreaker
    <2>1. Ledger!Write(mcur)
      BY <1>1, <1>2
      DEF WriteSilo, WriteBreaker, BooksInv, Ledger!Write, Ledger!Credit,
          Ledger!Count, Ledger!OncePer
    <2>2. UNCHANGED <<open, crashes + dbFails, redisFails>>
      BY <1>1, <1>2 DEF WriteSilo, WriteBreaker, faultVars
    <2>3. QED
      BY <1>1, <2>1, <2>2 DEF Ledger!Next, Ledger!costs
  <1>3. CASE WriteSiloFails \/ WriteBreakerFails
    <2>1. AbortPass
      BY <1>3 DEF WriteSiloFails, WriteBreakerFails
    <2>2. (crashes + dbFails)' = crashes + dbFails + 1 /\ open' = open
      BY <2>1, FaultCount, BoundsAssumption DEF AbortPass, TypeOK, ProcessOK
    <2>3. UNCHANGED Ledger!books \/ Ledger!Write(mcur)
      BY <1>1, <1>3
      DEF WriteSiloFails, WriteBreakerFails, BooksInv, Ledger!books, Ledger!Write,
          Ledger!Credit, Ledger!Count, Ledger!OncePer
    <2>4. QED
      BY <1>1, <2>2, <2>3 DEF Ledger!Next, Ledger!FailedWrite
  <1>4. QED
    BY <1>2, <1>3

\* An attempt to publish, answered or not, announces once what is counted, or
\* once more for an answer that was lost.
LEMMA PublishSteps ==
  ASSUME TypeOK, BooksInv, [Next]_vars, PublishOutcome \/ PublishFails
  PROVE  [Ledger!Next]_(Ledger!vars)
  <1>1. /\ mpc = "publish" /\ mcur \in open /\ mcur \in Ids
        /\ open' = open /\ UNCHANGED <<d03, d16, d23, crashes + dbFails>>
    BY BoundsAssumption
    DEF PublishOutcome, PublishFails, RedisRaises, TypeOK, MonitorOK, StreamOK, Ids,
        faultVars
  <1>2. out' = [out EXCEPT ![mcur] = @ + 1] => Ledger!Announce(mcur)
    <2>1. /\ out[mcur] \in Nat /\ d23[mcur] \in Nat
          /\ tries \in 0..(Attempts - 1) /\ Attempts \in Nat
      BY <1>1, BoundsAssumption DEF TypeOK, LedgerOK, MonitorOK
    <2>2. /\ out[mcur] < d23[mcur] + redisFails
          /\ out[mcur] + (Attempts - tries) <= Attempts * d23[mcur]
      BY <1>1 DEF BooksInv
    <2>3. d23[mcur] > 0
      <3>1. 0 \in Nat /\ Attempts * 0 = 0
        BY ONLY EntriesPerLoss, 0 \in Nat
      <3>2. Attempts * d23[mcur] \in Nat
        BY ONLY <2>1, EntriesPerLoss
      <3>3. Attempts - tries > 0 /\ Attempts - tries \in Nat
        BY ONLY <2>1
      <3>4. Attempts * d23[mcur] > 0
        BY ONLY <2>1, <2>2, <3>2, <3>3
      <3>5. d23[mcur] # 0
        BY ONLY <3>1, <3>4
      <3>6. QED
        BY ONLY <2>1, <3>5
    <2>4. QED
      BY <1>1, <2>2, <2>3 DEF Ledger!Announce, Ledger!OncePer
  <1>3. CASE PublishOutcome
    <2>1. Ledger!Write(mcur)
      BY <1>2, <1>3 DEF PublishOutcome, Ledger!Write
    <2>2. redisFails' = redisFails
      BY <1>3 DEF PublishOutcome, faultVars
    <2>3. QED
      BY <1>1, <2>1, <2>2 DEF Ledger!Next, Ledger!costs
  <1>4. CASE PublishFails
    <2>1. redisFails' = redisFails + 1
      BY <1>4 DEF PublishFails, RedisRaises
    <2>2. out' = out \/ Ledger!Announce(mcur)
      BY <1>2, <1>4 DEF PublishFails
    <2>3. QED
      BY <1>1, <2>1, <2>2 DEF Ledger!Next, Ledger!LostAnswer, Ledger!books
  <1>5. QED
    BY <1>3, <1>4

\* The list changes by opening, by removing what is settled, by a crash, and by
\* the recovery from one.
LEMMA ListSteps ==
  ASSUME TypeOK, SettledInv, [Next]_vars
  PROVE  /\ \A i \in Ids : RemoveResolved(i) \/ RemoveFails(i)
                  => [Ledger!Next]_(Ledger!vars)
         /\ OpenPosition \/ Crash \/ Restart => [Ledger!Next]_(Ledger!vars)
  <1>1. ASSUME NEW i \in Ids, RemoveResolved(i) \/ RemoveFails(i)
        PROVE  [Ledger!Next]_(Ledger!vars)
    <2>1. i \in open /\ d23[i] > 0 /\ open' = open \ {i}
      BY <1>1 DEF RemoveResolved, RemoveFails, SettledInv, TypeOK, MonitorOK
    <2>2. UNCHANGED <<d03, d16, d23, out, crashes + dbFails>>
      BY <1>1 DEF RemoveResolved, RemoveFails, RedisRaises, ledgerVars, faultVars
    <2>3. redisFails' = redisFails \/ redisFails' = redisFails + 1
      BY <1>1 DEF RemoveResolved, RemoveFails, RedisRaises, faultVars
    <2>4. Ledger!Release(i)
      BY <2>1, <2>2 DEF Ledger!Release, Ledger!books
    <2>5. CASE redisFails' = redisFails
      BY <2>2, <2>4, <2>5 DEF Ledger!Next, Ledger!costs
    <2>6. CASE redisFails' = redisFails + 1
      BY <2>2, <2>4, <2>6 DEF Ledger!Next, Ledger!LostAnswer
    <2>7. QED
      BY <2>3, <2>5, <2>6
  <1>2. CASE OpenPosition
    <2>1. cur \in Ids
      BY <1>2, BoundsAssumption DEF OpenPosition, TypeOK, ListenerOK, StreamOK, Ids
    <2>2. /\ open' = open \cup {cur}
          /\ UNCHANGED <<d03, d16, d23, out, crashes + dbFails, redisFails>>
      BY <1>2 DEF OpenPosition, ledgerVars, faultVars
    <2>3. QED
      BY <2>1, <2>2 DEF Ledger!Next, Ledger!Watch, Ledger!books, Ledger!costs
  <1>3. CASE Crash
    <2>1. (crashes + dbFails)' = crashes + dbFails + 1
      BY <1>3, BoundsAssumption DEF Crash, TypeOK, ProcessOK
    <2>2. QED
      BY <1>3, <2>1 DEF Crash, ledgerVars, Ledger!Next, Ledger!Crash, Ledger!books
  <1>4. CASE Restart
    <2>1. open = {} /\ crashes + dbFails > 0
      BY <1>4, BoundsAssumption DEF Restart, SettledInv, TypeOK, ProcessOK
    <2>2. open' \in SUBSET Ids
      BY <1>4 DEF Restart, Stored, TypeOK, SlotOK, NoPos, Ids
    <2>3. UNCHANGED <<d03, d16, d23, out, crashes + dbFails, redisFails>>
      BY <1>4 DEF Restart, ledgerVars, faultVars
    <2>4. QED
      BY <2>1, <2>2, <2>3 DEF Ledger!Next, Ledger!Recover, Ledger!books, Ledger!costs
  <1>5. QED
    BY <1>1, <1>2, <1>3, <1>4

\* B7 implements Settlement: however its threads interleave and whatever fails, it
\* settles each trade as the abstract ledger does.
THEOREM SettlementImplemented == Spec => Settles
  <1>1. Init => Ledger!Init
    BY DEF Init, Ledger!Init, Ids
  <1>2. Init => BookingsInv /\ BooksInv /\ SettledInv
    BY EntriesPerLoss DEF Init, BookingsInv, BooksInv, BooksInOrder, SettledInv, Ids
  <1>3. TypeOK /\ BookingsInv /\ BooksInv /\ SettledInv /\ [Next]_vars
          => BookingsInv' /\ BooksInv' /\ SettledInv'
    BY BookingsInvStep, BooksInvStep, SettledInvStep
  <1>4. TypeOK /\ BookingsInv /\ BooksInv /\ SettledInv /\ [Next]_vars
          => [Ledger!Next]_(Ledger!vars)
    <2> SUFFICES ASSUME TypeOK, BookingsInv, BooksInv, SettledInv, [Next]_vars
                 PROVE  [Ledger!Next]_(Ledger!vars)
      OBVIOUS
    <2>1. \/ \E i \in Ids : WriteTrade(i) \/ WriteTradeFails(i)
          \/ WriteSilo \/ WriteSiloFails \/ WriteBreaker \/ WriteBreakerFails
          \/ PublishOutcome \/ PublishFails
          \/ \E i \in Ids : RemoveResolved(i) \/ RemoveFails(i)
          \/ OpenPosition \/ Crash \/ Restart
          \/ UNCHANGED <<open, ledgerVars>>
      BY LedgerFrame, MonitorFrame
      DEF StartPass, KeepOpen, FinishScan, EndPass
    <2>2. QED
      BY <2>1, BookingSteps, LaterSteps, PublishSteps, ListSteps, OtherSteps
  <1>5. QED
    BY <1>1, <1>2, <1>3, <1>4, TypeCorrect, PTL DEF Spec, Settles, Ledger!Spec

=============================================================================
