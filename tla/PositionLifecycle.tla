-------------------------- MODULE PositionLifecycle --------------------------
(***************************************************************************)
(* The life of a TAKEN position in Captain Online: the entry that Captain  *)
(* Command appends to stream:commands, the command listener thread that    *)
(* turns it into an open position, the B7 pass of the session loop that    *)
(* books and removes it, the UserStream callbacks that rewrite its Redis   *)
(* copy, and a crash and restart of the process at any point.              *)
(*                                                                         *)
(* A position is named by the index of the stream entry that opened it, so *)
(* that two TAKENs of one signal are two positions that share one field of *)
(* the Redis hash captain:open_positions.  What is abstracted: the prices  *)
(* (a signal is in `hit` while a quote and a point value are available and *)
(* the price is beyond a TP or SL level or the TIME_EXIT time has come),   *)
(* the content of a position other than its identity, and the order of the *)
(* open_positions list (a pass visits its positions in any order).         *)
(***************************************************************************)
EXTENDS Integers, Sequences, FiniteSets

CONSTANTS
    Signals,        \* signal ids, the fields of the Redis hash
    Assets,         \* what positions are on
    AssetOf,        \* the asset of each signal
    MaxTaken,       \* bound: TAKEN entries appended to stream:commands
    BatchCount,     \* read_stream's count (10 in the code)
    Attempts,       \* max_attempts of _publish_trade_outcome (3 in the code)
    MaxCrashes,     \* bound: crashes of the Online process
    MaxDbFails,     \* bound: QuestDB writes that raise
    MaxRedisFails   \* bound: Redis calls that raise, with or without effect

ASSUME SignalsAssumption == AssetOf \in [Signals -> Assets]
ASSUME BoundsAssumption ==
    /\ MaxTaken \in Nat /\ BatchCount \in Nat \ {0} /\ Attempts \in Nat \ {0}
    /\ MaxCrashes \in Nat /\ MaxDbFails \in Nat /\ MaxRedisFails \in Nat

Ids   == 1..MaxTaken
NoPos == 0

VARIABLES
    log,        \* stream:commands: the signal of each TAKEN entry
    last,       \* last-delivered-id of the group online_commands
    pel,        \* entries delivered to online_1 and not acknowledged
    lpc,        \* where the command listener is
    cur,        \* the entry it handles; the rest of its batch is cur+1..last
    open,       \* OnlineOrchestrator.open_positions
    hash,       \* captain:open_positions
    mpc,        \* where the B7 pass is; _position_lock is held unless "idle"
    visited,    \* positions the loop of monitor_positions is done with
    resolved,   \* its local list `resolved`
    mcur,       \* the position resolve_position is working on
    tries,      \* attempts to publish its outcome that have raised
    ucb,        \* snapshots a UserStream callback has read and will write back
    d03,        \* P3-D03 rows of each position
    d16, d23,   \* times its PnL was added to the capital silo, to the breaker
    out,        \* its entries in stream:trade_outcomes
    hit, up,
    crashes, dbFails, redisFails,   \* the faults so far,
    streamFails                     \* those of XREADGROUP and XACK among them

streamVars   == <<log, last, pel>>
listenerVars == <<lpc, cur>>
monitorVars  == <<mpc, visited, resolved, mcur, tries>>
ledgerVars   == <<d03, d16, d23, out>>
faultVars    == <<crashes, dbFails, redisFails, streamFails>>
vars == <<streamVars, listenerVars, open, hash, monitorVars, ucb, ledgerVars,
          hit, up, faultVars>>

LockFree == mpc = "idle"
NoSnapshot == [s \in Signals |-> NoPos]

Init ==
    /\ log = <<>> /\ last = 0 /\ pel = {}
    /\ lpc = "read" /\ cur = 0
    /\ open = {} /\ hash = [s \in Signals |-> NoPos]
    /\ mpc = "idle" /\ visited = {} /\ resolved = {} /\ mcur = NoPos /\ tries = 0
    /\ ucb = NoSnapshot
    /\ d03 = [i \in Ids |-> 0] /\ d16 = [i \in Ids |-> 0]
    /\ d23 = [i \in Ids |-> 0] /\ out = [i \in Ids |-> 0]
    /\ hit = {} /\ up = TRUE
    /\ crashes = 0 /\ dbFails = 0 /\ redisFails = 0 /\ streamFails = 0

-----------------------------------------------------------------------------
(* The environment: Captain Command publishes, the market moves.           *)

PublishTaken(s) ==
    /\ Len(log) < MaxTaken
    /\ log' = Append(log, s)
    /\ UNCHANGED <<last, pel, listenerVars, open, hash, monitorVars, ucb,
                   ledgerVars, hit, up, faultVars>>

PriceMoves(s) ==
    /\ hit' = IF s \in hit THEN hit \ {s} ELSE hit \cup {s}
    /\ UNCHANGED <<streamVars, listenerVars, open, hash, monitorVars, ucb,
                   ledgerVars, up, faultVars>>

-----------------------------------------------------------------------------
(* The command listener thread.                                            *)

\* mutant: the group reads with NOACK
ReadBatchNoAck ==
    /\ up /\ lpc = "read" /\ last < Len(log)
    /\ last' = last + 1 /\ pel' = pel
    /\ lpc' = "open" /\ cur' = last + 1
    /\ UNCHANGED <<log, open, hash, monitorVars, ucb, ledgerVars, hit, up,
                   faultVars>>

\* read_stream(">"): the next entries of the group, never the pending ones
ReadBatch ==
    /\ up /\ lpc = "read" /\ last < Len(log)
    /\ last' = IF last + BatchCount < Len(log) THEN last + BatchCount
                                              ELSE Len(log)
    /\ pel' = pel \cup ((last + 1)..last')
    /\ lpc' = "open" /\ cur' = last + 1
    /\ UNCHANGED <<log, open, hash, monitorVars, ucb, ledgerVars, hit, up,
                   faultVars>>

\* A Redis call that raises may have been carried out all the same, its answer
\* lost with the connection.
RedisRaises ==
    /\ redisFails < MaxRedisFails /\ redisFails' = redisFails + 1
    /\ UNCHANGED <<crashes, dbFails>>

\* XREADGROUP raises: what it has delivered is pending, and nobody has it
ReadFails ==
    /\ up /\ lpc = "read" /\ last < Len(log)
    /\ RedisRaises /\ streamFails' = streamFails + 1
    /\ last' = IF last + BatchCount < Len(log) THEN last + BatchCount
                                              ELSE Len(log)
    /\ pel' = pel \cup ((last + 1)..last')
    /\ UNCHANGED <<log, listenerVars, open, hash, monitorVars, ucb,
                   ledgerVars, hit, up>>

\* _handle_taken_skipped, under _position_lock
OpenPosition ==
    /\ up /\ lpc = "open" /\ LockFree
    /\ open' = open \cup {cur}
    /\ lpc' = "persist"
    /\ UNCHANGED <<streamVars, cur, hash, monitorVars, ucb, ledgerVars, hit,
                   up, faultVars>>

\* ... and its HSET, after the lock is released
PersistPosition ==
    /\ up /\ lpc = "persist"
    /\ hash' = [hash EXCEPT ![log[cur]] = cur]
    /\ lpc' = "ack"
    /\ UNCHANGED <<streamVars, cur, open, monitorVars, ucb, ledgerVars, hit,
                   up, faultVars>>

\* the HSET raises: logged, and the handler goes on
PersistFails ==
    /\ up /\ lpc = "persist"
    /\ RedisRaises
    /\ hash' \in {hash, [hash EXCEPT ![log[cur]] = cur]}
    /\ lpc' = "ack"
    /\ UNCHANGED <<streamVars, cur, open, monitorVars, ucb, ledgerVars, hit,
                   up, streamFails>>

\* mutant: the loop over the batch runs one entry too far
NextOfBatchTooFar ==
    IF cur <= last THEN lpc' = "open" /\ cur' = cur + 1
                   ELSE lpc' = "read" /\ cur' = 0

\* mutant: only the first entry of a batch is handled
NextOfBatchFirstOnly == lpc' = "read" /\ cur' = 0

NextOfBatch ==
    IF cur < last THEN lpc' = "open" /\ cur' = cur + 1
                  ELSE lpc' = "read" /\ cur' = 0

AckTaken ==
    /\ up /\ lpc = "ack"
    /\ pel' = pel \ {cur}
    /\ NextOfBatch
    /\ UNCHANGED <<log, last, open, hash, monitorVars, ucb, ledgerVars, hit,
                   up, faultVars>>

\* XACK raises: the outer handler reconnects, the rest of the batch is dropped
AckFails ==
    /\ up /\ lpc = "ack"
    /\ RedisRaises /\ streamFails' = streamFails + 1
    /\ pel' \in {pel, pel \ {cur}}
    /\ lpc' = "read" /\ cur' = 0
    /\ UNCHANGED <<log, last, open, hash, monitorVars, ucb, ledgerVars, hit,
                   up>>

-----------------------------------------------------------------------------
(* The B7 pass of the session loop: _run_position_monitor.                 *)

StartPass ==
    /\ up /\ LockFree /\ open # {}
    /\ mpc' = "scan" /\ visited' = {} /\ resolved' = {}
    /\ UNCHANGED <<streamVars, listenerVars, open, hash, mcur, tries, ucb,
                   ledgerVars, hit, up, faultVars>>

Unvisited == open \ visited

\* mutant: resolved.append outside of the condition
KeepOpenResolves(i) ==
    /\ up /\ mpc = "scan" /\ i \in Unvisited /\ log[i] \notin hit
    /\ visited' = visited \cup {i} /\ resolved' = resolved \cup {i}
    /\ UNCHANGED <<streamVars, listenerVars, open, hash, mpc, mcur, tries,
                   ucb, ledgerVars, hit, up, faultVars>>

KeepOpen(i) ==
    /\ up /\ mpc = "scan" /\ i \in Unvisited /\ log[i] \notin hit
    /\ visited' = visited \cup {i}
    /\ UNCHANGED <<streamVars, listenerVars, open, hash, mpc, resolved, mcur,
                   tries, ucb, ledgerVars, hit, up, faultVars>>

\* mutant: the Redis entry is deleted when the resolution starts
WriteTradeHdelFirst(i) ==
    /\ up /\ mpc = "scan" /\ i \in Unvisited /\ log[i] \in hit
    /\ d03' = [d03 EXCEPT ![i] = @ + 1]
    /\ mpc' = "silo" /\ mcur' = i
    /\ hash' = [hash EXCEPT ![log[i]] = NoPos]
    /\ UNCHANGED <<streamVars, listenerVars, open, visited, resolved, tries, ucb,
                   d16, d23, out, hit, up, faultVars>>

\* resolve_position: the P3-D03 row
WriteTrade(i) ==
    /\ up /\ mpc = "scan" /\ i \in Unvisited /\ log[i] \in hit
    /\ d03' = [d03 EXCEPT ![i] = @ + 1]
    /\ mpc' = "silo" /\ mcur' = i
    /\ UNCHANGED <<streamVars, listenerVars, open, hash, visited, resolved, tries,
                   ucb, d16, d23, out, hit, up, faultVars>>

\* mutant: the breaker row is forgotten
WriteSiloOnly ==
    /\ up /\ mpc = "silo"
    /\ d16' = [d16 EXCEPT ![mcur] = @ + 1]
    /\ mpc' = "publish"
    /\ UNCHANGED <<streamVars, listenerVars, open, hash, visited, resolved,
                   mcur, tries, ucb, d03, d23, out, hit, up, faultVars>>

\* _update_capital_and_cb: two INSERTs on one autocommit cursor.  The first one
\* needs the user's row of P3-D16, which every user who gets signals has (the
\* session passes over a user without one) and which is never deleted.
WriteSilo ==
    /\ up /\ mpc = "silo"
    /\ d16' = [d16 EXCEPT ![mcur] = @ + 1]
    /\ mpc' = "breaker"
    /\ UNCHANGED <<streamVars, listenerVars, open, hash, visited, resolved,
                   mcur, tries, ucb, d03, d23, out, hit, up, faultVars>>

WriteBreaker ==
    /\ up /\ mpc = "breaker"
    /\ d23' = [d23 EXCEPT ![mcur] = @ + 1]
    /\ mpc' = "publish"
    /\ UNCHANGED <<streamVars, listenerVars, open, hash, visited, resolved,
                   mcur, tries, ucb, d03, d16, out, hit, up, faultVars>>

\* mutant: no `continue` after resolved.append, the loop meets it again
BackToScanTwice ==
    /\ visited' = visited
    /\ resolved' = resolved \cup {mcur}
    /\ mpc' = "scan" /\ mcur' = NoPos /\ tries' = 0

BackToScan ==
    /\ visited' = visited \cup {mcur}
    /\ resolved' = resolved \cup {mcur}
    /\ mpc' = "scan" /\ mcur' = NoPos /\ tries' = 0

PublishOutcome ==
    /\ up /\ mpc = "publish"
    /\ out' = [out EXCEPT ![mcur] = @ + 1]
    /\ BackToScan
    /\ UNCHANGED <<streamVars, listenerVars, open, hash, ucb, d03, d16, d23,
                   hit, up, faultVars>>

\* An attempt raises, with or without effect: the next one adds another entry,
\* and after the last one the outcome is logged and given up.
PublishFails ==
    /\ up /\ mpc = "publish"
    /\ RedisRaises
    /\ out' \in {out, [out EXCEPT ![mcur] = @ + 1]}
    /\ \/ /\ tries + 1 < Attempts /\ tries' = tries + 1
          /\ UNCHANGED <<visited, resolved, mpc, mcur>>
       \/ tries + 1 = Attempts /\ BackToScan
    /\ UNCHANGED <<streamVars, listenerVars, open, hash, ucb, d03, d16, d23,
                   hit, up, streamFails>>

\* A QuestDB write raises, whether or not the row reached the table: the
\* exception leaves monitor_positions, whose list `resolved` is lost.
AbortPass ==
    /\ mpc' = "idle" /\ visited' = {} /\ resolved' = {}
    /\ mcur' = NoPos /\ tries' = 0
    /\ dbFails < MaxDbFails /\ dbFails' = dbFails + 1
    /\ UNCHANGED <<streamVars, listenerVars, open, hash, ucb, hit, up,
                   crashes, redisFails, streamFails>>

WriteTradeFails(i) ==
    /\ up /\ mpc = "scan" /\ i \in Unvisited /\ log[i] \in hit
    /\ d03' \in {d03, [d03 EXCEPT ![i] = @ + 1]}
    /\ AbortPass
    /\ UNCHANGED <<d16, d23, out>>

WriteSiloFails ==
    /\ up /\ mpc = "silo"
    /\ d16' \in {d16, [d16 EXCEPT ![mcur] = @ + 1]}
    /\ AbortPass
    /\ UNCHANGED <<d03, d23, out>>

WriteBreakerFails ==
    /\ up /\ mpc = "breaker"
    /\ d23' \in {d23, [d23 EXCEPT ![mcur] = @ + 1]}
    /\ AbortPass
    /\ UNCHANGED <<d03, d16, out>>

FinishScan ==
    /\ up /\ mpc = "scan" /\ Unvisited = {}
    /\ mpc' = "remove"
    /\ UNCHANGED <<streamVars, listenerVars, open, hash, visited, resolved,
                   mcur, tries, ucb, ledgerVars, hit, up, faultVars>>

\* mutant: the HDEL without the removal from the list
RemoveFromHashOnly(i) ==
    /\ up /\ mpc = "remove" /\ i \in resolved
    /\ hash' = [hash EXCEPT ![log[i]] = NoPos]
    /\ resolved' = resolved \ {i}
    /\ UNCHANGED <<streamVars, listenerVars, open, mpc, visited, mcur, tries,
                   ucb, ledgerVars, hit, up, faultVars>>

RemoveResolved(i) ==
    /\ up /\ mpc = "remove" /\ i \in resolved
    /\ open' = open \ {i}
    /\ hash' = [hash EXCEPT ![log[i]] = NoPos]
    /\ resolved' = resolved \ {i}
    /\ UNCHANGED <<streamVars, listenerVars, mpc, visited, mcur, tries, ucb,
                   ledgerVars, hit, up, faultVars>>

\* the HDEL raises: logged, the position is dropped from the list all the same
RemoveFails(i) ==
    /\ up /\ mpc = "remove" /\ i \in resolved
    /\ RedisRaises
    /\ open' = open \ {i}
    /\ hash' \in {hash, [hash EXCEPT ![log[i]] = NoPos]}
    /\ resolved' = resolved \ {i}
    /\ UNCHANGED <<streamVars, listenerVars, mpc, visited, mcur, tries, ucb,
                   ledgerVars, hit, up, streamFails>>

EndPass ==
    /\ up /\ mpc = "remove" /\ resolved = {}
    /\ mpc' = "idle" /\ visited' = {}
    /\ UNCHANGED <<streamVars, listenerVars, open, hash, resolved, mcur,
                   tries, ucb, ledgerVars, hit, up, faultVars>>

-----------------------------------------------------------------------------
(* The UserStream thread: both callbacks read the hash and write it back.  *)

StoredOn(a) == {s \in Signals : AssetOf[s] = a /\ hash[s] # NoPos}

ReadStored(S) ==
    /\ up /\ ucb = NoSnapshot /\ S # {}
    /\ ucb' = [s \in Signals |-> IF s \in S THEN hash[s] ELSE NoPos]
    /\ UNCHANGED <<streamVars, listenerVars, open, hash, monitorVars,
                   ledgerVars, hit, up, faultVars>>

\* _on_position_update: hgetall, then every stored position of the asset
OnPositionUpdate(a) == ReadStored(StoredOn(a))

\* _try_capture_bracket_child: hget of the position of a pending bracket
CaptureBracketChild(s) == hash[s] # NoPos /\ ReadStored({s})

WriteBack(s) ==
    /\ up /\ ucb[s] # NoPos
    /\ hash' = [hash EXCEPT ![s] = ucb[s]]
    /\ ucb' = [ucb EXCEPT ![s] = NoPos]
    /\ UNCHANGED <<streamVars, listenerVars, open, monitorVars, ledgerVars,
                   hit, up, faultVars>>

\* the HSET raises: the rest of the callback's loop is abandoned
WriteBackFails(s) ==
    /\ up /\ ucb[s] # NoPos
    /\ RedisRaises
    /\ hash' \in {hash, [hash EXCEPT ![s] = ucb[s]]}
    /\ ucb' = NoSnapshot
    /\ UNCHANGED <<streamVars, listenerVars, open, monitorVars, ledgerVars,
                   hit, up, streamFails>>

-----------------------------------------------------------------------------
(* Crash and restart of the process.  Redis and QuestDB survive.           *)

Crash ==
    /\ up /\ crashes < MaxCrashes
    /\ up' = FALSE /\ crashes' = crashes + 1
    /\ open' = {} /\ lpc' = "read" /\ cur' = 0
    /\ mpc' = "idle" /\ visited' = {} /\ resolved' = {}
    /\ mcur' = NoPos /\ tries' = 0 /\ ucb' = NoSnapshot
    /\ UNCHANGED <<streamVars, hash, ledgerVars, hit, dbFails, redisFails,
                   streamFails>>

Stored == {hash[s] : s \in Signals} \ {NoPos}

\* mutant: start without the reconciliation
RestartEmpty ==
    /\ ~up /\ up' = TRUE
    /\ UNCHANGED <<streamVars, listenerVars, open, hash, monitorVars, ucb,
                   ledgerVars, hit, faultVars>>

\* start: _reconcile_positions_from_redis, before the listener thread exists
Restart ==
    /\ ~up /\ up' = TRUE
    /\ open' = Stored
    /\ UNCHANGED <<streamVars, listenerVars, hash, monitorVars, ucb,
                   ledgerVars, hit, faultVars>>

\* the HGETALL raises: logged, and the process runs without its positions
RestartBlind ==
    /\ ~up /\ up' = TRUE
    /\ RedisRaises
    /\ UNCHANGED <<streamVars, listenerVars, open, hash, monitorVars, ucb,
                   ledgerVars, hit, streamFails>>

-----------------------------------------------------------------------------
ListenerStep == ReadBatch \/ OpenPosition \/ PersistPosition \/ AckTaken

MonitorStep ==
    \/ StartPass \/ WriteSilo \/ WriteBreaker \/ PublishOutcome
    \/ FinishScan \/ EndPass
    \/ \E i \in Ids : KeepOpen(i) \/ WriteTrade(i) \/ RemoveResolved(i)

UserStreamStep ==
    \/ \E a \in Assets : OnPositionUpdate(a)
    \/ \E s \in Signals : CaptureBracketChild(s) \/ WriteBack(s)

FaultStep ==
    \/ ReadFails \/ PersistFails \/ AckFails \/ PublishFails
    \/ WriteSiloFails \/ WriteBreakerFails \/ Crash \/ RestartBlind
    \/ \E i \in Ids : WriteTradeFails(i) \/ RemoveFails(i)
    \/ \E s \in Signals : WriteBackFails(s)

Next ==
    \/ \E s \in Signals : PublishTaken(s) \/ PriceMoves(s)
    \/ ListenerStep \/ MonitorStep \/ UserStreamStep \/ FaultStep \/ Restart

Spec == Init /\ [][Next]_vars

\* Both threads loop for ever, the container restarts a crashed process
\* (restart policy of docker-compose), and the session loop leaves the lock
\* free for most of the ten seconds between two passes, so a listener that
\* waits for it again and again gets it.
Fairness ==
    /\ WF_vars(MonitorStep)
    /\ WF_vars(ListenerStep) /\ SF_vars(OpenPosition)
    /\ WF_vars(Restart)

FairSpec == Spec /\ Fairness

-----------------------------------------------------------------------------
(* Properties.                                                             *)

StreamOK ==
    /\ log \in Seq(Signals) /\ Len(log) <= MaxTaken
    /\ last \in 0..Len(log) /\ pel \subseteq 1..last

ListenerOK ==
    /\ lpc \in {"read", "open", "persist", "ack"}
    /\ cur \in 0..last /\ (lpc = "read" <=> cur = 0)

\* a slot holds no position or one that was opened by a TAKEN of its signal
SlotOK(slot) ==
    /\ slot \in [Signals -> 0..MaxTaken]
    /\ \A s \in Signals :
          slot[s] # NoPos => slot[s] \in 1..last /\ log[slot[s]] = s

MonitorOK ==
    /\ open \subseteq 1..last /\ resolved \subseteq open
    /\ resolved \subseteq visited /\ visited \subseteq Ids /\ mcur \in 0..MaxTaken
    /\ mpc \in {"idle", "scan", "silo", "breaker", "publish", "remove"}
    /\ mpc \in {"silo", "breaker", "publish"} => mcur \in open \ visited
    /\ mpc \in {"idle", "scan", "remove"} => mcur = NoPos
    /\ tries \in 0..(Attempts - 1) /\ (mpc # "publish" => tries = 0)
    /\ mpc = "idle" => resolved = {}

LedgerOK ==
    /\ d03 \in [Ids -> Nat] /\ d16 \in [Ids -> Nat]
    /\ d23 \in [Ids -> Nat] /\ out \in [Ids -> Nat]

ProcessOK ==
    /\ hit \subseteq Signals /\ up \in BOOLEAN
    /\ crashes \in 0..MaxCrashes /\ dbFails \in 0..MaxDbFails
    /\ redisFails \in 0..MaxRedisFails /\ streamFails \in 0..redisFails
    /\ ~up => open = {} /\ lpc = "read" /\ mpc = "idle" /\ ucb = NoSnapshot

\* Every variable has its type (what each Python attribute, Redis key and
\* table may hold).
TypeOK ==
    /\ StreamOK /\ ListenerOK /\ SlotOK(hash) /\ SlotOK(ucb)
    /\ MonitorOK /\ LedgerOK /\ ProcessOK

\* Whatever the interleaving, each crash of the process and each QuestDB write
\* that raises costs a position at most one booking too many: the UserStream
\* write-back, a failed HDEL or a second TAKEN of the signal add none.
BookingsBoundedByFaults ==
    \A i \in Ids : d03[i] <= 1 + crashes + dbFails

\* The books of a position are written in one order that no abort, retry or
\* restart reverses: the capital silo never holds PnL of a trade P3-D03 does not
\* know, nor the breaker PnL the silo does not; Offline gets nothing the breaker
\* has not counted, and an outcome twice only for a Redis call that raised, once
\* more for each and never more often than the attempts of each booking.
BooksInOrder ==
    \A i \in Ids :
        /\ d23[i] <= d16[i] /\ d16[i] <= d03[i]
        /\ out[i] <= d23[i] + redisFails /\ out[i] <= Attempts * d23[i]

Booked(i) == d03[i] > 0 /\ d16[i] > 0 /\ d23[i] > 0 /\ out[i] > 0
OnlyTakenOfItsSignal(i) == \A j \in 1..Len(log) : log[j] = log[i] => j = i
Acked(i) == i \in 1..last /\ i \notin pel

\* A TAKEN that has been acknowledged survives any crash that follows: its
\* position is in the Redis hash until its trade is in every book (provided
\* no Redis call failed and the signal was taken once).
AckedIsDurable ==
    \A i \in Ids :
        Acked(i) /\ OnlyTakenOfItsSignal(i) /\ redisFails = 0
            => hash[log[i]] = i \/ Booked(i)

\* What Online watches in memory it would still watch after a restart: a
\* position of open_positions is in the Redis hash too, once the listener
\* has persisted it.
MemoryIsRecoverable ==
    (redisFails = 0 /\ mpc # "remove") =>
        \A i \in open :
            OnlyTakenOfItsSignal(i) /\ ~(i = cur /\ lpc = "persist")
                => hash[log[i]] = i

\* delivered, but not yet a position: the listener has still to open it
InHand(i) == lpc # "read" /\ (i > cur \/ (i = cur /\ lpc = "open"))

\* Without faults every position that has left open_positions is booked
\* exactly once in each of the four books, even when two TAKENs of one signal
\* share a Redis field and UserStream writes closed positions back to it.
FaultFreeExactlyOnce ==
    crashes + dbFails + redisFails = 0 =>
        \A i \in 1..last \ open :
            ~InHand(i) => d03[i] = 1 /\ d16[i] = 1 /\ d23[i] = 1 /\ out[i] = 1

\* B7 settles as Settlement promises: a position leaves open_positions only
\* when its loss is counted, its books are written in order, what is booked
\* again or no longer watched is paid for by a crash or a failing write, and
\* what is announced again by an answer that was lost.
Ledger == INSTANCE Settlement WITH
    Trades <- Ids, watched <- open, rows <- d03, silo <- d16, breaker <- d23,
    outcomes <- out, faults <- crashes + dbFails, lost <- redisFails

Settles == Ledger!Spec

\* The exit of an acknowledged position is not missed: while its price stays
\* beyond a level it is booked in the end, across a crash and the recovery from
\* Redis, or a failing QuestDB write (unless a Redis call failed, which may cost
\* the entry in the hash or the outcome).
ExitIsNotMissed ==
    \A i \in Ids :
        []<>~(/\ Acked(i) /\ OnlyTakenOfItsSignal(i) /\ log[i] \in hit
              /\ redisFails = 0 /\ ~Booked(i))

\* The listener starves neither behind the B7 pass, which takes the lock again
\* and again, nor behind the rest of its batch, and a failing HSET or QuestDB
\* write drops nothing: every TAKEN is handled, unless the process crashed or
\* reading or acknowledging a batch failed, which leave the rest of the batch
\* in the PEL for good.
TakenIsHandledUnlessCrash ==
    \A i \in Ids :
        (i <= Len(log)) ~> (Acked(i) \/ crashes > 0 \/ streamFails > 0)

=============================================================================
