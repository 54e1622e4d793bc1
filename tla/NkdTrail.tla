------------------------------- MODULE NkdTrail -------------------------------
(***************************************************************************)
(* The trailing stop of one NKD position (block B7B): the scan that every  *)
(* monitor pass makes after the B7 pass, the broker that holds the stop,   *)
(* the copy of the trail state in Redis that a restart starts from, and    *)
(* the UserStream callbacks that rewrite that copy.                        *)
(*                                                                         *)
(* Prices are ticks relative to the entry price of the signal, which the    *)
(* position is opened with; UserStream replaces it, in Redis only, by the  *)
(* broker's average price, taken as whole ticks too.  A tick is 5 points   *)
(* of 5 dollars per contract.  Quotes are either usable or not (missing, or     *)
(* older than 30 s, which B7 would still use).  `auto` stands for what     *)
(* compliance_modify_check answers.  Not modelled: the D34 audit rows and  *)
(* modify_seq, which nothing reads, and the unresolved-poll fields of the  *)
(* mirror, which are 0 and FALSE whenever it runs.                         *)
(***************************************************************************)
EXTENDS Integers

CONSTANTS
    Dir,            \* 1 for a LONG position, -1 for a SHORT one
    Contracts,
    DInit,          \* snapped_d_init: dollars of the initial stop
    Marks,          \* the prices the market moves between
    Jitters,        \* what sample_isaac_jitter may return: up to 20 dollars
    SignalJitter,   \* the J that B6 sent along, or NoJitter
    Fills,          \* average prices the broker may report
    Slip,           \* ticks between any two entry prices, at most
    NoStop, NoMark, NoJitter,   \* None
    MaxPolls,       \* bound: polls until the broker's order search answers
    MaxCrashes,     \* bound: crashes of the Online process
    MaxTimeouts,    \* bound: /Order/modify calls without an answer
    MaxRejects,     \* bound: rejections while the broker holds the order
    MaxRedisFails   \* bound: mirrors that raise

ASSUME TrailAssumption ==
    /\ Dir \in {1, -1} /\ Contracts \in Nat \ {0} /\ DInit \in Nat
    /\ Marks \subseteq Int /\ Jitters \subseteq -20..20 /\ Jitters # {}
    /\ SignalJitter \in Jitters \cup {NoJitter}
    /\ Fills \subseteq Int /\ Slip \in Nat
    /\ \A e, f \in Fills \cup {0} : e - f <= Slip
    /\ NoStop \notin Int /\ NoMark \notin Int /\ NoJitter \notin Int
ASSUME TrailBounds ==
    /\ MaxPolls \in Nat /\ MaxCrashes \in Nat /\ MaxTimeouts \in Nat
    /\ MaxRejects \in Nat /\ MaxRedisFails \in Nat

VARIABLES
    mark, quote, auto,  \* the market, its feed, execution_mode = "AUTO"
    tracked,        \* the position is in open_positions
    pos,            \* its dict, as far as B7B uses it
    stored,         \* the same in captain:open_positions
    snap,           \* what a UserStream callback has read of `stored`
    pc,             \* where _scan_one_trail is
    polled,         \* the mark it works with
    want,           \* the stop it asks the broker for
    seen,           \* the entry price in the hash that the mirror has read
    bStop, bOpen,   \* the broker's stop order, the position at the broker
    late,           \* requests given up by the client, still to be applied
    alerts,         \* NKD_TRAIL_SL_UNRESOLVED alerts published
    up, crashes, timeouts, rejects, redisFails

marketVars == <<mark, quote, auto>>
scanVars   == <<pc, polled, want, seen>>
brokerVars == <<bStop, bOpen, late>>
faultVars  == <<crashes, timeouts, rejects, redisFails>>
vars == <<marketVars, tracked, pos, stored, snap, scanVars, brokerVars, alerts,
          up, faultVars>>

-----------------------------------------------------------------------------
(* Pure functions.                                                         *)

PhaseBStart == 2000
PhaseCStart == 3000
TpTarget    == 4450
PhaseBBuffer == 1000
PhaseCBuffer == 450
PhaseAStep   == 500
BufferFloor  == 100
TickDollars == 25 * Contracts

Entries == Fills \cup {0}

\* _compute_live_pnl
Pnl(m, e) == (m - e) * Dir * TickDollars

\* compute_nkd_phase: the phase ...
Phase(m, e) == IF Pnl(m, e) < PhaseBStart THEN "A"
               ELSE IF Pnl(m, e) < PhaseCStart THEN "B"
               ELSE IF Pnl(m, e) < TpTarget THEN "C" ELSE "TP_HIT"

\* mutant: phase C keeps the buffer of phase B
PhaseBufferWide == [A |-> DInit, B |-> PhaseBBuffer, C |-> PhaseBBuffer,
                    TP_HIT |-> PhaseCBuffer]

\* ... and its buffer
PhaseBuffer == [A |-> DInit,
                B |-> IF DInit < PhaseBBuffer THEN DInit ELSE PhaseBBuffer,
                C |-> PhaseCBuffer, TP_HIT |-> PhaseCBuffer]
Buffer(m, e) == PhaseBuffer[Phase(m, e)]

EffectiveBuffer(m, e, j) ==
    IF Buffer(m, e) + j > BufferFloor THEN Buffer(m, e) + j ELSE BufferFloor

\* tick_snap_outward of a price in dollars: down for LONG, up for SHORT
SnapOutward(d) ==
    IF Dir = 1 THEN d \div TickDollars ELSE -((-d) \div TickDollars)

\* compute_stop_price and the snap
Candidate(m, e, j) ==
    SnapOutward(m * TickDollars - Dir * EffectiveBuffer(m, e, j))

\* x is at least as tight a stop as y
AtLeast(x, y) == IF Dir = 1 THEN x >= y ELSE x <= y

\* mutant: min for LONG and max for SHORT
RatchetSwapped(stop, candidate) ==
    IF stop # NoStop /\ AtLeast(candidate, stop) THEN stop ELSE candidate

\* apply_ratchet
Ratchet(stop, candidate) ==
    IF stop # NoStop /\ AtLeast(stop, candidate) THEN stop ELSE candidate

\* phase_a_should_modify
NewStep(m, prev, e) ==
    prev = NoMark \/ Pnl(m, e) \div PhaseAStep # Pnl(prev, e) \div PhaseAStep

\* the levels of the bracket, from B6 (_sl_from_dollars, _tp_from_dollars)
SlLevel == SnapOutward(-Dir * DInit)
TpLevel == SnapOutward(Dir * (TpTarget + IF SignalJitter = NoJitter
                                           THEN 0 ELSE SignalJitter))

Reached(level) == AtLeast(level, mark)
TpReached(m)   == AtLeast(m, TpLevel)

-----------------------------------------------------------------------------
Trail(stop, phase, sl, j, entry) ==
    [stop |-> stop, phase |-> phase, sl |-> sl, j |-> j, entry |-> entry]
Memory(t) == [stop |-> t.stop, phase |-> t.phase, sl |-> t.sl, j |-> t.j,
              entry |-> t.entry, prev |-> NoMark, polls |-> 0, alerted |-> FALSE]
NoTrail == Trail(NoStop, "none", FALSE, NoJitter, 0)

\* _handle_taken_skipped has opened the position, with or without the order ids
\* of the bracket's children, and the broker holds the initial stop.
Init ==
    /\ mark \in {m \in Marks : AtLeast(m, SlLevel + Dir) /\ ~TpReached(m)}
    /\ quote = TRUE /\ auto = TRUE /\ tracked = TRUE
    /\ \E sl \in BOOLEAN : stored = Trail(NoStop, "none", sl, SignalJitter, 0)
    /\ pos = Memory(stored) /\ snap = NoTrail
    /\ pc = "idle" /\ polled = NoMark /\ want = NoStop /\ seen = 0
    /\ bStop = SlLevel /\ bOpen = TRUE /\ late = {}
    /\ alerts = 0 /\ up = TRUE
    /\ crashes = 0 /\ timeouts = 0 /\ rejects = 0 /\ redisFails = 0

-----------------------------------------------------------------------------
(* The market, as long as the position is tracked, and the broker.         *)

\* a stop or limit order that the price reaches is filled at once
PriceMoves(m) ==
    /\ tracked /\ mark' = m
    /\ bOpen' = (bOpen /\ ~AtLeast(bStop, m) /\ ~TpReached(m))
    /\ UNCHANGED <<quote, auto, tracked, pos, stored, snap, scanVars, bStop,
                   late, alerts, up, faultVars>>

FeedChanges ==
    /\ tracked /\ quote' = ~quote
    /\ UNCHANGED <<mark, auto, tracked, pos, stored, snap, scanVars, brokerVars,
                   alerts, up, faultVars>>

ModeChanges ==
    /\ tracked /\ auto' = ~auto
    /\ UNCHANGED <<mark, quote, tracked, pos, stored, snap, scanVars,
                   brokerVars, alerts, up, faultVars>>

BrokerSets(stop) == bStop' = stop /\ bOpen' = (bOpen /\ ~Reached(stop))

\* a request whose answer timed out is applied after all
LateModify(stop) ==
    /\ bOpen /\ stop \in late
    /\ late' = late \ {stop}
    /\ BrokerSets(stop)
    /\ UNCHANGED <<marketVars, tracked, pos, stored, snap, scanVars, alerts, up,
                   faultVars>>

-----------------------------------------------------------------------------
(* One pass of the session loop: B7 first, then _scan_one_trail.           *)

AtExit == Reached(SlLevel) \/ TpReached(mark)

\* monitor_positions: the price is beyond a level, the position is booked
Resolve ==
    /\ up /\ tracked /\ pc = "idle" /\ quote /\ AtExit
    /\ tracked' = FALSE
    /\ UNCHANGED <<marketVars, pos, stored, snap, scanVars, brokerVars, alerts,
                   up, faultVars>>

Polling == up /\ tracked /\ pc = "idle" /\ ~(quote /\ AtExit)

\* mutant: the flag is not remembered
PollUnresolvedForgets ==
    /\ Polling /\ ~pos.sl /\ pos.polls < MaxPolls
    /\ pos' = [pos EXCEPT !.polls = @ + 1]
    /\ alerts' = IF pos.polls + 1 >= 6 THEN alerts + 1 ELSE alerts
    /\ UNCHANGED <<marketVars, tracked, stored, snap, scanVars, brokerVars, up,
                   faultVars>>

\* the stop's order id is unknown, and the search has not found it either
PollUnresolved ==
    /\ Polling /\ ~pos.sl /\ pos.polls < MaxPolls
    /\ LET alert == pos.polls + 1 >= 6 /\ ~pos.alerted
       IN  /\ pos' = [pos EXCEPT !.polls = @ + 1, !.alerted = @ \/ alert]
           /\ alerts' = IF alert THEN alerts + 1 ELSE alerts
    /\ UNCHANGED <<marketVars, tracked, stored, snap, scanVars, brokerVars, up,
                   faultVars>>

\* from the third poll on: search_open_orders, _match_bracket_children
Reconcile ==
    /\ Polling /\ ~pos.sl /\ pos.polls + 1 >= 3
    /\ pos' = [pos EXCEPT !.sl = TRUE, !.polls = 0, !.alerted = FALSE]
    /\ pc' = "scan"
    /\ UNCHANGED <<marketVars, tracked, stored, snap, polled, want, seen,
                   brokerVars, alerts, up, faultVars>>

StartScan ==
    /\ Polling /\ pos.sl
    /\ pc' = "scan"
    /\ UNCHANGED <<marketVars, tracked, pos, stored, snap, polled, want, seen,
                   brokerVars, alerts, up, faultVars>>

\* the J of the position, or a fresh sample when B6 sent none
JitterChoice == IF pos.j = NoJitter THEN Jitters ELSE {pos.j}

SkipPoll ==
    /\ up /\ pc = "scan" /\ ~quote
    /\ pc' = "idle"
    /\ UNCHANGED <<marketVars, tracked, pos, stored, snap, polled, want, seen,
                   brokerVars, alerts, up, faultVars>>

Unchanged(j) ==
    /\ Phase(mark, pos.entry) # "TP_HIT"
    /\ Ratchet(pos.stop, Candidate(mark, pos.entry, j)) = pos.stop

\* mutant: the gate is not limited to phase A
GatedEveryPhase(j) ==
    ~Unchanged(j) /\ pos.stop # NoStop /\ ~NewStep(mark, pos.prev, pos.entry)

Gated(j) ==
    /\ Phase(mark, pos.entry) = "A" /\ ~Unchanged(j)
    /\ pos.stop # NoStop /\ ~NewStep(mark, pos.prev, pos.entry)

\* no request: TP_HIT, the stop would not move, the $500 gate, or MANUAL mode
HoldStop(j) ==
    /\ up /\ pc = "scan" /\ quote
    /\ \/ Phase(mark, pos.entry) = "TP_HIT" \/ Gated(j) \/ Unchanged(j) \/ ~auto
    /\ pos' = [pos EXCEPT !.j = j, !.prev = IF Unchanged(j) THEN mark ELSE @]
    /\ pc' = "idle"
    /\ UNCHANGED <<marketVars, tracked, stored, snap, polled, want, seen,
                   brokerVars, alerts, up, faultVars>>

SendModify(j) ==
    /\ up /\ pc = "scan" /\ quote /\ auto
    /\ Phase(mark, pos.entry) # "TP_HIT" /\ ~Unchanged(j) /\ ~Gated(j)
    /\ pos' = [pos EXCEPT !.j = j]
    /\ polled' = mark /\ want' = Ratchet(pos.stop, Candidate(mark, pos.entry, j))
    /\ pc' = "sent"
    /\ UNCHANGED <<marketVars, tracked, stored, snap, seen, brokerVars, alerts,
                   up, faultVars>>

\* every answer refreshes prev_pnl, and the scan is over
Answered(next, stop, phase) ==
    /\ pc' = next /\ polled' = NoMark /\ want' = NoStop /\ UNCHANGED seen
    /\ pos' = [pos EXCEPT !.prev = polled, !.stop = stop, !.phase = phase]

ModifyOK ==
    /\ up /\ pc = "sent" /\ bOpen
    /\ BrokerSets(want)
    /\ Answered("mirror", want, Phase(polled, pos.entry))
    /\ UNCHANGED <<marketVars, tracked, stored, snap, late, alerts, up,
                   faultVars>>

\* mutant: a rejected stop is committed
ModifyRejectedCommits ==
    /\ up /\ pc = "sent" /\ (bOpen => rejects < MaxRejects)
    /\ rejects' = IF bOpen THEN rejects + 1 ELSE rejects
    /\ Answered("idle", want, Phase(polled, pos.entry))
    /\ UNCHANGED <<marketVars, tracked, stored, snap, brokerVars, alerts, up,
                   crashes, timeouts, redisFails>>

\* success is false, as it always is once the order is filled
ModifyRejected ==
    /\ up /\ pc = "sent" /\ (bOpen => rejects < MaxRejects)
    /\ rejects' = IF bOpen THEN rejects + 1 ELSE rejects
    /\ Answered("idle", pos.stop, pos.phase)
    /\ UNCHANGED <<marketVars, tracked, stored, snap, brokerVars, alerts, up,
                   crashes, timeouts, redisFails>>

\* modify_order raises: applied or not, or still to be applied
ModifyRaises ==
    /\ up /\ pc = "sent" /\ timeouts < MaxTimeouts
    /\ timeouts' = timeouts + 1
    /\ \/ bOpen /\ BrokerSets(want) /\ UNCHANGED late
       \/ late' \in {late, late \cup {want}} /\ UNCHANGED <<bStop, bOpen>>
    /\ Answered("idle", pos.stop, pos.phase)
    /\ UNCHANGED <<marketVars, tracked, stored, snap, alerts, up, crashes,
                   rejects, redisFails>>

\* _mirror_position_to_redis: the HGET ...
MirrorRead ==
    /\ up /\ pc = "mirror"
    /\ seen' = stored.entry
    /\ pc' = "hset"
    /\ UNCHANGED <<marketVars, tracked, pos, stored, snap, polled, want,
                   brokerVars, alerts, up, faultVars>>

\* ... and the HSET, of the trail fields over what was read
Mirrored(entry) == stored' = Trail(pos.stop, pos.phase, pos.sl, pos.j, entry)

Mirror ==
    /\ up /\ pc = "hset"
    /\ Mirrored(seen)
    /\ pc' = "idle" /\ seen' = 0
    /\ UNCHANGED <<marketVars, tracked, pos, snap, polled, want, brokerVars,
                   alerts, up, faultVars>>

\* the HGET raises, or the HSET, with or without effect: logged
MirrorFails ==
    /\ up /\ pc \in {"mirror", "hset"} /\ redisFails < MaxRedisFails
    /\ redisFails' = redisFails + 1
    /\ UNCHANGED stored \/ (pc = "hset" /\ Mirrored(seen))
    /\ pc' = "idle" /\ seen' = 0
    /\ UNCHANGED <<marketVars, tracked, pos, snap, polled, want, brokerVars,
                   alerts, up, crashes, timeouts, rejects>>

-----------------------------------------------------------------------------
(* The UserStream thread reads the stored position and writes it back,     *)
(* with the broker's average as its entry price or the stop's order id.    *)

UserRead ==
    /\ up /\ tracked /\ snap = NoTrail
    /\ \/ \E avg \in Fills : snap' = [stored EXCEPT !.entry = avg]
       \/ snap' = [stored EXCEPT !.sl = TRUE]
    /\ UNCHANGED <<marketVars, tracked, pos, stored, scanVars, brokerVars,
                   alerts, up, faultVars>>

UserWrite ==
    /\ up /\ snap # NoTrail
    /\ stored' = snap /\ snap' = NoTrail
    /\ UNCHANGED <<marketVars, tracked, pos, scanVars, brokerVars, alerts, up,
                   faultVars>>

-----------------------------------------------------------------------------
\* A request that is under way when the process dies has reached the broker or
\* never will.
Crash ==
    /\ up /\ tracked /\ crashes < MaxCrashes
    /\ crashes' = crashes + 1 /\ up' = FALSE
    /\ pc' = "idle" /\ polled' = NoMark /\ want' = NoStop
    /\ seen' = 0 /\ snap' = NoTrail
    /\ pos' = Memory(NoTrail)
    /\ \/ pc = "sent" /\ bOpen /\ BrokerSets(want)
       \/ UNCHANGED <<bStop, bOpen>>
    /\ UNCHANGED <<marketVars, tracked, stored, late, alerts, timeouts, rejects,
                   redisFails>>

\* _reconcile_positions_from_redis
Restart ==
    /\ ~up /\ up' = TRUE
    /\ pos' = Memory(stored)
    /\ UNCHANGED <<marketVars, tracked, stored, snap, scanVars, brokerVars,
                   alerts, faultVars>>

-----------------------------------------------------------------------------
PassStep ==
    \/ Resolve \/ PollUnresolved \/ Reconcile \/ StartScan \/ SkipPoll
    \/ \E j \in JitterChoice : HoldStop(j) \/ SendModify(j)
    \/ ModifyOK \/ ModifyRejected \/ MirrorRead \/ Mirror

Next ==
    \/ \E m \in Marks : PriceMoves(m)
    \/ FeedChanges \/ ModeChanges \/ (\E stop \in late : LateModify(stop))
    \/ PassStep \/ ModifyRaises \/ MirrorFails
    \/ UserRead \/ UserWrite
    \/ Crash \/ Restart

Spec == Init /\ [][Next]_vars

\* The session loop goes on, the container restarts a crashed process.
FairSpec == Spec /\ WF_vars(PassStep) /\ WF_vars(Restart)

-----------------------------------------------------------------------------
(* Properties.                                                             *)

Stops  == Int \cup {NoStop}
Phases == {"none", "A", "B", "C"}

TrailType  == [stop : Stops, phase : Phases, sl : BOOLEAN,
               j : Jitters \cup {NoJitter}, entry : Entries]
MemoryType == [stop : Stops, phase : Phases, sl : BOOLEAN,
               j : Jitters \cup {NoJitter}, entry : Entries, prev : Marks \cup {NoMark},
               polls : 0..MaxPolls, alerted : BOOLEAN]

\* Every variable has its type, and a request is only under way for a position
\* whose stop order is known.
TypeOK ==
    /\ mark \in Marks /\ {quote, auto, tracked, bOpen, up} \subseteq BOOLEAN
    /\ pos \in MemoryType /\ stored \in TrailType /\ snap \in TrailType
    /\ pc \in {"idle", "scan", "sent", "mirror", "hset"} /\ seen \in Entries
    /\ pc = "sent" => polled \in Marks /\ want \in Int /\ pos.sl
    /\ bStop \in Int /\ late \subseteq Int /\ alerts \in Nat
    /\ crashes \in 0..MaxCrashes /\ timeouts \in 0..MaxTimeouts
    /\ rejects \in 0..MaxRejects /\ redisFails \in 0..MaxRedisFails

\* What the ratchet remembers is never tighter than what the broker holds: as
\* long as every modify call was answered, no rejection, crash, lost mirror or
\* UserStream write-back makes the trail believe in a stop that is not there.
BrokerHoldsTheStop ==
    timeouts = 0 /\ pos.stop # NoStop => AtLeast(bStop, pos.stop)

\* The ratchet: once the process has set the stop itself, no later step weakens
\* the broker's order, unless a call went unanswered or the process crashed.
BrokerNeverWeakens ==
    [][timeouts = 0 /\ crashes = 0 /\ pos.stop # NoStop
          => AtLeast(bStop', bStop)]_vars

\* dollars that remain if the stop fills at its price
Locked(stop, e) == Pnl(stop, e)
MaxJitter == 20
WidestBuffer(buffer) == buffer + MaxJitter + TickDollars

\* Profit is locked in: the stop that goes with phase B (C) keeps the $2000
\* ($3000) the phase starts at but for its buffer, the jitter and one tick, in
\* memory and in the copy that a restart recovers; and from whichever entry
\* price it is counted, but for what these prices differ, although UserStream
\* changes the one in Redis under the stop and the phase that go with another.
ProfitIsLocked ==
    \A t \in {pos, stored} : \A e \in Entries :
        /\ t.phase = "B" => Locked(t.stop, e) >=
              PhaseBStart - WidestBuffer(PhaseBBuffer) - Slip * TickDollars
        /\ t.phase = "C" => Locked(t.stop, e) >=
              PhaseCStart - WidestBuffer(PhaseCBuffer) - Slip * TickDollars

\* A position whose stop order stays unknown is reported once per life of the
\* process.
AlertedOncePerLife == alerts <= 1 + crashes

\* The trail catches up: while the price stays in phase B or C of the entry
\* price in memory with a good feed, in AUTO mode, the broker's stop ends up at
\* the phase's buffer, across rejections, a lost order id and a crash at any
\* point (a call without an answer may undo it later).
TrailCatchesUp ==
    \A m \in Marks, e \in Entries :
        /\ Phase(m, e) \in {"B", "C"}
        /\ <>[](/\ mark = m /\ quote /\ auto /\ tracked /\ bOpen
                /\ timeouts = 0 /\ pos.entry = e)
        => <>(/\ up /\ pos.entry = e /\ pos.j # NoJitter
              /\ AtLeast(bStop, Candidate(m, e, pos.j)))

=============================================================================
