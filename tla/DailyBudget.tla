----------------------------- MODULE DailyBudget -----------------------------
(***************************************************************************)
(* The daily loss budget of an account and its ledger P3-D23, one row per  *)
(* session.  Command's reconciliation at 19:00 freezes the day's totals in *)
(* P3-D08 and writes a zero row for every budgeted session; Online gives a *)
(* session its budget when it opens (its share of what the earlier         *)
(* sessions of the day have not consumed), screens the session's trades    *)
(* against the row (B5C, layers 1 and 2), and adds the result of every     *)
(* position that B7 closes.  Command and Online are two processes and      *)
(* P3-D23 has no transactions: B7 reads a row, and writes it later.        *)
(*                                                                         *)
(* A trading day ends with the reset.  Amounts are integers, but for the   *)
(* budgets of a session, which are fractions: a row holds the numerator of *)
(* a budget over what the shares of the remaining sessions add up to, so   *)
(* nothing is rounded.  The balance is constant over a run.  The other     *)
(* layers of B5C, the sizing, and the user's answers let through any       *)
(* subset of what layers 1 and 2 do.  One account, as in a deployed tower. *)
(* Layers 1 and 2 are for recommendations TRADE of a Topstep account: what *)
(* B4 calls TRADE_WARMUP, and NKD, goes through whatever it may lose.      *)
(***************************************************************************)
EXTENDS Integers, FiniteSets, Functions

CONSTANTS
    Sessions,
    Order,        \* TRADING_DAY_SESSION_ORDER: the sessions with a budget
    OpenAt,       \* when a session opens: its slot of the trading day
    ResetAt,      \* the slot of the minute 19:00, the last of the day
    Share,        \* session_budget_shares, as integer weights
    Total,        \* L_halt of the day, c * e * A
    Exposure,     \* E of the day, e * A
    Assets,
    Bypass,       \* NKD: not screened
    Topstep,      \* topstep_optimisation of the account
    Risk,         \* rho_j of each asset, what its stop loses
    Win,          \* what a target gains
    MaxDay,       \* bound: trading days
    MaxTrades,    \* bound: trades let through
    MaxFaults     \* bound: faults of all kinds together

NULL  == -1
\* what fails: the budget of a session, the request to the user, an INSERT of
\* the reset, the minute (missed), the SOD parameters, Online, Command
Kinds == {"init", "gui", "insert", "missed", "sod", "online", "command"}
Slots == 0..ResetAt
Ids   == 1..MaxTrades

ASSUME SessionAssumption ==
    /\ IsFiniteSet(Sessions) /\ Order \subseteq Sessions /\ Bypass \subseteq Assets
    /\ ResetAt \in Nat /\ OpenAt \in [Sessions -> 0..ResetAt - 1]
    /\ NULL \notin Sessions /\ Topstep \in BOOLEAN
ASSUME AmountAssumption ==
    /\ Share \in [Order -> Nat \ {0}] /\ Risk \in [Assets -> Nat]
    /\ Total \in Nat /\ Exposure \in Nat /\ Win \in Nat
    /\ MaxDay \in Nat \ {0} /\ MaxTrades \in Nat /\ MaxFaults \in Nat

VARIABLES
    day, clock,
    sod,       \* P3-D08 has computed_sod
    d23,       \* the latest row of each session in P3-D23
    pc,        \* Online's session loop: loop, screen or book
    at,        \* the session it screens
    closing,   \* the trade it books
    held,      \* the row B7 has read
    evaluated, \* sessions evaluated today
    cmd,       \* Command's loop: idle or write
    rowsLeft,  \* sessions whose zero row is not written yet
    lastRec,   \* _last_reconciliation_date
    trades,    \* open positions
    issued,    \* trades so far
    real,      \* what the trades of this day have made in each session
    seen,      \* what earlier sessions had consumed when a session opened
    used,      \* the day of the budget a session was screened against
    resets,    \* resets begun today
    races,     \* rows B7 wrote back that had changed since it read them
    late,      \* results of an older day booked into a session of this one
    faults, left

onlineVars == <<pc, at, closing, held, evaluated>>
cmdVars    == <<cmd, rowsLeft, lastRec>>
tradeVars  == <<trades, issued>>
histVars   == <<real, seen, used, resets, races, late>>
faultVars  == <<faults, left>>
timeVars   == <<day, clock>>
vars == <<timeVars, sod, d23, onlineVars, cmdVars, tradeVars, histVars, faultVars>>

Fault(k) ==
    /\ left > 0 /\ left' = left - 1
    /\ faults' = [faults EXCEPT ![k] = @ + 1]

Abs(n) == IF n < 0 THEN -n ELSE n
Floor0(n) == IF n < 0 THEN 0 ELSE n

\* a zero row of the reset; no row reads the same
ZeroRow == [l |-> 0, halt |-> NULL, exp |-> NULL, opened |-> 0]

Init ==
    /\ day = 1 /\ clock = 0 /\ sod \in BOOLEAN
    /\ d23 = [s \in Sessions |-> ZeroRow]
    /\ pc = "loop" /\ at = NULL /\ closing = NULL /\ held = ZeroRow
    /\ evaluated = {}
    /\ cmd = "idle" /\ rowsLeft = {} /\ lastRec = 0
    /\ trades = {} /\ issued = 0
    /\ real = [s \in Sessions |-> 0] /\ seen = [s \in Sessions |-> 0]
    /\ used = [s \in Sessions |-> 0]
    /\ resets = 0 /\ races = 0 /\ late = 0
    /\ faults = [k \in Kinds |-> 0] /\ left = MaxFaults

-----------------------------------------------------------------------------
(* Time: a session loop that runs does not miss an opening.                *)

Opening(s) == clock = OpenAt[s] /\ s \notin evaluated

Tick ==
    /\ pc = "loop" /\ clock < ResetAt /\ \A s \in Sessions : ~Opening(s)
    /\ clock' = clock + 1
    /\ UNCHANGED <<day, sod, d23, onlineVars, cmdVars, tradeVars, histVars, faultVars>>

NewDay ==
    /\ clock = ResetAt /\ pc # "screen" /\ cmd = "idle" /\ day < MaxDay
    /\ day' = day + 1 /\ clock' = 0
    /\ evaluated' = {} /\ resets' = 0
    /\ real' = [s \in Sessions |-> 0] /\ seen' = [s \in Sessions |-> 0]
    /\ used' = [s \in Sessions |-> 0]
    /\ UNCHANGED <<sod, d23, pc, at, closing, held, cmdVars, tradeVars, races, late>>

NextDay == lastRec = day /\ NewDay /\ UNCHANGED faultVars

\* Command was busy or down for the whole minute
NextDayMissed == lastRec # day /\ NewDay /\ Fault("missed")

-----------------------------------------------------------------------------
(* Online: the budget of a session.                                        *)

Earlier(s)   == {w \in Order : OpenAt[w] < OpenAt[s]}
Remaining(s) == {w \in Order : OpenAt[w] >= OpenAt[s]}
ShareOf(S)   == SumFunctionOnSet(Share, S)

\* l_t_final of an earlier session: a row without an opening counts as unused
Final(w) == IF d23[w].opened = 0 THEN 0 ELSE d23[w].l

\* mutant: what was won is not consumed
ConsumedLossesOnly(s) == SumFunction([w \in Earlier(s) |-> Floor0(-Final(w))])

Consumed(s) == SumFunction([w \in Earlier(s) |-> Abs(Final(w))])

\* mutant: the bare share of the day, whatever was consumed
CarryBareShare(s, total, consumed) == total * Share[s]

\* compute_session_carryover: "available x share / remaining", as the numerator
\* over ShareOf(Remaining(s))
Carry(s, total, consumed) == Floor0(total - consumed) * Share[s]

Opened(s) == d23[s].halt # NULL /\ d23[s].opened # 0

\* what the earlier sessions of this day have really consumed
Spent(s) == SumFunction([w \in Earlier(s) |-> Abs(real[w])])

BeginScreen(s) ==
    /\ pc = "loop" /\ Opening(s)
    /\ pc' = "screen" /\ at' = s
    /\ UNCHANGED <<closing, held, evaluated>>

\* _initialize_session_budget: a row that was opened is kept as it is
OpenBudget(s) ==
    /\ BeginScreen(s)
    /\ IF s \in Order /\ sod /\ ~Opened(s)
       THEN /\ d23' = [d23 EXCEPT ![s] =
                 [l |-> 0, halt |-> Carry(s, Total, Consumed(s)),
                  exp |-> Carry(s, Exposure, Consumed(s)), opened |-> day]]
            /\ seen' = [seen EXCEPT ![s] = Spent(s)]
       ELSE UNCHANGED <<d23, seen>>
    /\ UNCHANGED <<timeVars, sod, cmdVars, tradeVars, real, used, resets,
                   races, late, faultVars>>

\* it raises: _run_session logs it and goes on
OpenBudgetFails(s) ==
    /\ BeginScreen(s) /\ s \in Order /\ Fault("init")
    /\ UNCHANGED <<timeVars, sod, d23, cmdVars, tradeVars, histVars>>

\* the breaker halts the session, or Online is down for its window
HaltSession(s) ==
    /\ pc = "loop" /\ Opening(s)
    /\ evaluated' = evaluated \cup {s}
    /\ UNCHANGED <<timeVars, sod, d23, pc, at, closing, held, cmdVars,
                   tradeVars, histVars, faultVars>>

-----------------------------------------------------------------------------
(* Online: B5C, layers 1 and 2.                                            *)

Fraction(n, d) == [num |-> n, den |-> d]

\* the SOD share, and the flat SOD total of a session without a share
SodEntry(s, total) ==
    IF ~sod THEN Fraction(0, 1)
    ELSE IF s \in Order THEN Fraction(total * Share[s], ShareOf(Order))
    ELSE Fraction(total, 1)

\* the lookup chain: the row, the SOD entry, and live c * e * A for what is
\* missing or not positive
Limit(s, field, total) ==
    LET found == IF field # NULL THEN Fraction(field, ShareOf(Remaining(s)))
                 ELSE SodEntry(s, total)
    IN  IF found.num > 0 THEN found ELSE Fraction(total, 1)

\* |L_t| + rho_j, compared with a limit
Projected(s, a) == Abs(d23[s].l) + Risk[a]
Reaches(amount, limit) == amount * limit.den >= limit.num
Exceeds(amount, limit) == amount * limit.den > limit.num

PreemptiveHalt(s, a) == Reaches(Projected(s, a), Limit(s, d23[s].halt, Total))
BudgetExhausted(s, a) == Exceeds(Projected(s, a), Limit(s, d23[s].exp, Exposure))

\* what the layers are for: the others are let through, and lose all the same
Screened(a, warmup) == Topstep /\ a \notin Bypass /\ ~warmup

Passes(s, a, warmup) ==
    Screened(a, warmup) => ~PreemptiveHalt(s, a) /\ ~BudgetExhausted(s, a)

\* consumed when the session opened, and by itself since
SpentWith(s) == seen[s] + Abs(real[s])

\* one batch, of which B4 has called W TRADE_WARMUP: every candidate is screened
\* against the same row
Screen(A, W) ==
    /\ pc = "screen"
    /\ \A a \in A : Passes(at, a, a \in W)
    /\ \E id \in [A -> issued + 1..MaxTrades] :
          /\ \A a, b \in A : a # b => id[a] # id[b]
          /\ issued' = issued + Cardinality(A) /\ issued' <= MaxTrades
          /\ \A a \in A : id[a] <= issued'
          /\ trades' = trades \cup {[id |-> id[a], asset |-> a, ses |-> at,
                                    day |-> day, spent |-> SpentWith(at),
                                    screened |-> Screened(a, a \in W)] : a \in A}
    /\ used' = [used EXCEPT ![at] = IF d23[at].halt = NULL THEN 0 ELSE d23[at].opened]
    /\ evaluated' = evaluated \cup {at} /\ pc' = "loop" /\ at' = NULL
    /\ UNCHANGED <<timeVars, sod, d23, closing, held, cmdVars, real, seen,
                   resets, races, late, faultVars>>

-----------------------------------------------------------------------------
(* Online: B7 books a closed position, _update_capital_and_cb.             *)

ReadLedger(t) ==
    /\ pc = "loop" /\ t \in trades
    /\ pc' = "book" /\ closing' = t.id /\ held' = d23[t.ses]
    /\ UNCHANGED <<timeVars, sod, d23, at, evaluated, cmdVars, tradeVars,
                   histVars, faultVars>>

Results(t) == {-Risk[t.asset], Win}

\* the sum, with the budget fields as they were read
WriteLedger(t, pnl) ==
    /\ pc = "book" /\ t \in trades /\ t.id = closing /\ pnl \in Results(t)
    /\ d23' = [d23 EXCEPT ![t.ses] = [held EXCEPT !.l = @ + pnl]]
    /\ races' = races + (IF d23[t.ses] = held THEN 0 ELSE 1)
    /\ late' = late + (IF t.day < day /\ d23[t.ses].opened = day THEN 1 ELSE 0)
    /\ real' = IF t.day = day THEN [real EXCEPT ![t.ses] = @ + pnl] ELSE real
    /\ trades' = trades \ {t}
    /\ pc' = "loop" /\ closing' = NULL /\ held' = ZeroRow
    /\ UNCHANGED <<timeVars, sod, at, evaluated, cmdVars, issued, seen, used,
                   resets, faultVars>>

\* the open positions come back from Redis; the evaluated sessions do not
OnlineCrash ==
    /\ Fault("online")
    /\ pc' = "loop" /\ at' = NULL /\ closing' = NULL /\ held' = ZeroRow
    /\ evaluated' = {}
    /\ UNCHANGED <<timeVars, sod, d23, cmdVars, tradeVars, histVars>>

-----------------------------------------------------------------------------
(* Command: the reconciliation of 19:00.                                   *)

\* mutant: the date is not remembered
TriggerForgetful ==
    /\ clock = ResetAt /\ cmd = "idle" /\ lastRec # day
    /\ UNCHANGED lastRec

\* _check_reconciliation_trigger
Trigger ==
    /\ clock = ResetAt /\ cmd = "idle" /\ lastRec # day
    /\ lastRec' = day

BeginReset ==
    /\ cmd' = "write" /\ rowsLeft' = Order /\ resets' = resets + 1
    /\ UNCHANGED <<timeVars, d23, onlineVars, tradeVars, real, seen, used,
                   races, late>>

\* the request to the user, the SOD parameters, then the reset
StartReset == Trigger /\ BeginReset /\ sod' = (sod \/ Topstep) /\ UNCHANGED faultVars

\* _compute_sod_topstep_params swallows its exceptions: the old ones stay
StartResetSodFails ==
    Topstep /\ Trigger /\ BeginReset /\ Fault("sod") /\ UNCHANGED sod

\* the request raises: "retry", but nothing retries, and nothing is reset
ReconciliationRaises ==
    /\ Trigger /\ Fault("gui")
    /\ UNCHANGED <<timeVars, sod, d23, onlineVars, cmd, rowsLeft, tradeVars, histVars>>

\* mutant: only the losses are zeroed
ResetRowLossesOnly(s) ==
    /\ cmd = "write" /\ s \in rowsLeft
    /\ \A w \in rowsLeft : OpenAt[s] <= OpenAt[w]
    /\ d23' = [d23 EXCEPT ![s].l = 0] /\ rowsLeft' = rowsLeft \ {s}
    /\ UNCHANGED <<timeVars, sod, onlineVars, cmd, lastRec, tradeVars, histVars, faultVars>>

\* _reset_daily_counters, row by row
ResetRow(s) ==
    /\ cmd = "write" /\ s \in rowsLeft
    /\ \A w \in rowsLeft : OpenAt[s] <= OpenAt[w]
    /\ d23' = [d23 EXCEPT ![s] = ZeroRow] /\ rowsLeft' = rowsLeft \ {s}
    /\ UNCHANGED <<timeVars, sod, onlineVars, cmd, lastRec, tradeVars, histVars, faultVars>>

ResetDone ==
    /\ cmd = "write" /\ rowsLeft = {} /\ cmd' = "idle"
    /\ UNCHANGED <<timeVars, sod, d23, onlineVars, rowsLeft, lastRec,
                   tradeVars, histVars, faultVars>>

\* an INSERT raises: the rest keeps the rows of the day
ResetRaises ==
    /\ cmd = "write" /\ Fault("insert")
    /\ cmd' = "idle" /\ rowsLeft' = {}
    /\ UNCHANGED <<timeVars, sod, d23, onlineVars, lastRec, tradeVars, histVars>>

\* a restart within the minute reconciles again
CommandCrash ==
    /\ Fault("command")
    /\ cmd' = "idle" /\ rowsLeft' = {} /\ lastRec' = 0
    /\ UNCHANGED <<timeVars, sod, d23, onlineVars, tradeVars, histVars>>

-----------------------------------------------------------------------------
OnlineStep ==
    \/ \E s \in Sessions : OpenBudget(s) \/ OpenBudgetFails(s) \/ HaltSession(s)
    \/ \E A \in SUBSET Assets : \E W \in SUBSET A : Screen(A, W)
    \/ \E t \in trades : ReadLedger(t) \/ \E pnl \in Results(t) : WriteLedger(t, pnl)
    \/ OnlineCrash

CommandStep ==
    \/ StartReset \/ StartResetSodFails \/ ReconciliationRaises
    \/ \E s \in Order : ResetRow(s)
    \/ ResetDone \/ ResetRaises \/ CommandCrash

Next == Tick \/ NextDay \/ NextDayMissed \/ OnlineStep \/ CommandStep

Spec == Init /\ [][Next]_vars

-----------------------------------------------------------------------------
(* Properties.                                                             *)

RowType == [l : Int, halt : Int, exp : Int, opened : 0..MaxDay]

TradeType == [id : Ids, asset : Assets, ses : Sessions, day : 1..MaxDay,
              spent : Int, screened : BOOLEAN]

\* Every variable has its type.
TypeOK ==
    /\ day \in 0..MaxDay /\ clock \in Slots /\ sod \in BOOLEAN
    /\ d23 \in [Sessions -> RowType] /\ held \in RowType
    /\ pc \in {"loop", "screen", "book"} /\ at \in Sessions \cup {NULL}
    /\ pc = "screen" => at \in Sessions
    /\ closing \in Ids \cup {NULL} /\ evaluated \subseteq Sessions
    /\ cmd \in {"idle", "write"} /\ rowsLeft \subseteq Order /\ lastRec \in 0..MaxDay
    /\ trades \subseteq TradeType /\ issued \in 0..MaxTrades
    /\ real \in [Sessions -> Int] /\ seen \in [Sessions -> Int]
    /\ used \in [Sessions -> 0..MaxDay]
    /\ resets \in Nat /\ races \in Nat /\ late \in Nat
    /\ faults \in [Kinds -> Nat] /\ left \in 0..MaxFaults

NoReset == faults["gui"] + faults["insert"] + faults["missed"]

\* no reset and no budget has failed, and no row was written back stale or late
Undisturbed == NoReset = 0 /\ faults["init"] = 0 /\ races = 0 /\ late = 0

\* "Total daily budget is conserved": the ledger of a session opened today is
\* the history of its trades, and its budget is its share of what the trades
\* of the earlier sessions had left over when it opened.  Only a reset that
\* did not happen, a budget that could not be written, a row that B7 wrote
\* back over the reset, or a result of an older day can break it.
LedgerIsHistory ==
    \A s \in Order :
        d23[s].opened = day /\ Undisturbed =>
            /\ d23[s].l = real[s]
            /\ d23[s].halt = Floor0(Total - seen[s]) * Share[s]

\* A session is screened against a budget of its own day or none, never one
\* of an earlier day, although "already initialised" looks at no date: that
\* takes a reset that did not happen, or a row written back over it.
ScreenedOnTodaysBudget ==
    \A s \in Sessions : used[s] \in {0, day} \/ NoReset + races > 0

Budgeted(t) ==
    /\ t.screened /\ t.ses \in Order
    /\ t.day = day /\ d23[t.ses].opened = day

\* As long as something of the day's halt budget is left, no trade that B5C
\* screens is let through whose stop, on its own, would use it up: what the
\* unscreened ones (NKD, TRADE_WARMUP, all of an account without Topstep rules)
\* have lost in the meantime counts as well.
TradeFitsDay ==
    \A t \in trades :
        Budgeted(t) /\ Undisturbed /\ t.spent < Total =>
            t.spent + Risk[t.asset] < Total

\* The daily counters are reset at most once a day and once more for each
\* restart of Command within that minute.
ResetOncePerDay == resets <= 1 + faults["command"]

=============================================================================
