-------------------------- MODULE DailyBudgetProofs --------------------------
(***************************************************************************)
(* Theorems about DailyBudget, for any sessions, shares, amounts and days: *)
(* the daily reset runs once a day; a session is screened against a budget *)
(* of its own day or none; the ledger is the history of the day's trades;  *)
(* and no trade let through can lose by itself what the day has left.  The *)
(* second follows the date that a row carries, the others what the rows    *)
(* hold.  The budgets are sums over sets of sessions: the section on sums  *)
(* derives what is needed of SumFunctionOnSet.                             *)
(***************************************************************************)
EXTENDS DailyBudget, FiniteSetTheorems, TLAPS

-----------------------------------------------------------------------------
(* The day and the reconciliation.                                         *)

\* What the argument needs of the types.  Command reconciles in the last slot.
DayInv ==
    /\ day \in Nat \ {0} /\ clock \in Slots
    /\ lastRec \in Nat /\ lastRec <= day
    /\ lastRec = day => clock = ResetAt
    /\ cmd \in {"idle", "write"} /\ rowsLeft \subseteq Order
    /\ cmd = "write" => lastRec = day
    /\ resets \in Nat /\ races \in Nat
    /\ faults \in [Kinds -> Nat]

\* Online screens a session in its slot, which is not the last one.
ScreenInv ==
    /\ pc = "screen" => at \in Sessions /\ clock = OpenAt[at]
    /\ at \in Sessions \cup {NULL}

CountInv ==
    /\ ResetOncePerDay
    /\ lastRec # day => resets <= faults["command"]

Columns == {"l", "halt", "exp", "opened"}

\* The rows have their columns, a session without a share has no budget.
RowInv ==
    /\ DOMAIN d23 = Sessions /\ d23 = [s \in Sessions |-> d23[s]]
    /\ \A s \in Sessions : /\ DOMAIN d23[s] = Columns /\ d23[s] = [c \in Columns |-> d23[s][c]]
                           /\ d23[s].opened \in Nat
    /\ DOMAIN held = Columns /\ held.opened \in Nat /\ held = [c \in Columns |-> held[c]]
    /\ \A t \in trades : t.ses \in Sessions
    /\ used \in [Sessions -> Nat]

\* Unless a reset was missed or written over: dates are today's or none, and
\* none for a row that the reset has passed.
DateInv ==
    NoReset + races = 0 =>
        /\ \A s \in Sessions : d23[s].opened \in {0, day}
        /\ lastRec = day => \A s \in Sessions \ rowsLeft : d23[s].opened = 0
        /\ lastRec = day /\ cmd = "idle" => rowsLeft = {}
        /\ \A s \in Sessions \ Order : d23[s].opened = 0
        /\ \A s \in Sessions : used[s] \in {0, day}

IInv == DayInv /\ ScreenInv /\ CountInv /\ RowInv /\ DateInv

LEMMA FaultCounts ==
  ASSUME DayInv, NEW k \in Kinds, Fault(k)
  PROVE  /\ faults' \in [Kinds -> Nat]
         /\ k = "command" => faults'["command"] = faults["command"] + 1
         /\ k # "command" => faults'["command"] = faults["command"]
         /\ k \in {"gui", "insert", "missed"} => NoReset' > 0
         /\ k \notin {"gui", "insert", "missed"} => NoReset' = NoReset
         /\ NoReset \in Nat /\ NoReset' \in Nat
  <1>1. /\ faults \in [Kinds -> Nat] /\ faults' = [faults EXCEPT ![k] = @ + 1]
        /\ Kinds = {"init", "gui", "insert", "missed", "sod", "online", "command"}
    BY DEF DayInv, Fault, Kinds
  <1>2. /\ faults["gui"] \in Nat /\ faults["insert"] \in Nat /\ faults["missed"] \in Nat
        /\ faults["command"] \in Nat /\ faults' \in [Kinds -> Nat]
    BY <1>1
  <1>3. CASE k \in {"gui", "insert", "missed"}
    BY <1>1, <1>2, <1>3 DEF NoReset
  <1>4. CASE k = "command"
    BY <1>1, <1>2, <1>4 DEF NoReset
  <1>5. CASE k \in {"init", "sod", "online"}
    BY <1>1, <1>2, <1>5 DEF NoReset
  <1> QED BY <1>1, <1>3, <1>4, <1>5

LEMMA SumNat == DayInv => NoReset \in Nat /\ races \in Nat /\ faults["command"] \in Nat
  BY DEF DayInv, NoReset, Kinds

-----------------------------------------------------------------------------
LEMMA IInit == Init => IInv
  <1> SUFFICES ASSUME Init PROVE IInv
    OBVIOUS
  <1>1. DayInv
    BY SessionAssumption DEF Init, DayInv, Slots
  <1>2. ScreenInv
    BY DEF Init, ScreenInv
  <1>3. CountInv
    BY <1>1, SumNat DEF Init, CountInv, ResetOncePerDay
  <1>4. RowInv
    BY DEF Init, RowInv, Columns, ZeroRow
  <1>5. DateInv
    BY DEF Init, DateInv, ZeroRow
  <1> QED BY <1>1, <1>2, <1>3, <1>4, <1>5 DEF IInv

\* Steps of Online that leave the ledger and the dates alone.
LEMMA OnlineKeeps ==
  ASSUME IInv, ScreenInv', faults' \in [Kinds -> Nat], NoReset' = NoReset,
         faults'["command"] = faults["command"],
         UNCHANGED <<day, lastRec, cmd, rowsLeft, resets, races, d23, used>>,
         clock' \in Slots, lastRec = day => clock' = clock,
         held' \in {held, ZeroRow} \cup {d23[s] : s \in Sessions}, trades' \subseteq trades
  PROVE  IInv'
  <1>1. DayInv' /\ CountInv'
    BY DEF IInv, DayInv, CountInv, ResetOncePerDay
  <1>2. RowInv'
    BY DEF IInv, RowInv, Columns, ZeroRow
  <1>3. DateInv'
    BY DEF IInv, DateInv
  <1> QED BY <1>1, <1>2, <1>3 DEF IInv

LEMMA StepTick ==
  ASSUME IInv, Tick \/ UNCHANGED vars
  PROVE  IInv'
  <1>1. UNCHANGED <<day, pc, at, lastRec, cmd, rowsLeft, resets, races, d23, used, held, trades, faults>>
    BY DEF Tick, vars, timeVars, onlineVars, cmdVars, tradeVars, histVars, faultVars
  <1>2. /\ clock' \in Slots /\ (lastRec = day => clock' = clock)
        /\ pc = "screen" => clock' = clock
    BY SessionAssumption DEF Tick, vars, timeVars, IInv, DayInv, Slots
  <1>3. ScreenInv' /\ NoReset' = NoReset
    BY <1>1, <1>2 DEF IInv, ScreenInv, NoReset
  <1> QED BY <1>1, <1>2, <1>3, OnlineKeeps DEF IInv, DayInv

LEMMA StepNewDay ==
  ASSUME IInv, NextDay \/ NextDayMissed
  PROVE  IInv'
  <1>1. /\ clock = ResetAt /\ pc # "screen" /\ cmd = "idle" /\ day' = day + 1 /\ clock' = 0
        /\ resets' = 0 /\ used' = [s \in Sessions |-> 0]
        /\ UNCHANGED <<d23, pc, at, held, lastRec, cmd, rowsLeft, trades, races>>
    BY DEF NextDay, NextDayMissed, NewDay, cmdVars, tradeVars
  <1>2. /\ faults' \in [Kinds -> Nat] /\ NoReset \in Nat /\ NoReset' \in Nat
        /\ NextDay => NoReset' = NoReset /\ lastRec = day
        /\ NextDayMissed => NoReset' > 0
    <2>1. CASE NextDay
      <3>1. UNCHANGED faults /\ lastRec = day
        BY <2>1 DEF NextDay, faultVars
      <3>2. NoReset \in Nat /\ NoReset' = NoReset /\ faults \in [Kinds -> Nat]
        BY <3>1, SumNat DEF IInv, DayInv, NoReset
      <3>3. ~NextDayMissed
        BY <3>1 DEF NextDayMissed
      <3> QED BY <3>1, <3>2, <3>3
    <2>2. CASE NextDayMissed
      <3>1. Fault("missed") /\ ~NextDay
        BY <2>2 DEF NextDay, NextDayMissed
      <3> QED BY <3>1, FaultCounts DEF IInv, Kinds
    <2> QED BY <2>1, <2>2
  <1>3. DayInv'
    BY <1>1, <1>2, SessionAssumption DEF IInv, DayInv, Slots
  <1>4. ScreenInv' /\ RowInv'
    BY <1>1 DEF IInv, ScreenInv, RowInv
  <1>5. CountInv'
    <2>1. faults'["command"] \in Nat
      BY <1>2 DEF Kinds
    <2> QED BY <1>1, <2>1 DEF CountInv, ResetOncePerDay
  <1>6. DateInv'
    <2> SUFFICES ASSUME (NoReset + races = 0)' PROVE DateInv'
      BY DEF DateInv
    <2>1. NextDay /\ NoReset + races = 0 /\ lastRec = day
      <3>1. races \in Nat /\ races' = races
        BY <1>1 DEF IInv, DayInv
      <3> DEFINE n == NoReset'
      <3>2. n \in Nat /\ n + races = 0
        BY <1>2, <3>1
      <3> HIDE DEF n
      <3>3. n = 0
        BY <3>1, <3>2
      <3>4. NoReset' = 0
        BY <3>3 DEF n
      <3>5. NextDay
        BY <1>2, <3>4
      <3> QED BY <1>2, <3>1, <3>4, <3>5
    <2>2. \A s \in Sessions : d23[s].opened = 0
      BY <1>1, <2>1 DEF IInv, DateInv
    <2>3. lastRec' # day'
      BY <1>1, <2>1 DEF IInv, DayInv
    <2> QED BY <1>1, <2>2, <2>3 DEF DateInv
  <1> QED BY <1>3, <1>4, <1>5, <1>6 DEF IInv

LEMMA StepOnline ==
  ASSUME IInv,
         \/ \E s \in Sessions : OpenBudgetFails(s) \/ HaltSession(s)
         \/ \E t \in trades : ReadLedger(t)
         \/ OnlineCrash
  PROVE  IInv'
  <1>1. UNCHANGED <<day, clock, lastRec, cmd, rowsLeft, resets, races, d23, used, trades>>
    BY DEF OpenBudgetFails, HaltSession, ReadLedger, OnlineCrash, BeginScreen, timeVars, cmdVars,
           histVars, tradeVars
  <1>2. faults' \in [Kinds -> Nat] /\ NoReset' = NoReset /\ faults'["command"] = faults["command"]
    <2>1. CASE \E k \in {"init", "online"} : Fault(k)
      BY <2>1, FaultCounts DEF IInv, Kinds
    <2>2. CASE UNCHANGED faults
      BY <2>2 DEF IInv, DayInv, NoReset
    <2> QED BY <2>1, <2>2 DEF OpenBudgetFails, HaltSession, ReadLedger, OnlineCrash, faultVars
  <1>3. ScreenInv'
    BY <1>1 DEF IInv, ScreenInv, OpenBudgetFails, HaltSession, ReadLedger, OnlineCrash, BeginScreen,
        Opening
  <1>4. held' \in {held, ZeroRow} \cup {d23[s] : s \in Sessions}
    BY DEF OpenBudgetFails, HaltSession, ReadLedger, OnlineCrash, BeginScreen, IInv, RowInv
  <1> QED BY <1>1, <1>2, <1>3, <1>4, OnlineKeeps DEF IInv, DayInv

\* A session opens before the last slot, so after no reset of its day.
LEMMA StepOpen ==
  ASSUME IInv, NEW s \in Sessions, OpenBudget(s)
  PROVE  IInv'
  <1>1. /\ clock = OpenAt[s] /\ pc' = "screen" /\ at' = s
        /\ UNCHANGED <<day, clock, lastRec, cmd, rowsLeft, resets, races, used, trades, faults, held>>
    BY DEF OpenBudget, BeginScreen, Opening, timeVars, cmdVars, tradeVars, faultVars
  <1>2. lastRec # day
    BY <1>1, SessionAssumption DEF IInv, DayInv, Slots
  <1>3. DayInv' /\ ScreenInv' /\ CountInv' /\ NoReset' = NoReset
    BY <1>1 DEF IInv, DayInv, ScreenInv, CountInv, ResetOncePerDay, NoReset
  <1>4. \/ UNCHANGED d23
        \/ /\ s \in Order
           /\ \E l, h, e : d23' = [d23 EXCEPT ![s] = [l |-> l, halt |-> h, exp |-> e, opened |-> day]]
    BY DEF OpenBudget
  <1>5. CASE UNCHANGED d23
    <2>1. RowInv' /\ DateInv'
      BY <1>1, <1>3, <1>5 DEF IInv, RowInv, DateInv
    <2> QED BY <1>3, <2>1 DEF IInv
  <1>6. CASE /\ s \in Order
             /\ \E l, h, e : d23' = [d23 EXCEPT ![s] = [l |-> l, halt |-> h, exp |-> e, opened |-> day]]
    <2>1. PICK l, h, e : d23' = [d23 EXCEPT ![s] = [l |-> l, halt |-> h, exp |-> e, opened |-> day]]
      BY <1>6
    <2>2. /\ DOMAIN d23' = Sessions /\ d23'[s] = [l |-> l, halt |-> h, exp |-> e, opened |-> day]
          /\ \A w \in Sessions : w # s => d23'[w] = d23[w]
          /\ d23' = [w \in Sessions |-> d23'[w]]
      BY <2>1 DEF IInv, RowInv
    <2>3. DOMAIN d23'[s] = Columns /\ d23'[s] = [c \in Columns |-> d23'[s][c]] /\ d23'[s].opened = day
      BY <2>2 DEF Columns
    <2>4. RowInv'
      BY <1>1, <2>2, <2>3 DEF IInv, RowInv, DayInv
    <2>5. DateInv'
      BY <1>1, <1>2, <1>3, <1>6, <2>2, <2>3 DEF IInv, DateInv, DayInv
    <2> QED BY <1>3, <2>4, <2>5 DEF IInv
  <1> QED BY <1>4, <1>5, <1>6

LEMMA StepScreen ==
  ASSUME IInv, NEW A \in SUBSET Assets, NEW W \in SUBSET A, Screen(A, W)
  PROVE  IInv'
  <1>1. /\ pc = "screen" /\ pc' = "loop" /\ at' = NULL
        /\ used' = [used EXCEPT ![at] = IF d23[at].halt = NULL THEN 0 ELSE d23[at].opened]
        /\ UNCHANGED <<day, clock, lastRec, cmd, rowsLeft, resets, races, d23, faults, held>>
    BY DEF Screen, timeVars, cmdVars, faultVars
  <1>2. at \in Sessions
    BY <1>1 DEF IInv, ScreenInv
  <1>3. DayInv' /\ ScreenInv' /\ CountInv' /\ NoReset' = NoReset
    BY <1>1 DEF IInv, DayInv, ScreenInv, CountInv, ResetOncePerDay, NoReset
  <1>4. \A t \in trades' : t.ses \in Sessions
    <2>1. \A t \in trades' : t \in trades \/ t.ses = at
      BY DEF Screen
    <2> QED BY <1>2, <2>1 DEF IInv, RowInv
  <1>5. /\ used' \in [Sessions -> Nat]
        /\ \A s \in Sessions : used'[s] \in {used[s], 0, d23[s].opened}
    BY <1>1, <1>2 DEF IInv, RowInv
  <1>6. RowInv'
    BY <1>1, <1>4, <1>5 DEF IInv, RowInv
  <1>7. DateInv'
    BY <1>1, <1>3, <1>5 DEF IInv, DateInv
  <1> QED BY <1>3, <1>6, <1>7 DEF IInv

\* A row written back is the one there, but for its sum, or the race is counted.
LEMMA StepWrite ==
  ASSUME IInv, NEW t \in trades, NEW pnl, WriteLedger(t, pnl)
  PROVE  IInv'
  <1>1. /\ pc = "book" /\ pc' = "loop" /\ held' = ZeroRow /\ trades' \subseteq trades
        /\ d23' = [d23 EXCEPT ![t.ses] = [held EXCEPT !.l = @ + pnl]]
        /\ races' = races + (IF d23[t.ses] = held THEN 0 ELSE 1)
        /\ UNCHANGED <<day, clock, at, lastRec, cmd, rowsLeft, resets, used, faults>>
    BY DEF WriteLedger, timeVars, cmdVars, faultVars
  <1>2. t.ses \in Sessions
    BY DEF IInv, RowInv
  <1>3. /\ races' \in Nat /\ races \in Nat /\ NoReset \in Nat /\ NoReset' = NoReset
        /\ races' = 0 => races = 0 /\ d23[t.ses] = held
    BY <1>1, SumNat DEF IInv, DayInv, NoReset
  <1>4. DayInv' /\ ScreenInv' /\ CountInv'
    BY <1>1, <1>3 DEF IInv, DayInv, ScreenInv, CountInv, ResetOncePerDay
  <1>5. /\ DOMAIN d23' = Sessions /\ d23' = [w \in Sessions |-> d23'[w]]
        /\ d23'[t.ses] = [held EXCEPT !.l = @ + pnl]
        /\ \A w \in Sessions : w # t.ses => d23'[w] = d23[w]
    BY <1>1, <1>2 DEF IInv, RowInv
  <1>6. /\ DOMAIN d23'[t.ses] = Columns
        /\ d23'[t.ses] = [c \in Columns |-> d23'[t.ses][c]]
        /\ d23'[t.ses].opened = held.opened
    BY <1>5 DEF IInv, RowInv, Columns
  <1>7. RowInv'
    <2>1. DOMAIN ZeroRow = Columns /\ ZeroRow = [c \in Columns |-> ZeroRow[c]] /\ ZeroRow.opened \in Nat
      BY DEF ZeroRow, Columns
    <2> QED BY <1>1, <1>5, <1>6, <2>1 DEF IInv, RowInv
  <1>8. DateInv'
    <2> SUFFICES ASSUME (NoReset + races = 0)' PROVE DateInv'
      BY DEF DateInv
    <2>1. races' = 0 /\ NoReset = 0
      <3> DEFINE n == NoReset
                 m == races'
      <3>1. n \in Nat /\ m \in Nat /\ n + m = 0
        BY <1>3
      <3> HIDE DEF n, m
      <3>2. n = 0 /\ m = 0
        BY <3>1
      <3> QED BY <3>2 DEF n, m
    <2>2. NoReset + races = 0 /\ d23[t.ses] = held
      BY <1>3, <2>1
    <2>3. \A s \in Sessions : d23'[s].opened = d23[s].opened
      BY <1>5, <1>6, <2>2
    <2> QED BY <1>1, <2>2, <2>3 DEF IInv, DateInv
  <1> QED BY <1>4, <1>7, <1>8 DEF IInv

\* The reset begins with all rows to go, and lets go of one at a time.
LEMMA StepReset ==
  ASSUME IInv, StartReset \/ StartResetSodFails \/ ReconciliationRaises
  PROVE  IInv'
  <1>1. /\ clock = ResetAt /\ cmd = "idle" /\ lastRec # day /\ lastRec' = day
        /\ UNCHANGED <<day, clock, d23, pc, at, held, trades, used, races>>
    BY DEF StartReset, StartResetSodFails, ReconciliationRaises, Trigger, BeginReset, timeVars,
           onlineVars, tradeVars, histVars
  <1>2. faults["command"] \in Nat /\ resets \in Nat /\ resets <= faults["command"]
    BY <1>1, SumNat DEF IInv, DayInv, CountInv
  <1>3. ScreenInv' /\ RowInv'
    BY <1>1 DEF IInv, ScreenInv, RowInv
  <1>4. CASE ReconciliationRaises
    <2>1. Fault("gui") /\ UNCHANGED <<cmd, rowsLeft, resets>>
      BY <1>4 DEF ReconciliationRaises, histVars
    <2>2. /\ faults' \in [Kinds -> Nat] /\ NoReset' > 0 /\ NoReset' \in Nat
          /\ faults'["command"] = faults["command"]
      BY <2>1, FaultCounts DEF IInv, Kinds
    <2>3. DayInv' /\ CountInv'
      BY <1>1, <1>2, <2>1, <2>2 DEF IInv, DayInv, CountInv, ResetOncePerDay
    <2>4. NoReset' + races' # 0
      <3> DEFINE n == NoReset'
                 m == races'
      <3>1. n \in Nat /\ n > 0 /\ m \in Nat
        BY <1>1, <2>2 DEF IInv, DayInv
      <3> HIDE DEF n, m
      <3>2. n + m # 0
        BY <3>1
      <3> QED BY <3>2 DEF n, m
    <2> QED BY <1>3, <2>3, <2>4 DEF IInv, DateInv
  <1>5. CASE StartReset \/ StartResetSodFails
    <2>1. cmd' = "write" /\ rowsLeft' = Order /\ resets' = resets + 1
      BY <1>5 DEF StartReset, StartResetSodFails, BeginReset
    <2>2. faults' \in [Kinds -> Nat] /\ NoReset' = NoReset /\ faults'["command"] = faults["command"]
      <3>1. CASE Fault("sod")
        BY <3>1, FaultCounts DEF IInv, Kinds
      <3>2. CASE UNCHANGED faults
        BY <3>2 DEF IInv, DayInv, NoReset
      <3> QED BY <1>5, <3>1, <3>2 DEF StartReset, StartResetSodFails, faultVars
    <2>3. DayInv' /\ CountInv'
      BY <1>1, <1>2, <2>1, <2>2 DEF IInv, DayInv, CountInv, ResetOncePerDay
    <2>4. DateInv'
      BY <1>1, <2>1, <2>2 DEF IInv, DateInv
    <2> QED BY <1>3, <2>3, <2>4 DEF IInv
  <1> QED BY <1>4, <1>5

LEMMA StepRow ==
  ASSUME IInv, NEW s \in Order, ResetRow(s)
  PROVE  IInv'
  <1>1. /\ cmd = "write" /\ d23' = [d23 EXCEPT ![s] = ZeroRow] /\ rowsLeft' = rowsLeft \ {s}
        /\ UNCHANGED <<day, clock, pc, at, held, cmd, lastRec, trades, resets, races, used, faults>>
    BY DEF ResetRow, timeVars, onlineVars, tradeVars, histVars, faultVars
  <1>2. DayInv' /\ ScreenInv' /\ CountInv' /\ NoReset' = NoReset
    BY <1>1 DEF IInv, DayInv, ScreenInv, CountInv, ResetOncePerDay, NoReset
  <1>3. /\ s \in Sessions /\ DOMAIN d23' = Sessions /\ d23'[s] = ZeroRow
        /\ d23' = [w \in Sessions |-> d23'[w]]
        /\ \A w \in Sessions : w # s => d23'[w] = d23[w]
    BY <1>1, SessionAssumption DEF IInv, RowInv
  <1>4. /\ DOMAIN ZeroRow = Columns /\ ZeroRow = [c \in Columns |-> ZeroRow[c]]
        /\ ZeroRow.opened = 0
    BY DEF ZeroRow, Columns
  <1>5. RowInv'
    BY <1>1, <1>3, <1>4 DEF IInv, RowInv
  <1>6. DateInv'
    BY <1>1, <1>2, <1>3, <1>4 DEF IInv, DateInv
  <1> QED BY <1>2, <1>5, <1>6 DEF IInv

LEMMA StepCommand ==
  ASSUME IInv, ResetDone \/ ResetRaises \/ CommandCrash
  PROVE  IInv'
  <1>1. UNCHANGED <<day, clock, d23, pc, at, held, trades, resets, races, used>>
    BY DEF ResetDone, ResetRaises, CommandCrash, timeVars, onlineVars, tradeVars, histVars
  <1>2. ScreenInv' /\ RowInv'
    BY <1>1 DEF IInv, ScreenInv, RowInv
  <1>3. CASE ResetDone
    <2>1. /\ cmd = "write" /\ rowsLeft = {} /\ cmd' = "idle"
          /\ UNCHANGED <<rowsLeft, lastRec, faults>>
      BY <1>3 DEF ResetDone, faultVars
    <2> QED BY <1>1, <1>2, <2>1 DEF IInv, DayInv, CountInv, ResetOncePerDay, DateInv, NoReset
  <1>4. CASE ResetRaises
    <2>1. Fault("insert") /\ cmd' = "idle" /\ rowsLeft' = {} /\ UNCHANGED lastRec
      BY <1>4 DEF ResetRaises
    <2>2. /\ faults' \in [Kinds -> Nat] /\ NoReset' > 0 /\ NoReset' \in Nat
          /\ faults'["command"] = faults["command"]
      BY <2>1, FaultCounts DEF IInv, Kinds
    <2>3. NoReset' + races' # 0
      <3> DEFINE n == NoReset'
                 m == races'
      <3>1. n \in Nat /\ n > 0 /\ m \in Nat
        BY <1>1, <2>2 DEF IInv, DayInv
      <3> HIDE DEF n, m
      <3>2. n + m # 0
        BY <3>1
      <3> QED BY <3>2 DEF n, m
    <2> QED BY <1>1, <1>2, <2>1, <2>2, <2>3
            DEF IInv, DayInv, CountInv, ResetOncePerDay, DateInv
  <1>5. CASE CommandCrash
    <2>1. Fault("command") /\ cmd' = "idle" /\ rowsLeft' = {} /\ lastRec' = 0
      BY <1>5 DEF CommandCrash
    <2>2. /\ faults' \in [Kinds -> Nat] /\ NoReset' = NoReset
          /\ faults'["command"] = faults["command"] + 1 /\ faults["command"] \in Nat
      BY <2>1, FaultCounts, SumNat DEF IInv, Kinds
    <2>3. DayInv' /\ lastRec' # day
      BY <1>1, <2>1, <2>2 DEF IInv, DayInv
    <2>4. CountInv'
      BY <1>1, <2>2 DEF IInv, DayInv, CountInv, ResetOncePerDay
    <2>5. DateInv'
      BY <1>1, <2>2, <2>3 DEF IInv, DateInv
    <2> QED BY <1>2, <2>3, <2>4, <2>5 DEF IInv
  <1> QED BY <1>3, <1>4, <1>5

LEMMA INext == IInv /\ [Next]_vars => IInv'
  <1> SUFFICES ASSUME IInv, [Next]_vars PROVE IInv'
    OBVIOUS
  <1> QED BY StepTick, StepNewDay, StepOnline, StepOpen, StepScreen, StepWrite, StepReset, StepRow,
             StepCommand
          DEF Next, OnlineStep, CommandStep

\* The counters are reset once a day, and again only if Command restarts within
\* the minute.
THEOREM ResetOnce == Spec => []ResetOncePerDay
  <1>1. IInv => ResetOncePerDay
    BY DEF IInv, CountInv
  <1> QED BY <1>1, IInit, INext, PTL DEF Spec

\* No session is screened against a budget of an earlier day, unless a reset
\* did not happen or was written over.
THEOREM TodaysBudget == Spec => []ScreenedOnTodaysBudget
  <1>1. ASSUME IInv PROVE ScreenedOnTodaysBudget
    <2>1. NoReset \in Nat /\ races \in Nat
      BY <1>1, SumNat DEF IInv
    <2> DEFINE n == NoReset
    <2> HIDE DEF n
    <2>2. n + races > 0 \/ n + races = 0
      BY <2>1 DEF n
    <2> QED BY <1>1, <2>2 DEF n, IInv, DateInv, ScreenedOnTodaysBudget
  <1> QED BY <1>1, IInit, INext, PTL DEF Spec

-----------------------------------------------------------------------------
(* Sums.  SumFunctionOnSet is a fold, that is, a recursive function on the *)
(* subsets of a set.  That it satisfies its equation, for finite sets, and *)
(* what follows from the equation, is shown with smallest counterexamples. *)

LEMMA SmallestSet ==
  ASSUME NEW S, IsFiniteSet(S), NEW C, C \subseteq SUBSET S, C # {}
  PROVE  \E T \in C : \A U \in SUBSET T : U # T => U \notin C
  <1>1. IsWellFoundedOn(StrictSubsetOrdering(S), SUBSET S)
    BY FS_StrictSubsetOrderingWellFounded, FS_FiniteSubsetsOfFinite
  <1>2. \E T \in C : \A U \in C : <<U, T>> \notin StrictSubsetOrdering(S)
    BY <1>1, WFMin
  <1> QED BY <1>2 DEF StrictSubsetOrdering

Body(f, g, r) == IF r = {} THEN 0 ELSE LET x == CHOOSE x \in r : TRUE IN f[x] + g[r \ {x}]
SumsOf(f, g, T) == g = [r \in SUBSET T |-> Body(f, g, r)]
Rest(r) == r \ {CHOOSE x \in r : TRUE}

LEMMA BodyIs ==
  ASSUME NEW f, NEW g, NEW r
  PROVE  /\ r = {} => Body(f, g, r) = 0
         /\ r # {} => /\ Body(f, g, r) = f[CHOOSE x \in r : TRUE] + g[Rest(r)]
                      /\ Rest(r) \subseteq r /\ Rest(r) # r
                      /\ (CHOOSE x \in r : TRUE) \in r
  BY DEF Body, Rest

LEMMA SumsAgree ==
  ASSUME NEW f, NEW g, NEW h, NEW S, NEW T, IsFiniteSet(S), SumsOf(f, g, S), SumsOf(f, h, T)
  PROVE  \A r \in SUBSET (S \cap T) : g[r] = h[r]
  <1> DEFINE C == {r \in SUBSET (S \cap T) : g[r] # h[r]}
  <1> SUFFICES ASSUME C # {} PROVE FALSE
    OBVIOUS
  <1>1. PICK r \in C : \A u \in SUBSET r : u # r => u \notin C
    <2>1. C \subseteq SUBSET S
      OBVIOUS
    <2> HIDE DEF C
    <2> QED BY <2>1, SmallestSet
  <1>2. r \in SUBSET S /\ r \in SUBSET T /\ g[r] # h[r]
    OBVIOUS
  <1>3. g[r] = Body(f, g, r) /\ h[r] = Body(f, h, r)
    BY <1>2 DEF SumsOf
  <1>4. r # {}
    BY <1>2, <1>3, BodyIs
  <1>5. g[Rest(r)] = h[Rest(r)]
    BY <1>1, <1>2, <1>4, BodyIs
  <1> QED BY <1>2, <1>3, <1>4, <1>5, BodyIs

LEMMA SumsExist ==
  ASSUME NEW f, NEW S, IsFiniteSet(S)
  PROVE  \E g : SumsOf(f, g, S)
  <1> DEFINE C == {T \in SUBSET S : ~ \E g : SumsOf(f, g, T)}
             Has(T) == CHOOSE g : SumsOf(f, g, T)
  <1> SUFFICES ASSUME C # {} PROVE FALSE
    OBVIOUS
  <1>1. PICK T \in C : \A u \in SUBSET T : u # T => u \notin C
    <2>1. C \subseteq SUBSET S
      OBVIOUS
    <2> HIDE DEF C
    <2> QED BY <2>1, SmallestSet
  <1> DEFINE h == [r \in SUBSET T |-> IF r = T THEN Body(f, Has(Rest(T)), T) ELSE Has(r)[r]]
  <1>2. ASSUME NEW u \in SUBSET T, u # T
        PROVE  /\ SumsOf(f, Has(u), u)
               /\ \A r \in SUBSET u : Has(u)[r] = Body(f, Has(u), r) /\ Has(u)[r] = h[r]
    <2>1. \E g : SumsOf(f, g, u)
      BY <1>1, <1>2
    <2>2. SumsOf(f, Has(u), u)
      BY <2>1
    <2>3. ASSUME NEW r \in SUBSET u
          PROVE  Has(u)[r] = Body(f, Has(u), r) /\ Has(u)[r] = h[r]
      <3>1. r \in SUBSET T /\ r # T /\ IsFiniteSet(r)
        BY <1>2, FS_Subset
      <3>2. \E g : SumsOf(f, g, r)
        BY <1>1, <3>1
      <3>3. SumsOf(f, Has(r), r)
        BY <3>2
      <3>4. Has(r)[r] = Has(u)[r]
        <4> HIDE DEF Has, h
        <4> QED BY <2>2, <3>1, <3>3, SumsAgree
      <3>5. Has(u)[r] = Body(f, Has(u), r)
        BY <2>2 DEF SumsOf
      <3> QED BY <3>1, <3>4, <3>5
    <2> HIDE DEF Has, h
    <2> QED BY <2>2, <2>3
  <1>3. ASSUME NEW r \in SUBSET T PROVE h[r] = Body(f, h, r)
    <2>1. CASE r = {} 
      <3>1. r # T => h[r] = Body(f, Has(r), r)
        BY <1>2
      <3>2. r = T => h[r] = Body(f, Has(Rest(T)), r)
        OBVIOUS
      <3> HIDE DEF h, Has
      <3> QED BY <2>1, <3>1, <3>2, BodyIs
    <2>2. CASE r # {} /\ r # T
      <3>1. h[r] = Body(f, Has(r), r)
        BY <1>2, <2>2
      <3>2. Has(r)[Rest(r)] = h[Rest(r)]
        <4> HIDE DEF h, Has
        <4> QED BY <1>2, <2>2, BodyIs
      <3> HIDE DEF h, Has
      <3> QED BY <2>2, <3>1, <3>2, BodyIs
    <2>3. CASE r # {} /\ r = T
      <3>1. h[r] = Body(f, Has(Rest(T)), T)
        BY <2>3
      <3>2. Has(Rest(T))[Rest(T)] = h[Rest(T)]
        <4>1. Rest(T) \in SUBSET T /\ Rest(T) # T
          BY <2>3, BodyIs
        <4> HIDE DEF h, Has
        <4> QED BY <1>2, <4>1
      <3> HIDE DEF h, Has
      <3> QED BY <2>3, <3>1, <3>2, BodyIs
    <2> QED BY <2>1, <2>2, <2>3
  <1>4. h = [r \in SUBSET T |-> Body(f, h, r)]
    <2>1. h = [r \in SUBSET T |-> h[r]]
      OBVIOUS
    <2> HIDE DEF h
    <2> QED BY <1>3, <2>1
  <1>5. SumsOf(f, h, T)
    BY <1>4 DEF SumsOf
  <1> QED BY <1>1, <1>5

LEMMA SumUnfolds ==
  ASSUME NEW f, NEW S, IsFiniteSet(S), S # {}
  PROVE  \E x \in S : SumFunctionOnSet(f, S) = f[x] + SumFunctionOnSet(f, S \ {x})
  <1> DEFINE Has(T) == CHOOSE g : SumsOf(f, g, T)
  <1>1. ASSUME NEW T \in SUBSET S
        PROVE  SumsOf(f, Has(T), T) /\ SumFunctionOnSet(f, T) = Has(T)[T]
    <2>1. \E g : SumsOf(f, g, T)
      BY FS_Subset, SumsExist
    <2>2. SumFunctionOnSet(f, T) = (CHOOSE g : g = [r \in SUBSET T |-> Body(f, g, r)])[T]
      BY DEF SumFunctionOnSet, FoldFunctionOnSet, MapThenFoldSet, Body
    <2> QED BY <2>1, <2>2 DEF SumsOf
  <1>2. Has(S)[S] = f[CHOOSE x \in S : TRUE] + Has(S)[Rest(S)]
    <2> HIDE DEF Has
    <2>1. SumsOf(f, Has(S), S) /\ S \in SUBSET S
      BY <1>1
    <2>2. Has(S)[S] = Body(f, Has(S), S)
      BY <2>1 DEF SumsOf
    <2> QED BY <2>2, BodyIs
  <1>3. Has(S)[Rest(S)] = Has(Rest(S))[Rest(S)]
    <2>1. Rest(S) \in SUBSET S
      BY BodyIs
    <2> HIDE DEF Has
    <2> QED BY <1>1, <2>1, SumsAgree
  <1>4. Rest(S) \in SUBSET S /\ (CHOOSE x \in S : TRUE) \in S
    BY BodyIs
  <1>5. SumFunctionOnSet(f, S) = f[CHOOSE x \in S : TRUE] + SumFunctionOnSet(f, Rest(S))
    BY <1>1, <1>2, <1>3, <1>4
  <1> QED BY <1>4, <1>5 DEF Rest

\* A sum of naturals is a natural number, and no term exceeds it.
LEMMA SumOfNaturals ==
  ASSUME NEW f, NEW S, IsFiniteSet(S), \A x \in S : f[x] \in Nat
  PROVE  SumFunctionOnSet(f, S) \in Nat /\ \A x \in S : f[x] <= SumFunctionOnSet(f, S)
  <1> DEFINE Sum(T) == SumFunctionOnSet(f, T)
             C == {T \in SUBSET S : ~ (Sum(T) \in Nat /\ \A x \in T : f[x] <= Sum(T))}
  <1> SUFFICES ASSUME C # {} PROVE FALSE
    OBVIOUS
  <1>1. PICK T \in C : \A u \in SUBSET T : u # T => u \notin C
    <2>1. C \subseteq SUBSET S
      OBVIOUS
    <2> HIDE DEF C
    <2> QED BY <2>1, SmallestSet
  <1>2. CASE T = {}
    <2>1. Sum(T) = (CHOOSE h : h = [r \in SUBSET T |-> Body(f, h, r)])[T]
      BY DEF SumFunctionOnSet, FoldFunctionOnSet, MapThenFoldSet, Body
    <2>2. PICK g : SumsOf(f, g, T)
      BY <1>2, FS_EmptySet, SumsExist
    <2>3. SumsOf(f, CHOOSE h : h = [r \in SUBSET T |-> Body(f, h, r)], T)
      BY <2>2 DEF SumsOf
    <2> DEFINE q == CHOOSE h : h = [r \in SUBSET T |-> Body(f, h, r)]
    <2>4. SumsOf(f, q, T) /\ Sum(T) = q[T] /\ T \in SUBSET T
      BY <2>1, <2>3
    <2> HIDE DEF q
    <2>5. q[T] = Body(f, q, T)
      BY <2>4 DEF SumsOf
    <2>6. Sum(T) = 0
      BY <1>2, <2>4, <2>5, BodyIs
    <2> QED BY <1>1, <1>2, <2>6
  <1>3. CASE T # {}
    <2>1. PICK x \in T : Sum(T) = f[x] + Sum(T \ {x})
      BY <1>3, FS_Subset, SumUnfolds
    <2>2. T \ {x} \in SUBSET T /\ T \ {x} # T /\ T \in SUBSET S
      BY <1>1
    <2>3. T \ {x} \notin C
      BY <1>1, <2>2
    <2>4. Sum(T \ {x}) \in Nat /\ \A y \in T \ {x} : f[y] <= Sum(T \ {x})
      BY <2>2, <2>3
    <2>5. \A y \in T : f[y] \in Nat
      BY <2>2
    <2> HIDE DEF Sum, C
    <2>6. ASSUME NEW n \in Nat, n = Sum(T \ {x})
          PROVE  Sum(T) \in Nat /\ \A y \in T : f[y] <= Sum(T)
      <3>1. Sum(T) = f[x] + n /\ f[x] \in Nat /\ \A y \in T \ {x} : f[y] <= n /\ f[y] \in Nat
        BY <2>1, <2>4, <2>5, <2>6
      <3> QED BY <3>1
    <2> QED BY <1>1, <2>4, <2>6 DEF C
  <1> QED BY <1>2, <1>3

-----------------------------------------------------------------------------
(* Amounts.                                                                *)

LEMMA SessionSets ==
  ASSUME NEW s
  PROVE  /\ IsFiniteSet(Order) /\ IsFiniteSet(Earlier(s)) /\ IsFiniteSet(Remaining(s))
         /\ Earlier(s) \subseteq Order /\ Remaining(s) \subseteq Order
  BY SessionAssumption, FS_Subset DEF Earlier, Remaining

LEMMA AbsIsNat == \A n \in Int : Abs(n) \in Nat
  BY DEF Abs

LEMMA SharesAdd ==
  ASSUME NEW s \in Order
  PROVE  /\ Share[s] \in Nat /\ Share[s] > 0
         /\ ShareOf(Remaining(s)) \in Nat /\ Share[s] <= ShareOf(Remaining(s))
  <1>1. s \in Remaining(s) /\ \A w \in Remaining(s) : Share[w] \in Nat
    BY SessionAssumption, AmountAssumption DEF Remaining
  <1> QED BY <1>1, SessionSets, SumOfNaturals, AmountAssumption DEF ShareOf

LEMMA Consumption ==
  ASSUME NEW s, d23 \in [Sessions -> RowType], real \in [Sessions -> Int]
  PROVE  Consumed(s) \in Nat /\ Spent(s) \in Nat
  <1> DEFINE f == [w \in Earlier(s) |-> Abs(Final(w))]
             g == [w \in Earlier(s) |-> Abs(real[w])]
  <1>1. \A w \in Earlier(s) : f[w] \in Nat /\ g[w] \in Nat
    BY SessionSets, AbsIsNat, SessionAssumption DEF Final, RowType
  <1>2. DOMAIN f = Earlier(s) /\ DOMAIN g = Earlier(s)
    OBVIOUS
  <1>3. Consumed(s) = SumFunctionOnSet(f, Earlier(s)) /\ Spent(s) = SumFunctionOnSet(g, Earlier(s))
    BY <1>2 DEF Consumed, Spent, SumFunction
  <1> HIDE DEF f, g
  <1> QED BY <1>1, <1>3, SessionSets, SumOfNaturals

LEMMA CarryIsNat ==
  ASSUME NEW s \in Order, NEW total \in Int, NEW n \in Int
  PROVE  Carry(s, total, n) \in Nat
  <1>1. Floor0(total - n) \in Nat /\ Share[s] \in Nat
    BY SharesAdd DEF Floor0
  <1> DEFINE a == Floor0(total - n)
             b == Share[s]
  <1> HIDE DEF a, b
  <1>2. a \in Nat /\ b \in Nat => a * b \in Nat
    OBVIOUS
  <1> QED BY <1>1, <1>2 DEF Carry, a, b

-----------------------------------------------------------------------------
(* Types.                                                                  *)

LEMMA TypeInit == Init => TypeOK
  BY SessionAssumption, AmountAssumption
     DEF Init, TypeOK, Slots, RowType, ZeroRow, NULL

LEMMA FaultType ==
  ASSUME TypeOK, NEW k \in Kinds, Fault(k)
  PROVE  faults' \in [Kinds -> Nat] /\ left' \in 0..MaxFaults
  BY AmountAssumption DEF TypeOK, Fault

LEMMA TypeTime ==
  ASSUME IInv, TypeOK, Tick \/ NextDay \/ NextDayMissed \/ UNCHANGED vars
  PROVE  TypeOK'
  <1>1. CASE UNCHANGED vars
    BY <1>1 DEF TypeOK, vars, timeVars, onlineVars, cmdVars, tradeVars, histVars, faultVars
  <1>2. CASE Tick
    BY <1>2, SessionAssumption DEF TypeOK, Tick, onlineVars, cmdVars, tradeVars, histVars, faultVars, Slots
  <1>3. CASE NextDay \/ NextDayMissed
    <2>1. /\ day' = day + 1 /\ day < MaxDay /\ clock' = 0 /\ evaluated' = {} /\ resets' = 0
          /\ real' = [s \in Sessions |-> 0] /\ seen' = [s \in Sessions |-> 0]
          /\ used' = [s \in Sessions |-> 0]
          /\ UNCHANGED <<sod, d23, pc, at, closing, held, cmd, rowsLeft, lastRec, trades, issued,
                         races, late>>
      BY <1>3 DEF NextDay, NextDayMissed, NewDay, cmdVars, tradeVars
    <2>2. faults' \in [Kinds -> Nat] /\ left' \in 0..MaxFaults
      BY <1>3, FaultType DEF NextDay, NextDayMissed, faultVars, TypeOK, Kinds
    <2> QED BY <2>1, <2>2, SessionAssumption, AmountAssumption DEF TypeOK, Slots
  <1> QED BY <1>1, <1>2, <1>3

LEMMA TypeOpen ==
  ASSUME IInv, TypeOK, NEW s \in Sessions,
         OpenBudget(s) \/ OpenBudgetFails(s) \/ HaltSession(s)
  PROVE  TypeOK'
  <1>1. /\ pc' \in {"loop", "screen"} /\ (pc' = "screen" => at' \in Sessions)
        /\ at' \in Sessions \cup {NULL} /\ evaluated' \subseteq Sessions
        /\ UNCHANGED <<day, clock, sod, closing, held, cmd, rowsLeft, lastRec, trades, issued,
                       real, used, resets, races, late>>
    BY DEF OpenBudget, OpenBudgetFails, HaltSession, BeginScreen, timeVars, cmdVars, tradeVars,
           histVars, TypeOK
  <1>2. faults' \in [Kinds -> Nat] /\ left' \in 0..MaxFaults
    BY FaultType DEF OpenBudget, OpenBudgetFails, HaltSession, faultVars, TypeOK, Kinds
  <1>3. d23' \in [Sessions -> RowType] /\ seen' \in [Sessions -> Int]
    <2>1. CASE OpenBudget(s) /\ s \in Order /\ sod /\ ~Opened(s)
      <3>1. Consumed(s) \in Nat /\ Spent(s) \in Nat
        BY Consumption DEF TypeOK
      <3>2. Carry(s, Total, Consumed(s)) \in Int /\ Carry(s, Exposure, Consumed(s)) \in Int
        BY <2>1, <3>1, CarryIsNat, AmountAssumption
      <3>3. [l |-> 0, halt |-> Carry(s, Total, Consumed(s)),
             exp |-> Carry(s, Exposure, Consumed(s)), opened |-> day] \in RowType
        BY <3>2 DEF RowType, TypeOK
      <3> QED BY <2>1, <3>1, <3>3 DEF OpenBudget, TypeOK
    <2>2. CASE UNCHANGED <<d23, seen>>
      BY <2>2 DEF TypeOK
    <2> QED BY <2>1, <2>2 DEF OpenBudget, OpenBudgetFails, HaltSession, histVars
  <1> QED BY <1>1, <1>2, <1>3 DEF TypeOK

LEMMA TypeScreen ==
  ASSUME IInv, TypeOK, NEW A \in SUBSET Assets, NEW W \in SUBSET A, Screen(A, W)
  PROVE  TypeOK'
  <1>1. /\ pc = "screen" /\ pc' = "loop" /\ at' = NULL /\ evaluated' = evaluated \cup {at}
        /\ used' = [used EXCEPT ![at] = IF d23[at].halt = NULL THEN 0 ELSE d23[at].opened]
        /\ UNCHANGED <<day, clock, sod, d23, closing, held, cmd, rowsLeft, lastRec, real, seen,
                       resets, races, late, faults, left>>
    BY DEF Screen, timeVars, cmdVars, faultVars
  <1>2. PICK id \in [A -> issued + 1..MaxTrades] :
          /\ \A a, b \in A : a # b => id[a] # id[b]
          /\ issued' = issued + Cardinality(A) /\ issued' <= MaxTrades
          /\ trades' = trades \cup {[id |-> id[a], asset |-> a, ses |-> at,
                                    day |-> day, spent |-> SpentWith(at),
                                    screened |-> Screened(a, a \in W)] : a \in A}
    BY DEF Screen
  <1>3. at \in Sessions /\ d23[at].opened \in 0..MaxDay
    BY <1>1 DEF TypeOK, RowType
  <1>4. SpentWith(at) \in Int
    BY <1>3, AbsIsNat DEF SpentWith, TypeOK
  <1>5. \A a \in A : id[a] \in Ids
    BY AmountAssumption DEF Ids, TypeOK
  <1>6. trades' \subseteq TradeType
    <2>1. day \in 1..MaxDay
      BY DEF TypeOK, IInv, DayInv
    <2>2. \A a \in A : Screened(a, a \in W) \in BOOLEAN
      BY DEF Screened
    <2> QED BY <1>2, <1>3, <1>4, <1>5, <2>1, <2>2 DEF TradeType, TypeOK
  <1>7. issued' \in 0..MaxTrades
    <2>1. id \in Injection(A, issued + 1..MaxTrades)
      BY <1>2 DEF Injection, IsInjective
    <2>2. IsFiniteSet(issued + 1..MaxTrades)
      BY FS_Interval, AmountAssumption DEF TypeOK
    <2>3. Cardinality(A) \in Nat
      BY <2>1, <2>2, FS_Injection, FS_CardinalityType
    <2> QED BY <1>2, <2>3, AmountAssumption DEF TypeOK
  <1>8. used' \in [Sessions -> 0..MaxDay]
    BY <1>1, <1>3, AmountAssumption DEF TypeOK
  <1> QED BY <1>1, <1>3, <1>6, <1>7, <1>8 DEF TypeOK

LEMMA TypeBook ==
  ASSUME IInv, TypeOK, NEW t \in trades,
         ReadLedger(t) \/ (\E pnl \in Results(t) : WriteLedger(t, pnl))
  PROVE  TypeOK'
  <1>1. t \in TradeType /\ t.ses \in Sessions /\ t.id \in Ids /\ t.asset \in Assets
    BY DEF TypeOK, TradeType
  <1>2. CASE ReadLedger(t)
    BY <1>1, <1>2 DEF ReadLedger, TypeOK, timeVars, cmdVars, tradeVars, histVars, faultVars
  <1>3. ASSUME NEW pnl \in Results(t), WriteLedger(t, pnl) PROVE TypeOK'
    <2>1. /\ d23' = [d23 EXCEPT ![t.ses] = [held EXCEPT !.l = @ + pnl]]
          /\ races' = races + (IF d23[t.ses] = held THEN 0 ELSE 1)
          /\ late' = late + (IF t.day < day /\ d23[t.ses].opened = day THEN 1 ELSE 0)
          /\ real' = IF t.day = day THEN [real EXCEPT ![t.ses] = @ + pnl] ELSE real
          /\ trades' = trades \ {t} /\ pc' = "loop" /\ closing' = NULL /\ held' = ZeroRow
          /\ UNCHANGED <<day, clock, sod, at, evaluated, cmd, rowsLeft, lastRec, issued, seen,
                         used, resets, faults, left>>
      BY <1>3 DEF WriteLedger, timeVars, cmdVars, faultVars
    <2>2. pnl \in Int
      BY <1>1, <1>3, AmountAssumption DEF Results
    <2>3. [held EXCEPT !.l = @ + pnl] \in RowType /\ ZeroRow \in RowType
      BY <2>2, AmountAssumption DEF TypeOK, RowType, ZeroRow, NULL
    <2>4. d23' \in [Sessions -> RowType] /\ real' \in [Sessions -> Int]
      BY <1>1, <2>1, <2>2, <2>3 DEF TypeOK
    <2>5. races' \in Nat /\ late' \in Nat
      BY <2>1 DEF TypeOK
    <2> QED BY <2>1, <2>3, <2>4, <2>5 DEF TypeOK
  <1> QED BY <1>2, <1>3

LEMMA TypeCommand ==
  ASSUME IInv, TypeOK, OnlineCrash \/ CommandStep
  PROVE  TypeOK'
  <1>1. faults' \in [Kinds -> Nat] /\ left' \in 0..MaxFaults
    <2>1. UNCHANGED <<faults, left>> \/ \E k \in Kinds : Fault(k)
      BY DEF OnlineCrash, CommandStep, StartReset, StartResetSodFails, ReconciliationRaises, ResetRow,
             ResetDone, ResetRaises, CommandCrash, faultVars, Kinds
    <2> QED BY <2>1, FaultType DEF TypeOK
  <1>2. /\ d23' \in [Sessions -> RowType] /\ cmd' \in {"idle", "write"} /\ rowsLeft' \subseteq Order
        /\ lastRec' \in 0..MaxDay /\ sod' \in BOOLEAN /\ resets' \in Nat
    <2>1. ZeroRow \in RowType
      BY AmountAssumption DEF RowType, ZeroRow, NULL
    <2>2. CASE OnlineCrash \/ ReconciliationRaises \/ ResetDone \/ ResetRaises \/ CommandCrash
      BY <2>2, AmountAssumption DEF OnlineCrash, ReconciliationRaises, ResetDone, ResetRaises, CommandCrash, Trigger,
             cmdVars, histVars, TypeOK
    <2>3. CASE StartReset \/ StartResetSodFails
      <3>1. /\ cmd' = "write" /\ rowsLeft' = Order /\ resets' = resets + 1 /\ lastRec' = day
            /\ sod' = (sod \/ Topstep) \/ sod' = sod
            /\ UNCHANGED d23
        BY <2>3 DEF StartReset, StartResetSodFails, Trigger, BeginReset
      <3>2. sod' \in BOOLEAN
        <4>1. (sod \/ Topstep) \in BOOLEAN /\ sod \in BOOLEAN
          BY DEF TypeOK
        <4> QED BY <3>1, <4>1
      <3>3. d23' \in [Sessions -> RowType] /\ lastRec' \in 0..MaxDay /\ rowsLeft' \subseteq Order
        BY <3>1 DEF TypeOK
      <3>4. resets' \in Nat
        BY <3>1 DEF TypeOK
      <3> QED BY <3>1, <3>2, <3>3, <3>4
    <2>4. CASE \E s \in Order : ResetRow(s)
      BY <2>1, <2>4 DEF ResetRow, histVars, TypeOK
    <2> QED BY <2>2, <2>3, <2>4 DEF CommandStep
  <1>3. /\ UNCHANGED <<day, clock, trades, issued, real, seen, used, races, late>>
        /\ \/ UNCHANGED onlineVars
           \/ /\ pc' = "loop" /\ at' = NULL /\ closing' = NULL
              /\ held' = ZeroRow /\ evaluated' = {}
    BY DEF OnlineCrash, CommandStep, StartReset, StartResetSodFails, ReconciliationRaises, ResetRow,
           ResetDone, ResetRaises, CommandCrash, BeginReset, timeVars, tradeVars, histVars
  <1>4. ZeroRow \in RowType
    BY AmountAssumption DEF RowType, ZeroRow, NULL
  <1> QED BY <1>1, <1>2, <1>3, <1>4 DEF TypeOK, onlineVars

LEMMA TypeNext == ASSUME IInv, TypeOK, [Next]_vars PROVE TypeOK'
  BY TypeTime, TypeOpen, TypeScreen, TypeBook, TypeCommand DEF Next, OnlineStep

\* Every variable of the budget keeps its type, in particular the budgets are
\* whole numerators and a trade belongs to a session.
THEOREM TypeCorrect == Spec => []TypeOK
  <1>1. IInv /\ TypeOK /\ [Next]_vars => TypeOK'
    BY TypeNext
  <1> QED BY <1>1, IInit, INext, TypeInit, PTL DEF Spec

-----------------------------------------------------------------------------
(* The ledger.  While nothing disturbs it, a row opened today holds what   *)
(* its session has made, a session without one has made nothing, and a     *)
(* trade of today has a row, because Online opens the budget before it     *)
(* screens.  Before 19:00 only: the reset takes the rows away.             *)

RowsAreHistory ==
    \A s \in Order : d23[s].opened = day =>
        /\ d23[s].l = real[s]
        /\ d23[s].halt = Floor0(Total - seen[s]) * Share[s]

RowsBeforeReset ==
    sod /\ clock < ResetAt =>
        /\ \A s \in Order : d23[s].opened # day => real[s] = 0
        /\ \A t \in trades : t.day = day /\ t.ses \in Order => d23[t.ses].opened = day
        /\ pc = "screen" /\ at \in Order => d23[at].opened = day

FitsDay(t) == Budgeted(t) /\ t.spent < Total => t.spent + Risk[t.asset] < Total

LedgerInv ==
    /\ \A t \in trades : t.day <= day
    /\ Undisturbed =>
        /\ RowsAreHistory /\ RowsBeforeReset
        /\ ~sod => \A s \in Sessions : d23[s].opened = 0
        /\ \A t \in trades : FitsDay(t)

AllInv == IInv /\ TypeOK /\ LedgerInv

LEMMA Disturbances ==
  ASSUME TypeOK
  PROVE  Undisturbed <=> /\ faults["gui"] = 0 /\ faults["insert"] = 0 /\ faults["missed"] = 0
                         /\ faults["init"] = 0 /\ races = 0 /\ late = 0
  <1>1. /\ faults["gui"] \in Nat /\ faults["insert"] \in Nat /\ faults["missed"] \in Nat
        /\ faults["init"] \in Nat /\ races \in Nat /\ late \in Nat
    BY DEF TypeOK, Kinds
  <1>2. NoReset = 0 <=> faults["gui"] = 0 /\ faults["insert"] = 0 /\ faults["missed"] = 0
    BY <1>1 DEF NoReset
  <1> QED BY <1>2 DEF Undisturbed

LEMMA FaultsGrow ==
  ASSUME TypeOK, NEW k \in Kinds, Fault(k)
  PROVE  /\ faults'[k] # 0
         /\ \A j \in Kinds : faults'[j] = 0 => faults[j] = 0
  <1>1. /\ faults \in [Kinds -> Nat] /\ faults' = [faults EXCEPT ![k] = faults[k] + 1]
    BY DEF TypeOK, Fault
  <1> QED BY <1>1

\* What was undisturbed after a step was so before, and the step was none of
\* those that disturb.
LEMMA StaysUndisturbed ==
  ASSUME TypeOK, TypeOK', [Next]_vars, Undisturbed'
  PROVE  /\ Undisturbed /\ races' = races /\ late' = late
         /\ \A k \in {"gui", "insert", "missed", "init"} : ~Fault(k)
         /\ NoReset + races = 0
  <1>1. /\ faults'["gui"] = 0 /\ faults'["insert"] = 0 /\ faults'["missed"] = 0
        /\ faults'["init"] = 0 /\ races' = 0 /\ late' = 0
    <2>1. TypeOK' /\ Undisturbed' => /\ faults'["gui"] = 0 /\ faults'["insert"] = 0
            /\ faults'["missed"] = 0 /\ faults'["init"] = 0 /\ races' = 0 /\ late' = 0
      <3>1. TypeOK' => /\ faults'["gui"] \in Nat /\ faults'["insert"] \in Nat
                       /\ faults'["missed"] \in Nat /\ faults'["init"] \in Nat
                       /\ races' \in Nat /\ late' \in Nat
        BY DEF TypeOK, Kinds
      <3>2. Undisturbed' => /\ faults'["gui"] + faults'["insert"] + faults'["missed"] = 0
                            /\ faults'["init"] = 0 /\ races' = 0 /\ late' = 0
        BY DEF Undisturbed, NoReset
      <3>3. ASSUME TypeOK', Undisturbed'
            PROVE  faults'["gui"] = 0 /\ faults'["insert"] = 0 /\ faults'["missed"] = 0
        <4>1. ASSUME NEW a \in Nat, NEW b \in Nat, NEW c \in Nat, a + b + c = 0
              PROVE  a = 0 /\ b = 0 /\ c = 0
          BY <4>1
        <4> QED BY <3>1, <3>2, <3>3, <4>1
      <3> QED BY <3>2, <3>3
    <2> QED BY <2>1
  <1>2. UNCHANGED faults \/ \E k \in Kinds : Fault(k)
    BY DEF Next, vars, Tick, NextDay, NextDayMissed, OnlineStep, OpenBudget, OpenBudgetFails,
           HaltSession, Screen, ReadLedger, WriteLedger, OnlineCrash, CommandStep, StartReset,
           StartResetSodFails, ReconciliationRaises, ResetRow, ResetDone, ResetRaises, CommandCrash,
           faultVars, Kinds
  <1>3. \A k \in {"gui", "insert", "missed", "init"} : faults[k] = 0 /\ ~Fault(k)
    BY <1>1, <1>2, FaultsGrow DEF Kinds
  <1>4. /\ \/ UNCHANGED <<races, late>>
           \/ \E t \in trades :
                /\ races' = races + (IF d23[t.ses] = held THEN 0 ELSE 1)
                /\ late' = late + (IF t.day < day /\ d23[t.ses].opened = day THEN 1 ELSE 0)
        /\ races \in Nat /\ late \in Nat
    BY DEF TypeOK, Next, vars, Tick, NextDay, NextDayMissed, NewDay, OnlineStep, OpenBudget,
           OpenBudgetFails, HaltSession, Screen, ReadLedger, WriteLedger, OnlineCrash, CommandStep,
           StartReset, StartResetSodFails, ReconciliationRaises, BeginReset, ResetRow, ResetDone,
           ResetRaises, CommandCrash, histVars
  <1>5. races = 0 /\ late = 0
    BY <1>1, <1>4
  <1>6. Undisturbed
    BY <1>3, <1>5, Disturbances
  <1>7. NoReset + races = 0
    BY <1>3, <1>5 DEF NoReset
  <1> QED BY <1>1, <1>3, <1>5, <1>6, <1>7

\* What an undisturbed ledger says of the dates.
LEMMA Dates ==
  ASSUME AllInv, NoReset + races = 0, NEW s \in Sessions
  PROVE  /\ d23[s].opened \in {0, day} /\ day # 0
         /\ lastRec = day /\ cmd = "idle" => d23[s].opened = 0
  BY DEF AllInv, IInv, DateInv, DayInv

\* Steps that leave the rows, the results and the day alone.
LEMMA LedgerKeeps ==
  ASSUME AllInv, [Next]_vars, TypeOK', UNCHANGED <<day, sod, d23, real, seen>>,
         trades' \subseteq trades, clock' < ResetAt => clock < ResetAt,
         pc' = "screen" => pc = "screen" /\ at' = at
  PROVE  LedgerInv'
  <1>1. \A t \in trades' : t.day <= day'
    BY DEF AllInv, LedgerInv
  <1> SUFFICES ASSUME Undisturbed'
               PROVE  (/\ RowsAreHistory /\ RowsBeforeReset
                       /\ ~sod => \A s \in Sessions : d23[s].opened = 0
                       /\ \A t \in trades : FitsDay(t))'
    BY <1>1 DEF LedgerInv
  <1>2. Undisturbed
    BY StaysUndisturbed DEF AllInv
  <1>3. RowsAreHistory'
    BY <1>2 DEF AllInv, LedgerInv, RowsAreHistory
  <1>4. RowsBeforeReset'
    BY <1>2 DEF AllInv, LedgerInv, RowsBeforeReset
  <1>5. (~sod => \A s \in Sessions : d23[s].opened = 0)'
    BY <1>2 DEF AllInv, LedgerInv
  <1>6. \A t \in trades' : FitsDay(t)'
    BY <1>2 DEF AllInv, LedgerInv, FitsDay, Budgeted
  <1> QED BY <1>3, <1>4, <1>5, <1>6

LEMMA LedgerInit == Init => LedgerInv
  BY SessionAssumption DEF Init, LedgerInv, RowsAreHistory, RowsBeforeReset, ZeroRow

LEMMA LedgerFrame ==
  ASSUME AllInv, TypeOK',
         \/ UNCHANGED vars \/ Tick \/ OnlineCrash \/ StartResetSodFails \/ ReconciliationRaises
         \/ ResetDone \/ ResetRaises \/ CommandCrash
         \/ \E s \in Sessions : HaltSession(s)
         \/ \E t \in trades : ReadLedger(t)
  PROVE  LedgerInv'
  <1>1. [Next]_vars
    BY DEF Next, OnlineStep, CommandStep
  <1>2. /\ UNCHANGED <<day, sod, d23, real, seen>> /\ trades' = trades
        /\ UNCHANGED clock \/ Tick
        /\ pc' = "screen" => pc = "screen" /\ at' = at
    BY DEF vars, Tick, OnlineCrash, StartResetSodFails, ReconciliationRaises, ResetDone, ResetRaises,
           CommandCrash, HaltSession, ReadLedger, BeginReset, timeVars, onlineVars, tradeVars, histVars
  <1>3. clock' < ResetAt => clock < ResetAt
    BY <1>2, SessionAssumption DEF Tick, AllInv, TypeOK, Slots
  <1> QED BY <1>1, <1>2, <1>3, LedgerKeeps

LEMMA LedgerReset ==
  ASSUME AllInv, TypeOK', StartReset \/ \E s \in Order : ResetRow(s)
  PROVE  LedgerInv'
  <1>1. [Next]_vars
    BY DEF Next, CommandStep
  <1>2. /\ UNCHANGED <<day, clock, real, seen, trades, pc, at>> /\ clock = ResetAt
    BY DEF StartReset, Trigger, BeginReset, ResetRow, timeVars, onlineVars, tradeVars, histVars,
           AllInv, IInv, DayInv
  <1>3. \A t \in trades' : t.day <= day'
    BY <1>2 DEF AllInv, LedgerInv
  <1> SUFFICES ASSUME Undisturbed'
               PROVE  (/\ RowsAreHistory /\ RowsBeforeReset
                       /\ ~sod => \A s \in Sessions : d23[s].opened = 0
                       /\ \A t \in trades : FitsDay(t))'
    BY <1>3 DEF LedgerInv
  <1>4. Undisturbed
    BY <1>1, StaysUndisturbed DEF AllInv
  <1>5. RowsBeforeReset'
    BY <1>2, SessionAssumption DEF RowsBeforeReset
  <1>6. CASE StartReset
    <2>1. UNCHANGED d23 /\ (~sod' => ~sod)
      BY <1>6 DEF StartReset, BeginReset
    <2> QED BY <1>2, <1>4, <1>5, <2>1 DEF AllInv, LedgerInv, RowsAreHistory, FitsDay, Budgeted
  <1>7. ASSUME NEW s \in Order, ResetRow(s)
        PROVE  LedgerInv'
    <2>1. d23' = [d23 EXCEPT ![s] = ZeroRow] /\ UNCHANGED sod
      BY <1>7 DEF ResetRow
    <2>2. s \in Sessions /\ d23'[s].opened = 0 /\ day # 0
          /\ \A w \in Sessions : w # s => d23'[w] = d23[w]
      BY <2>1, SessionAssumption DEF ZeroRow, AllInv, TypeOK, IInv, DayInv
    <2>3. RowsAreHistory'
      BY <1>2, <1>4, <2>2, SessionAssumption DEF AllInv, LedgerInv, RowsAreHistory
    <2>4. (~sod => \A w \in Sessions : d23[w].opened = 0)'
      BY <1>4, <2>1, <2>2 DEF AllInv, LedgerInv
    <2>5. \A t \in trades' : FitsDay(t)'
      BY <1>2, <1>4, <2>2 DEF AllInv, LedgerInv, FitsDay, Budgeted, TypeOK, TradeType
    <2> QED BY <1>3, <1>5, <2>3, <2>4, <2>5 DEF LedgerInv
  <1> QED BY <1>5, <1>6, <1>7 DEF LedgerInv

\* A new day has no results and, after its reset, no rows.
LEMMA LedgerNewDay ==
  ASSUME AllInv, TypeOK', NextDay \/ NextDayMissed
  PROVE  LedgerInv'
  <1>1. [Next]_vars
    BY DEF Next
  <1>2. /\ day' = day + 1 /\ real' = [s \in Sessions |-> 0] /\ pc # "screen" /\ cmd = "idle"
        /\ UNCHANGED <<sod, d23, pc, at, trades>>
    BY DEF NextDay, NextDayMissed, NewDay, tradeVars
  <1>3. \A t \in trades' : t.day < day' /\ t.day <= day'
    BY <1>2 DEF AllInv, LedgerInv, IInv, DayInv, TypeOK, TradeType
  <1> SUFFICES ASSUME Undisturbed'
               PROVE  (/\ RowsAreHistory /\ RowsBeforeReset
                       /\ ~sod => \A s \in Sessions : d23[s].opened = 0
                       /\ \A t \in trades : FitsDay(t))'
    BY <1>3 DEF LedgerInv
  <1>4. Undisturbed /\ NextDay /\ NoReset + races = 0
    BY <1>1, StaysUndisturbed DEF AllInv, NextDayMissed
  <1>5. \A s \in Sessions : d23'[s].opened = 0
    BY <1>2, <1>4, Dates DEF NextDay
  <1>6. day' # 0 /\ \A t \in trades' : t.day # day'
    BY <1>2, <1>3 DEF AllInv, IInv, DayInv, TypeOK, TradeType
  <1>7. RowsAreHistory' /\ RowsBeforeReset'
    BY <1>2, <1>5, <1>6, SessionAssumption DEF RowsAreHistory, RowsBeforeReset
  <1>8. \A t \in trades' : FitsDay(t)'
    BY <1>6 DEF FitsDay, Budgeted
  <1> QED BY <1>5, <1>7, <1>8

\* When a session opens, what the earlier rows hold is what was consumed.
LEMMA ConsumedIsSpent ==
  ASSUME AllInv, Undisturbed, NoReset + races = 0, sod, clock < ResetAt, NEW s \in Sessions
  PROVE  Consumed(s) = Spent(s)
  <1>1. ASSUME NEW w \in Earlier(s) PROVE Abs(Final(w)) = Abs(real[w])
    <2>1. w \in Order /\ w \in Sessions
      BY SessionAssumption DEF Earlier
    <2>2. d23[w].opened \in {0, day} /\ day # 0
      BY <2>1, Dates
    <2>3. CASE d23[w].opened = 0
      BY <2>1, <2>2, <2>3 DEF Final, AllInv, LedgerInv, RowsBeforeReset
    <2>4. CASE d23[w].opened = day
      BY <2>1, <2>2, <2>4 DEF Final, AllInv, LedgerInv, RowsAreHistory
    <2> QED BY <2>2, <2>3, <2>4
  <1>2. [w \in Earlier(s) |-> Abs(Final(w))] = [w \in Earlier(s) |-> Abs(real[w])]
    BY <1>1
  <1> QED BY <1>2 DEF Consumed, Spent

LEMMA LedgerOpen ==
  ASSUME AllInv, TypeOK', NEW s \in Sessions, OpenBudget(s) \/ OpenBudgetFails(s)
  PROVE  LedgerInv'
  <1>1. [Next]_vars
    BY DEF Next, OnlineStep
  <1>2. /\ clock = OpenAt[s] /\ at' = s
        /\ UNCHANGED <<day, clock, sod, real, trades>>
    BY DEF OpenBudget, OpenBudgetFails, BeginScreen, Opening, timeVars, tradeVars, histVars
  <1>3. clock < ResetAt
    BY <1>2, SessionAssumption
  <1>4. \A t \in trades' : t.day <= day'
    BY <1>2 DEF AllInv, LedgerInv
  <1> SUFFICES ASSUME Undisturbed'
               PROVE  (/\ RowsAreHistory /\ RowsBeforeReset
                       /\ ~sod => \A w \in Sessions : d23[w].opened = 0
                       /\ \A t \in trades : FitsDay(t))'
    BY <1>4 DEF LedgerInv
  <1>5. Undisturbed /\ NoReset + races = 0 /\ OpenBudget(s)
    BY <1>1, StaysUndisturbed DEF AllInv, OpenBudgetFails
  <1>6. CASE UNCHANGED <<d23, seen>>
    <2>1. sod /\ s \in Order => d23[s].opened = day
      <3> SUFFICES ASSUME sod, s \in Order PROVE d23[s].opened = day
        OBVIOUS
      <3>1. CASE Opened(s)
        BY <1>5, <3>1, Dates DEF Opened
      <3>2. CASE ~Opened(s)
        <4>1. d23' = [d23 EXCEPT ![s] = [l |-> 0, halt |-> Carry(s, Total, Consumed(s)),
                        exp |-> Carry(s, Exposure, Consumed(s)), opened |-> day]]
          BY <1>5, <3>2 DEF OpenBudget
        <4>2. d23'[s].opened = day
          BY <4>1 DEF AllInv, TypeOK
        <4> QED BY <1>6, <4>2
      <3> QED BY <3>1, <3>2
    <2>2. RowsAreHistory' /\ \A t \in trades' : FitsDay(t)'
      BY <1>2, <1>5, <1>6 DEF AllInv, LedgerInv, RowsAreHistory, FitsDay, Budgeted
    <2>3. RowsBeforeReset'
      BY <1>2, <1>3, <1>5, <1>6, <2>1 DEF AllInv, LedgerInv, RowsBeforeReset
    <2> QED BY <1>2, <1>5, <1>6, <2>2, <2>3 DEF AllInv, LedgerInv
  <1>7. CASE s \in Order /\ sod /\ ~Opened(s)
    <2>1. /\ d23' = [d23 EXCEPT ![s] = [l |-> 0, halt |-> Carry(s, Total, Consumed(s)),
                        exp |-> Carry(s, Exposure, Consumed(s)), opened |-> day]]
          /\ seen' = [seen EXCEPT ![s] = Spent(s)]
      BY <1>5, <1>7 DEF OpenBudget
    <2>2. /\ d23'[s].opened = day /\ d23'[s].l = 0 /\ seen'[s] = Spent(s)
          /\ d23'[s].halt = Carry(s, Total, Consumed(s))
          /\ \A w \in Sessions : w # s => d23'[w] = d23[w] /\ seen'[w] = seen[w]
      BY <2>1 DEF AllInv, TypeOK
    <2>3. d23[s].opened # day
      <3> SUFFICES ASSUME d23[s].opened = day PROVE FALSE
        OBVIOUS
      <3>1. d23[s].halt = Floor0(Total - seen[s]) * Share[s]
        BY <1>5, <1>7 DEF AllInv, LedgerInv, RowsAreHistory
      <3>2. d23[s].halt \in Nat
        <4>1. seen[s] \in Int /\ Total \in Int
          BY AmountAssumption DEF AllInv, TypeOK
        <4>2. Carry(s, Total, seen[s]) \in Nat
          BY <1>7, <4>1, CarryIsNat
        <4> QED BY <3>1, <4>2 DEF Carry
      <3>3. d23[s].opened # 0
        BY <1>5, Dates
      <3> QED BY <1>7, <3>2, <3>3 DEF Opened, NULL
    <2>4. real[s] = 0 /\ \A t \in trades : ~(t.ses = s /\ t.day = day)
      BY <1>3, <1>5, <1>7, <2>3 DEF AllInv, LedgerInv, RowsBeforeReset
    <2>5. d23'[s].halt = Floor0(Total - seen'[s]) * Share[s]
      BY <1>3, <1>5, <1>7, <2>2, ConsumedIsSpent DEF Carry
    <2>6. RowsAreHistory'
      <3> SUFFICES ASSUME NEW w \in Order, d23'[w].opened = day
                   PROVE  d23'[w].l = real[w] /\ d23'[w].halt = Floor0(Total - seen'[w]) * Share[w]
        BY <1>2 DEF RowsAreHistory
      <3>1. CASE w = s
        BY <2>2, <2>4, <2>5, <3>1
      <3>2. CASE w # s
        BY <1>5, <2>2, <3>2, SessionAssumption DEF AllInv, LedgerInv, RowsAreHistory
      <3> QED BY <3>1, <3>2
    <2>7. RowsBeforeReset'
      BY <1>2, <1>3, <1>5, <1>7, <2>2, SessionAssumption DEF AllInv, LedgerInv, RowsBeforeReset
    <2>8. \A t \in trades' : FitsDay(t)'
      BY <1>2, <1>5, <2>2, <2>4 DEF AllInv, LedgerInv, FitsDay, Budgeted, TypeOK, TradeType
    <2> QED BY <1>2, <1>7, <2>6, <2>7, <2>8
  <1> QED BY <1>5, <1>6, <1>7 DEF OpenBudget

LEMMA FractionBound ==
  ASSUME NEW p \in Nat, NEW q \in Nat, NEW r \in Nat, NEW h \in Nat, q <= r, p * r < h * q
  PROVE  p < h
  <1> SUFFICES ASSUME h <= p PROVE FALSE
    OBVIOUS
  <1>1. h * q <= p * q
    OBVIOUS
  <1>2. p * q <= p * r
    OBVIOUS
  <1> QED BY <1>1, <1>2

\* What layer 1 lets through fits in what the day has left: the share of a
\* session is at most the shares of the sessions that remain.
LEMMA PassedFits ==
  ASSUME AllInv, Undisturbed, pc = "screen", at \in Order, d23[at].opened = day,
         NEW a \in Assets, NEW w \in BOOLEAN, Screened(a, w), Passes(at, a, w),
         SpentWith(at) < Total
  PROVE  SpentWith(at) + Risk[a] < Total
  <1> DEFINE R == ShareOf(Remaining(at))
             left0 == Total - seen[at]
             p == Abs(real[at]) + Risk[a]
  <1>1. /\ d23[at].l = real[at] /\ d23[at].halt = Floor0(left0) * Share[at]
        /\ real[at] \in Int /\ seen[at] \in Int /\ at \in Sessions
    BY SessionAssumption DEF AllInv, LedgerInv, RowsAreHistory, TypeOK
  <1>2. /\ Abs(real[at]) \in Nat /\ Risk[a] \in Nat /\ Total \in Nat
        /\ R \in Nat /\ Share[at] \in Nat /\ Share[at] > 0 /\ Share[at] <= R
    BY <1>1, AbsIsNat, AmountAssumption, SharesAdd
  <1>3. left0 \in Nat /\ left0 > 0 /\ Floor0(left0) = left0
    BY <1>1, <1>2 DEF SpentWith, Floor0
  <1>4. d23[at].halt = left0 * Share[at] /\ d23[at].halt > 0
    BY <1>1, <1>2, <1>3
  <1>5. Limit(at, d23[at].halt, Total) = Fraction(left0 * Share[at], R)
    BY <1>4 DEF Limit, Fraction, NULL
  <1>6. ~(p * R >= left0 * Share[at])
    <2>1. ~PreemptiveHalt(at, a)
      BY DEF Passes
    <2> HIDE DEF left0, R
    <2> QED BY <1>1, <1>5, <2>1 DEF PreemptiveHalt, Reaches, Projected, Fraction
  <1>7. p < left0
    <2>1. p \in Nat
      BY <1>2
    <2>2. p * R \in Nat /\ left0 * Share[at] \in Nat
      BY <1>2, <1>3, <2>1
    <2> HIDE DEF p, R, left0
    <2> QED BY <1>2, <1>3, <1>6, <2>1, <2>2, FractionBound
  <1> QED BY <1>1, <1>2, <1>7 DEF SpentWith

LEMMA LedgerScreen ==
  ASSUME AllInv, TypeOK', NEW A \in SUBSET Assets, NEW W \in SUBSET A, Screen(A, W)
  PROVE  LedgerInv'
  <1>1. [Next]_vars
    BY DEF Next, OnlineStep
  <1>2. /\ pc = "screen" /\ pc' = "loop" /\ \A a \in A : Passes(at, a, a \in W)
        /\ UNCHANGED <<day, clock, sod, d23, real, seen>>
    BY DEF Screen, timeVars
  <1>3. ASSUME NEW t \in trades', t \notin trades
        PROVE  \E a \in A : /\ t.asset = a /\ t.ses = at /\ t.day = day
                            /\ t.spent = SpentWith(at) /\ t.screened = Screened(a, a \in W)
    BY <1>3 DEF Screen
  <1>4. \A t \in trades' : t.day <= day'
    BY <1>2, <1>3 DEF AllInv, LedgerInv, IInv, DayInv
  <1> SUFFICES ASSUME Undisturbed'
               PROVE  (/\ RowsAreHistory /\ RowsBeforeReset
                       /\ ~sod => \A w \in Sessions : d23[w].opened = 0
                       /\ \A t \in trades : FitsDay(t))'
    BY <1>4 DEF LedgerInv
  <1>5. Undisturbed
    BY <1>1, StaysUndisturbed DEF AllInv
  <1>6. RowsAreHistory' /\ (~sod => \A w \in Sessions : d23[w].opened = 0)'
    BY <1>2, <1>5 DEF AllInv, LedgerInv, RowsAreHistory
  <1>7. RowsBeforeReset'
    BY <1>2, <1>3, <1>5 DEF AllInv, LedgerInv, RowsBeforeReset
  <1>8. ASSUME NEW t \in trades' PROVE FitsDay(t)'
    <2>1. CASE t \in trades
      BY <1>2, <1>5, <2>1 DEF AllInv, LedgerInv, FitsDay, Budgeted
    <2>2. CASE t \notin trades
      <3>1. PICK a \in A : /\ t.asset = a /\ t.ses = at /\ t.day = day
                           /\ t.spent = SpentWith(at) /\ t.screened = Screened(a, a \in W)
        BY <1>3, <2>2
      <3>2. SUFFICES ASSUME Budgeted(t)', t.spent < Total PROVE t.spent + Risk[t.asset] < Total
        BY DEF FitsDay
      <3>3. Screened(a, a \in W) /\ at \in Order /\ d23[at].opened = day
        BY <1>2, <3>1, <3>2 DEF Budgeted
      <3>4. Passes(at, a, a \in W) /\ (a \in W) \in BOOLEAN /\ a \in Assets
        BY <1>2
      <3> QED BY <1>2, <1>5, <3>1, <3>2, <3>3, <3>4, PassedFits
    <2> QED BY <2>1, <2>2
  <1> QED BY <1>6, <1>7, <1>8

\* A result goes into the row it belongs to, or is counted as a race or as late.
LEMMA LedgerWrite ==
  ASSUME AllInv, TypeOK', NEW t \in trades, NEW pnl \in Results(t), WriteLedger(t, pnl)
  PROVE  LedgerInv'
  <1>1. [Next]_vars
    BY DEF Next, OnlineStep
  <1>2. /\ pc' = "loop" /\ UNCHANGED <<day, clock, sod, seen>> /\ trades' = trades \ {t}
        /\ d23' = [d23 EXCEPT ![t.ses] = [held EXCEPT !.l = @ + pnl]]
        /\ races' = races + (IF d23[t.ses] = held THEN 0 ELSE 1)
        /\ late' = late + (IF t.day < day /\ d23[t.ses].opened = day THEN 1 ELSE 0)
        /\ real' = IF t.day = day THEN [real EXCEPT ![t.ses] = @ + pnl] ELSE real
    BY DEF WriteLedger, timeVars
  <1>3. \A u \in trades' : u.day <= day'
    BY <1>2 DEF AllInv, LedgerInv
  <1> SUFFICES ASSUME Undisturbed'
               PROVE  (/\ RowsAreHistory /\ RowsBeforeReset
                       /\ ~sod => \A w \in Sessions : d23[w].opened = 0
                       /\ \A u \in trades : FitsDay(u))'
    BY <1>3 DEF LedgerInv
  <1>4. Undisturbed /\ races' = races /\ late' = late
    BY <1>1, StaysUndisturbed DEF AllInv
  <1>5. t.ses \in Sessions /\ t.day \in Int /\ t.day <= day /\ races \in Int /\ late \in Int /\ day \in Int
    BY DEF AllInv, LedgerInv, TypeOK, TradeType
  <1>6. d23[t.ses] = held /\ (d23[t.ses].opened = day => t.day = day)
    BY <1>2, <1>4, <1>5
  <1>7. /\ d23'[t.ses].opened = d23[t.ses].opened /\ d23'[t.ses].halt = d23[t.ses].halt
        /\ d23'[t.ses].l = d23[t.ses].l + pnl
        /\ \A w \in Sessions : w # t.ses => d23'[w] = d23[w] /\ real'[w] = real[w]
        /\ real'[t.ses] = IF t.day = day THEN real[t.ses] + pnl ELSE real[t.ses]
    BY <1>2, <1>5, <1>6 DEF AllInv, TypeOK, RowType
  <1>8. \A w \in Sessions : d23'[w].opened = d23[w].opened
    BY <1>7
  <1>9. RowsAreHistory'
    <2> SUFFICES ASSUME NEW w \in Order, d23'[w].opened = day
                 PROVE  d23'[w].l = real'[w] /\ d23'[w].halt = Floor0(Total - seen[w]) * Share[w]
      BY <1>2 DEF RowsAreHistory
    <2>1. d23[w].l = real[w] /\ d23[w].halt = Floor0(Total - seen[w]) * Share[w] /\ w \in Sessions
      BY <1>4, <1>8, SessionAssumption DEF AllInv, LedgerInv, RowsAreHistory
    <2> QED BY <1>6, <1>7, <2>1
  <1>10. RowsBeforeReset'
    <2> SUFFICES ASSUME sod, clock < ResetAt
                 PROVE  /\ \A w \in Order : d23'[w].opened # day => real'[w] = 0
                        /\ \A u \in trades' : u.day = day /\ u.ses \in Order => d23'[u.ses].opened = day
      BY <1>2 DEF RowsBeforeReset
    <2>1. /\ \A w \in Order : d23[w].opened # day => real[w] = 0
          /\ \A u \in trades : u.day = day /\ u.ses \in Order => d23[u.ses].opened = day
      BY <1>4 DEF AllInv, LedgerInv, RowsBeforeReset
    <2>2. \A u \in trades' : u \in trades /\ u.ses \in Sessions
      BY <1>2 DEF AllInv, TypeOK, TradeType
    <2>3. ASSUME NEW w \in Order, d23'[w].opened # day PROVE real'[w] = 0
      BY <1>7, <1>8, <2>1, <2>3, SessionAssumption
    <2> QED BY <1>8, <2>1, <2>2, <2>3, SessionAssumption
  <1>11. (~sod => \A w \in Sessions : d23[w].opened = 0)'
    BY <1>2, <1>4, <1>8 DEF AllInv, LedgerInv
  <1>12. \A u \in trades' : FitsDay(u)'
    <2>1. \A u \in trades' : u \in trades /\ FitsDay(u) /\ (u.ses \in Order => u.ses \in Sessions)
      BY <1>2, <1>4, SessionAssumption DEF AllInv, LedgerInv
    <2> QED BY <1>2, <1>8, <2>1 DEF FitsDay, Budgeted
  <1> QED BY <1>9, <1>10, <1>11, <1>12

LEMMA LedgerInvariance == Spec => []AllInv
  <1>1. Init => AllInv
    BY IInit, TypeInit, LedgerInit DEF AllInv
  <1>2. AllInv /\ [Next]_vars => AllInv'
    <2> SUFFICES ASSUME AllInv, [Next]_vars PROVE AllInv'
      OBVIOUS
    <2>1. IInv' /\ TypeOK'
      BY INext, TypeNext DEF AllInv
    <2>2. LedgerInv'
      BY <2>1, LedgerFrame, LedgerReset, LedgerNewDay, LedgerOpen, LedgerScreen, LedgerWrite
         DEF Next, OnlineStep, CommandStep
    <2> QED BY <2>1, <2>2 DEF AllInv
  <1> QED BY <1>1, <1>2, PTL DEF Spec

\* The ledger of a session is the history of its trades and its budget its share
\* of what the earlier sessions have left, for any sessions, shares and amounts.
THEOREM LedgerHolds == Spec => []LedgerIsHistory
  <1>1. AllInv => LedgerIsHistory
    BY DEF AllInv, LedgerInv, RowsAreHistory, LedgerIsHistory
  <1> QED BY <1>1, LedgerInvariance, PTL

\* No trade that B5C screens and lets through can use up by itself what the day
\* has left.
THEOREM TradesFit == Spec => []TradeFitsDay
  <1>1. AllInv => TradeFitsDay
    BY DEF AllInv, LedgerInv, FitsDay, TradeFitsDay
  <1> QED BY <1>1, LedgerInvariance, PTL
=============================================================================
