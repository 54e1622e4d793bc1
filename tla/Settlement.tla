------------------------------ MODULE Settlement ------------------------------
(***************************************************************************)
(* What the position monitor promises, whatever its threads do: a trade is *)
(* watched until it is settled, settling it writes its books one after the *)
(* other, only a fault can make it be settled again or no longer be        *)
(* watched, and only a lost answer can make it be announced again.         *)
(***************************************************************************)
EXTENDS Integers

CONSTANT Trades

VARIABLES
    watched,    \* trades whose exit is waited for
    rows,       \* times each trade is in the trade log,
    silo,       \* ... in the capital,
    breaker,    \* ... in the daily losses,
    outcomes,   \* ... announced to be learned from
    faults,     \* crashes and failed writes so far
    lost        \* calls so far that raised, perhaps after they had taken effect

books == <<rows, silo, breaker, outcomes>>
costs == <<faults, lost>>
vars  == <<watched, books, costs>>

OncePer(book, t) == [book EXCEPT ![t] = @ + 1]

Init ==
    /\ watched = {} /\ faults = 0 /\ lost = 0
    /\ rows = [t \in Trades |-> 0] /\ silo = rows
    /\ breaker = rows /\ outcomes = rows

Watch(t) ==
    /\ watched' = watched \union {t}
    /\ UNCHANGED books

\* the first book: once, and once more for each fault
Log(t) ==
    /\ t \in watched /\ rows[t] <= faults
    /\ rows' = OncePer(rows, t)
    /\ UNCHANGED <<silo, breaker, outcomes>>

\* a book follows the one before it
Credit(t) ==
    /\ t \in watched /\ silo[t] < rows[t]
    /\ silo' = OncePer(silo, t)
    /\ UNCHANGED <<rows, breaker, outcomes>>

Count(t) ==
    /\ t \in watched /\ breaker[t] < silo[t]
    /\ breaker' = OncePer(breaker, t)
    /\ UNCHANGED <<rows, silo, outcomes>>

\* the last book: once for each time the loss is counted, and once more for
\* each answer that was lost
Announce(t) ==
    /\ t \in watched /\ breaker[t] > 0
    /\ outcomes[t] < breaker[t] + lost
    /\ outcomes' = OncePer(outcomes, t)
    /\ UNCHANGED <<rows, silo, breaker>>

Write(t) == Log(t) \/ Credit(t) \/ Count(t) \/ Announce(t)

\* a trade is let go only when it is in the daily losses
Release(t) ==
    /\ t \in watched /\ breaker[t] > 0
    /\ watched' = watched \ {t}
    /\ UNCHANGED books

\* a write fails, with or without effect
FailedWrite ==
    /\ faults' = faults + 1
    /\ UNCHANGED books \/ \E t \in Trades : Write(t)
    /\ UNCHANGED <<watched, lost>>

\* a call raises: it did nothing, or what it was to do, or was not needed for
\* what is done all the same
LostAnswer ==
    /\ lost' = lost + 1
    /\ \/ UNCHANGED <<watched, books>>
       \/ \E t \in Trades : Announce(t) /\ UNCHANGED watched
       \/ \E t \in Trades : Release(t)
    /\ UNCHANGED faults

Crash ==
    /\ faults' = faults + 1 /\ watched' = {}
    /\ UNCHANGED <<books, lost>>

\* only after a crash
Recover ==
    /\ faults > 0 /\ watched = {} /\ watched' \in SUBSET Trades
    /\ UNCHANGED <<books, costs>>

Next ==
    \/ \E t \in Trades :
        /\ Watch(t) \/ Release(t) \/ (Write(t) /\ UNCHANGED watched)
        /\ UNCHANGED costs
    \/ FailedWrite \/ LostAnswer \/ Crash \/ Recover

Spec == Init /\ [][Next]_vars

=============================================================================
