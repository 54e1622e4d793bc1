---------------------------- MODULE MCDailyBudget ----------------------------
EXTENDS DailyBudget

CONSTANTS lon, pre, ny, apac, es, nkd

MCOpenAt == [s \in Sessions |-> CASE s = lon -> 0 [] s = pre -> 1 [] s = ny -> 1 [] s = apac -> 2]
MCShare  == [s \in Order |-> IF s = lon THEN 2 ELSE 1]
MCRisk   == [a \in Assets |-> 2]
=============================================================================
