------------------------ MODULE MCCommandExecution ------------------------
EXTENDS CommandExecution

CONSTANTS t1, m1, n1, o1, o2

\* the batch m1 changes towers with the day
MCHash == [d \in Days |-> [b \in Batches |-> IF d = 1 THEN 0 ELSE 1]]
MCParity == [t \in Towers |-> 0]

\* An order with all levels and one without an entry price and a stop in one
\* batch; the batch of NKD has no account that takes part.
MCOrders == [t \in Towers |-> [b \in Batches |->
               IF b = m1 THEN <<o1, o2>> ELSE <<>>]]
MCFaults == [k \in Kinds |-> 1]

\* At most two faults of all kinds together.
TwoFaults == faults["crash"] + faults["reread"] + faults["redis"] + faults["broker"] <= 2
=============================================================================
