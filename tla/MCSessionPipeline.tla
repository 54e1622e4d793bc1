------------------------- MODULE MCSessionPipeline -------------------------
EXTENDS SessionPipeline

CONSTANTS lon, ny, mgc, es

\* As scripts/load_p2_multi_asset.py and session_registry.json have it: MGC is
\* listed for two sessions in P3-D00 and belongs to one in the registry.
MCOpenAt   == [s \in Sessions |-> IF s = lon THEN 0 ELSE 2]
MCHomeOf   == [a \in Assets |-> IF a = mgc THEN lon ELSE ny]
MCTradedIn == [a \in Assets |-> IF a = mgc THEN {lon, ny} ELSE {ny}]

\* One fault of any kind, or on the first day all attempts of a publication, up to
\* the registration of the shadows.
OneKind ==
    LET n == MaxFaults - left
    IN  n <= 1 \/ (n = faults["redis"] /\ day = 1 /\ pc \in {"b6", "log", "shadow"})

\* A signal is answered on the first day, and that day is the last one then.
AnsweredDay == day = 1 \/ taken = {}
=============================================================================
