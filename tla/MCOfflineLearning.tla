-------------------------- MODULE MCOfflineLearning --------------------------
EXTENDS OfflineLearning

CONSTANTS a1, a2

\* two real outcomes of an asset, a theoretical one of another
MCQueue == [trade  |-> <<a1, a1>>, signal |-> <<a2>>]
MCCps == {"low", "high"}
MCCalm == {"low"}
=============================================================================
