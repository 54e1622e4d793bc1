--------------------------- MODULE MCDecayDetection ---------------------------
EXTENDS DecayDetection

\* likelihoods far enough apart for two high probabilities after the cut-off
MCLikelihoods == <<{1}, {1, 3}, {1, 40}, {1, 400}>>
MCReturns == {-3, 0, 2}
\* sprint lengths 1 and 2 are calibrated
MCLimits == [s \in 1..2 |-> s]
=============================================================================
