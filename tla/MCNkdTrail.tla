----------------------------- MODULE MCNkdTrail -----------------------------
EXTENDS NkdTrail

\* $1250, $2000, $3000 and the target of a SHORT position of one contract, in ticks
Short == -1
MCMarks == {-50, -80, -120, -180}
MCJitters == {15}
\* filled two ticks lower: $2000 from the signal's entry are $1950 from this one
MCFills == {-2}

\* bound that cuts no fair step: besides a crash one failing call, and no loss of
\* the feed or of AUTO mode after it, nor both of them together
Calls == rejects + timeouts + redisFails
OneTrouble == Calls <= 1 /\ (quote \/ auto) /\ (Calls = 0 \/ (quote /\ auto))
=============================================================================
