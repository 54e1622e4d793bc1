--------------------------- MODULE MCAimLifecycle ---------------------------
EXTENDS AimLifecycle

\* one seed type of two AIMs
MCTypes == <<<<1, 2>>>>
\* trades until the warm-up of each is over
MCRequired == <<1, 2>>
=============================================================================
