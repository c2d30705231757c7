----------------------------- MODULE MCHeartbeat -----------------------------
\* Heartbeat on a small instance; the configurations choose the limits.
EXTENDS Heartbeat
===============================================================================
