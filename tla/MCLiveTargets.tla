---------------------------- MODULE MCLiveTargets ---------------------------
\* The database for TLC: one wallet, for the tasks contend for the mutex and
\* no two rows for anything; a clock that passes the limit of staleness twice.
EXTENDS LiveTargets

CONSTANT w1
=============================================================================
