---------------------------- MODULE MCBusyMutex -----------------------------
(* Model-checking instance of BusyMutex. *)
EXTENDS BusyMutex

CONSTANTS t1, t2, t3

\* Three threads: two contend for the lock while the third holds it.
MCThreads == {t1, t2, t3}
=============================================================================
