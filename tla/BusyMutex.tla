------------------------------ MODULE BusyMutex -----------------------------
(***************************************************************************)
(* crossbow::busy_mutex (libs/thread/thread/mutex.hpp): a spin lock on one *)
(* std::atomic<bool> _m that is TRUE while the lock is free.  Each atomic  *)
(* operation (load, compare_exchange_strong, store) is one step; a         *)
(* thread's local copy of the value it expects is val[t].                  *)
(*                                                                         *)
(* compare_exchange_strong(val, false) sets _m to FALSE and returns true   *)
(* if _m = val; otherwise it writes the current value of _m into val and   *)
(* returns false.                                                          *)
(***************************************************************************)
EXTENDS Naturals, FiniteSets

CONSTANT Threads

VARIABLES
    m,    \* busy_mutex::_m
    val,  \* the local `bool val` of lock() and try_lock()
    pc    \* where each thread is

vars == <<m, val, pc>>

\* "idle": outside the mutex; "lockLoad", "lockLoop": in lock(), before and
\* after `val = _m.load()`; "tryLoad", "tryCas": the same in try_lock();
\* "held": lock() or try_lock() returned true.
Pc == {"idle", "lockLoad", "lockLoop", "tryLoad", "tryCas", "held"}

\* The constructor initialises _m to true (free).
Init ==
    /\ m = TRUE
    /\ val = [t \in Threads |-> FALSE]
    /\ pc = [t \in Threads |-> "idle"]

\* A thread calls lock() or try_lock().
CallLock(t) ==
    /\ pc[t] = "idle"
    /\ pc' = [pc EXCEPT ![t] = "lockLoad"]
    /\ UNCHANGED <<m, val>>

CallTryLock(t) ==
    /\ pc[t] = "idle"
    /\ pc' = [pc EXCEPT ![t] = "tryLoad"]
    /\ UNCHANGED <<m, val>>

\* bool val = _m.load();
LockLoad(t) ==
    /\ pc[t] = "lockLoad"
    /\ val' = [val EXCEPT ![t] = m]
    /\ pc' = [pc EXCEPT ![t] = "lockLoop"]
    /\ UNCHANGED m

\* Mutant: test-and-set split into a check of val and a plain store.
LockCas_CheckThenStore(t) ==
    /\ pc[t] = "lockLoop"
    /\ val[t]
    /\ m' = FALSE
    /\ pc' = [pc EXCEPT ![t] = "held"]
    /\ UNCHANGED val

\* One turn of `while (true) { if (val) { if (_m.compare_exchange_strong(val,
\* false)) return; } }`: with val true, the exchange either takes the lock
\* or copies the current _m into val.  A turn with val false reads nothing
\* and changes nothing, a stuttering step: the loop never loads _m again.
LockCas(t) ==
    /\ pc[t] = "lockLoop"
    /\ val[t]
    /\ IF m = val[t]
       THEN /\ m' = FALSE
            /\ pc' = [pc EXCEPT ![t] = "held"]
            /\ UNCHANGED val
       ELSE /\ val' = [val EXCEPT ![t] = m]
            /\ UNCHANGED <<m, pc>>

TryLoad(t) ==
    /\ pc[t] = "tryLoad"
    /\ val' = [val EXCEPT ![t] = m]
    /\ pc' = [pc EXCEPT ![t] = IF m THEN "tryCas" ELSE "idle"]
    /\ UNCHANGED m

\* `if (_m.compare_exchange_strong(val, false)) return true; return false;`
TryCas(t) ==
    /\ pc[t] = "tryCas"
    /\ IF m = val[t]
       THEN /\ m' = FALSE
            /\ pc' = [pc EXCEPT ![t] = "held"]
            /\ UNCHANGED val
       ELSE /\ val' = [val EXCEPT ![t] = m]
            /\ pc' = [pc EXCEPT ![t] = "idle"]
            /\ UNCHANGED m

\* _m.store(true);
Unlock(t) ==
    /\ pc[t] = "held"
    /\ m' = TRUE
    /\ pc' = [pc EXCEPT ![t] = "idle"]
    /\ UNCHANGED val

Step(t) ==
    \/ CallLock(t) \/ CallTryLock(t) \/ LockLoad(t) \/ LockCas(t)
    \/ TryLoad(t) \/ TryCas(t) \/ Unlock(t)

Next == \E t \in Threads : Step(t)

\* Threads are scheduled fairly and a thread holding the lock releases it;
\* whether a thread calls the mutex again is up to it.
Fairness ==
    \A t \in Threads :
        /\ WF_vars(LockLoad(t)) /\ WF_vars(LockCas(t)) /\ WF_vars(TryLoad(t))
        /\ WF_vars(TryCas(t)) /\ WF_vars(Unlock(t))

Spec == Init /\ [][Next]_vars /\ Fairness

-----------------------------------------------------------------------------

\* At most one thread holds the lock, and _m says it is taken while one does.
MutualExclusion ==
    /\ Cardinality({t \in Threads : pc[t] = "held"}) <= 1
    /\ (\E t \in Threads : pc[t] = "held") => ~m

\* A thread that calls lock() eventually holds the lock: the holder always
\* unlocks, so the lock is free again and again.
LockEventuallyAcquired ==
    \A t \in Threads : pc[t] = "lockLoad" ~> pc[t] = "held"

=============================================================================
