-------------------------- MODULE MCFiberScheduler ---------------------------
EXTENDS FiberScheduler

CONSTANTS f1, f2, f3, f4

\* Four fibers: three can wait while a fourth takes the unit a notify woke
\* them for, and notify_all has up to three waiters to resume.
MCFibers == {f1, f2, f3, f4}

\* One unit per fiber: enough for every fiber, never more.
MCCredits == 4


=============================================================================
