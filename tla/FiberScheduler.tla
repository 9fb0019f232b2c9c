---------------------------- MODULE FiberScheduler ---------------------------
(***************************************************************************)
(* The fibers of one InfinibandProcessor and a ConditionVariable they wait *)
(* on (libs/infinio/include/crossbow/infinio/Fiber.hpp).  One thread runs  *)
(* the processor loop and every fiber of the processor, so at most one of  *)
(* them executes at a time; a fiber runs until it yields or waits.         *)
(*                                                                         *)
(* The fibers are handlers written in blocking style that need a resource  *)
(* (a send buffer, a credit, a reply) before they continue:                *)
(* ConditionVariable::wait(fiber, [] { return credits > 0; }) and then     *)
(* take one.  Completion callbacks, run by the processor loop, produce the *)
(* resource and call notify_one or notify_all.  Only the predicate loop    *)
(* and Fiber::empty have bodies in the source; yield, wait, resume,        *)
(* execute, notify_one and notify_all are declared there and modelled from *)
(* their documented behaviour: wait() leaves the fiber dormant until       *)
(* resume(), which the notifying callback calls on the processor thread,   *)
(* so the woken fiber runs before the callback continues.  mWaiting is a   *)
(* std::queue: notify_one wakes the oldest waiter, notify_all wakes every  *)
(* fiber waiting when it is called, oldest first.                          *)
(***************************************************************************)
EXTENDS Integers, Sequences, FiniteSets

CONSTANTS
    Fibers,    \* the processor's fibers
    None,      \* no fiber is running: the processor loop has control
    Credits,   \* resources the completion callbacks produce in total
    MaxYield   \* yields a fiber makes at most before it waits

ASSUME None \notin Fibers

\* Where a fiber's function is: not given one yet, started (before the
\* wait), inside the wait loop about to evaluate the predicate, inside it
\* and about to return without evaluating it, returned.
Pc == {"free", "start", "check", "take", "done"}

VARIABLES
    pc,         \* [Fibers -> Pc]
    runQ,       \* fibers scheduled on the processor, in order
    mWaiting,   \* ConditionVariable::mWaiting
    running,    \* the fiber executing, or None
    pending,    \* fibers the notify in progress has still to resume
    credits,    \* the resource the predicate tests
    delivered,  \* completions delivered so far
    yields      \* [Fibers -> 0..MaxYield]

vars == <<pc, runQ, mWaiting, running, pending, credits, delivered, yields>>

TypeOK ==
    /\ pc \in [Fibers -> Pc]
    /\ runQ \in Seq(Fibers) /\ mWaiting \in Seq(Fibers) /\ pending \in Seq(Fibers)
    /\ running \in Fibers \cup {None}
    /\ credits \in Int /\ delivered \in 0..Credits
    /\ yields \in [Fibers -> 0..MaxYield]

Init ==
    /\ pc = [f \in Fibers |-> "free"]
    /\ runQ = <<>> /\ mWaiting = <<>> /\ pending = <<>>
    /\ running = None
    /\ credits = 0 /\ delivered = 0
    /\ yields = [f \in Fibers |-> 0]

\* Fiber::empty: the fiber holds no function.
Empty(f) == pc[f] \in {"free", "done"}

\* The processor loop has control: no fiber runs and no callback is in the
\* middle of a notify.
Idle == running = None /\ pending = <<>>

-----------------------------------------------------------------------------
(* The processor loop. *)

\* Fiber::execute(fun), from any thread: gives an empty fiber its function
\* and schedules it.  Each fiber is given one function.
Execute(f) ==
    /\ pc[f] = "free" /\ Empty(f)
    /\ pc' = [pc EXCEPT ![f] = "start"]
    /\ runQ' = Append(runQ, f)
    /\ UNCHANGED <<mWaiting, running, pending, credits, delivered, yields>>

\* The loop switches to the oldest scheduled fiber.
Dispatch ==
    /\ Idle /\ runQ # <<>>
    /\ running' = Head(runQ)
    /\ runQ' = Tail(runQ)
    /\ UNCHANGED <<pc, mWaiting, pending, credits, delivered, yields>>

\* A completion callback produces one unit of the resource, then calls
\* notify_one (all = FALSE) or notify_all (all = TRUE), which take the
\* waiters to resume from mWaiting.
Complete(all) ==
    /\ Idle /\ delivered < Credits
    /\ credits' = credits + 1
    /\ delivered' = delivered + 1
    /\ IF all \/ mWaiting = <<>>
          THEN /\ pending' = mWaiting
               /\ mWaiting' = <<>>
          ELSE /\ pending' = <<Head(mWaiting)>>
               /\ mWaiting' = Tail(mWaiting)
    /\ UNCHANGED <<pc, runQ, running, yields>>

\* The notify resumes its next waiter: Fiber::resume switches to it at once.
Resume ==
    /\ running = None /\ pending # <<>>
    /\ running' = Head(pending)
    /\ pending' = Tail(pending)
    /\ UNCHANGED <<pc, runQ, mWaiting, credits, delivered, yields>>

-----------------------------------------------------------------------------
(* The running fiber. *)

\* Fiber::yield before the wait: back to the end of the run queue.
Yield(f) ==
    /\ running = f /\ pc[f] = "start" /\ yields[f] < MaxYield
    /\ runQ' = Append(runQ, f)
    /\ running' = None
    /\ yields' = [yields EXCEPT ![f] = @ + 1]
    /\ UNCHANGED <<pc, mWaiting, pending, credits, delivered>>

\* The predicate held: the `while (!pred())` loop exits and wait returns;
\* the fiber's handler code then takes one unit and its function returns.
Proceed(f) ==
    /\ credits' = credits - 1
    /\ pc' = [pc EXCEPT ![f] = "done"]
    /\ running' = None
    /\ UNCHANGED <<runQ, mWaiting, pending, delivered, yields>>

\* ConditionVariable::wait(fiber): mWaiting.push(&fiber), fiber.wait().
\* next is where the fiber's code goes on when it is resumed.
CvWait(f, next) ==
    /\ mWaiting' = Append(mWaiting, f)
    /\ pc' = [pc EXCEPT ![f] = next]
    /\ running' = None
    /\ UNCHANGED <<runQ, pending, credits, delivered, yields>>

\* Mutant: `while (pred())`, the negation dropped.
WaitUntil_Inverted(f) ==
    /\ running = f /\ pc[f] \in {"start", "check"}
    /\ IF ~(credits > 0) THEN Proceed(f) ELSE CvWait(f, "check")

\* ConditionVariable::wait(fiber, pred): `while (!pred()) wait(fiber);`,
\* entered from "start" and re-entered at "check" after every resume.
WaitUntil(f) ==
    /\ running = f /\ pc[f] \in {"start", "check"}
    /\ IF credits > 0 THEN Proceed(f) ELSE CvWait(f, "check")

Next ==
    \/ \E f \in Fibers : Execute(f) \/ Yield(f) \/ WaitUntil(f)
    \/ Dispatch \/ Resume
    \/ \E all \in BOOLEAN : Complete(all)

\* The processor thread polls forever: a scheduled fiber is switched to, a
\* notify finishes its resumes, a running fiber reaches its next suspension
\* point, and the hardware delivers the completions it owes.
Fairness ==
    /\ WF_vars(Dispatch) /\ WF_vars(Resume)
    /\ WF_vars(\E all \in BOOLEAN : Complete(all))
    /\ \A f \in Fibers : WF_vars(WaitUntil(f))

Spec == Init /\ [][Next]_vars /\ Fairness

-----------------------------------------------------------------------------

\* With as many units produced as there are fibers, every fiber that was
\* given its function gets past the wait: no notify is lost between a
\* completion and the fibers parked in mWaiting.
AllServed == \A f \in Fibers : pc[f] = "start" ~> pc[f] = "done"

=============================================================================
