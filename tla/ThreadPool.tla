----------------------------- MODULE ThreadPool -----------------------------
(***************************************************************************)
(* CHatchThreadSimplePool: the main thread creates the worker threads,     *)
(* pushes runners and ends the pool; each worker waits for the end event   *)
(* and the semaphore (the event wins when both are signalled), pops a      *)
(* runner and runs it.                                                     *)
(*                                                                         *)
(* m_listRunner is only touched inside the pool's critical section, which  *)
(* covers no other shared object, so a section is one step.  The release   *)
(* of the semaphore in hatchPush comes after the section: a step of its    *)
(* own.                                                                    *)
(***************************************************************************)
EXTENDS Integers, Sequences, FiniteSets

CONSTANTS Workers,    \* the threads of m_threadArray
          Runners,    \* the runners hatchMain pushes, each once
          NoRunner,   \* NULL
          MaxCount    \* SEMAPHORE_MAX_COUNT

ASSUME PoolAssumption ==
  /\ IsFiniteSet(Workers)
  /\ IsFiniteSet(Runners)
  /\ NoRunner \notin Runners
  /\ MaxCount \in Nat
  /\ Cardinality(Runners) <= MaxCount

VARIABLES main,        \* where the main thread is
          listRunner,  \* m_listRunner
          count,       \* m_semaphore
          endEvent,    \* m_event
          wpc,         \* where each worker is
          job,         \* the runner each worker popped
          pushed,      \* runners handed to hatchPush
          returned     \* runners whose Run has returned

vars == <<main, listRunner, count, endEvent, wpc, job, pushed, returned>>

Init ==
  /\ main = "create"
  /\ listRunner = <<>>
  /\ count = 0
  /\ endEvent = FALSE
  /\ wpc = [w \in Workers |-> "absent"]
  /\ job = [w \in Workers |-> NoRunner]
  /\ pushed = {}
  /\ returned = {}

-----------------------------------------------------------------------------
(* the main thread *)

\* hatchInitThread: the new thread runs at once, before its siblings exist
CreateThread(w) ==
  /\ main = "create"
  /\ wpc[w] = "absent"
  /\ wpc' = [wpc EXCEPT ![w] = "wait"]
  /\ main' = IF \A v \in Workers \ {w} : wpc[v] # "absent" THEN "ready" ELSE "create"
  /\ UNCHANGED <<listRunner, count, endEvent, job, pushed, returned>>

\* a failure ends hatchInitialize and then main(): the process and its threads
CreateFails ==
  /\ main = "create"
  /\ main' = "failed"
  /\ wpc' = [w \in Workers |-> "absent"]
  /\ UNCHANGED <<listRunner, count, endEvent, job, pushed, returned>>

hatchPush(r) ==
  /\ main = "ready"
  /\ r \notin pushed
  /\ listRunner' = Append(listRunner, r)
  /\ pushed' = pushed \cup {r}
  /\ main' = "release"
  /\ UNCHANGED <<count, endEvent, wpc, job, returned>>

\* seeded fault: the semaphore is never released
hatchReleaseSemaphore_Forgotten ==
  /\ main = "release"
  /\ main' = "ready"
  /\ UNCHANGED <<listRunner, count, endEvent, wpc, job, pushed, returned>>

\* the return code is ignored
hatchReleaseSemaphore ==
  /\ main = "release"
  /\ count' = IF count < MaxCount THEN count + 1 ELSE count
  /\ main' = "ready"
  /\ UNCHANGED <<listRunner, endEvent, wpc, job, pushed, returned>>

\* hatchEnd: set the event, then wait for every thread
hatchEnd ==
  /\ main = "ready"
  /\ endEvent' = TRUE
  /\ main' = "waitThreads"
  /\ UNCHANGED <<listRunner, count, wpc, job, pushed, returned>>

\* seeded fault: the wait is over as soon as one thread has ended
hatchWaitThreadEnd_First ==
  /\ main = "waitThreads"
  /\ \E w \in Workers : wpc[w] = "ended"
  /\ main' = "returned"
  /\ UNCHANGED <<listRunner, count, endEvent, wpc, job, pushed, returned>>

hatchWaitThreadEnd ==
  /\ main = "waitThreads"
  /\ \A w \in Workers : wpc[w] = "ended"
  /\ main' = "returned"
  /\ UNCHANGED <<listRunner, count, endEvent, wpc, job, pushed, returned>>

-----------------------------------------------------------------------------
(* a worker: hatchThreadProc *)

\* seeded fault: the end event resets itself when a wait sees it
WaitEnd_AutoReset(w) ==
  /\ wpc[w] = "wait"
  /\ endEvent
  /\ endEvent' = FALSE
  /\ wpc' = [wpc EXCEPT ![w] = "ended"]
  /\ UNCHANGED <<main, listRunner, count, job, pushed, returned>>

\* hatchWaitObject: the event is first in the array, so it wins
WaitEnd(w) ==
  /\ wpc[w] = "wait"
  /\ endEvent
  /\ wpc' = [wpc EXCEPT ![w] = "ended"]
  /\ UNCHANGED <<main, listRunner, count, endEvent, job, pushed, returned>>

\* seeded fault: the wait leaves the unit for the other workers, as a wait on
\* an event would
WaitRunner_KeepsUnit(w) ==
  /\ wpc[w] = "wait"
  /\ ~endEvent
  /\ count > 0
  /\ wpc' = [wpc EXCEPT ![w] = "pop"]
  /\ UNCHANGED <<main, listRunner, count, endEvent, job, pushed, returned>>

WaitRunner(w) ==
  /\ wpc[w] = "wait"
  /\ ~endEvent
  /\ count > 0
  /\ count' = count - 1
  /\ wpc' = [wpc EXCEPT ![w] = "pop"]
  /\ UNCHANGED <<main, listRunner, endEvent, job, pushed, returned>>

\* hatchPop gives NULL for an empty list, and the worker just waits again
hatchPop(w) ==
  /\ wpc[w] = "pop"
  /\ IF listRunner = <<>>
       THEN wpc' = [wpc EXCEPT ![w] = "wait"] /\ UNCHANGED <<listRunner, job>>
       ELSE /\ job' = [job EXCEPT ![w] = Head(listRunner)]
            /\ listRunner' = Tail(listRunner)
            /\ wpc' = [wpc EXCEPT ![w] = "run"]
  /\ UNCHANGED <<main, count, endEvent, pushed, returned>>

RunReturns(w) ==
  /\ wpc[w] = "run"
  /\ returned' = returned \cup {job[w]}
  /\ job' = [job EXCEPT ![w] = NoRunner]
  /\ wpc' = [wpc EXCEPT ![w] = "wait"]
  /\ UNCHANGED <<main, listRunner, count, endEvent, pushed>>

-----------------------------------------------------------------------------

\* the process is over
Over == main \in {"returned", "failed"} /\ UNCHANGED vars

Main ==
  \/ \E w \in Workers : CreateThread(w)
  \/ CreateFails
  \/ \E r \in Runners : hatchPush(r)
  \/ hatchReleaseSemaphore
  \/ hatchEnd
  \/ hatchWaitThreadEnd

Worker(w) == WaitEnd(w) \/ WaitRunner(w) \/ hatchPop(w) \/ RunReturns(w)

Next == Main \/ (\E w \in Workers : Worker(w)) \/ Over

Spec == Init /\ [][Next]_vars

(***************************************************************************)
(* Threads that can go on do.  Nothing is assumed of the runners: Run may  *)
(* take forever.                                                           *)
(***************************************************************************)
Fairness ==
  /\ WF_vars(hatchReleaseSemaphore)
  /\ WF_vars(hatchWaitThreadEnd)
  /\ \A w \in Workers : WF_vars(WaitEnd(w) \/ WaitRunner(w) \/ hatchPop(w))

FairSpec == Spec /\ Fairness

-----------------------------------------------------------------------------

\* The variables keep their types; m_semaphore stays within its maximum.
TypeOK ==
  /\ main \in {"create", "ready", "release", "waitThreads", "returned", "failed"}
  /\ listRunner \in Seq(Runners)
  /\ count \in 0..MaxCount
  /\ endEvent \in BOOLEAN
  /\ wpc \in [Workers -> {"absent", "wait", "pop", "run", "ended"}]
  /\ job \in [Workers -> Runners \cup {NoRunner}]
  /\ pushed \subseteq Runners
  /\ returned \subseteq pushed

\* workers that took a unit of the semaphore and have not popped yet
Claimants == {w \in Workers : wpc[w] = "pop"}

\* the runner in the list whose unit hatchPush has yet to release
Unreleased == IF main = "release" THEN 1 ELSE 0

\* Every runner of the list is matched by a unit of the semaphore, waiting or
\* taken, or by the release hatchPush is about to do.
UnitsMatchRunners == count + Cardinality(Claimants) + Unreleased = Len(listRunner)

\* Runners are never queued twice over: the list is no longer than the number
\* of runners pushed, so the semaphore's maximum is out of reach.
ListFits == Len(listRunner) <= Cardinality(pushed)

InList(r) == \E i \in DOMAIN listRunner : listRunner[i] = r

RunBy(w, r) == wpc[w] = "run" /\ job[w] = r

\* Every pushed runner is in one place: once in the list, in the hands of one
\* worker, or returned.
RunnersPlaced ==
  /\ \A i, j \in DOMAIN listRunner : listRunner[i] = listRunner[j] => i = j
  /\ \A r \in Runners : InList(r) => r \in pushed \ returned
  /\ \A w \in Workers, r \in Runners : RunBy(w, r) => r \in pushed \ returned /\ ~InList(r)
  /\ \A w, v \in Workers, r \in Runners : RunBy(w, r) /\ RunBy(v, r) => w = v
  /\ \A r \in pushed \ returned : InList(r) \/ \E w \in Workers : RunBy(w, r)
  /\ \A w \in Workers : wpc[w] = "run" => job[w] \in Runners

\* The end event stays set once hatchEnd has set it, nothing is pushed before
\* the pool is complete, and hatchEnd has returned only if all workers ended.
PhasesMatch ==
  /\ endEvent <=> main \in {"waitThreads", "returned"}
  /\ main \in {"create", "failed"} => pushed = {}
  /\ main = "returned" => \A w \in Workers : wpc[w] = "ended"

\* The units of the semaphore and the runners of the list stay in step, and no
\* runner is lost or doubled: the inductive invariant of the pool.
PoolInvariant == TypeOK /\ UnitsMatchRunners /\ ListFits /\ RunnersPlaced /\ PhasesMatch

\* A worker that was woken for a runner finds one: hatchPop never gives NULL,
\* and no wake-up is wasted.
PopFindsRunner == \A w \in Workers : wpc[w] = "pop" => listRunner # <<>>

\* the pool seen by the main thread
Task ==
  [r \in Runners |->
     IF r \notin pushed THEN "new"
     ELSE IF InList(r) THEN "queued"
     ELSE IF r \in returned THEN "done" ELSE "running"]

Pool == INSTANCE TaskPool WITH
          task <- Task, closing <- endEvent, closed <- main = "returned"

\* The pool keeps its promises: a runner runs at most once, hatchEnd returns
\* only when nothing runs and nothing starts afterwards.
ImplementsTaskPool == Pool!PoolSpec

\* Each pushed runner is started, unless the pool is ended first or every worker
\* is for ever busy with a runner that does not return: with a worker for every
\* runner, as in hatchNet, that cannot be.
PushedIsStarted ==
  \A r \in Runners :
    (r \in pushed) ~> (endEvent \/ (r \in pushed /\ ~InList(r))
                       \/ [](\A w \in Workers : wpc[w] = "run"))

\* hatchEnd returns unless a runner never does: every worker sees the end
\* event, whatever is still queued and whichever runners it pops late.
EndReturns ==
  (main = "waitThreads") ~> (main = "returned" \/ [](\E w \in Workers : wpc[w] = "run"))
=============================================================================
