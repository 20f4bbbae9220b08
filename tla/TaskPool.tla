------------------------------ MODULE TaskPool ------------------------------
(***************************************************************************)
(* What hatchNet's main thread may count on when it hands its runners to   *)
(* the thread pool: a pushed runner is started at most once, hatchEnd      *)
(* returns only when no runner is running, and nothing starts afterwards.  *)
(* A runner that is still queued when the pool is closed may start or not. *)
(***************************************************************************)
CONSTANT Runners

VARIABLES task,      \* per runner: new, queued, running or done
          closing,   \* hatchEnd was called
          closed     \* hatchEnd has returned

poolVars == <<task, closing, closed>>

PoolInit ==
  /\ task = [r \in Runners |-> "new"]
  /\ closing = FALSE
  /\ closed = FALSE

PoolPush(r) ==
  /\ ~closing
  /\ task[r] = "new"
  /\ task' = [task EXCEPT ![r] = "queued"]
  /\ UNCHANGED <<closing, closed>>

PoolStart(r) ==
  /\ ~closed
  /\ task[r] = "queued"
  /\ task' = [task EXCEPT ![r] = "running"]
  /\ UNCHANGED <<closing, closed>>

PoolFinish(r) ==
  /\ task[r] = "running"
  /\ task' = [task EXCEPT ![r] = "done"]
  /\ UNCHANGED <<closing, closed>>

PoolEnd ==
  /\ ~closing
  /\ closing' = TRUE
  /\ UNCHANGED <<task, closed>>

PoolEndReturns ==
  /\ closing /\ ~closed
  /\ \A r \in Runners : task[r] # "running"
  /\ closed' = TRUE
  /\ UNCHANGED <<task, closing>>

PoolNext ==
  \/ \E r \in Runners : PoolPush(r) \/ PoolStart(r) \/ PoolFinish(r)
  \/ PoolEnd
  \/ PoolEndReturns

PoolSpec == PoolInit /\ [][PoolNext]_poolVars
=============================================================================
