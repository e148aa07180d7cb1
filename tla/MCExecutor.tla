----------------------------- MODULE MCExecutor -----------------------------
(***************************************************************************)
(* The executor under the fairness of the code that runs it, and as an     *)
(* implementation of the abstract scheduler.                               *)
(***************************************************************************)
EXTENDS Executor

(* Rust code that has control keeps running, and a poll returns: a future  *)
(* that never returned from poll would hang the simulator too.             *)
FairSpec == Spec /\ WF_vars(ctl # "sim" /\ Next)

(* Every wake is answered by a poll (or the end of the task), whatever the *)
(* other tasks do, unless the executor is wedged: the run queue is served  *)
(* in order.                                                               *)
WakeIsServed == \A t \in TaskIds : (live(t) /\ owed[t]) ~> (wedged \/ ~(live(t) /\ owed[t]))
-----------------------------------------------------------------------------
(* A task as the abstract scheduler sees it: a parked entry whose id is    *)
(* still in the woken queue is already runnable.                           *)
statusOf(t) ==
  IF t >= nextId THEN "unborn"
  ELSE IF entry[t] = "none" THEN "over"
  ELSE IF entry[t] = "Running" THEN "running"
  ELSE IF entry[t] = "Scheduled" \/ In(t, woken) THEN "runnable"
  ELSE "parked"

Sched == INSTANCE TaskScheduler WITH
  Tasks <- TaskIds,
  status <- [t \in TaskIds |-> statusOf(t)],
  again <- polling # NoTask /\ In(polling, woken),
  atSim <- ctl = "sim",
  stuck <- wedged

(* The executor implements the abstract scheduler.                         *)
RefinesScheduler == Sched!SchedSpec
=============================================================================
