---------------------------- MODULE TaskScheduler ---------------------------
(***************************************************************************)
(* What the executor promises, without its queues: a task is runnable from *)
(* its spawn or from a wake until it is polled, one task is polled at a    *)
(* time, a wake that arrives during a task's own poll makes it runnable    *)
(* again, a task that is over stays over, and the simulator gets control   *)
(* back only when nothing is runnable.  A destructor that panics breaks    *)
(* the last promise, for good: no task is polled after it.                 *)
(***************************************************************************)
EXTENDS Naturals

CONSTANT Tasks

VARIABLES
  status,  \* of each task
  again,   \* the task being polled was woken during this poll
  atSim,   \* the simulator has control
  stuck    \* and keeps it

svars == <<status, again, atSim, stuck>>

Status == {"unborn", "runnable", "running", "parked", "over"}

SchedInit ==
  /\ status = [t \in Tasks |-> "unborn"]
  /\ again = FALSE
  /\ atSim = TRUE
  /\ stuck = FALSE

(* The wakes in W, in a step that ends the tasks in E and bears those in B *)
After(W, E, B) ==
  [t \in Tasks |-> IF t \in E THEN "over"
                   ELSE IF t \in B \/ (t \in W /\ status[t] = "parked") THEN "runnable"
                   ELSE status[t]]

IsRunning(t) == status[t] = "running"
Runnable(t) == status[t] = "runnable"
Alive(t) == status[t] \in {"runnable", "running", "parked"}

SpawnTask(t) ==
  /\ status[t] = "unborn"
  /\ status' = After({}, {}, {t})
  /\ ~stuck
  /\ atSim' = FALSE
  /\ UNCHANGED <<again, stuck>>

(* Some tasks are woken; a wake from the simulator starts the run loop,    *)
(* unless that is stuck.                                                   *)
WakeTasks(W) ==
  /\ status' = After(W, {}, {})
  /\ again' = (again \/ \E t \in W : IsRunning(t))
  /\ atSim' = stuck
  /\ UNCHANGED stuck

(* A task ends, however, and the tasks awaiting it are woken.              *)
EndTask(t, W) ==
  /\ Alive(t) /\ ~atSim
  /\ status' = After(W, {t}, {})
  /\ again' = (~IsRunning(t) /\ (again \/ \E u \in W : IsRunning(u)))
  /\ UNCHANGED <<atSim, stuck>>

BeginPoll(t) ==
  /\ Runnable(t) /\ ~atSim
  /\ \A u \in Tasks : ~IsRunning(u)
  /\ status' = [status EXCEPT ![t] = "running"]
  /\ again' = FALSE
  /\ UNCHANGED <<atSim, stuck>>

Park(t) ==
  /\ IsRunning(t)
  /\ status' = [status EXCEPT ![t] = IF again THEN "runnable" ELSE "parked"]
  /\ again' = FALSE
  /\ UNCHANGED <<atSim, stuck>>

ReturnToSim ==
  /\ \A t \in Tasks : ~Runnable(t) /\ ~IsRunning(t)
  /\ atSim' = TRUE
  /\ UNCHANGED <<status, again, stuck>>

(* The destructor of a task that ends panics.                              *)
Escape(t, W) ==
  /\ Alive(t) /\ ~atSim
  /\ status' = After(W, {t}, {})
  /\ again' = FALSE
  /\ atSim' = TRUE
  /\ stuck' = TRUE

SchedNext ==
  \/ ReturnToSim
  \/ \E t \in Tasks : SpawnTask(t) \/ BeginPoll(t) \/ Park(t)
  \/ \E W \in SUBSET Tasks : WakeTasks(W) \/ \E t \in Tasks : EndTask(t, W) \/ Escape(t, W)

SchedSpec == SchedInit /\ [][SchedNext]_svars
=============================================================================
