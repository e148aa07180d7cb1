------------------------------ MODULE Executor ------------------------------
(***************************************************************************)
(* The single-threaded executor of rustdv-sim (executor.rs): the task map, *)
(* the run queue, the queue of woken ids, cancellation by dropping the     *)
(* future, and the join handles.                                           *)
(*                                                                         *)
(* Everything happens on one thread.  ctl says who has control:            *)
(*   "sim"       the simulator; no rustdv code is on the stack             *)
(*   "loop"      run_until_idle, between two polls                         *)
(*   "poll"      the future of the task `polling` is being polled          *)
(*   "sweep"     cancel_after, called from that future                     *)
(*   "deferred"  poll_task, carrying out the deferred self-cancellations   *)
(* A poll is user code, so between its start and its return the model      *)
(* takes any sequence of the operations user code can call.                *)
(***************************************************************************)
EXTENDS Naturals, Sequences

CONSTANTS
  MaxTasks,      \* bound: tasks spawned in a run
  MaxWoken,      \* bound: length of the woken queue
  MaxJoiners,    \* bound: wakers registered with one task
  MaxPending,    \* bound: deferred self-cancellations
  DropsMayPanic  \* may the destructor of a dropped future panic?

ASSUME ExecutorAssumption ==
  /\ MaxTasks \in Nat /\ MaxWoken \in Nat /\ MaxJoiners \in Nat /\ MaxPending \in Nat
  /\ DropsMayPanic \in BOOLEAN

VARIABLES
  entry,         \* ExecInner.tasks: the entry's state, "none" when not in the map
  state,         \* TaskShared.state, what TaskHandle::state returns
  result,        \* TaskShared.result
  joiners,       \* TaskShared.joiners: the tasks whose wakers are stored
  nextId,        \* ExecInner.next_id
  runQueue,      \* ExecInner.run_queue
  woken,         \* ExecInner.woken
  running,       \* ExecInner.running
  polling,       \* ExecInner.currently_polling, NoTask for None
  cancelPending, \* ExecInner.cancel_pending
  sweep,         \* the ids cancel_after collected and has not cancelled yet
  ctl,           \* who has control
  wakers,        \* tasks polled at least once: triggers may hold their wakers
  owed,          \* history: woken since the start of the last poll
  awaits         \* history: handles the last poll of a task registered with

vars == <<entry, state, result, joiners, nextId, runQueue, woken, running, polling,
          cancelPending, sweep, ctl, wakers, owed, awaits>>

TaskIds == 1..MaxTasks
NoTask == 0

TaskState == {"Unstarted", "Scheduled", "Running", "Pending",
              "Finished", "Cancelled", "Failed"}
EntryState == {"none", "Scheduled", "Running", "Pending"}
ResultState == {"none", "ok", "cancelled", "panicked", "taken"}

live(t) == entry[t] # "none"
done(t) == state[t] \in {"Finished", "Cancelled", "Failed"}

-----------------------------------------------------------------------------
Init ==
  /\ entry = [t \in TaskIds |-> "none"]
  /\ state = [t \in TaskIds |-> "Unstarted"]
  /\ result = [t \in TaskIds |-> "none"]
  /\ joiners = [t \in TaskIds |-> <<>>]
  /\ nextId = 1
  /\ runQueue = <<>>
  /\ woken = <<>>
  /\ running = FALSE
  /\ polling = NoTask
  /\ cancelPending = <<>>
  /\ sweep = {}
  /\ ctl = "sim"
  /\ wakers = {}
  /\ owed = [t \in TaskIds |-> FALSE]
  /\ awaits = [t \in TaskIds |-> {}]

(* Mutant: the state is tested when the waker is called, not at the drain. *)
Wake_OnlyPending(ws, ending) ==
  /\ woken' = woken \o SelectSeq(ws, LAMBDA t : entry[t] = "Pending")
  /\ owed' = [t \in TaskIds |->
                t # ending /\ (owed[t] \/ \E i \in 1..Len(ws) : ws[i] = t)]

(* TaskWaker::wake on each waker of the sequence ws.  The history of the   *)
(* task that ends in this step, if any, ends with it.                      *)
Wake(ws, ending) ==
  /\ woken' = woken \o ws
  /\ owed' = [t \in TaskIds |->
                t # ending /\ (owed[t] \/ \E i \in 1..Len(ws) : ws[i] = t)]

(* Mutant: a new task waits for a wake and is not put on the run queue.    *)
spawn_named_Parked ==
  /\ nextId \in TaskIds
  /\ nextId' = nextId + 1
  /\ entry' = [entry EXCEPT ![nextId] = "Pending"]
  /\ state' = [state EXCEPT ![nextId] = "Pending"]
  /\ UNCHANGED runQueue

(* spawn_named: a fresh id, an entry and a place at the back of the queue. *)
spawn_named ==
  /\ nextId \in TaskIds
  /\ nextId' = nextId + 1
  /\ entry' = [entry EXCEPT ![nextId] = "Scheduled"]
  /\ state' = [state EXCEPT ![nextId] = "Scheduled"]
  /\ runQueue' = Append(runQueue, nextId)

(* Mutant: no re-entrancy guard.                                           *)
run_until_idle_NoGuard == running' = TRUE /\ ctl' = "loop"

(* run_until_idle, up to its loop: a re-entrant call returns at once.      *)
run_until_idle ==
  IF running
    THEN UNCHANGED <<running, ctl>>
    ELSE running' = TRUE /\ ctl' = "loop"

(* What a task leaves in its shared cell when it ends: the state, the      *)
(* result, and no joiner (TaskShared::complete drains and wakes them).     *)
Complete(t, s, r) ==
  /\ entry' = [entry EXCEPT ![t] = "none"]
  /\ state' = [state EXCEPT ![t] = s]
  /\ result' = [result EXCEPT ![t] = r]
  /\ joiners' = [joiners EXCEPT ![t] = <<>>]
  /\ awaits' = [awaits EXCEPT ![t] = {}]

(* The wakes a destructor of a dropped future performs: none or one.       *)
DropWakes == {<<>>} \cup {<<t>> : t \in wakers}

(* Mutant: the task is aborted whether or not it is still in the map.      *)
CancelEntry_NoMapCheck(t) ==
  /\ Complete(t, "Cancelled", "cancelled")
  /\ \E ws \in DropWakes : Wake(joiners[t] \o ws, t)

(* cancel(t) of a task that is not being polled: nothing if it is not in   *)
(* the map; otherwise it leaves the map, its joiners are woken and its     *)
(* future is dropped.                                                      *)
CancelEntry(t) ==
  IF live(t)
    THEN /\ Complete(t, "Cancelled", "cancelled")
         /\ \E ws \in DropWakes : Wake(joiners[t] \o ws, t)
    ELSE UNCHANGED <<entry, state, result, joiners, woken, owed, awaits>>

-----------------------------------------------------------------------------
(* The run loop.                                                           *)

(* on_start_of_simulation: spawn the first task and run.                   *)
StartOfSimulation ==
  /\ ctl = "sim" /\ nextId = 1
  /\ spawn_named
  /\ run_until_idle
  /\ UNCHANGED <<result, joiners, woken, polling, cancelPending, sweep, wakers, owed, awaits>>

(* A trigger or a synchronisation object wakes t: a simulator callback     *)
(* (which then runs the executor) or a call made inside a poll.            *)
Fire(t) ==
  /\ ctl \in {"sim", "poll"}
  /\ t \in wakers
  /\ Len(woken) < MaxWoken
  /\ Wake(<<t>>, NoTask)
  /\ run_until_idle
  /\ UNCHANGED <<entry, state, result, joiners, nextId, runQueue, polling,
                 cancelPending, sweep, wakers, awaits>>

(* Mutant: the woken task goes to the front.                               *)
DrainWoken_PushFront ==
  /\ ctl = "loop" /\ woken # <<>>
  /\ woken' = Tail(woken)
  /\ LET id == Head(woken)
     IN IF entry[id] = "Pending"
          THEN /\ entry' = [entry EXCEPT ![id] = "Scheduled"]
               /\ state' = [state EXCEPT ![id] = "Scheduled"]
               /\ runQueue' = <<id>> \o runQueue
          ELSE UNCHANGED <<entry, state, runQueue>>
  /\ UNCHANGED <<result, joiners, nextId, running, polling, cancelPending, sweep, ctl,
                 wakers, owed, awaits>>

(* drain_woken, one id at a time; nothing can run in between.              *)
DrainWoken ==
  /\ ctl = "loop" /\ woken # <<>>
  /\ woken' = Tail(woken)
  /\ LET id == Head(woken)
     IN IF entry[id] = "Pending"
          THEN /\ entry' = [entry EXCEPT ![id] = "Scheduled"]
               /\ state' = [state EXCEPT ![id] = "Scheduled"]
               /\ runQueue' = Append(runQueue, id)
          ELSE UNCHANGED <<entry, state, runQueue>>
  /\ UNCHANGED <<result, joiners, nextId, running, polling, cancelPending, sweep, ctl,
                 wakers, owed, awaits>>

(* Pop the next id and enter poll_task, which returns at once for an id    *)
(* that is not in the map or not Scheduled.                                *)
PollTask ==
  /\ ctl = "loop" /\ woken = <<>> /\ runQueue # <<>>
  /\ runQueue' = Tail(runQueue)
  /\ LET id == Head(runQueue)
     IN IF entry[id] = "Scheduled"
          THEN /\ entry' = [entry EXCEPT ![id] = "Running"]
               /\ state' = [state EXCEPT ![id] = "Running"]
               /\ polling' = id
               /\ ctl' = "poll"
               /\ wakers' = wakers \cup {id}
               /\ owed' = [owed EXCEPT ![id] = FALSE]
               /\ awaits' = [awaits EXCEPT ![id] = {}]
          ELSE UNCHANGED <<entry, state, polling, ctl, wakers, owed, awaits>>
  /\ UNCHANGED <<result, joiners, nextId, woken, running, cancelPending, sweep>>

(* Mutant: the woken queue is not drained again before returning.          *)
Idle_NoRedrain ==
  /\ ctl = "loop" /\ runQueue = <<>>
  /\ running' = FALSE
  /\ ctl' = "sim"
  /\ UNCHANGED <<entry, state, result, joiners, nextId, runQueue, woken, polling,
                 cancelPending, sweep, wakers, owed, awaits>>

(* Nothing woken, nothing queued: back to the simulator.                   *)
Idle ==
  /\ ctl = "loop" /\ woken = <<>> /\ runQueue = <<>>
  /\ running' = FALSE
  /\ ctl' = "sim"
  /\ UNCHANGED <<entry, state, result, joiners, nextId, runQueue, woken, polling,
                 cancelPending, sweep, wakers, owed, awaits>>

-----------------------------------------------------------------------------
(* What a future may call while it is being polled.                        *)

Spawn ==
  /\ ctl = "poll"
  /\ spawn_named
  /\ UNCHANGED <<result, joiners, woken, running, polling, cancelPending, sweep, ctl,
                 wakers, owed, awaits>>

(* TaskHandle::cancel of another task.                                     *)
Cancel(t) ==
  /\ ctl = "poll" /\ t # polling /\ t < nextId
  /\ Len(woken) + Len(joiners[t]) <= MaxWoken
  /\ CancelEntry(t)
  /\ UNCHANGED <<nextId, runQueue, running, polling, cancelPending, sweep, ctl, wakers>>

(* TaskHandle::cancel of itself: deferred until the poll returns.          *)
CancelSelf ==
  /\ ctl = "poll"
  /\ Len(cancelPending) < MaxPending
  /\ cancelPending' = Append(cancelPending, polling)
  /\ UNCHANGED <<entry, state, result, joiners, nextId, runQueue, woken, running, polling,
                 sweep, ctl, wakers, owed, awaits>>

(* <TaskHandle as Future>::poll: take the result of a task that is done,   *)
(* otherwise leave a waker with it.                                        *)
Join(t) ==
  /\ ctl = "poll" /\ t < nextId
  /\ IF done(t)
       THEN /\ result' = [result EXCEPT ![t] = "taken"]
            /\ UNCHANGED <<joiners, awaits>>
       ELSE /\ Len(joiners[t]) < MaxJoiners
            /\ joiners' = [joiners EXCEPT ![t] = Append(@, polling)]
            /\ awaits' = [awaits EXCEPT ![polling] = @ \cup {t}]
            /\ UNCHANGED result
  /\ UNCHANGED <<entry, state, nextId, runQueue, woken, running, polling, cancelPending,
                 sweep, ctl, wakers, owed>>

(* cancel_after(w): collect the live ids from w up ...                     *)
CancelAfter(w) ==
  /\ ctl = "poll" /\ Len(cancelPending) < MaxPending
  /\ sweep' = {t \in TaskIds : live(t) /\ t >= w}
  /\ sweep' # {}
  /\ ctl' = "sweep"
  /\ UNCHANGED <<entry, state, result, joiners, nextId, runQueue, woken, running, polling,
                 cancelPending, wakers, owed, awaits>>

(* ... and cancel each, in the arbitrary order of the map's keys.          *)
SweepOne(t) ==
  /\ ctl = "sweep" /\ t \in sweep
  /\ sweep' = sweep \ {t}
  /\ ctl' = IF sweep' = {} THEN "poll" ELSE "sweep"
  /\ IF t = polling
       THEN /\ cancelPending' = Append(cancelPending, t)
            /\ UNCHANGED <<entry, state, result, joiners, woken, owed, awaits>>
       ELSE CancelEntry(t) /\ UNCHANGED cancelPending
  /\ UNCHANGED <<nextId, runQueue, running, polling, wakers>>

-----------------------------------------------------------------------------
(* The three ways a poll returns.                                          *)

(* Poll::Ready: the wrapper has completed the shared cell.                 *)
PollReady ==
  /\ ctl = "poll"
  /\ Complete(polling, "Finished", "ok")
  /\ Wake(joiners[polling], polling)
  /\ polling' = NoTask
  /\ ctl' = "loop"
  /\ UNCHANGED <<nextId, runQueue, running, cancelPending, sweep, wakers>>

(* Mutant: the deferred cancellations are not carried out.                 *)
PollPending_NoDeferred ==
  /\ ctl = "poll"
  /\ entry' = [entry EXCEPT ![polling] = "Pending"]
  /\ state' = [state EXCEPT ![polling] = "Pending"]
  /\ polling' = NoTask
  /\ ctl' = "loop"
  /\ UNCHANGED <<result, joiners, nextId, runQueue, woken, running, cancelPending, sweep,
                 wakers, owed, awaits>>

(* Poll::Pending: the future goes back; deferred cancellations are next.   *)
PollPending ==
  /\ ctl = "poll"
  /\ entry' = [entry EXCEPT ![polling] = "Pending"]
  /\ state' = [state EXCEPT ![polling] = "Pending"]
  /\ polling' = NoTask
  /\ ctl' = IF cancelPending = <<>> THEN "loop" ELSE "deferred"
  /\ UNCHANGED <<result, joiners, nextId, runQueue, woken, running, cancelPending, sweep,
                 wakers, owed, awaits>>

CancelDeferred ==
  /\ ctl = "deferred"
  /\ cancelPending' = Tail(cancelPending)
  /\ ctl' = IF cancelPending' = <<>> THEN "loop" ELSE "deferred"
  /\ CancelEntry(Head(cancelPending))
  /\ UNCHANGED <<nextId, runQueue, running, polling, sweep, wakers>>

(* A panic caught by catch_unwind: the future is dropped, the handle sees  *)
(* Failed, the joiners are woken.                                          *)
PollPanic ==
  /\ ctl = "poll"
  /\ Complete(polling, "Failed", "panicked")
  /\ \E ws \in DropWakes : Wake(ws \o joiners[polling], polling)
  /\ polling' = NoTask
  /\ ctl' = "loop"
  /\ UNCHANGED <<nextId, runQueue, running, cancelPending, sweep, wakers>>

(* A destructor panics where no catch_unwind is left on the stack but the  *)
(* callback trampoline's: run_until_idle is unwound with running still set.*)
(* In the panic branch of poll_task the task has left the map but its      *)
(* shared cell has not been completed; in the deferred cancellation it has.*)
DropPanicInPoll ==
  /\ DropsMayPanic /\ ctl = "poll"
  /\ entry' = [entry EXCEPT ![polling] = "none"]
  /\ polling' = NoTask
  /\ ctl' = "sim"
  /\ awaits' = [awaits EXCEPT ![polling] = {}]
  /\ owed' = [owed EXCEPT ![polling] = FALSE]
  /\ UNCHANGED <<state, result, joiners, nextId, runQueue, woken, running, cancelPending,
                 sweep, wakers>>

DropPanicInDeferred ==
  /\ DropsMayPanic /\ ctl = "deferred"
  /\ live(Head(cancelPending))
  /\ cancelPending' = <<>>
  /\ ctl' = "sim"
  /\ CancelEntry(Head(cancelPending))
  /\ UNCHANGED <<nextId, runQueue, running, polling, sweep, wakers>>

-----------------------------------------------------------------------------
Loop == DrainWoken \/ PollTask \/ Idle \/ CancelDeferred \/ DropPanicInDeferred

UserCode ==
  \/ Spawn \/ CancelSelf
  \/ \E t \in TaskIds : Fire(t) \/ Cancel(t) \/ Join(t) \/ CancelAfter(t) \/ SweepOne(t)

PollReturn == PollReady \/ PollPending \/ PollPanic \/ DropPanicInPoll

Next == StartOfSimulation \/ Loop \/ UserCode \/ PollReturn

Spec == Init /\ [][Next]_vars
-----------------------------------------------------------------------------
In(t, q) == \E i \in 1..Len(q) : q[i] = t
NoDuplicates(q) == \A i, j \in 1..Len(q) : q[i] = q[j] => i = j

TypeOK ==
  /\ entry \in [TaskIds -> EntryState]
  /\ state \in [TaskIds -> TaskState]
  /\ result \in [TaskIds -> ResultState]
  /\ joiners \in [TaskIds -> Seq(TaskIds)]
  /\ nextId \in 1..(MaxTasks + 1)
  /\ runQueue \in Seq(TaskIds)
  /\ woken \in Seq(TaskIds)
  /\ running \in BOOLEAN
  /\ polling \in TaskIds \cup {NoTask}
  /\ cancelPending \in Seq(TaskIds)
  /\ sweep \in SUBSET TaskIds
  /\ ctl \in {"sim", "loop", "poll", "sweep", "deferred"}
  /\ wakers \in SUBSET TaskIds
  /\ owed \in [TaskIds -> BOOLEAN]
  /\ awaits \in [TaskIds -> SUBSET TaskIds]

(* poll_task polls one task at a time: the task being polled is the only   *)
(* one whose entry is Running, and polls happen only inside run_until_idle.*)
OnePollAtATime ==
  /\ \A t \in TaskIds : entry[t] = "Running" <=> t = polling
  /\ polling # NoTask <=> ctl \in {"poll", "sweep"}
  /\ ctl # "sim" => running

(* A live task is Scheduled exactly when the run queue holds its id, and   *)
(* no id is queued twice: the "stale duplicate wake" return of poll_task   *)
(* is never taken for a live task and no task is polled twice for a wake.  *)
QueueHoldsScheduled ==
  /\ \A t \in TaskIds : entry[t] = "Scheduled" => In(t, runQueue)
  /\ \A t \in TaskIds : In(t, runQueue) => entry[t] \in {"Scheduled", "none"}
  /\ NoDuplicates(runQueue)

(* drain_woken ignores ids that are not Pending, yet no wake is lost: a    *)
(* live task woken since its last poll began is queued or still to drain.  *)
NoLostWakeup ==
  \A t \in TaskIds : live(t) /\ owed[t] => entry[t] = "Scheduled" \/ In(t, woken)

(* A task that awaits a handle and finds it unfinished is woken when that  *)
(* task ends, whichever way it ends: returned, cancelled or panicked.      *)
JoinersAreWoken ==
  \A p, t \in TaskIds : live(p) /\ t \in awaits[p] =>
    IF done(t) THEN owed[p] ELSE In(p, joiners[t])

(* A task that cancelled itself does not outlive the poll it did so in.    *)
SelfCancelTakesEffect ==
  \A t \in TaskIds : live(t) /\ In(t, cancelPending) => t = polling \/ ctl = "deferred"

(* Every wake is kept, and whoever awaits a task is told of its recorded   *)
(* end, even when a destructor's panic throws the executor out of a poll.  *)
(* (A task that such a panic takes out of the map before its end is        *)
(* recorded never ends for its joiners: they stay registered.)             *)
WakesAreKept == NoLostWakeup /\ JoinersAreWoken

(* A destructor's panic has unwound run_until_idle with running still set: *)
(* no later callback gets past the guard.                                  *)
wedged == ctl = "sim" /\ running

(* "Drain the run queue to exhaustion, then return to the simulator": when *)
(* the simulator has control every live task is parked and no wake is due, *)
(* unless a panic has wedged the executor.                                 *)
RunsToExhaustion ==
  ctl = "sim" /\ ~wedged =>
    /\ runQueue = <<>> /\ woken = <<>>
    /\ \A t \in TaskIds : entry[t] \in {"none", "Pending"}

(* How a task ended never changes: a cancel after the end, or a panic of a *)
(* task already cancelled, does not overwrite it.                          *)
EndIsFinal ==
  [][\A t \in TaskIds : done(t) => state'[t] = state[t] /\ ~live(t)']_vars

=============================================================================
