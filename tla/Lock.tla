-------------------------------- MODULE Lock --------------------------------
(***************************************************************************)
(* The Lock of rustdv-sim (sync.rs): acquire() returns a future that joins *)
(* a queue of waiters when polled on a locked lock; dropping the guard     *)
(* hands the lock to the front waiter; dropping the future leaves the      *)
(* queue, or passes on a lock that was handed over but never taken.        *)
(*                                                                         *)
(* A client is one acquire() future and the guard it yields.  ready says   *)
(* that the client's task was woken: the executor then polls it, and may   *)
(* also poll it for another reason (a sibling branch of a select).         *)
(***************************************************************************)
EXTENDS Naturals, Sequences, FiniteSets

CONSTANT Clients

VARIABLES
  locked,   \* LockInner.locked
  waiters,  \* LockInner.waiters: the clients whose LockWaiter is queued
  granted,  \* LockWaiter.granted of each client's waiter
  fut,      \* "idle", "created" (never polled), "waiting", "holding" (a guard)
  ready     \* the client's task has been woken

vars == <<locked, waiters, granted, fut, ready>>

Init ==
  /\ locked = FALSE
  /\ waiters = <<>>
  /\ granted = [p \in Clients |-> FALSE]
  /\ fut = [p \in Clients |-> "idle"]
  /\ ready = [p \in Clients |-> FALSE]

(* Mutants of release: the granted waiter is not woken; the newest waiter  *)
(* is served.                                                              *)
release_NoWake(g) ==
  IF waiters = <<>>
    THEN locked' = FALSE /\ granted' = g /\ UNCHANGED <<waiters, ready>>
    ELSE /\ waiters' = Tail(waiters)
         /\ granted' = [g EXCEPT ![Head(waiters)] = TRUE]
         /\ UNCHANGED <<locked, ready>>

release_Newest(g) ==
  IF waiters = <<>>
    THEN locked' = FALSE /\ granted' = g /\ UNCHANGED <<waiters, ready>>
    ELSE LET last == waiters[Len(waiters)]
         IN /\ waiters' = SubSeq(waiters, 1, Len(waiters) - 1)
            /\ granted' = [g EXCEPT ![last] = TRUE]
            /\ ready' = [ready EXCEPT ![last] = TRUE]
            /\ UNCHANGED locked

(* LockInner::release, from a state where the grants are g.                *)
release(g) ==
  IF waiters = <<>>
    THEN locked' = FALSE /\ granted' = g /\ UNCHANGED <<waiters, ready>>
    ELSE /\ waiters' = Tail(waiters)
         /\ granted' = [g EXCEPT ![Head(waiters)] = TRUE]
         /\ ready' = [ready EXCEPT ![Head(waiters)] = TRUE]
         /\ UNCHANGED locked

(* Lock::acquire, in a task that is running: it will be polled.            *)
acquire(p) ==
  /\ fut[p] = "idle"
  /\ fut' = [fut EXCEPT ![p] = "created"]
  /\ ready' = [ready EXCEPT ![p] = TRUE]
  /\ UNCHANGED <<locked, waiters, granted>>

(* Acquire::poll with no waiter yet: take the lock or join the queue.      *)
PollFirst(p) ==
  /\ fut[p] = "created"
  /\ ready' = [ready EXCEPT ![p] = FALSE]
  /\ IF locked
       THEN /\ waiters' = Append(waiters, p)
            /\ fut' = [fut EXCEPT ![p] = "waiting"]
            /\ UNCHANGED locked
       ELSE /\ locked' = TRUE
            /\ fut' = [fut EXCEPT ![p] = "holding"]
            /\ UNCHANGED waiters
  /\ UNCHANGED granted

(* Acquire::poll of a waiter: take a granted lock, else keep the new waker.*)
PollWaiter(p) ==
  /\ fut[p] = "waiting"
  /\ ready' = [ready EXCEPT ![p] = FALSE]
  /\ IF granted[p]
       THEN /\ fut' = [fut EXCEPT ![p] = "holding"]
            /\ granted' = [granted EXCEPT ![p] = FALSE]
       ELSE UNCHANGED <<fut, granted>>
  /\ UNCHANGED <<locked, waiters>>

Queued(p) == \E i \in 1..Len(waiters) : waiters[i] = p

(* The queue without p's waiter, of which there is one at most: retain.    *)
Dequeue(p) ==
  IF Queued(p)
    THEN \E i \in 1..Len(waiters) :
           /\ waiters[i] = p
           /\ waiters' = SubSeq(waiters, 1, i - 1) \o SubSeq(waiters, i + 1, Len(waiters))
    ELSE UNCHANGED waiters

(* Mutant: a dropped future only ever leaves the queue.                    *)
DropAcquire_NoPassOn(p) ==
  /\ fut[p] \in {"created", "waiting"}
  /\ fut' = [fut EXCEPT ![p] = "idle"]
  /\ Dequeue(p)
  /\ granted' = [granted EXCEPT ![p] = FALSE]
  /\ UNCHANGED <<locked, ready>>

(* Acquire::drop of a future that has not produced a guard.                *)
DropAcquire(p) ==
  /\ fut[p] \in {"created", "waiting"}
  /\ fut' = [fut EXCEPT ![p] = "idle"]
  /\ IF granted[p]
       THEN release([granted EXCEPT ![p] = FALSE])
       ELSE Dequeue(p) /\ UNCHANGED <<locked, granted, ready>>

(* LockGuard::drop.                                                        *)
DropGuard(p) ==
  /\ fut[p] = "holding"
  /\ fut' = [fut EXCEPT ![p] = "idle"]
  /\ release(granted)

Poll(p) == PollFirst(p) \/ PollWaiter(p)

Next == \E p \in Clients : acquire(p) \/ Poll(p) \/ DropAcquire(p) \/ DropGuard(p)

Spec == Init /\ [][Next]_vars

(* The executor polls a task that was woken, and whoever holds the lock    *)
(* drops its guard some day.  Nobody is obliged to give up waiting.        *)
Fairness == \A p \in Clients : WF_vars(ready[p] /\ Poll(p)) /\ WF_vars(DropGuard(p))
-----------------------------------------------------------------------------
(* p has the lock, or has been handed it and will find out when polled.    *)
Owns(p) == fut[p] = "holding" \/ granted[p]

TypeOK ==
  /\ locked \in BOOLEAN
  /\ waiters \in Seq(Clients)
  /\ granted \in [Clients -> BOOLEAN]
  /\ fut \in [Clients -> {"idle", "created", "waiting", "holding"}]
  /\ ready \in [Clients -> BOOLEAN]

(* The lock is locked exactly while one client owns it, be it one that     *)
(* was granted the lock and is dropped before it is polled: mutual         *)
(* exclusion, and no lock that nobody can ever release.                    *)
OneOwner ==
  /\ \A p, q \in Clients : Owns(p) /\ Owns(q) => p = q
  /\ locked <=> \E p \in Clients : Owns(p)

(* A waiting client is in the queue, once, or has been granted the lock    *)
(* and woken: no release can miss it, no grant goes unnoticed.             *)
NobodyIsForgotten ==
  /\ \A p \in Clients : fut[p] = "waiting" <=> Queued(p) \/ granted[p]
  /\ \A p \in Clients : ~(Queued(p) /\ granted[p])
  /\ \A i, j \in 1..Len(waiters) : waiters[i] = waiters[j] => i = j
  /\ \A p \in Clients : granted[p] => ready[p]

(* Ownership is exclusive, never orphaned by a cancelled acquire, and      *)
(* everyone who waits is in line for it.                                   *)
OwnershipIsSound == OneOwner /\ NobodyIsForgotten

(* Every waiter that does not give up gets the lock.                       *)
WaiterIsServed == \A p \in Clients : fut[p] = "waiting" ~> fut[p] # "waiting"

(* The line of FairLock: the owner and, behind it, the queue.              *)
Owner == CHOOSE p \in Clients : Owns(p)
Line == IF locked THEN <<Owner>> \o waiters ELSE waiters
Inside == {p \in Clients : fut[p] = "holding"}

(* The lock is served in the order in which clients first polled it.       *)
Fair == INSTANCE FairLock WITH
  line <- Line, inside <- Inside
RefinesFairLock == Fair!LineSpec
=============================================================================
