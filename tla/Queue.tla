------------------------------- MODULE Queue --------------------------------
(***************************************************************************)
(* The FIFO queue of rustdv-sim (queue.rs): a buffer with an optional      *)
(* bound and two lists of wakers.  put, get, peek and wait_for_space are   *)
(* futures; a poll that cannot complete leaves a waker, and every accepted *)
(* item wakes all the waiting getters, every item taken all the putters.   *)
(*                                                                         *)
(* A client is a task that awaits at most one of these futures at a time.  *)
(* ready says that its waker was called, or that it has not been polled    *)
(* yet: the executor will poll it.  It may also poll it for another        *)
(* reason.  Items are numbered in the order in which they are offered.     *)
(***************************************************************************)
EXTENDS Naturals, Sequences

CONSTANTS
  Clients,
  Bounded,    \* is there a bound (cap = Some(Cap)) or none (cap = None)?
  Cap,
  MaxItems    \* bound: items offered in a run

VARIABLES
  buf,          \* QInner.buf
  getWaiters,   \* QInner.get_waiters: the clients whose wakers are stored
  putWaiters,   \* QInner.put_waiters
  op,           \* the future each client awaits
  item,         \* Put.item, NoItem otherwise
  ready,        \* the client will be polled
  offered,      \* history: the number of items offered
  accepted,     \* history: the items that entered the buffer, in order
  taken         \* history: the items that left it, in order

qvars == <<buf, getWaiters, putWaiters, op, item, ready, offered, accepted, taken>>

NoItem == 0
Items == 1..MaxItems
Op == {"none", "put", "get", "peek", "space"}

has_space == Bounded => Len(buf) < Cap

QInit ==
  /\ buf = <<>>
  /\ getWaiters = {} /\ putWaiters = {}
  /\ op = [p \in Clients |-> "none"]
  /\ item = [p \in Clients |-> NoItem]
  /\ ready = [p \in Clients |-> FALSE]
  /\ offered = 0
  /\ accepted = <<>> /\ taken = <<>>

(* buf.push_back and wake_getters, by a client that is then in `asleep`    *)
(* or not: a client whose future completed has no wake outstanding.        *)
push(v, asleep) ==
  /\ buf' = Append(buf, v)
  /\ accepted' = Append(accepted, v)
  /\ getWaiters' = {}
  /\ ready' = [p \in Clients |-> (ready[p] /\ p \notin asleep) \/ p \in getWaiters]
  /\ UNCHANGED <<putWaiters, taken>>

(* Mutant: as if only one putter were woken, and that one did not come.    *)
pop_NoWake(asleep) ==
  /\ buf' = Tail(buf)
  /\ taken' = Append(taken, Head(buf))
  /\ ready' = [p \in Clients |-> ready[p] /\ p \notin asleep]
  /\ UNCHANGED <<getWaiters, putWaiters, accepted>>

(* buf.pop_front of a non-empty buffer and wake_putters.                   *)
pop(asleep) ==
  /\ buf' = Tail(buf)
  /\ taken' = Append(taken, Head(buf))
  /\ putWaiters' = {}
  /\ ready' = [p \in Clients |-> (ready[p] /\ p \notin asleep) \/ p \in putWaiters]
  /\ UNCHANGED <<getWaiters, accepted>>

Offer == offered < MaxItems /\ offered' = offered + 1

-----------------------------------------------------------------------------
(* The operations that do not wait.                                        *)

try_put(p) ==
  /\ op[p] = "none"
  /\ Offer
  /\ IF has_space
       THEN push(offered', {})
       ELSE UNCHANGED <<buf, getWaiters, putWaiters, ready, accepted, taken>>
  /\ UNCHANGED <<op, item>>

try_get(p) ==
  /\ op[p] = "none"
  /\ buf # <<>>
  /\ pop({})
  /\ UNCHANGED <<op, item, offered>>

(* The futures: created by a running task, then polled until complete.     *)

Begin(p, o) ==
  /\ op[p] = "none"
  /\ op' = [op EXCEPT ![p] = o]
  /\ ready' = [ready EXCEPT ![p] = TRUE]
  /\ IF o = "put"
       THEN Offer /\ item' = [item EXCEPT ![p] = offered']
       ELSE UNCHANGED <<offered, item>>
  /\ UNCHANGED <<buf, getWaiters, putWaiters, accepted, taken>>

ParkGetter(p) ==
  /\ getWaiters' = getWaiters \cup {p}
  /\ ready' = [ready EXCEPT ![p] = FALSE]
  /\ UNCHANGED <<buf, putWaiters, op, item, accepted, taken>>

ParkPutter(p) ==
  /\ putWaiters' = putWaiters \cup {p}
  /\ ready' = [ready EXCEPT ![p] = FALSE]
  /\ UNCHANGED <<buf, getWaiters, op, item, accepted, taken>>

PollPut(p) ==
  /\ op[p] = "put"
  /\ IF has_space
       THEN /\ push(item[p], {p})
            /\ op' = [op EXCEPT ![p] = "none"]
            /\ item' = [item EXCEPT ![p] = NoItem]
       ELSE ParkPutter(p)
  /\ UNCHANGED offered

PollGet(p) ==
  /\ op[p] = "get"
  /\ IF buf # <<>>
       THEN pop({p}) /\ op' = [op EXCEPT ![p] = "none"] /\ UNCHANGED item
       ELSE ParkGetter(p)
  /\ UNCHANGED offered

(* Peek copies the front item: nothing leaves, so no putter is woken.      *)
PollPeek(p) ==
  /\ op[p] = "peek"
  /\ IF buf # <<>>
       THEN /\ op' = [op EXCEPT ![p] = "none"]
            /\ ready' = [ready EXCEPT ![p] = FALSE]
            /\ UNCHANGED <<buf, getWaiters, putWaiters, item, accepted, taken>>
       ELSE ParkGetter(p)
  /\ UNCHANGED offered

(* wait_for_space alone: a caller need not put anything afterwards.        *)
PollSpace(p) ==
  /\ op[p] = "space"
  /\ IF has_space
       THEN /\ op' = [op EXCEPT ![p] = "none"]
            /\ ready' = [ready EXCEPT ![p] = FALSE]
            /\ UNCHANGED <<buf, getWaiters, putWaiters, item, accepted, taken>>
       ELSE ParkPutter(p)
  /\ UNCHANGED offered

(* The future is dropped with its task; its wakers stay in the lists.      *)
Drop(p) ==
  /\ op[p] # "none"
  /\ op' = [op EXCEPT ![p] = "none"]
  /\ item' = [item EXCEPT ![p] = NoItem]
  /\ ready' = [ready EXCEPT ![p] = FALSE]
  /\ UNCHANGED <<buf, getWaiters, putWaiters, offered, accepted, taken>>

PollOp(p) == PollPut(p) \/ PollGet(p) \/ PollPeek(p) \/ PollSpace(p)

QNext ==
  \E p \in Clients :
    \/ try_put(p) \/ try_get(p) \/ PollOp(p) \/ Drop(p)
    \/ \E o \in Op \ {"none"} : Begin(p, o)

QSpec == QInit /\ [][QNext]_qvars

(* The executor polls whoever is ready.                                    *)
QFairness == \A p \in Clients : WF_qvars(ready[p] /\ PollOp(p))
-----------------------------------------------------------------------------
QTypeOK ==
  /\ buf \in Seq(Items) /\ accepted \in Seq(Items) /\ taken \in Seq(Items)
  /\ getWaiters \in SUBSET Clients /\ putWaiters \in SUBSET Clients
  /\ op \in [Clients -> Op]
  /\ item \in [Clients -> Items \cup {NoItem}]
  /\ ready \in [Clients -> BOOLEAN]
  /\ offered \in 0..MaxItems

(* A client asleep in get or peek sleeps on an empty queue with its waker  *)
(* stored, one asleep in put or wait_for_space on a full one: whoever was  *)
(* woken and dropped, or overtaken, no other sleeper misses the item.      *)
NoSleeperMissesOut ==
  \A p \in Clients : ~ready[p] =>
    /\ op[p] \in {"get", "peek"} => buf = <<>> /\ p \in getWaiters
    /\ op[p] \in {"put", "space"} => ~has_space /\ p \in putWaiters

(* Items leave in the order in which they entered, each exactly once.      *)
FirstInFirstOut == accepted = taken \o buf

(* A getter does not wait while there are items, nor a putter while there  *)
(* is space, unless others keep snatching them away.                       *)
WaitingEnds ==
  \A p \in Clients :
    /\ (op[p] = "get" /\ buf # <<>>) ~> (op[p] # "get" \/ buf = <<>>)
    /\ (op[p] = "put" /\ has_space) ~> (op[p] # "put" \/ ~has_space)
=============================================================================
