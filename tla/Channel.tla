------------------------------ MODULE Channel -------------------------------
(***************************************************************************)
(* The bounded channel of rustdv-methodology (channel.rs): a buffer, two   *)
(* lists of wakers, and a count of live handles on either side.  When the  *)
(* last Sender goes, receivers drain the buffer and are then told          *)
(* Disconnected; when the last Receiver goes, senders are told at once.    *)
(*                                                                         *)
(* A task on either side holds at most one handle (clones made by a task   *)
(* for itself change nothing) and awaits at most one future.  A future     *)
(* copies the reference to the channel, not the count: it may outlive the  *)
(* handle it was made from.                                                *)
(***************************************************************************)
EXTENDS Naturals, Sequences, FiniteSets

CONSTANTS
  SendTasks, RecvTasks,
  Capacity,       \* the argument of channel()
  MaxItems        \* bound: items offered in a run

VARIABLES
  buf,          \* ChanInner.buf
  tx, rx,       \* the tasks that hold a Sender, a Receiver
  sendWaiters,  \* ChanInner.send_waiters
  recvWaiters,  \* ChanInner.recv_waiters
  op,           \* the future each task awaits: "none", "send", "recv", "peek"
  item,         \* Send_.item, 0 for none
  ready,        \* the task will be polled
  offered,      \* history: items offered
  accepted,     \* history: items that entered the buffer
  taken,        \* history: items handed to receivers
  told          \* history: some receiver was told Disconnected

vars == <<buf, tx, rx, sendWaiters, recvWaiters, op, item, ready, offered, accepted,
          taken, told>>

Tasks == SendTasks \cup RecvTasks
cap == IF Capacity = 0 THEN 1 ELSE Capacity
has_space == Len(buf) < cap

(* channel(): one handle on each side, given to some task.                 *)
Init ==
  /\ buf = <<>>
  /\ tx = {CHOOSE s \in SendTasks : TRUE} /\ rx = {CHOOSE r \in RecvTasks : TRUE}
  /\ sendWaiters = {} /\ recvWaiters = {}
  /\ op = [p \in Tasks |-> "none"]
  /\ item = [p \in Tasks |-> 0]
  /\ ready = [p \in Tasks |-> FALSE]
  /\ offered = 0 /\ accepted = <<>> /\ taken = <<>>
  /\ told = FALSE

Woken(W, asleep) == [p \in Tasks |-> (ready[p] /\ p \notin asleep) \/ p \in W]

push(v, asleep) ==
  /\ buf' = Append(buf, v)
  /\ accepted' = Append(accepted, v)
  /\ recvWaiters' = {}
  /\ ready' = Woken(recvWaiters, asleep)
  /\ UNCHANGED <<sendWaiters, taken>>

pop(asleep) ==
  /\ buf' = Tail(buf)
  /\ taken' = Append(taken, Head(buf))
  /\ sendWaiters' = {}
  /\ ready' = Woken(sendWaiters, asleep)
  /\ UNCHANGED <<recvWaiters, accepted>>

Offer == offered < MaxItems /\ offered' = offered + 1

Finish(p) == op' = [op EXCEPT ![p] = "none"] /\ item' = [item EXCEPT ![p] = 0]
-----------------------------------------------------------------------------
(* Sender::clone and Receiver::clone, handed to another task.              *)
CloneSender(p) ==
  /\ tx # {} /\ p \notin tx
  /\ tx' = tx \cup {p}
  /\ UNCHANGED <<buf, rx, sendWaiters, recvWaiters, op, item, ready, offered, accepted,
                 taken, told>>

CloneReceiver(p) ==
  /\ rx # {} /\ p \notin rx
  /\ rx' = rx \cup {p}
  /\ UNCHANGED <<buf, tx, sendWaiters, recvWaiters, op, item, ready, offered, accepted,
                 taken, told>>

(* Sender::drop, Receiver::drop: the last one wakes the other side.        *)
DropSender(p) ==
  /\ p \in tx
  /\ tx' = tx \ {p}
  /\ IF tx' = {}
       THEN recvWaiters' = {} /\ ready' = Woken(recvWaiters, {})
       ELSE UNCHANGED <<recvWaiters, ready>>
  /\ UNCHANGED <<buf, rx, sendWaiters, op, item, offered, accepted, taken, told>>

DropReceiver(p) ==
  /\ p \in rx
  /\ rx' = rx \ {p}
  /\ IF rx' = {}
       THEN sendWaiters' = {} /\ ready' = Woken(sendWaiters, {})
       ELSE UNCHANGED <<sendWaiters, ready>>
  /\ UNCHANGED <<buf, tx, recvWaiters, op, item, offered, accepted, taken, told>>

(* try_send and try_recv; a refused item goes back to the caller.          *)
try_send(p) ==
  /\ p \in tx /\ op[p] = "none"
  /\ Offer
  /\ IF rx # {} /\ has_space
       THEN push(offered', {})
       ELSE UNCHANGED <<buf, sendWaiters, recvWaiters, ready, accepted, taken>>
  /\ UNCHANGED <<tx, rx, op, item, told>>

try_recv(p) ==
  /\ p \in rx /\ op[p] = "none" /\ buf # <<>>
  /\ pop({})
  /\ UNCHANGED <<tx, rx, op, item, offered, told>>

(* send, recv and peek make futures, polled by the task that awaits them.  *)
send(p) ==
  /\ p \in tx /\ op[p] = "none"
  /\ Offer
  /\ op' = [op EXCEPT ![p] = "send"]
  /\ item' = [item EXCEPT ![p] = offered']
  /\ ready' = [ready EXCEPT ![p] = TRUE]
  /\ UNCHANGED <<buf, tx, rx, sendWaiters, recvWaiters, accepted, taken, told>>

recv(p, o) ==
  /\ p \in rx /\ op[p] = "none"
  /\ op' = [op EXCEPT ![p] = o]
  /\ ready' = [ready EXCEPT ![p] = TRUE]
  /\ UNCHANGED <<buf, tx, rx, sendWaiters, recvWaiters, item, offered, accepted, taken, told>>

PollSend(p) ==
  /\ op[p] = "send"
  /\ \/ /\ rx = {}
        /\ Finish(p)
        /\ ready' = [ready EXCEPT ![p] = FALSE]
        /\ UNCHANGED <<buf, sendWaiters, recvWaiters, accepted, taken>>
     \/ rx # {} /\ has_space /\ push(item[p], {p}) /\ Finish(p)
     \/ /\ rx # {} /\ ~has_space
        /\ sendWaiters' = sendWaiters \cup {p}
        /\ ready' = [ready EXCEPT ![p] = FALSE]
        /\ UNCHANGED <<buf, recvWaiters, op, item, accepted, taken>>
  /\ UNCHANGED <<tx, rx, offered, told>>

(* Mutant: the handles are counted before the buffer is looked at.         *)
PollRecv_CountFirst(p) ==
  /\ op[p] = "recv"
  /\ \/ /\ tx = {}
        /\ Finish(p)
        /\ told' = TRUE
        /\ ready' = [ready EXCEPT ![p] = FALSE]
        /\ UNCHANGED <<buf, sendWaiters, recvWaiters, accepted, taken>>
     \/ tx # {} /\ buf # <<>> /\ pop({p}) /\ Finish(p) /\ UNCHANGED told
     \/ /\ tx # {} /\ buf = <<>>
        /\ recvWaiters' = recvWaiters \cup {p}
        /\ ready' = [ready EXCEPT ![p] = FALSE]
        /\ UNCHANGED <<buf, sendWaiters, op, item, accepted, taken, told>>
  /\ UNCHANGED <<tx, rx, offered>>

(* Recv::poll and Peek::poll.                                              *)
PollRecv(p) ==
  /\ op[p] \in {"recv", "peek"}
  /\ \/ buf # <<>> /\ op[p] = "recv" /\ pop({p}) /\ Finish(p) /\ UNCHANGED told
     \/ /\ buf # <<>> /\ op[p] = "peek"
        /\ Finish(p)
        /\ ready' = [ready EXCEPT ![p] = FALSE]
        /\ UNCHANGED <<buf, sendWaiters, recvWaiters, accepted, taken, told>>
     \/ /\ buf = <<>> /\ tx = {}
        /\ Finish(p)
        /\ told' = TRUE
        /\ ready' = [ready EXCEPT ![p] = FALSE]
        /\ UNCHANGED <<buf, sendWaiters, recvWaiters, accepted, taken>>
     \/ /\ buf = <<>> /\ tx # {}
        /\ recvWaiters' = recvWaiters \cup {p}
        /\ ready' = [ready EXCEPT ![p] = FALSE]
        /\ UNCHANGED <<buf, sendWaiters, op, item, accepted, taken, told>>
  /\ UNCHANGED <<tx, rx, offered>>

(* A future is dropped with its task.                                      *)
DropFuture(p) ==
  /\ op[p] # "none"
  /\ Finish(p)
  /\ ready' = [ready EXCEPT ![p] = FALSE]
  /\ UNCHANGED <<buf, tx, rx, sendWaiters, recvWaiters, offered, accepted, taken, told>>

Poll(p) == PollSend(p) \/ PollRecv(p)

Next ==
  \/ \E p \in SendTasks : CloneSender(p) \/ DropSender(p) \/ try_send(p) \/ send(p)
  \/ \E p \in RecvTasks :
       \/ CloneReceiver(p) \/ DropReceiver(p) \/ try_recv(p)
       \/ \E o \in {"recv", "peek"} : recv(p, o)
  \/ \E p \in Tasks : Poll(p) \/ DropFuture(p)

Spec == Init /\ [][Next]_vars

(* The executor polls whoever is ready.                                    *)
Fairness == \A p \in Tasks : WF_vars(ready[p] /\ Poll(p))
-----------------------------------------------------------------------------
(* Nobody sleeps while the poll it waits for would complete: not a         *)
(* receiver with an item or without senders, not a sender with space or    *)
(* without receivers, whichever side's last handle went, and when.         *)
NoSleeperMissesOut ==
  \A p \in Tasks : ~ready[p] =>
    /\ op[p] \in {"recv", "peek"} => buf = <<>> /\ tx # {} /\ p \in recvWaiters
    /\ op[p] = "send" => ~has_space /\ rx # {} /\ p \in sendWaiters

(* Disconnected is said late enough: every item that entered the buffer    *)
(* was received before, although the senders may be long gone.  And it is  *)
(* said truly: afterwards an item can only come from a Send_ future that   *)
(* has outlived the handle it was made from.                               *)
DisconnectIsHonest ==
  [][/\ ~told /\ told' => taken = accepted
     /\ told => /\ told'
                /\ accepted' # accepted =>
                     \E p \in SendTasks \ tx : op[p] = "send" /\ op'[p] = "none"]_vars

(* A receiver does not wait for senders that are gone.                     *)
ReceiversLearnOfDisconnect ==
  \A p \in RecvTasks : (op[p] = "recv" /\ tx = {}) ~> (op[p] # "recv")
=============================================================================
