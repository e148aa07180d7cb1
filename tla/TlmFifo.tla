------------------------------ MODULE TlmFifo -------------------------------
(***************************************************************************)
(* TlmFifo of rustdv-methodology (fifo.rs): a Queue whose traffic is shown *)
(* to analysis taps.  A put waits for space, shows the item to the put     *)
(* taps and hands it to try_put, whose refusal it would ignore; a get      *)
(* takes an item and shows it to the get taps.                             *)
(*                                                                         *)
(* A tap's subscriber runs inside the operation and may itself use the     *)
(* FIFO.  A subscriber of a put tap may take an item and one of a get tap  *)
(* may put one; a subscriber that is reached again while it is being       *)
(* called panics (RustdvShared is already borrowed), so reactions do not   *)
(* nest.  A panic in a tap, which fails the test, is left out.  Queue's    *)
(* variables keep their meaning, with op "put" for a put that waits for    *)
(* space.                                                                  *)
(***************************************************************************)
EXTENDS Queue, Functions

VARIABLES
  putSeen,   \* history: what the put taps saw
  getSeen,   \* history: what the get taps saw, as places in taken
  finished,  \* history: the items whose put returned success
  flushed    \* history: the places in taken of what flush threw away

fvars == <<buf, getWaiters, putWaiters, op, item, ready, offered, accepted, taken,
           putSeen, getSeen, finished, flushed>>

FInit ==
  /\ QInit
  /\ putSeen = <<>> /\ getSeen = <<>>
  /\ finished = {} /\ flushed = {}

(* The wakes of an operation that leaves the clients in asleep idle.       *)
WakeFor(W, asleep) == ready' = [q \in Clients |-> (ready[q] /\ q \notin asleep) \/ q \in W]

(* tap(put_taps, v) then try_put(v): the subscriber may take the front     *)
(* item meanwhile (taking = TRUE), which is shown to the get taps; with a  *)
(* bound of one there is no such item.  try_put looks for space again; a   *)
(* caller that ignores its refusal has finished all the same.              *)
PutTapped(v, asleep, taking, ignores) ==
  LET front == IF taking /\ buf # <<>> THEN <<Head(buf)>> ELSE <<>>
      rest == IF front = <<>> THEN buf ELSE Tail(buf)
      fits == Bounded => Len(rest) < Cap
  IN  /\ buf' = IF fits THEN Append(rest, v) ELSE rest
      /\ accepted' = IF fits THEN Append(accepted, v) ELSE accepted
      /\ putSeen' = Append(putSeen, v)
      /\ taken' = taken \o front
      /\ getSeen' = IF front = <<>> THEN getSeen ELSE Append(getSeen, Len(taken'))
      /\ finished' = IF fits \/ ignores THEN finished \cup {v} ELSE finished
      /\ getWaiters' = IF fits THEN {} ELSE getWaiters
      /\ putWaiters' = IF front = <<>> THEN putWaiters ELSE {}
      /\ WakeFor((getWaiters \ getWaiters') \cup (putWaiters \ putWaiters'), asleep)
      /\ UNCHANGED flushed

(* The pop and then tap(get_taps, item): the subscriber may put an item,   *)
(* for which there now is space unless the bound is zero.                  *)
GetTapped(asleep, putting) ==
  LET new == IF putting THEN <<offered'>> ELSE <<>>
  IN  /\ IF putting THEN Offer ELSE UNCHANGED offered
      /\ buf' = Tail(buf) \o new
      /\ taken' = Append(taken, Head(buf))
      /\ getSeen' = Append(getSeen, Len(taken'))
      /\ accepted' = accepted \o new
      /\ putSeen' = putSeen \o new
      /\ finished' = finished \cup Range(new)
      /\ putWaiters' = {}
      /\ getWaiters' = IF putting THEN {} ELSE getWaiters
      /\ WakeFor(putWaiters \cup (getWaiters \ getWaiters'), asleep)
      /\ UNCHANGED flushed

Histories == <<putSeen, getSeen, finished, flushed>>
-----------------------------------------------------------------------------
(* try_put_tapped: the space is looked at before the item is shown.        *)
try_put_tapped(p) ==
  /\ op[p] = "none"
  /\ Offer
  /\ \/ has_space /\ \E taking \in BOOLEAN : PutTapped(offered', {}, taking, FALSE)
     \/ ~has_space /\ UNCHANGED <<buf, getWaiters, putWaiters, ready, accepted, taken>>
                   /\ UNCHANGED Histories
  /\ UNCHANGED <<op, item>>

try_get_tapped(p) ==
  /\ op[p] = "none"
  /\ buf # <<>>
  /\ \E putting \in BOOLEAN : GetTapped({}, putting)
  /\ UNCHANGED <<op, item>>

start(p, o) == Begin(p, o) /\ UNCHANGED Histories

(* Mutant: an await between wait_for_space and try_put (the poll that saw  *)
(* the space leaves the item marked, a later one shows and puts it).       *)
put_tapped_Split(p) ==
  /\ op[p] = "put"
  /\ CASE item[p] > 0 /\ has_space ->
            /\ item' = [item EXCEPT ![p] = 0 - item[p]]
            /\ UNCHANGED <<buf, getWaiters, putWaiters, op, ready, accepted, taken>>
            /\ UNCHANGED Histories
       [] item[p] > 0 /\ ~has_space -> ParkPutter(p) /\ UNCHANGED Histories
       [] OTHER ->
            /\ PutTapped(0 - item[p], {p}, FALSE, TRUE)
            /\ op' = [op EXCEPT ![p] = "none"]
            /\ item' = [item EXCEPT ![p] = NoItem]
  /\ UNCHANGED offered

(* A poll of put_tapped: wait_for_space, then tap and try_put in the same  *)
(* poll.                                                                   *)
put_tapped(p) ==
  /\ op[p] = "put"
  /\ IF has_space
       THEN /\ \E taking \in BOOLEAN : PutTapped(item[p], {p}, taking, TRUE)
            /\ op' = [op EXCEPT ![p] = "none"]
            /\ item' = [item EXCEPT ![p] = NoItem]
       ELSE ParkPutter(p) /\ UNCHANGED Histories
  /\ UNCHANGED offered

(* A poll of get, of the owner or through GetIf.                           *)
get_tapped(p) ==
  /\ op[p] = "get"
  /\ IF buf # <<>>
       THEN /\ \E putting \in BOOLEAN : GetTapped({p}, putting)
            /\ op' = [op EXCEPT ![p] = "none"]
            /\ UNCHANGED item
       ELSE ParkGetter(p) /\ UNCHANGED <<offered, putSeen, getSeen, finished, flushed>>

peek(p) == PollPeek(p) /\ UNCHANGED Histories
drop(p) == Drop(p) /\ UNCHANGED Histories

(* flush: everything is taken without telling the taps.                    *)
flush(p) ==
  /\ op[p] = "none" /\ buf # <<>>
  /\ buf' = <<>>
  /\ taken' = taken \o buf
  /\ flushed' = flushed \cup (Len(taken) + 1)..Len(taken')
  /\ putWaiters' = {}
  /\ WakeFor(putWaiters, {})
  /\ UNCHANGED <<getWaiters, op, item, offered, accepted, putSeen, getSeen, finished>>

FPoll(p) == put_tapped(p) \/ get_tapped(p) \/ peek(p)

FNext ==
  \E p \in Clients :
    \/ try_put_tapped(p) \/ try_get_tapped(p) \/ FPoll(p) \/ drop(p) \/ flush(p)
    \/ \E o \in {"put", "get", "peek"} : start(p, o)

FSpec == FInit /\ [][FNext]_fvars
-----------------------------------------------------------------------------
(* A put that returned put its item: the space that wait_for_space saw is  *)
(* still there when try_put runs, though a tap's subscriber used the FIFO  *)
(* in between, and nobody looks at what try_put answers.                   *)
NoPutIsLost == finished = Range(accepted)

(* No put is lost, the put taps see every item once, in the order in which *)
(* the items enter, and the get taps every item that left, once and in     *)
(* order, except what flush threw away.                                    *)
TrafficIsTapped ==
  /\ NoPutIsLost
  /\ putSeen = accepted
  /\ Range(getSeen) = (DOMAIN taken) \ flushed
  /\ \A i, j \in DOMAIN getSeen : i < j => getSeen[i] < getSeen[j]
=============================================================================
