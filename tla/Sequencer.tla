----------------------------- MODULE Sequencer ------------------------------
(***************************************************************************)
(* The handshake between sequences and a driver (sequence.rs).  A sequence *)
(* enqueues a slot and waits for its grant, fills the item in, hands it    *)
(* over and waits until it is done; it may then wait for the response to   *)
(* its ticket.  The driver takes slots in queue order, waiting for them    *)
(* (get_next_item) or not (try_next_item), and answers at once or later.   *)
(* A sequence may be cancelled at any await, and a driver may drop a       *)
(* get_next_item that it raced with something else.                        *)
(*                                                                         *)
(* The slot's three Events and the item queue are those of modules Event   *)
(* and Queue, which show that no wait on them misses its wake-up: here a   *)
(* task that waits goes on when its condition holds.  The response queue   *)
(* has wakers of its own, and they are modelled.                           *)
(***************************************************************************)
EXTENDS Naturals, Sequences, FiniteSets

CONSTANTS
  Seqs,       \* running sequences
  Drivers,    \* tasks that use the driver's side of the port
  MaxItems,   \* bound: items started in a run, and what is dropped
  MaxDropped  \* bound: sequences cancelled and slots dropped

ASSUME SequencerAssumption == MaxItems \in Nat /\ MaxDropped \in Nat

(* A sequencer is "a queue of items feeding one driver".                   *)
ASSUME OneDriver == \A d, e \in Drivers : d = e

Ids == 1..MaxItems
NoItem == 0

VARIABLES
  queue,      \* SeqrInner.queue, as ticket numbers
  next_id,    \* SeqrInner.next_id
  current,    \* SeqrInner.current
  granted, readied, done,  \* the slots' events that are set
  filled,     \* the slots that hold a payload
  responses,  \* RespInner.items
  respWaiters,\* RespInner.waiters: sequences asleep in get_response
  seq,        \* where each sequence is
  cur,        \* the ticket of its item
  drv,        \* where each driver task is
  slot,       \* the slot it holds
  owed,       \* tickets released without a response, still to be answered
  lost,       \* history: slots dropped with the get_next_item that held them
  driven,     \* history: tickets in the order the driver received the items
  passedOn,   \* history: tickets that try_next_item has put back
  anyTaken    \* history: answers that went to whoever asked for any

vars == <<queue, next_id, current, granted, readied, done, filled, responses, respWaiters,
          seq, cur, drv, slot, owed, lost, driven, passedOn, anyTaken>>

Init ==
  /\ queue = <<>> /\ next_id = 1 /\ current = NoItem
  /\ granted = {} /\ readied = {} /\ done = {} /\ filled = {}
  /\ responses = <<>> /\ respWaiters = {}
  /\ seq = [s \in Seqs |-> "idle"] /\ cur = [s \in Seqs |-> NoItem]
  /\ drv = [d \in Drivers |-> "idle"] /\ slot = [d \in Drivers |-> NoItem]
  /\ owed = {} /\ lost = {}
  /\ driven = <<>> /\ passedOn = {} /\ anyTaken = {}

(* The sequencer, the sequences and the driver of a new test.              *)
NewSequencer ==
  /\ queue' = <<>> /\ next_id' = 1 /\ current' = NoItem
  /\ granted' = {} /\ readied' = {} /\ done' = {} /\ filled' = {}
  /\ responses' = <<>> /\ respWaiters' = {}
  /\ seq' = [s \in Seqs |-> "idle"] /\ cur' = [s \in Seqs |-> NoItem]
  /\ drv' = [d \in Drivers |-> "idle"] /\ slot' = [d \in Drivers |-> NoItem]
  /\ owed' = {} /\ lost' = {} /\ driven' = <<>> /\ passedOn' = {} /\ anyTaken' = {}

DriverSide == <<current, drv, slot, owed, lost, driven, passedOn>>
Histories == <<lost, passedOn, anyTaken>>
Events == <<granted, readied, done, filled>>

(* The sequences cancelled and the slots dropped so far.                   *)
Dropped == Cardinality({s \in Seqs : seq[s] = "gone"}) + Cardinality(lost)

(* The bound on a run: what is dropped takes the place of an item.         *)
Room == next_id + Dropped <= MaxItems
-----------------------------------------------------------------------------
(* The sequence's side.  A call that is refused (start_item with an item   *)
(* open or without a sequencer, finish_item with none open) returns an     *)
(* error and changes nothing: it is a stuttering step.                     *)

start_item(s) ==
  /\ seq[s] = "idle" /\ Room
  /\ next_id' = next_id + 1
  /\ queue' = Append(queue, next_id)
  /\ cur' = [cur EXCEPT ![s] = next_id]
  /\ seq' = [seq EXCEPT ![s] = "queued"]
  /\ UNCHANGED <<responses, respWaiters, DriverSide, Events, anyTaken>>

(* granted.wait() ends: start_item returns.                                *)
Granted(s) ==
  /\ seq[s] = "queued" /\ cur[s] \in granted
  /\ seq' = [seq EXCEPT ![s] = "filling"]
  /\ UNCHANGED <<queue, next_id, responses, respWaiters, cur, DriverSide, Events, anyTaken>>

finish_item(s) ==
  /\ seq[s] = "filling"
  /\ filled' = filled \cup {cur[s]}
  /\ readied' = readied \cup {cur[s]}
  /\ seq' = [seq EXCEPT ![s] = "finishing"]
  /\ UNCHANGED <<queue, next_id, granted, done, responses, respWaiters, cur, DriverSide, anyTaken>>

(* done.wait() ends: the sequence goes on, with or without its answer.     *)
Done(s) ==
  /\ seq[s] = "finishing" /\ cur[s] \in done
  /\ \E next \in {"idle", "ticket", "any"} : seq' = [seq EXCEPT ![s] = next]
  /\ UNCHANGED <<queue, next_id, responses, respWaiters, cur, DriverSide, Events, anyTaken>>

(* The responses that answer a request for ticket t, by position; NoItem   *)
(* asks for any.                                                           *)
Answers(t) == {i \in 1..Len(responses) : t = NoItem \/ responses[i] = t}

(* The first of them is removed.                                           *)
TakeAnswer(t) ==
  LET first == CHOOSE i \in Answers(t) : \A j \in Answers(t) : i <= j
  IN  /\ responses' = SubSeq(responses, 1, first - 1) \o SubSeq(responses, first + 1, Len(responses))
      /\ anyTaken' = IF t = NoItem THEN anyTaken \cup {responses[first]} ELSE anyTaken

Wanted(s) == IF seq[s] = "any" THEN NoItem ELSE cur[s]

(* A poll of GetResponse takes an answer or leaves a waker.                *)
get_response(s) ==
  /\ seq[s] \in {"ticket", "any"} /\ s \notin respWaiters
  /\ IF Answers(Wanted(s)) # {}
       THEN TakeAnswer(Wanted(s)) /\ seq' = [seq EXCEPT ![s] = "idle"] /\ UNCHANGED respWaiters
       ELSE respWaiters' = respWaiters \cup {s} /\ UNCHANGED <<responses, seq, anyTaken>>
  /\ UNCHANGED <<queue, next_id, cur, DriverSide, Events>>

(* A sequence that goes on without waiting asks for an answer later, and   *)
(* gets one only if it is there.                                           *)
try_get_response(s, t) ==
  /\ seq[s] = "idle" /\ Answers(t) # {}
  /\ TakeAnswer(t)
  /\ UNCHANGED <<queue, next_id, respWaiters, seq, cur, DriverSide, Events>>

(* The sequence is cancelled where it waits: its future is dropped, what   *)
(* it has queued, filled in or registered stays.                           *)
CancelSequence(s) ==
  /\ seq[s] \in {"queued", "filling", "finishing", "ticket", "any"}
  /\ Dropped < MaxDropped /\ Room
  /\ seq' = [seq EXCEPT ![s] = "gone"]
  /\ UNCHANGED <<queue, next_id, responses, respWaiters, cur, DriverSide, Events, anyTaken>>
-----------------------------------------------------------------------------
(* The driver's side.                                                      *)

(* A slot whose payload is there becomes the current item of d.            *)
HandOver(d, id) ==
  /\ filled' = filled \ {id}
  /\ current' = id
  /\ driven' = Append(driven, id)
  /\ drv' = [drv EXCEPT ![d] = "driving"]
  /\ slot' = [slot EXCEPT ![d] = id]

(* Mutant: the newest request is served first.                             *)
Dequeue_Newest(d) ==
  LET id == queue[Len(queue)]
  IN  /\ queue # <<>>
      /\ queue' = SubSeq(queue, 1, Len(queue) - 1)
      /\ granted' = granted \cup {id}
      /\ drv' = [drv EXCEPT ![d] = "waiting"]
      /\ slot' = [slot EXCEPT ![d] = id]
      /\ UNCHANGED <<filled, current, driven>>
      /\ UNCHANGED <<next_id, readied, done, responses, respWaiters, seq, cur, owed, Histories>>

(* get_next_item takes the front slot and grants it; if it is ready the    *)
(* same poll goes on to take the payload.                                  *)
Dequeue(d) ==
  LET id == Head(queue)
  IN  /\ queue # <<>>
      /\ queue' = Tail(queue)
      /\ granted' = granted \cup {id}
      /\ IF id \in readied
           THEN HandOver(d, id)
           ELSE /\ drv' = [drv EXCEPT ![d] = "waiting"]
                /\ slot' = [slot EXCEPT ![d] = id]
                /\ UNCHANGED <<filled, current, driven>>
      /\ UNCHANGED <<next_id, readied, done, responses, respWaiters, seq, cur, owed, Histories>>

(* A driver task asks for an item when it has none, and also, by mistake,  *)
(* without an item_done for the last one.                                  *)
MayCall(d) == drv[d] \in {"idle", "driving"}

(* A failed assertion panics, which ends the driver task.                  *)
Panic(d) ==
  /\ drv' = [drv EXCEPT ![d] = "dead"]
  /\ UNCHANGED <<queue, next_id, current, granted, readied, done, filled, responses,
                 respWaiters, seq, cur, slot, owed, driven, Histories>>

AskQueue(d) ==
  IF queue # <<>> THEN Dequeue(d)
  ELSE /\ drv' = [drv EXCEPT ![d] = "getting"]
       /\ UNCHANGED <<queue, next_id, current, granted, readied, done, filled, responses,
                      respWaiters, seq, cur, slot, owed, driven, Histories>>

(* get_next_item: the assertion, then the queue.                           *)
get_next_item(d) ==
  /\ MayCall(d)
  /\ IF current = NoItem THEN AskQueue(d) ELSE Panic(d)

Arrival(d) == drv[d] = "getting" /\ Dequeue(d)

(* ready.wait() ends: the payload is taken.                                *)
Readied(d) ==
  /\ drv[d] = "waiting" /\ slot[d] \in readied
  /\ HandOver(d, slot[d])
  /\ UNCHANGED <<queue, next_id, granted, readied, done, responses, respWaiters, seq, cur, owed, Histories>>

(* A get_next_item that was raced with something else is dropped, and the  *)
(* slot that it has taken from the queue goes with it.                     *)
DropGet(d) ==
  /\ drv[d] \in {"getting", "waiting"}
  /\ Dropped < MaxDropped /\ Room
  /\ drv' = [drv EXCEPT ![d] = "idle"]
  /\ slot' = [slot EXCEPT ![d] = NoItem]
  /\ lost' = lost \cup ({slot[d]} \ {NoItem})
  /\ UNCHANGED <<queue, next_id, current, granted, readied, done, filled, responses,
                 respWaiters, seq, cur, owed, driven, passedOn, anyTaken>>

(* Mutant: a slot that was granted and not filled is dropped.              *)
try_next_item_NoPutBack(d) ==
  LET id == Head(queue)
  IN  /\ MayCall(d) /\ current = NoItem /\ queue # <<>>
      /\ granted' = granted \cup {id}
      /\ queue' = Tail(queue)
      /\ IF id \in filled THEN HandOver(d, id)
         ELSE UNCHANGED <<filled, current, drv, slot, driven>>
      /\ UNCHANGED <<next_id, readied, done, responses, respWaiters, seq, cur, owed, Histories>>

(* try_next_item: a slot that was granted and not filled goes to the back; *)
(* with an empty queue nothing happens.                                    *)
try_next_item(d) ==
  LET id == Head(queue)
  IN  /\ MayCall(d)
      /\ \/ current # NoItem /\ Panic(d)
         \/ /\ current = NoItem /\ queue # <<>>
            /\ granted' = granted \cup {id}
            /\ IF id \in filled
                 THEN queue' = Tail(queue) /\ HandOver(d, id) /\ UNCHANGED passedOn
                 ELSE /\ queue' = Append(Tail(queue), id)
                      /\ passedOn' = passedOn \cup {id}
                      /\ UNCHANGED <<filled, current, drv, slot, driven>>
            /\ UNCHANGED <<next_id, readied, done, responses, respWaiters, seq, cur, owed,
                           lost, anyTaken>>

(* Mutant: nobody is woken.                                                *)
Respond_NoWake(id) == responses' = Append(responses, id) /\ UNCHANGED respWaiters

(* ResponseQueue::push.                                                    *)
Respond(id) == responses' = Append(responses, id) /\ respWaiters' = {}

(* item_done, with the response or with the intention to answer later.     *)
(* Without a current item it panics, which ends the driver task.           *)
item_done(d, answers) ==
  /\ drv[d] = "driving"
  /\ IF current = NoItem
       THEN /\ drv' = [drv EXCEPT ![d] = "dead"]
            /\ UNCHANGED <<done, responses, respWaiters, owed>>
       ELSE /\ drv' = [drv EXCEPT ![d] = "idle"]
            /\ done' = done \cup {current}
            /\ IF answers THEN Respond(current) /\ UNCHANGED owed
               ELSE owed' = owed \cup {current} /\ UNCHANGED <<responses, respWaiters>>
  /\ current' = NoItem
  /\ slot' = [slot EXCEPT ![d] = NoItem]
  /\ UNCHANGED <<queue, next_id, granted, readied, filled, seq, cur, driven, Histories>>

(* put_response: the pipelined answer, in whatever order.                  *)
put_response(id) ==
  /\ id \in owed
  /\ owed' = owed \ {id}
  /\ Respond(id)
  /\ UNCHANGED <<queue, next_id, current, seq, cur, drv, slot, driven, Histories, Events>>

SeqStep(s) == start_item(s) \/ Granted(s) \/ finish_item(s) \/ Done(s) \/ get_response(s)

TryGetResponse(s) == \E t \in {NoItem, cur[s]} : try_get_response(s, t)

DriverStep(d) ==
  \/ get_next_item(d) \/ Arrival(d) \/ Readied(d) \/ try_next_item(d)
  \/ \E answers \in BOOLEAN : item_done(d, answers)

Next ==
  \/ \E s \in Seqs : SeqStep(s) \/ TryGetResponse(s) \/ CancelSequence(s)
  \/ \E d \in Drivers : DriverStep(d) \/ DropGet(d)
  \/ \E id \in Ids : put_response(id)

Spec == Init /\ [][Next]_vars
-----------------------------------------------------------------------------
Holders(id) == {d \in Drivers : slot[d] = id}

(* An item that a sequence waits for is in exactly one place: once in the  *)
(* queue, or with the driver, or released, or dropped by the driver.       *)
NoItemIsLost ==
  \A s \in Seqs : seq[s] \in {"queued", "filling", "finishing"} =>
    LET id == cur[s]
        places == {i \in 1..Len(queue) : queue[i] = id}
    IN  \/ (\E i \in places : places = {i}) /\ Holders(id) = {} /\ id \notin done \cup lost
        \/ places = {} /\ (\E d \in Drivers : Holders(id) = {d}) /\ id \notin done \cup lost
        \/ places = {} /\ Holders(id) = {} /\ id \in done \ lost
        \/ places = {} /\ Holders(id) = {} /\ id \in lost \ done

(* A ready slot that nobody has taken yet holds its payload: the driver    *)
(* does not meet "item ready but payload missing".                         *)
ReadyMeansFilled ==
  \A id \in readied :
    ((\E i \in 1..Len(queue) : queue[i] = id) \/ \E d \in Drivers : slot[d] = id /\ drv[d] = "waiting")
      => id \in filled

(* One driver task gets one item at a time: whichever call it makes, it    *)
(* neither waits for nor receives an item while another one is not done.   *)
OneItemAtATime ==
  /\ \A i \in 1..Len(driven) : driven[i] \in done \cup {current}
  /\ current # NoItem => \A d \in Drivers : drv[d] \notin {"getting", "waiting"}

(* No item is lost or doubled, none is handed over without payload or      *)
(* while another one is not done.                                          *)
ItemsAreSound == NoItemIsLost /\ ReadyMeansFilled /\ OneItemAtATime

(* Items reach the driver in the order in which they were started, except  *)
(* that one which try_next_item has put back may be overtaken.             *)
FifoArbitration ==
  \A i, j \in 1..Len(driven) : i < j => driven[i] < driven[j] \/ driven[j] \in passedOn

(* While a sequence fills its item in, the driver waits for that item, or  *)
(* has put it back once without waiting, or has dropped it.                *)
DriverIsCommitted ==
  \A s \in Seqs : seq[s] = "filling" =>
    \/ \E d \in Drivers : drv[d] = "waiting" /\ slot[d] = cur[s]
    \/ cur[s] \in passedOn \cup lost

(* Started items are served in order, by a driver that waits for them,     *)
(* except the ones that try_next_item has put back.                        *)
GrantsAreKept == FifoArbitration /\ DriverIsCommitted
=============================================================================
