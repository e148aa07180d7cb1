----------------------------- MODULE OutOfOrder -----------------------------
(***************************************************************************)
(* The book's testbench 7.1, on the sequencer of module Sequencer: a       *)
(* driver that takes an item in the first half of a tick, releases it at   *)
(* once, and answers when the item's delay has passed; and a sequence that *)
(* sends all its requests before it polls for their answers.  Time goes in *)
(* halves of a tick, 5 ns each.                                            *)
(***************************************************************************)
EXTENDS Sequencer, SequencesExt

CONSTANTS
  Delays,     \* the delay of each request, in ticks
  PollEvery   \* halves of a tick between two polls (the code's 10 ns are 2)

VARIABLES
  half,     \* what the driver does in this half of a tick
  due,      \* the driver has not yet been polled in this half
  jobs,     \* Driver::outstanding, as tickets and ticks left
  waiting,  \* the tickets that the sequence still asks for
  timer,    \* halves until it asks again
  got       \* history: the tickets in the order of their answers

orderVars == <<vars, half, due, jobs, waiting, timer, got>>

TheSeq == CHOOSE s \in Seqs : TRUE
TheDriver == CHOOSE d \in Drivers : TRUE

OrderInit ==
  /\ Init
  /\ half = "age" /\ due = FALSE /\ jobs = <<>>
  /\ waiting = <<>> /\ timer = 0 /\ got = <<>>

(* The first half: try_next_item ...                                       *)
TryAccept ==
  /\ half = "accept" /\ due /\ drv[TheDriver] = "idle"
  /\ IF queue = <<>> THEN UNCHANGED vars ELSE try_next_item(TheDriver)
  /\ due' = (drv'[TheDriver] = "driving")
  /\ UNCHANGED <<half, jobs, waiting, timer, got>>

(* ... and in the same poll, if there is an item, item_done(None).         *)
Accept ==
  /\ drv[TheDriver] = "driving"
  /\ jobs' = Append(jobs, [ticket |-> current, left |-> Delays[current]])
  /\ due' = FALSE
  /\ item_done(TheDriver, FALSE)
  /\ UNCHANGED <<half, waiting, timer, got>>

(* Mutant: only the job at the front can be answered.                      *)
Age_InOrder ==
  LET over == jobs # <<>> /\ Head(jobs).left <= 1
      answered == IF over THEN <<Head(jobs).ticket>> ELSE <<>>
      rest == IF over THEN Tail(jobs) ELSE jobs
  IN  /\ half = "age" /\ due
      /\ jobs' = [i \in DOMAIN rest |-> [rest[i] EXCEPT !.left = @ - 1]]
      /\ responses' = responses \o answered
      /\ owed' = owed \ ToSet(answered)
      /\ respWaiters' = IF answered = <<>> THEN respWaiters ELSE {}
      /\ due' = FALSE
      /\ UNCHANGED <<queue, next_id, current, Events, seq, cur, drv, slot, driven, Histories,
                     half, waiting, timer, got>>

(* The second half: everything outstanding ages, what is due is answered   *)
(* with put_response.                                                      *)
Age ==
  LET over(job) == job.left <= 1
      answered == SelectSeq(jobs, over)
      rest == SelectSeq(jobs, LAMBDA job : ~over(job))
  IN  /\ half = "age" /\ due
      /\ jobs' = [i \in DOMAIN rest |-> [rest[i] EXCEPT !.left = @ - 1]]
      /\ responses' = responses \o [i \in DOMAIN answered |-> answered[i].ticket]
      /\ owed' = owed \ {answered[i].ticket : i \in DOMAIN answered}
      /\ respWaiters' = IF answered = <<>> THEN respWaiters ELSE {}
      /\ due' = FALSE
      /\ UNCHANGED <<queue, next_id, current, Events, seq, cur, drv, slot, driven, Histories,
                     half, waiting, timer, got>>

(* Seq::body: the requests, one handshake after the other ...              *)
Send ==
  /\ drv[TheDriver] # "driving"
  /\ \/ next_id <= Len(Delays) /\ start_item(TheSeq) /\ UNCHANGED <<waiting, timer>>
     \/ Granted(TheSeq) /\ UNCHANGED <<waiting, timer>>
     \/ finish_item(TheSeq) /\ UNCHANGED <<waiting, timer>>
     \/ /\ Done(TheSeq) /\ seq'[TheSeq] = "idle"
        /\ waiting' = Append(waiting, cur[TheSeq])
        /\ timer' = IF Len(waiting') = Len(Delays) THEN PollEvery ELSE timer
  /\ UNCHANGED <<half, due, jobs, got>>

Collecting == Len(waiting) + Len(got) = Len(Delays) /\ seq[TheSeq] = "idle"

(* ... then try_get_response for every ticket that is left.                *)
Poll ==
  LET ready(t) == t \in ToSet(responses)
      taken == SelectSeq(waiting, ready)
  IN  /\ Collecting /\ waiting # <<>> /\ timer = 0 /\ drv[TheDriver] # "driving"
      /\ got' = got \o taken
      /\ waiting' = SelectSeq(waiting, LAMBDA t : ~ready(t))
      /\ responses' = SelectSeq(responses, LAMBDA t : t \notin ToSet(taken))
      /\ timer' = PollEvery
      /\ UNCHANGED <<queue, next_id, current, Events, respWaiters, seq, cur, drv, slot, owed,
                     driven, Histories, half, due, jobs>>

(* Another half of a tick passes when everyone waits for time.             *)
Tick ==
  /\ ~due /\ ~ENABLED (Accept \/ Send \/ Poll)
  /\ due' = TRUE
  /\ half' = IF half = "age" THEN "accept" ELSE "age"
  /\ timer' = IF Collecting THEN timer - 1 ELSE timer
  /\ UNCHANGED <<vars, jobs, waiting, got>>

OrderNext == Len(got) < Len(Delays) /\ (TryAccept \/ Accept \/ Age \/ Send \/ Poll \/ Tick)

OrderSpec == OrderInit /\ [][OrderNext]_orderVars
-----------------------------------------------------------------------------
(* Delays that fall by at least as much as it takes to send a request are  *)
(* answered in the reverse of the order they were sent in, and collected   *)
(* in the order they were answered, each under its own ticket.             *)
LastSentIsFirstAnswered == IsPrefix(got \o responses, Reverse([i \in DOMAIN Delays |-> i]))

(* Nothing is answered before its time, and what is outstanding is owed.   *)
OutstandingIsOwed ==
  drv[TheDriver] # "driving" => owed = {jobs[i].ticket : i \in DOMAIN jobs}

(* The tests of the run are over.                                         *)
Over == Len(got) = Len(Delays)
=============================================================================
