----------------------------- MODULE MCStimulus -----------------------------
(***************************************************************************)
(* Stimulus, for model checking: the sequencer on its own with any         *)
(* sequences and driver, and the testbenches, which use it in their own    *)
(* ways or do without.  A behaviour exercises one of them, named by part.  *)
(***************************************************************************)
EXTENDS Sequencer

CONSTANTS Parts, HoldEdges, Rounds, MaxTests

VARIABLES
  part,
  dut, writes, awake, bfm, test, override, pc, logs, sent, report,
  version, tester, fifo, held, count, fib, answers,
  half, due, jobs, waiting, timer, got

Seeded == <<<<200, 12>>, <<3, 254>>, <<90, 37>>, <<17, 251>>, <<8, 8>>, <<129, 77>>, <<0, 66>>, <<199, 2>>>>

A == INSTANCE AluBench WITH
  MaxItems <- 4 * Rounds, MaxDropped <- 0,
  Draws <- Seeded
F == INSTANCE FirstBench WITH Draws <- Seeded
T == INSTANCE TesterBench WITH Versions <- 2..6, Draws <- Seeded
S == INSTANCE SequenceBench WITH
  MaxItems <- 8, MaxDropped <- 0, Versions <- {"7.0", "7.2", "8.0"}, Draws <- Seeded
O == INSTANCE OutOfOrder WITH
  MaxItems <- 4, MaxDropped <- 0,
  Delays <- <<10, 7, 4, 1>>, PollEvery <- 2

aluVars == <<dut, writes, awake, bfm, test, override, pc, logs, sent, report>>
bookVars == <<version, tester, fifo, held, count, fib, answers>>
orderVars == <<half, due, jobs, waiting, timer, got>>

NoDevice == dut = <<>> /\ writes = <<>> /\ awake = {}
NoBench == bfm = <<>> /\ test = 0 /\ override = "" /\ logs = <<>>
NoBook == version = 0 /\ tester = "" /\ fifo = <<>> /\ held = <<>>
NoAnswers == count = <<>> /\ fib = <<>> /\ answers = <<>>
NoOrder == half = "" /\ due = FALSE /\ jobs = <<>> /\ waiting = <<>> /\ timer = 0 /\ got = <<>>
NoTest == pc = "" /\ sent = <<>> /\ report = <<>>

MCInit ==
  /\ part \in Parts
  /\ CASE part = "handshake" -> Init /\ NoDevice /\ NoBench /\ NoTest /\ NoBook /\ NoAnswers /\ NoOrder
       [] part = "alu" -> A!BenchInit /\ NoBook /\ NoAnswers /\ NoOrder
       [] part = "first" -> F!FirstInit /\ Init /\ NoBench /\ NoBook /\ NoAnswers /\ NoOrder
       [] part = "tester" -> T!TesterInit /\ Init /\ NoAnswers /\ NoOrder /\ test = 0 /\ override = ""
       [] part = "sequence" -> S!SequenceInit /\ NoOrder /\ tester = "" /\ fifo = <<>> /\ held = <<>>
       [] part = "order" -> O!OrderInit /\ NoDevice /\ NoBench /\ NoTest /\ NoBook /\ NoAnswers

(* The sequences are alike, so it may always be the same one that starts   *)
(* the first item.                                                         *)
FirstOne == CHOOSE s \in Seqs : TRUE

Handshake ==
  /\ part = "handshake" /\ Next /\ UNCHANGED <<aluVars, bookVars, orderVars>>
  /\ next_id = 1 => \A s \in Seqs \ {FirstOne} : seq'[s] = "idle"

Alu == part = "alu" /\ A!BenchNext /\ UNCHANGED <<bookVars, orderVars>>

Book ==
  \/ /\ part = "first" /\ F!FirstNext
     /\ UNCHANGED <<vars, bfm, test, override, logs, bookVars, orderVars>>
  \/ /\ part = "tester" /\ T!TesterNext
     /\ UNCHANGED <<vars, test, override, count, fib, answers, orderVars>>
  \/ part = "sequence" /\ S!SequenceNext /\ UNCHANGED <<tester, fifo, held, orderVars>>
  \/ part = "order" /\ O!OrderNext /\ UNCHANGED <<aluVars, bookVars>>

MCNext == (Handshake \/ Alu \/ Book) /\ UNCHANGED part

MCVars == <<part, vars, aluVars, bookVars, orderVars>>

(* Sequences and the driver keep going, and the driver owes no answer      *)
(* forever; in a testbench the clock runs and every task that is woken is  *)
(* polled.                                                                 *)
MCSpec ==
  /\ MCInit /\ [][MCNext]_MCVars
  /\ \A s \in Seqs : WF_vars(part = "handshake" /\ SeqStep(s))
  /\ \A d \in Drivers : WF_vars(part = "handshake" /\ DriverStep(d))
  /\ WF_vars(part = "handshake" /\ \E id \in Ids : put_response(id))
  /\ WF_MCVars(part = "alu" /\ (A!Cascade \/ A!AtEdge \/ A!Clock) /\ UNCHANGED <<part, bookVars, orderVars>>)
  /\ WF_MCVars(Book /\ UNCHANGED part)
-----------------------------------------------------------------------------
(* The subscribers of a testbench hold the beginning of this test's own    *)
(* traffic, whatever the last test left on the bus.                        *)
StreamsAreOwn ==
  /\ part = "alu" => A!StreamsAreOwn
  /\ part = "tester" => T!StreamsAreOwn
  /\ part = "sequence" => S!StreamsAreOwn

(* A testbench whose test is through has compared everything that the test *)
(* sent, and found it right.                                               *)
NothingIsCutOff ==
  /\ part = "alu" => A!NothingIsCutOff
  /\ part = "first" => F!NothingIsCutOff
  /\ part = "tester" => T!NothingIsCutOff
  /\ part = "sequence" => S!NothingIsCutOff

(* Every ticket is answered with its own result, for sequences that wait,  *)
(* that run side by side, and that are answered out of order.              *)
AnswersAreOwn ==
  /\ part = "sequence" => S!AnswersAreOwn
  /\ part = "order" => O!LastSentIsFirstAnswered /\ O!OutstandingIsOwed

Dead == \E d \in Drivers : drv[d] = "dead"

(* The driver waits for an item whose sequence was cancelled before it had *)
(* filled it in: nothing ends that wait but dropping it.                   *)
Abandoned ==
  \E d \in Drivers, s \in Seqs :
    drv[d] = "waiting" /\ slot[d] = cur[s] /\ slot[d] \notin readied /\ seq[s] = "gone"

(* Every item that is started is finished, unless the driver panicked,     *)
(* dropped this very item, or waits for one that its sequence abandoned.   *)
(* A sequence that is cancelled at any other point holds nobody up.        *)
ItemsFinish ==
  \A s \in Seqs : seq[s] = "queued" ~>
    \/ seq[s] \notin {"queued", "filling", "finishing"}
    \/ cur[s] \in lost \/ Dead \/ Abandoned

(* Everyone who waits for the answer to its ticket gets it, though answers *)
(* come late and out of order, unless it went to someone who takes any.    *)
AnswersArrive == \A s \in Seqs : seq[s] = "ticket" ~> seq[s] # "ticket" \/ cur[s] \in anyTaken

(* No sequence is left waiting, be it for the driver or for an answer.     *)
HandshakesEnd == ItemsFinish /\ AnswersArrive

(* Every testbench comes to the end of its tests.                          *)
BenchesEnd ==
  <>(CASE part = "alu" -> A!Over
       [] part = "first" -> F!Over
       [] part = "tester" -> T!Over
       [] part = "sequence" -> S!Over
       [] part = "order" -> O!Over
       [] part = "handshake" -> TRUE)

(* Every item and every answer that is awaited comes, and every testbench  *)
(* comes to the end of its tests.                                          *)
StimulusEnds == HandshakesEnd /\ BenchesEnd
=============================================================================
