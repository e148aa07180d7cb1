--------------------------- MODULE SequenceBench ----------------------------
(***************************************************************************)
(* The book's testbenches with sequences, on the sequencer of module       *)
(* Sequencer and the BFM of module BookBfm: 7.0, whose driver releases an  *)
(* item as soon as the BFM has it and whose tests end with a flush; 7.2,   *)
(* whose driver waits for the result and answers with it, for a sequence   *)
(* that adds up the Fibonacci numbers; and 8.0, with virtual sequences     *)
(* that start other sequences one after the other, or both at once, or one *)
(* for every call of a programming interface.                              *)
(***************************************************************************)
EXTENDS BookBfm, Sequencer, SequencesExt

CONSTANTS
  Versions,     \* the testbenches to take
  Draws,        \* the operands that the seeded generator draws, in turn
  MaxTests      \* bound: tests in a row

VARIABLES
  version,   \* the testbench
  test,      \* the current test
  override,  \* the type that create_seq::<BaseSeq> builds
  pc,        \* edges of the reset and of the flush passed; is a result awaited?
  count,     \* items that each sequence has handed over
  fib,       \* the numbers of the Fibonacci sequences
  logs,      \* what the subscribers hold
  sent,      \* history: the commands of this test, by ticket
  answers,   \* history: the answers of this test, by ticket
  report     \* history: for each test that is over, what came of it

benchVars == <<bfmVars, vars, version, test, override, pc, count, fib, logs, sent, answers, report>>

TheDriver == CHOOSE d \in Drivers : TRUE

First == CHOOSE s \in Seqs : TRUE
-----------------------------------------------------------------------------
(* The testbenches: the driver waits for the result; edges of the flush;   *)
(* who collects commands and results.                                      *)
Testbench70 == [answers |-> FALSE, flush |-> 20, cmdMonitor |-> TRUE, resultMonitor |-> TRUE]

Testbench72 == [answers |-> TRUE, flush |-> 0, cmdMonitor |-> FALSE, resultMonitor |-> FALSE]

Testbench80 == [answers |-> TRUE, flush |-> 0, cmdMonitor |-> TRUE, resultMonitor |-> FALSE]

Bench ==
  CASE version = "7.0" -> Testbench70
    [] version = "7.2" -> Testbench72
    [] version = "8.0" -> Testbench80

Tests ==
  CASE version = "7.0" -> {"BaseTest", "RandomTest", "MaxTest"}
    [] version = "7.2" -> {"FibonacciTest"}
    [] version = "8.0" -> {"AluTest", "ParallelTest", "FibonacciProgramTest"}

Adds(t) == t \in {"FibonacciTest", "FibonacciProgramTest"}

(* set_seq_override stays in force until another one replaces it.          *)
Override(t, o) ==
  CASE t = "RandomTest" -> "RandomSeq"
    [] t = "MaxTest" -> "MaxSeq"
    [] OTHER -> o

NewLogs == [cmds |-> <<>>, results |-> <<>>]

NewPc == [reset |-> 0, flush |-> 0, awaiting |-> FALSE]

Started == [NewBfm EXCEPT !.running = TRUE]

(* TestAllSeq starts RandomSeq, then MaxSeq.                               *)
TestAllSeq(n) == IF n < Cardinality(Ops) THEN "RandomSeq" ELSE "MaxSeq"

(* TestAllParallelSeq starts them together.                                *)
TestAllParallelSeq(s) == IF s = First THEN "RandomSeq" ELSE "MaxSeq"

(* The sequence type that item n of sequence s is from.                    *)
TypeOf(s, n) ==
  CASE test = "AluTest" -> TestAllSeq(n)
    [] test = "ParallelTest" -> TestAllParallelSeq(s)
    [] OTHER -> override

(* The number of items of each sequence: a sequence that has none is not   *)
(* started.                                                                *)
Length(s) ==
  CASE Adds(test) -> IF s = First THEN 7 ELSE 0
    [] test = "AluTest" -> IF s = First THEN 2 * Cardinality(Ops) ELSE 0
    [] test = "ParallelTest" -> Cardinality(Ops)
    [] OTHER -> IF s = First THEN Cardinality(Ops) ELSE 0

(* set_operands.                                                           *)
Operands(type, n) ==
  CASE type = "BaseSeq" -> <<0, 0>>
    [] type = "RandomSeq" -> Draws[n]
    [] type = "MaxSeq" -> <<255, 255>>

(* FibonacciSeq and FibonacciProgramSeq add the last two numbers, as bytes.*)
FibonacciItem ==
  LET byte(i) == fib[i] % 256
  IN  Command(byte(Len(fib) - 1), byte(Len(fib)), ADD)

(* What sequence s puts into its next item.                                *)
Item(s) ==
  LET n == count[s]
      o == Operands(TypeOf(s, n), n + 1)
  IN  IF Adds(test) THEN FibonacciItem ELSE Command(o[1], o[2], (n % Cardinality(Ops)) + 1)

SequenceInit ==
  /\ Init /\ DutInit
  /\ version \in Versions /\ test \in Tests /\ override = Override(test, "BaseSeq")
  /\ writes = IdleBus /\ bfm = Started
  /\ pc = NewPc /\ count = [s \in Seqs |-> 0] /\ fib = <<0, 1>> /\ logs = NewLogs
  /\ sent = <<>> /\ answers = <<>> /\ report = <<>>
-----------------------------------------------------------------------------
AtBfm ==
  /\ BfmLoop
  /\ UNCHANGED <<vars, version, test, override, pc, count, fib, logs, sent, answers, report>>

(* The driver: reset, then one item after the other.                       *)
reset ==
  /\ pc.reset < ResetEdges /\ Turn("reset")
  /\ pc' = [pc EXCEPT !.reset = @ + 1]
  /\ Set(ResetWrites(pc.reset + 1))
  /\ UNCHANGED <<dut, bfm, vars, version, test, override, count, fib, logs, sent, answers, report>>

GetItem ==
  /\ pc.reset = ResetEdges /\ drv[TheDriver] # "driving"
  /\ get_next_item(TheDriver) \/ Arrival(TheDriver) \/ Readied(TheDriver)
  /\ UNCHANGED <<bfmVars, version, test, override, pc, count, fib, logs, sent, answers, report>>

(* send_op and, in 7.0, item_done(None).                                   *)
SendOp ==
  /\ drv[TheDriver] = "driving" /\ ~pc.awaiting /\ CanSend
  /\ bfm' = Sent(sent[current])
  /\ IF Bench.answers
       THEN pc' = [pc EXCEPT !.awaiting = TRUE] /\ UNCHANGED vars
       ELSE item_done(TheDriver, FALSE) /\ UNCHANGED pc
  /\ UNCHANGED <<dut, writes, awake, version, test, override, count, fib, logs, sent, answers, report>>

(* The result comes: it is published, and item_done(Some) answers with it. *)
Answer ==
  LET result == Head(bfm.result_mon_queue)
  IN  /\ pc.awaiting /\ bfm.result_mon_queue # <<>>
      /\ bfm' = [bfm EXCEPT !.result_mon_queue = Tail(@)]
      /\ logs' = [logs EXCEPT !.results = Append(@, result)]
      /\ answers' = (current :> result) @@ answers
      /\ pc' = [pc EXCEPT !.awaiting = FALSE]
      /\ item_done(TheDriver, TRUE)
      /\ UNCHANGED <<dut, writes, awake, version, test, override, count, fib, sent, report>>

CmdMonitor ==
  /\ Bench.cmdMonitor /\ bfm.cmd_mon_queue # <<>>
  /\ logs' = [logs EXCEPT !.cmds = Append(@, Head(bfm.cmd_mon_queue))]
  /\ bfm' = [bfm EXCEPT !.cmd_mon_queue = Tail(@)]
  /\ UNCHANGED <<dut, writes, awake, vars, version, test, override, pc, count, fib, sent, answers, report>>

ResultMonitor ==
  /\ Bench.resultMonitor /\ bfm.result_mon_queue # <<>>
  /\ logs' = [logs EXCEPT !.results = Append(@, Head(bfm.result_mon_queue))]
  /\ bfm' = [bfm EXCEPT !.result_mon_queue = Tail(@)]
  /\ UNCHANGED <<dut, writes, awake, vars, version, test, override, pc, count, fib, sent, answers, report>>
-----------------------------------------------------------------------------
(* The sequences: the handshake of every item, and the answer to its       *)
(* ticket where the sequence asks for it (FibonacciSeq and OpSeq).         *)
StartItem(s) == count[s] < Length(s) /\ start_item(s) /\ UNCHANGED <<count, fib, sent>>

FinishItem(s) ==
  /\ finish_item(s)
  /\ sent' = (cur[s] :> Item(s)) @@ sent
  /\ count' = [count EXCEPT ![s] = @ + 1]
  /\ UNCHANGED fib

Finished(s) ==
  /\ Done(s) /\ seq'[s] = (IF Adds(test) THEN "ticket" ELSE "idle")
  /\ UNCHANGED <<count, fib, sent>>

GetResponse(s) ==
  /\ get_response(s)
  /\ fib' = IF seq'[s] = "idle" THEN Append(fib, answers[cur[s]]) ELSE fib
  /\ UNCHANGED <<count, sent>>

SequenceStep ==
  /\ \E s \in Seqs :
       \/ StartItem(s) \/ FinishItem(s) \/ Finished(s) \/ GetResponse(s)
       \/ Granted(s) /\ UNCHANGED <<count, fib, sent>>
  /\ UNCHANGED <<bfmVars, version, test, override, pc, logs, answers, report>>

(* start() has returned.                                                   *)
SequencesOver == \A s \in Seqs : count[s] = Length(s) /\ seq[s] = "idle"

Flush ==
  /\ SequencesOver /\ pc.flush < Bench.flush /\ Turn("flush")
  /\ pc' = [pc EXCEPT !.flush = @ + 1]
  /\ UNCHANGED <<dut, writes, bfm, vars, version, test, override, count, fib, logs, sent, answers, report>>
-----------------------------------------------------------------------------
(* The checks: of the scoreboard, which compares as far as both lists go   *)
(* and wants every operation unless the test waives it, and of 7.2's       *)
(* ResultWatcher.                                                          *)
ScoreboardCheck(l) ==
  LET compared == {i \in DOMAIN l.cmds : i \in DOMAIN l.results}
  IN  /\ \A i \in compared : IsOp(l.cmds[i].op) /\ predict(l.cmds[i]) = l.results[i]
      /\ test = "FibonacciProgramTest" \/ {l.cmds[i].op : i \in compared} = Ops

ResultWatcherCheck(l) == l.results = <<1, 2, 3, 5, 8, 13, 21>>

Passes(l) == IF version = "7.2" THEN ResultWatcherCheck(l) ELSE ScoreboardCheck(l)

(* Every result of what was sent, and every command where they are         *)
(* collected.  The command of a single-cycle operation is seen at the edge *)
(* of its result, so a test that ends with one may end before the monitor. *)
Exact(l) ==
  /\ l.results = [t \in DOMAIN sent |-> predict(sent[t])]
  /\ Bench.cmdMonitor => l.cmds \in {sent} \cup (IF Adds(test) THEN {Front(sent)} ELSE {})

(* The test is over; the next one has an environment of its own.           *)
EndTest ==
  /\ SequencesOver /\ pc.flush = Bench.flush
  /\ report' = Append(report, [passed |-> Passes(logs), exact |-> Exact(logs)])
  /\ test' \in Tests /\ override' = Override(test', override)
  /\ NewSequencer
  /\ bfm' = Started /\ Set(IdleBus) /\ awake' = {}
  /\ pc' = NewPc /\ count' = [s \in Seqs |-> 0] /\ fib' = <<0, 1>> /\ logs' = NewLogs
  /\ sent' = <<>> /\ answers' = <<>>
  /\ UNCHANGED <<dut, version>>
-----------------------------------------------------------------------------
Cascade == GetItem \/ SendOp \/ Answer \/ CmdMonitor \/ ResultMonitor \/ SequenceStep \/ EndTest

AtEdge == AtBfm \/ reset \/ Flush

Clock ==
  /\ ~ENABLED Cascade
  /\ Cycle(Loops \cup (IF pc.reset < ResetEdges THEN {"reset"} ELSE {})
                 \cup (IF SequencesOver THEN {"flush"} ELSE {}))
  /\ UNCHANGED <<bfm, vars, version, test, override, pc, count, fib, logs, sent, answers, report>>

SequenceNext == Len(report) < MaxTests /\ (Cascade \/ AtEdge \/ Clock)

SequenceSpec == SequenceInit /\ [][SequenceNext]_benchVars
-----------------------------------------------------------------------------
(* What the subscribers hold belongs to this test.                         *)
StreamsAreOwn ==
  /\ IsPrefix(logs.cmds, sent)
  /\ IsPrefix(logs.results, [t \in DOMAIN sent |-> predict(sent[t])])

(* A driver that waits answers every ticket with the result of its own     *)
(* command, so that the Fibonacci sequences see Fibonacci numbers; and of  *)
(* two sequences that run together each one's items take turns with the    *)
(* other's.                                                                *)
AnswersAreOwn ==
  /\ \A t \in DOMAIN answers : answers[t] = predict(sent[t])
  /\ \A i \in 3..Len(fib) : fib[i] = fib[i - 1] + fib[i - 2]
  /\ test = "ParallelTest" =>
       \A t \in DOMAIN sent \ {1} : (sent[t].a = 255) # (sent[t - 1].a = 255)

(* The flush of 7.0 is long enough, and 7.2 and 8.0 do without: the check  *)
(* of a test has all the results of what it sent, and passes.              *)
NothingIsCutOff == \A t \in DOMAIN report : report[t].exact /\ report[t].passed

(* The tests of the run are over.                                         *)
Over == Len(report) = MaxTests
=============================================================================
