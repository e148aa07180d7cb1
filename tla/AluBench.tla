------------------------------ MODULE AluBench ------------------------------
(***************************************************************************)
(* The TinyALU testbench (tinyalu_tb): a sequence, the sequencer and the   *)
(* driver of module Sequencer, the bus functional model with its three     *)
(* loops, two monitors, the scoreboard and the coverage collector, around  *)
(* the device of module TinyAlu.  Two tests run one after the other on the *)
(* same device, and the first may be cancelled by its timeout anywhere.    *)
(*                                                                         *)
(* Within a falling edge the tasks run in any order, until none can go on  *)
(* (Executor!RunsToExhaustion); then the clock makes its next cycle.  A    *)
(* new test has a BFM, an environment and a sequencer of its own, and the  *)
(* tasks of the last one are cancelled (module Runner); the device and the *)
(* write buffer stay as they are.                                          *)
(***************************************************************************)
EXTENDS TinyAlu, Sequencer, SequencesExt

CONSTANTS
  HoldEdges,    \* falling edges that reset_n is held for (the code's 5)
  Rounds,       \* passes over the operations (RandomSeq makes 5)
  Draws         \* the operands that the seeded generator draws, in turn

VARIABLES
  test,      \* the test that runs: 1 or 2, 3 when both are over
  override,  \* the type that create_seq::<BaseSeq> builds
  pc,        \* where Driver::run and BaseTest::run are
  bfm,       \* driver_q, cmd_q, result_q and the loops' locals
  logs,      \* what the scoreboard's and the coverage's subscribers hold
  sent,      \* history: the commands of this test, by ticket
  report     \* history: for each test that is over, what came of it

benchVars == <<dut, writes, awake, test, override, pc, bfm, logs, sent, report, vars>>

AluCommand(a, b, op) == [a |-> a, b |-> b, op |-> op]

TheSeq == CHOOSE s \in Seqs : TRUE
TheDriver == CHOOSE d \in Drivers : TRUE

Tests == <<"RandomSeq", "MaxSeq">>
-----------------------------------------------------------------------------
(* TinyAluBfm::new and AluEnv::build for a new test.                       *)
NewBfm == [driver_q |-> <<>>, cmd_q |-> <<>>, result_q |-> <<>>, prev_start |-> FALSE,
           idle_edges |-> 0]

NewLogs == [cmds |-> <<>>, results |-> <<>>, seen |-> {}]

(* AluEnv::connect: who subscribes to which bus.                           *)
Subscribers == [cmd_bus |-> {"cmd_log", "collector"}, result_bus |-> {"result_log"}]

(* Driver::run starts with the reset: its writes, then the edges.          *)
ResetWrites == [reset_n |-> 0, start |-> 0, A |-> 0, B |-> 0, op |-> 0]

StartPc == [driver |-> HoldEdges + 1, test |-> "seq"]

BenchInit ==
  /\ Init /\ DutInit
  /\ test = 1 /\ override = Tests[1]
  /\ writes = ResetWrites
  /\ pc = StartPc /\ bfm = NewBfm /\ logs = NewLogs
  /\ sent = <<>> /\ report = <<>>

(* The phases of the next test as far as the first await of its run.       *)
StartTest ==
  /\ test' = test + 1
  /\ override' = IF test < 2 THEN Tests[test + 1] ELSE override
  /\ pc' = StartPc /\ bfm' = NewBfm /\ logs' = NewLogs /\ sent' = <<>>
  /\ awake' = {}
  /\ IF test < 2 THEN Set(ResetWrites) ELSE UNCHANGED writes
  /\ NewSequencer
  /\ UNCHANGED dut
-----------------------------------------------------------------------------
(* The BFM's loops, each woken by every falling edge.                      *)

(* The driver loop: a new command when the bus is idle; start goes down    *)
(* when the device is done.                                                *)
DriverLoop ==
  /\ Turn("bfm.driver")
  /\ IF IsLow(dut.start) /\ IsLow(DoneOf(dut)) /\ bfm.driver_q # <<>>
       THEN LET cmd == Head(bfm.driver_q)
            IN  /\ bfm' = [bfm EXCEPT !.driver_q = Tail(@)]
                /\ Set([A |-> cmd.a, B |-> cmd.b, op |-> cmd.op, start |-> 1])
       ELSE /\ IF IsHigh(dut.start) /\ IsHigh(DoneOf(dut))
                 THEN Set([start |-> 0]) ELSE UNCHANGED writes
            /\ UNCHANGED bfm
  /\ UNCHANGED <<dut, test, override, pc, logs, sent, report, vars>>

(* The command monitor: start has gone from 0 to 1.                        *)
CommandMonitor ==
  LET st == IsHigh(dut.start)
      known == X \notin {dut.A, dut.B, dut.op} /\ IsOp(dut.op)
  IN  /\ Turn("bfm.cmd_mon")
      /\ bfm' = [bfm EXCEPT
           !.prev_start = st,
           !.cmd_q = IF st /\ ~bfm.prev_start /\ known
                       THEN Append(@, AluCommand(dut.A, dut.B, dut.op)) ELSE @]
      /\ UNCHANGED <<dut, writes, test, override, pc, logs, sent, report, vars>>

(* The result monitor: start and done are up.                              *)
ResultMonitor ==
  /\ Turn("bfm.result_mon")
  /\ bfm' = [bfm EXCEPT
       !.result_q = IF IsHigh(dut.start) /\ IsHigh(DoneOf(dut)) /\ ResultOf(dut) # X
                      THEN Append(@, ResultOf(dut)) ELSE @]
  /\ UNCHANGED <<dut, writes, test, override, pc, logs, sent, report, vars>>

(* TinyAluBfm::reset, one falling edge after the other: reset_n goes up    *)
(* before the last one, after which the queues are emptied.                *)
reset ==
  /\ pc.driver > 0 /\ Turn("Driver")
  /\ pc' = [pc EXCEPT !.driver = @ - 1]
  /\ IF pc.driver = 2 THEN Set([reset_n |-> 1]) ELSE UNCHANGED writes
  /\ bfm' = IF pc.driver = 1 THEN [bfm EXCEPT !.cmd_q = <<>>, !.result_q = <<>>] ELSE bfm
  /\ UNCHANGED <<dut, test, override, logs, sent, report, vars>>

(* TinyAluBfm::wait_idle: two idle edges in a row and one more.            *)
wait_idle ==
  LET idle == bfm.driver_q = <<>> /\ IsLow(dut.start) /\ IsLow(DoneOf(dut))
      edges == IF idle THEN bfm.idle_edges + 1 ELSE 0
  IN  /\ pc.test = "idle" /\ Turn("Test")
      /\ bfm' = [bfm EXCEPT !.idle_edges = edges]
      /\ pc' = IF edges < 2 THEN pc ELSE [pc EXCEPT !.test = "flush"]
      /\ UNCHANGED <<dut, writes, test, override, logs, sent, report, vars>>
-----------------------------------------------------------------------------
(* The components above the BFM.                                           *)

(* Driver::run after the reset: an item is sent to the BFM and released    *)
(* without an answer.                                                      *)
SendOp ==
  /\ drv[TheDriver] = "driving"
  /\ bfm' = [bfm EXCEPT !.driver_q = Append(@, sent[current])]
  /\ item_done(TheDriver, FALSE)
  /\ UNCHANGED <<dut, writes, awake, test, override, pc, logs, sent, report>>

DriverRun ==
  /\ pc.driver = 0
  /\ \/ SendOp
     \/ /\ drv[TheDriver] # "driving"
        /\ get_next_item(TheDriver) \/ Arrival(TheDriver) \/ Readied(TheDriver)
        /\ UNCHANGED <<dut, writes, awake, test, override, pc, bfm, logs, sent, report>>

(* AnalysisBus::write: every subscriber of the bus gets the value.         *)
Write(bus, v) ==
  logs' = [cmds    |-> IF "cmd_log" \in Subscribers[bus] THEN Append(logs.cmds, v) ELSE logs.cmds,
           results |-> IF "result_log" \in Subscribers[bus] THEN Append(logs.results, v) ELSE logs.results,
           seen    |-> IF "collector" \in Subscribers[bus] THEN logs.seen \cup {v.op} ELSE logs.seen]

CmdMonitorRun ==
  /\ bfm.cmd_q # <<>>
  /\ bfm' = [bfm EXCEPT !.cmd_q = Tail(@)]
  /\ Write("cmd_bus", Head(bfm.cmd_q))
  /\ UNCHANGED <<dut, writes, awake, test, override, pc, sent, report, vars>>

ResultMonitorRun ==
  /\ bfm.result_q # <<>>
  /\ bfm' = [bfm EXCEPT !.result_q = Tail(@)]
  /\ Write("result_bus", Head(bfm.result_q))
  /\ UNCHANGED <<dut, writes, awake, test, override, pc, sent, report, vars>>
-----------------------------------------------------------------------------
(* The sequence, in BaseTest::run.                                         *)

(* set_operands of the type that create_seq has built.                     *)
Operands(n) ==
  CASE override = "BaseSeq" -> <<0, 0>>
    [] override = "RandomSeq" -> Draws[n]
    [] override = "MaxSeq" -> <<255, 255>>

Length == IF override = "RandomSeq" THEN Rounds * Cardinality(Ops) ELSE Cardinality(Ops)

(* all_ops: the operations in turn, the operands set once the item is      *)
(* granted.                                                                *)
all_ops ==
  /\ pc.test = "seq"
  /\ \/ /\ (Len(sent) < Length /\ start_item(TheSeq)) \/ Granted(TheSeq)
        /\ UNCHANGED sent
     \/ /\ finish_item(TheSeq)
        /\ LET n == Len(sent) + 1
               o == Operands(n)
           IN  sent' = Append(sent, AluCommand(o[1], o[2], ((n - 1) % Cardinality(Ops)) + 1))
     \/ Done(TheSeq) /\ seq'[TheSeq] = "idle" /\ UNCHANGED sent
  /\ UNCHANGED <<dut, writes, awake, test, override, pc, bfm, logs, report>>

(* The sequence is over: wait_idle begins.                                 *)
SequenceDone ==
  /\ pc.test = "seq" /\ Len(sent) = Length /\ seq[TheSeq] = "idle"
  /\ pc' = [pc EXCEPT !.test = "idle"]
  /\ UNCHANGED <<dut, writes, awake, test, override, bfm, logs, sent, report, vars>>

(* Scoreboard::check and Coverage::check.                                  *)
Passes(l) ==
  LET compared == {i \in DOMAIN l.cmds : i \in DOMAIN l.results}
  IN  /\ \A i \in compared : predict(l.cmds[i]) = l.results[i]
      /\ Len(l.cmds) = Len(l.results)
      /\ compared # {}
      /\ l.seen = Ops

(* Did the subscribers get exactly what was sent, and what it computes?    *)
Exact(l) == l.cmds = sent /\ l.results = [i \in DOMAIN sent |-> predict(sent[i])]

(* The last edge of wait_idle: the objection is dropped, the run phase     *)
(* ends, the scoreboard and the coverage are checked.                      *)
EndTest ==
  /\ pc.test = "flush" /\ "Test" \in awake
  /\ report' = Append(report, [ended |-> TRUE, passed |-> Passes(logs), exact |-> Exact(logs)])
  /\ StartTest

(* The timeout of the first test cancels it wherever it waits.             *)
Timeout ==
  /\ test = 1 /\ awake = {}
  /\ report' = Append(report, [ended |-> FALSE, passed |-> FALSE, exact |-> FALSE])
  /\ StartTest
-----------------------------------------------------------------------------
Cascade == DriverRun \/ CmdMonitorRun \/ ResultMonitorRun \/ all_ops \/ SequenceDone

AtEdge == DriverLoop \/ CommandMonitor \/ ResultMonitor \/ reset \/ wait_idle \/ EndTest

(* When no task can go on, the next falling edge comes.                    *)
Clock ==
  /\ test <= 2 /\ ~ENABLED Cascade
  /\ Cycle({"bfm.driver", "bfm.cmd_mon", "bfm.result_mon"}
             \cup (IF pc.driver > 0 THEN {"Driver"} ELSE {})
             \cup (IF pc.test \in {"idle", "flush"} THEN {"Test"} ELSE {}))
  /\ UNCHANGED <<test, override, pc, bfm, logs, sent, report, vars>>

BenchNext == test <= 2 /\ (Cascade \/ AtEdge \/ Clock \/ Timeout)

BenchSpec == BenchInit /\ [][BenchNext]_benchVars

(* The clock runs, and the executor polls every task that was woken.       *)
FairBench == BenchSpec /\ WF_benchVars(Cascade \/ AtEdge \/ Clock)
-----------------------------------------------------------------------------
(* What the scoreboard holds at any time is the beginning of what this     *)
(* test has sent: nothing of the last test, of the reset, or twice.        *)
StreamsAreOwn ==
  /\ IsPrefix(logs.cmds, sent)
  /\ IsPrefix(logs.results, [i \in DOMAIN sent |-> predict(sent[i])])

(* A test that ran to its end has compared everything that it sent, and    *)
(* passes.                                                                 *)
NothingIsCutOff == \A t \in DOMAIN report : report[t].ended => report[t].exact /\ report[t].passed

(* The tests of the run are over.                                         *)
Over == test = 3
=============================================================================
