---------------------------- MODULE TesterBench -----------------------------
(***************************************************************************)
(* The book's testbenches without sequences, on the BFM of module BookBfm: *)
(* 2.0 and 3.0 (structs), 4.0 and 5.0 (components) put commands into the   *)
(* BFM's queue and end with two dummy operations; 6.0 puts them into a     *)
(* FIFO of one, from which a driver component feeds the BFM, and ends with *)
(* a flush of twenty clocks.  A run takes one testbench and plays its      *)
(* tests one after the other on the same device.                           *)
(***************************************************************************)
EXTENDS BookBfm, SequencesExt

CONSTANTS
  Versions,     \* the testbenches to take
  Draws,        \* the operands that the seeded generator draws, in turn
  MaxTests      \* bound: tests in a row

VARIABLES
  version,  \* the testbench
  tester,   \* get_operands of the current test
  pc,       \* edges of the reset passed, commands sent, edges of the flush passed
  fifo,     \* 6.0: the FIFO between the tester and the driver
  held,     \* 6.0: the command that the driver has taken and not yet sent
  logs,     \* the scoreboard's commands and results; 6.0: the coverage's operations
  sent,     \* history: the commands of this test
  report    \* history: for each test that is over, what came of it

benchVars == <<bfmVars, version, tester, pc, fifo, held, logs, sent, report>>
-----------------------------------------------------------------------------
(* The testbenches.  early: the BFM's loops are spawned before the reset;  *)
(* dummies and flush: how the last operation gets time to complete; panics:*)
(* the check takes one result per command from the list, and panics when   *)
(* there is none, rather than compare as many as there are.                *)
Testbench2 == [early |-> FALSE, dummies |-> 2, flush |-> 0, panics |-> TRUE, fifo |-> FALSE]

Testbench3 == [early |-> FALSE, dummies |-> 2, flush |-> 0, panics |-> TRUE, fifo |-> FALSE]

Testbench4 == [early |-> TRUE, dummies |-> 2, flush |-> 0, panics |-> TRUE, fifo |-> FALSE]

Testbench5 == [early |-> TRUE, dummies |-> 2, flush |-> 0, panics |-> TRUE, fifo |-> FALSE]

(* Mutant: the flush is as short as the one it was ported from.            *)
Testbench6_TenClocks ==
  [early |-> TRUE, dummies |-> 0, flush |-> 10, panics |-> FALSE, fifo |-> TRUE]

Testbench6 == [early |-> TRUE, dummies |-> 0, flush |-> 20, panics |-> FALSE, fifo |-> TRUE]

Bench ==
  CASE version = 2 -> Testbench2
    [] version = 3 -> Testbench3
    [] version = 4 -> Testbench4
    [] version = 5 -> Testbench5
    [] version = 6 -> Testbench6
-----------------------------------------------------------------------------
NewLogs == [cmds |-> <<>>, results |-> <<>>, ops |-> {}]

NewPc == [reset |-> 0, flush |-> 0]

(* start_tasks: the loops are spawned, and cmd_driver clears the bus.      *)
Started(b) == [b EXCEPT !.running = TRUE]

(* get_operands of the testers; testbench 6.0 has only the random one.     *)
Testers == IF Bench.fifo THEN {"random"} ELSE {"random", "max"}

RandomTester(n) == Draws[n]
MaxTester(n) == <<255, 255>>

Operands(n) == IF tester = "random" THEN RandomTester(n) ELSE MaxTester(n)

(* The command that comes next: the four operations, then the dummies.     *)
Length == Cardinality(Ops) + Bench.dummies

Stimulus ==
  LET n == Len(sent) + 1
  IN  IF n \in Ops THEN Command(Operands(n)[1], Operands(n)[2], n) ELSE Command(0, 0, ADD)

TesterInit ==
  /\ DutInit
  /\ version \in Versions
  /\ tester \in Testers
  /\ pc = NewPc /\ fifo = <<>> /\ held = <<>>
  /\ bfm = (IF Bench.early THEN Started(NewBfm) ELSE NewBfm)
  /\ writes = (IF Bench.early THEN IdleBus ELSE <<>>)
  /\ logs = NewLogs /\ sent = <<>> /\ report = <<>>
-----------------------------------------------------------------------------
AtBfm == BfmLoop /\ UNCHANGED <<version, tester, pc, fifo, held, logs, sent, report>>

(* reset, in the tester or the driver; testbenches 2.0 and 3.0 start the   *)
(* loops after it.                                                         *)
reset ==
  LET late == pc.reset + 1 = ResetEdges /\ ~Bench.early
  IN  /\ pc.reset < ResetEdges /\ Turn("reset")
      /\ pc' = [pc EXCEPT !.reset = @ + 1]
      /\ Set(ResetWrites(pc.reset + 1) @@ (IF late THEN IdleBus ELSE <<>>))
      /\ bfm' = IF late THEN Started(bfm) ELSE bfm
      /\ UNCHANGED <<dut, version, tester, fifo, held, logs, sent, report>>

(* The tester of 2.0 to 5.0 after the reset: a put into the BFM's queue.   *)
execute ==
  /\ ~Bench.fifo /\ pc.reset = ResetEdges /\ Len(sent) < Length /\ CanSend
  /\ bfm' = Sent(Stimulus) /\ sent' = Append(sent, Stimulus)
  /\ UNCHANGED <<dut, writes, awake, version, tester, pc, fifo, held, logs, report>>

(* The tester of 6.0: a put into the FIFO, which does not wait for a reset.*)
TesterPut ==
  /\ Bench.fifo /\ Len(sent) < Length /\ fifo = <<>>
  /\ fifo' = <<Stimulus>> /\ sent' = Append(sent, Stimulus)
  /\ UNCHANGED <<bfmVars, version, tester, pc, held, logs, report>>

(* Then it holds its objection for some more edges.                        *)
TesterFlush ==
  /\ Len(sent) = Length /\ pc.flush < Bench.flush /\ Turn("flush")
  /\ pc' = [pc EXCEPT !.flush = @ + 1]
  /\ UNCHANGED <<dut, writes, bfm, version, tester, fifo, held, logs, sent, report>>

(* The driver of 6.0 after the reset.                                      *)
DriverGet ==
  /\ pc.reset = ResetEdges /\ held = <<>> /\ fifo # <<>>
  /\ held' = fifo /\ fifo' = <<>>
  /\ UNCHANGED <<bfmVars, version, tester, pc, logs, sent, report>>

DriverSend ==
  /\ held # <<>> /\ CanSend
  /\ bfm' = Sent(Head(held)) /\ held' = <<>>
  /\ UNCHANGED <<dut, writes, awake, version, tester, pc, fifo, logs, sent, report>>

(* A command, or a result, leaves the BFM's monitor queue.                 *)
TakeCmd ==
  /\ bfm.cmd_mon_queue # <<>>
  /\ bfm' = [bfm EXCEPT !.cmd_mon_queue = Tail(@)]
  /\ UNCHANGED <<dut, writes, awake, version, tester, pc, fifo, held, sent, report>>

TakeResult ==
  /\ bfm.result_mon_queue # <<>>
  /\ logs' = [logs EXCEPT !.results = Append(@, Head(bfm.result_mon_queue))]
  /\ bfm' = [bfm EXCEPT !.result_mon_queue = Tail(@)]
  /\ UNCHANGED <<dut, writes, awake, version, tester, pc, fifo, held, sent, report>>

(* 2.0 to 5.0: the two tasks that the scoreboard spawns.                   *)
get_cmds ==
  /\ ~Bench.fifo /\ TakeCmd
  /\ logs' = [logs EXCEPT !.cmds = Append(@, Head(bfm.cmd_mon_queue))]

get_results == ~Bench.fifo /\ TakeResult

Collect == get_cmds \/ get_results

(* 6.0: the monitors broadcast; the scoreboard subscribes to both streams, *)
(* the coverage to the commands, of which it keeps the legal operations.   *)
Coverage(ops, cmd) == ops \cup ({cmd.op} \cap Ops)

CmdMonitor ==
  LET cmd == Head(bfm.cmd_mon_queue)
  IN  /\ Bench.fifo /\ TakeCmd
      /\ logs' = [logs EXCEPT !.cmds = Append(@, cmd), !.ops = Coverage(@, cmd)]

ResultMonitor == Bench.fifo /\ TakeResult
-----------------------------------------------------------------------------
(* The check: what it compares, and the coverage of what it compared.      *)
Compared(l) == {i \in DOMAIN l.cmds : i \in DOMAIN l.results}

Compares(l) ==
  /\ \A i \in Compared(l) : IsOp(l.cmds[i].op) /\ predict(l.cmds[i]) = l.results[i]
  /\ {l.cmds[i].op : i \in Compared(l)} = Ops

(* Testbenches 2.0 to 5.0 take a result for every command from the list.   *)
check_results(l) == Len(l.cmds) <= Len(l.results) /\ Compares(l)

Passes(l) == IF Bench.panics THEN check_results(l) ELSE Compares(l)

(* The commands that the test is about, all of them with their results,    *)
(* and in 6.0 all of them covered.                                         *)
Exact(l) ==
  LET real == SubSeq(sent, 1, Cardinality(Ops))
  IN  /\ l.cmds = real /\ l.results = [i \in DOMAIN real |-> predict(real[i])]
      /\ Bench.fifo => l.ops = Ops

(* The tester is through: the check, and the next test on the same device. *)
EndTest ==
  /\ Len(sent) = Length /\ pc.flush = Bench.flush
  /\ report' = Append(report, [passed |-> Passes(logs), exact |-> Exact(logs)])
  /\ tester' \in Testers
  /\ pc' = NewPc /\ fifo' = <<>> /\ held' = <<>> /\ logs' = NewLogs /\ sent' = <<>>
  /\ bfm' = (IF Bench.early THEN Started(NewBfm) ELSE NewBfm)
  /\ IF Bench.early THEN Set(IdleBus) ELSE UNCHANGED writes
  /\ awake' = {}
  /\ UNCHANGED <<dut, version>>
-----------------------------------------------------------------------------
Cascade ==
  execute \/ TesterPut \/ DriverGet \/ DriverSend \/ Collect \/ CmdMonitor \/ ResultMonitor \/ EndTest

AtEdge == AtBfm \/ reset \/ TesterFlush

Clock ==
  /\ ~ENABLED Cascade
  /\ Cycle((IF bfm.running THEN Loops ELSE {})
             \cup (IF pc.reset < ResetEdges THEN {"reset"} ELSE {})
             \cup (IF Len(sent) = Length THEN {"flush"} ELSE {}))
  /\ UNCHANGED <<bfm, version, tester, pc, fifo, held, logs, sent, report>>

TesterNext == Len(report) < MaxTests /\ (Cascade \/ AtEdge \/ Clock)

TesterSpec == TesterInit /\ [][TesterNext]_benchVars
-----------------------------------------------------------------------------
(* The dummy operations and the flush are long enough: the check of every  *)
(* testbench finds all four operations with their results, nothing else,   *)
(* and passes; the check of 2.0 to 5.0 never runs out of results.          *)
NothingIsCutOff == \A t \in DOMAIN report : report[t].exact /\ report[t].passed

(* What the scoreboard holds belongs to this test.                         *)
StreamsAreOwn ==
  /\ IsPrefix(logs.cmds, sent)
  /\ IsPrefix(logs.results, [i \in DOMAIN sent |-> predict(sent[i])])

(* The tests of the run are over.                                         *)
Over == Len(report) = MaxTests
=============================================================================
