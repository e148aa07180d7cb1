----------------------------- MODULE FirstBench -----------------------------
(***************************************************************************)
(* The book's testbench 1.0: one loop that drives, waits for and checks    *)
(* the four operations of the device of module TinyAlu, without a BFM.     *)
(***************************************************************************)
EXTENDS TinyAlu, SequencesExt

CONSTANT Draws  \* the operands that the seeded generator draws, in turn

VARIABLES
  pc,     \* edges of the reset passed, then "loop", then the verdict
  sent,   \* the commands driven: op_list holds the operations after them
  report  \* for each operation that is complete, is the result right?

firstVars == <<dut, writes, awake, pc, sent, report>>

get_int(v) == IF v = X THEN 0 ELSE v

FirstInit ==
  /\ DutInit /\ writes = <<>>
  /\ pc = "reset" /\ sent = <<>> /\ report = <<>>

(* The reset leaves A, B and op unknown.                                   *)
Reset ==
  /\ pc \in {"reset", "release"} /\ Turn("test")
  /\ IF pc = "reset" THEN pc' = "release" /\ Set([reset_n |-> 0, start |-> 0])
     ELSE pc' = "loop" /\ Set([reset_n |-> 1])
  /\ UNCHANGED <<dut, sent, report>>

(* The loop after an edge: a command on an idle bus, where op_list.remove  *)
(* panics if no operation is left; an error if the device is done without  *)
(* a start; nothing in the middle of an operation; the comparison at its   *)
(* end.                                                                    *)
Loop ==
  LET st == get_int(dut.start)
      dn == get_int(DoneOf(dut))
      n == Len(sent) + 1
      cmd == [a |-> Draws[n][1], b |-> Draws[n][2], op |-> n]
  IN  /\ pc = "loop" /\ Turn("test")
      /\ CASE st = 0 /\ dn = 0 /\ Len(sent) < Cardinality(Ops) ->
                /\ sent' = Append(sent, cmd)
                /\ Set([A |-> cmd.a, B |-> cmd.b, op |-> cmd.op, start |-> 1])
                /\ UNCHANGED <<pc, report>>
           [] st = 0 /\ (dn = 1 \/ Len(sent) = Cardinality(Ops)) ->
                pc' = "failed" /\ UNCHANGED <<writes, sent, report>>
           [] st = 1 /\ dn = 0 -> UNCHANGED <<writes, pc, sent, report>>
           [] st = 1 /\ dn = 1 ->
                /\ Set([start |-> 0])
                /\ report' = Append(report, get_int(ResultOf(dut)) = predict(Last(sent)))
                /\ pc' = IF Len(report') = Cardinality(Ops) THEN "checked" ELSE pc
                /\ UNCHANGED sent
      /\ UNCHANGED dut

FirstClock ==
  /\ pc \in {"reset", "release", "loop"} /\ Cycle({"test"})
  /\ UNCHANGED <<pc, sent, report>>

FirstNext == Reset \/ Loop \/ FirstClock

FirstSpec == FirstInit /\ [][FirstNext]_firstVars
-----------------------------------------------------------------------------
(* The device is never done without a start, op_list never runs out, each  *)
(* operation is driven once and its result is right.                       *)
NothingIsCutOff ==
  /\ pc # "failed"
  /\ \A i \in DOMAIN report : report[i]
  /\ Len(sent) - Len(report) \in {0, 1}
  /\ pc = "checked" => {sent[i].op : i \in DOMAIN sent} = Ops

(* The tests of the run are over.                                         *)
Over == pc = "checked"
=============================================================================
