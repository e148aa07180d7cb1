------------------------------ MODULE TinyAlu -------------------------------
(***************************************************************************)
(* The TinyALU (sim/hdl/tinyalu.sv) as a testbench sees it.  The device    *)
(* makes its own clock; the tasks of a bench run at its falling edges,     *)
(* what they set() is applied before the rising edge that follows (module  *)
(* Phase), and at that edge the device's registers change.                 *)
(***************************************************************************)
EXTENDS Integers, Sequences, TLC

LOCAL INSTANCE Bitwise

VARIABLES
  dut,     \* the wires that the bench drives and the device's registers
  writes,  \* Hub.writes: the values to apply, by wire
  awake    \* tasks that the last falling edge has woken and that have not run

X == -1    \* a bit or vector with unknown bits

Wires == {"reset_n", "start", "A", "B", "op"}
Registers == {"done_aax", "result_aax", "done1", "done2", "done3", "done_mult",
              "a_int", "b_int", "mult1", "mult2", "result_mult"}

DutInit ==
  /\ dut = [n \in Wires \cup Registers |-> X]
  /\ awake = {}

(* The operations, by the number that stands for them on the op bus.       *)
Ops == 1..4

ADD == 1
AND == 2
XOR == 3
MUL == 4

(* Ops::from_u64.                                                          *)
IsOp(v) == v \in Ops

(* The golden model, on operands of one byte.                              *)
predict(cmd) ==
  CASE cmd.op = ADD -> cmd.a + cmd.b
    [] cmd.op = AND -> cmd.a & cmd.b
    [] cmd.op = XOR -> cmd.a ^^ cmd.b
    [] cmd.op = MUL -> cmd.a * cmd.b

(* op[2] of the three-bit bus.                                             *)
IsMult(op) == op >= 4

(* The outputs follow the op bus without a clock.                          *)
DoneOf(d) == IF d.op = X THEN X ELSE IF IsMult(d.op) THEN d.done_mult ELSE d.done_aax
ResultOf(d) == IF d.op = X THEN X ELSE IF IsMult(d.op) THEN d.result_mult ELSE d.result_aax

Bit(b) == IF b THEN 1 ELSE 0

(* single_cycle: the registers after a rising edge, on 16 bits.           *)
SingleCycle(d) ==
  [done_aax   |-> Bit(d.reset_n # 0 /\ d.start = 1 /\ ~IsMult(d.op) /\ d.op # 0),
   result_aax |-> CASE d.reset_n = 0 -> 0
                    [] d.reset_n # 0 /\ d.op = 1 -> (d.A + d.B) % 65536
                    [] d.reset_n # 0 /\ d.op = 2 -> d.A & d.B
                    [] d.reset_n # 0 /\ d.op = 3 -> d.A ^^ d.B
                    [] OTHER -> d.A * 256 + d.B]

(* three_cycle: every stage of done is cleared while done is up.           *)
ThreeCycle(d) ==
  LET stage(b) == Bit(d.reset_n # 0 /\ b /\ d.done_mult # 1)
      reg(v) == IF d.reset_n = 0 THEN 0 ELSE v
  IN  [done3 |-> stage(d.start = 1 /\ IsMult(d.op)),
       done2 |-> stage(d.done3 = 1), done1 |-> stage(d.done2 = 1), done_mult |-> stage(d.done1 = 1),
       a_int |-> reg(d.A), b_int |-> reg(d.B),
       mult1 |-> reg((d.a_int * d.b_int) % 65536),
       mult2 |-> reg(d.mult1), result_mult |-> reg(d.mult2)]

(* The buffered writes are applied; at the rising edge the registers take  *)
(* their new values; the falling edge wakes the tasks in W.                *)
Cycle(W) ==
  LET driven_wires == writes @@ dut
  IN  /\ awake = {}
      /\ dut' = SingleCycle(driven_wires) @@ ThreeCycle(driven_wires) @@ driven_wires
      /\ writes' = <<>>
      /\ awake' = W

(* Task p takes its turn at this edge.                                     *)
Turn(p) == p \in awake /\ awake' = awake \ {p}

(* The handles' set(): the values v are buffered, the last one wins.       *)
Set(v) == writes' = v @@ writes

IsHigh(v) == v = 1
IsLow(v) == v = 0
=============================================================================
