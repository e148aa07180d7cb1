------------------------------ MODULE BookBfm -------------------------------
(***************************************************************************)
(* The bus functional model that the book's testbenches share              *)
(* (tinyalu-utils): a driver loop fed by a queue of capacity one, and two  *)
(* monitor loops that fill unbounded queues.  The loops run at the falling *)
(* edges of module TinyAlu's clock once start_tasks has spawned them.      *)
(*                                                                         *)
(* The actions here say what happens to the device's side and to the BFM;  *)
(* a testbench conjoins what they leave alone.                             *)
(***************************************************************************)
EXTENDS TinyAlu

VARIABLE bfm  \* the queues, the monitors' locals, and whether the loops run

bfmVars == <<dut, writes, awake, bfm>>

(* TinyAluBfm::new.                                                        *)
NewBfm == [driver_queue |-> <<>>, cmd_mon_queue |-> <<>>, result_mon_queue |-> <<>>,
           prev_start |-> 0, prev_done |-> 0, running |-> FALSE]

Loops == {"bfm.cmd_driver", "bfm.cmd_mon", "bfm.result_mon"}

(* x and z count as 0.                                                     *)
get_int(v) == IF v = X THEN 0 ELSE v

Command(a, b, op) == [a |-> a, b |-> b, op |-> op]

(* The first poll of cmd_driver clears the bus.                            *)
IdleBus == [start |-> 0, A |-> 0, B |-> 0, op |-> 0]

(* A result where done goes from 0 to 1.                                   *)
result_mon ==
  LET dn == get_int(DoneOf(dut))
  IN  /\ Turn("bfm.result_mon")
      /\ bfm' = [bfm EXCEPT
           !.prev_done = dn,
           !.result_mon_queue = IF bfm.prev_done = 0 /\ dn = 1
                                  THEN Append(@, get_int(ResultOf(dut))) ELSE @]
      /\ UNCHANGED <<dut, writes>>

(* Mutant: a command at every edge with start up.                          *)
cmd_mon_Level ==
  LET st == get_int(dut.start)
  IN  /\ Turn("bfm.cmd_mon")
      /\ bfm' = [bfm EXCEPT
           !.prev_start = st,
           !.cmd_mon_queue = IF st = 1
             THEN Append(@, Command(get_int(dut.A), get_int(dut.B), get_int(dut.op))) ELSE @]
      /\ UNCHANGED <<dut, writes>>

(* A command where start goes from 0 to 1.                                 *)
cmd_mon ==
  LET st == get_int(dut.start)
  IN  /\ Turn("bfm.cmd_mon")
      /\ bfm' = [bfm EXCEPT
           !.prev_start = st,
           !.cmd_mon_queue = IF st = 1 /\ bfm.prev_start = 0
             THEN Append(@, Command(get_int(dut.A), get_int(dut.B), get_int(dut.op))) ELSE @]
      /\ UNCHANGED <<dut, writes>>

(* A command is driven on an idle bus and held until done.                 *)
cmd_driver ==
  LET st == get_int(dut.start)
      dn == get_int(DoneOf(dut))
      cmd == Head(bfm.driver_queue)
  IN  /\ Turn("bfm.cmd_driver")
      /\ IF st = 0 /\ dn = 0 /\ bfm.driver_queue # <<>>
           THEN /\ bfm' = [bfm EXCEPT !.driver_queue = Tail(@)]
                /\ Set([A |-> cmd.a, B |-> cmd.b, op |-> cmd.op, start |-> 1])
           ELSE /\ IF st = 1 /\ dn = 1 THEN Set([start |-> 0]) ELSE UNCHANGED writes
                /\ UNCHANGED bfm
      /\ UNCHANGED dut

BfmLoop == cmd_driver \/ cmd_mon \/ result_mon

(* What reset() writes at its edges, of which there are three.             *)
ResetEdges == 3

ResetWrites(edge) ==
  CASE edge = 1 -> [reset_n |-> 0] @@ IdleBus
    [] edge = 2 -> [reset_n |-> 1]
    [] edge = 3 -> <<>>

(* send_op: a put into the queue, which has room for one command.          *)
CanSend == bfm.driver_queue = <<>>

Sent(cmd) == [bfm EXCEPT !.driver_queue = Append(@, cmd)]
=============================================================================
