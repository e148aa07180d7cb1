------------------------------- MODULE Phase --------------------------------
(***************************************************************************)
(* The phase hub of rustdv-sim (phase.rs) and the triggers that tasks wait *)
(* on (triggers.rs): set() buffers a write until the next ReadWrite        *)
(* callback, which applies the buffer, wakes the ReadWrite waiters and     *)
(* drains the executor; ReadOnly and NextTimeStep work alike, and nothing  *)
(* may be written during ReadOnly.                                         *)
(*                                                                         *)
(* The simulator (external) is where control is when where = "sim".  It    *)
(* calls one callback at a time; where follows the callback: "apply" while *)
(* the buffer is applied, "drain" while run_until_idle polls tasks.  A     *)
(* simulator with sync = TRUE calls value-change callbacks from inside the *)
(* write (Icarus): during "apply" the executor is not running, so the      *)
(* callback drains it there and then ("nested"); during a poll it only     *)
(* wakes.  With sync = FALSE they are called later (Verilator).            *)
(***************************************************************************)
EXTENDS Naturals, Sequences

CONSTANTS
  Tasks, Signals,
  Kinds,       \* what tasks await: of "rw", "ro", "nt", "timer", and signals
  MaxOps       \* bound: operations of the tasks in a run

(* A signal is not taken for a phase.                                      *)
ASSUME SignalsAssumption == Signals \cap {"rw", "ro", "nt"} = {}

Values == {0, 1}

VARIABLES
  sync,     \* are value changes delivered inside the write?  Never changes
  phase,    \* Hub.phase
  writes,   \* Hub.writes: pairs of a signal and a value
  primed,   \* which of rw_cb, ro_cb, nt_cb is registered
  waiters,  \* rw_waiters, ro_waiters, nt_waiters: the tasks whose future lives
  batch,    \* the ReadWrite callback's local copy of writes, not yet applied
  where,    \* "sim", "apply", "nested", "drain"
  region,   \* the simulator's region of the time step: "active" or "ro"
  due,      \* is the registered nt_cb due in this time step?
  sigval,   \* the signals
  await,    \* what each task awaits, "nothing" while it runs, "dead" at the end
  fired,    \* TrigShared.fired of that future
  ready,    \* the task was woken
  ops,      \* operations performed
  lastSet,  \* history: the value last given to each signal
  fresh     \* history: waits begun since the last ReadWrite callback began

vars == <<sync, phase, writes, primed, waiters, batch, where, region, due, sigval, await,
          fired, ready, ops, lastSet, fresh>>

Hubs == {"rw", "ro", "nt"}

(* init_hub and the start-of-simulation callback, which polls every task.  *)
Init ==
  /\ sync \in BOOLEAN
  /\ phase = "Normal" /\ writes = <<>> /\ batch = <<>>
  /\ primed = {} /\ waiters = [k \in Hubs |-> {}]
  /\ where = "drain" /\ region = "active" /\ due = FALSE
  /\ sigval = [s \in Signals |-> 0] /\ lastSet = sigval
  /\ await = [p \in Tasks |-> "nothing"]
  /\ fired = [p \in Tasks |-> FALSE]
  /\ ready = [p \in Tasks |-> TRUE]
  /\ ops = 0
  /\ fresh = {}

Fire(W) ==
  /\ fired' = [p \in Tasks |-> fired[p] \/ p \in W]
  /\ ready' = [p \in Tasks |-> ready[p] \/ p \in W]

NoneReady == \A p \in Tasks : ~ready[p]

(* Who waits for a change of s.                                            *)
Watching(s) == {p \in Tasks : await[p] = s /\ ~fired[p]}

(* Edges of an immediate write inside a poll: wakes now, or later.         *)
Put(s, v) ==
  /\ sigval' = [sigval EXCEPT ![s] = v]
  /\ IF sync /\ sigval[s] # v THEN Fire(Watching(s)) ELSE UNCHANGED <<fired, ready>>
-----------------------------------------------------------------------------
(* The simulator's side: callbacks that lead to a drain.                   *)

Drain(W) == where = "sim" /\ where' = "drain" /\ Fire(W)

(* A timer, or a value change that is delivered late.                      *)
OtherCallback(p) ==
  /\ await[p] = "timer" \/ (await[p] \in Signals /\ ~sync)
  /\ ~fired[p] /\ region = "active"
  /\ Drain({p})
  /\ UNCHANGED <<sync, phase, writes, primed, waiters, batch, region, due, sigval, await, ops,
                 lastSet, fresh>>

(* Mutant: the callback registers itself again.                            *)
ReadWriteCallback_Rearms ==
  /\ where = "sim" /\ region = "active" /\ "rw" \in primed
  /\ phase' = "ReadWrite"
  /\ batch' = writes /\ writes' = <<>>
  /\ where' = "apply"
  /\ fresh' = {}
  /\ UNCHANGED <<sync, waiters, primed, region, due, sigval, await, fired, ready, ops, lastSet>>

(* The ReadWrite callback as far as the copy of the buffer.                *)
ReadWriteCallback ==
  /\ where = "sim" /\ region = "active" /\ "rw" \in primed
  /\ primed' = primed \ {"rw"}
  /\ phase' = "ReadWrite"
  /\ batch' = writes /\ writes' = <<>>
  /\ where' = "apply"
  /\ fresh' = {}
  /\ UNCHANGED <<sync, waiters, region, due, sigval, await, fired, ready, ops, lastSet>>

(* apply_write for the next write of the batch.                            *)
apply_write ==
  /\ where = "apply" /\ batch # <<>>
  /\ LET s == batch[1][1]
         v == batch[1][2]
     IN  /\ Put(s, v)
         /\ where' = IF NoneReady' THEN "apply" ELSE "nested"
  /\ batch' = Tail(batch)
  /\ UNCHANGED <<sync, phase, writes, primed, waiters, region, due, await, ops, lastSet, fresh>>

EndNested ==
  /\ where = "nested" /\ NoneReady
  /\ where' = "apply"
  /\ UNCHANGED <<sync, phase, writes, primed, waiters, batch, region, due, sigval, await, fired,
                 ready, ops, lastSet, fresh>>

(* The batch is applied: the waiters are fired and the executor drained.   *)
FireReadWrite ==
  /\ where = "apply" /\ batch = <<>>
  /\ Fire(waiters["rw"])
  /\ waiters' = [waiters EXCEPT !["rw"] = {}]
  /\ where' = "drain"
  /\ UNCHANGED <<sync, phase, writes, primed, batch, region, due, sigval, await, ops, lastSet, fresh>>

(* The simulator leaves the active region when nothing is pending there.   *)
EnterReadOnly ==
  /\ where = "sim" /\ region = "active" /\ "rw" \notin primed /\ ~due
  /\ region' = "ro"
  /\ UNCHANGED <<sync, phase, writes, primed, waiters, batch, where, due, sigval, await, fired,
                 ready, ops, lastSet, fresh>>

ReadOnlyCallback ==
  /\ region = "ro" /\ "ro" \in primed
  /\ primed' = primed \ {"ro"}
  /\ phase' = "ReadOnly"
  /\ Drain(waiters["ro"])
  /\ waiters' = [waiters EXCEPT !["ro"] = {}]
  /\ UNCHANGED <<sync, writes, batch, region, due, sigval, await, ops, lastSet, fresh>>

NextTime ==
  /\ where = "sim" /\ region = "ro" /\ "ro" \notin primed
  /\ region' = "active"
  /\ due' = ("nt" \in primed)
  /\ UNCHANGED <<sync, phase, writes, primed, waiters, batch, where, sigval, await, fired, ready,
                 ops, lastSet, fresh>>

NextTimeCallback ==
  /\ due /\ due' = FALSE
  /\ primed' = primed \ {"nt"}
  /\ Drain(waiters["nt"])
  /\ waiters' = [waiters EXCEPT !["nt"] = {}]
  /\ UNCHANGED <<sync, phase, writes, batch, region, sigval, await, ops, lastSet, fresh>>

(* Mutant: the waiters are not detached; the callback goes on until there  *)
(* are none.                                                               *)
EndDrain_UntilNoWaiters ==
  /\ where = "drain" /\ NoneReady
  /\ IF phase = "ReadWrite" /\ waiters["rw"] # {}
       THEN /\ Fire(waiters["rw"])
            /\ waiters' = [waiters EXCEPT !["rw"] = {}]
            /\ UNCHANGED <<where, phase>>
       ELSE where' = "sim" /\ phase' = "Normal" /\ UNCHANGED <<waiters, fired, ready>>
  /\ UNCHANGED <<sync, writes, primed, batch, region, due, sigval, await, ops, lastSet, fresh>>

(* run_until_idle returns, and with it the callback: the ReadWrite and the *)
(* ReadOnly one restore Normal, the others were called in it.              *)
EndDrain ==
  /\ where = "drain" /\ NoneReady
  /\ where' = "sim"
  /\ phase' = "Normal"
  /\ UNCHANGED <<sync, writes, primed, waiters, batch, region, due, sigval, await, fired, ready,
                 ops, lastSet, fresh>>
-----------------------------------------------------------------------------
(* The tasks, polled inside a drain.                                       *)

Runs(p) ==
  /\ where \in {"drain", "nested"} /\ ready[p] /\ await[p] = "nothing"
  /\ ops < MaxOps /\ ops' = ops + 1

(* The panic of an illegal operation ends the task.                        *)
Panic(p) ==
  /\ await' = [await EXCEPT ![p] = "dead"]
  /\ ready' = [ready EXCEPT ![p] = FALSE]
  /\ UNCHANGED <<writes, primed, sigval, fired, lastSet>>

(* Mutants: a buffered write is not replaced; prime_rw is called only for  *)
(* the first write of a signal.                                            *)
Buffer_KeepFirst(s, v) ==
  /\ writes' = IF \E i \in DOMAIN writes : writes[i][1] = s THEN writes
               ELSE Append(writes, <<s, v>>)
  /\ primed' = primed \cup {"rw"}

Buffer_NoPrime(s, v) ==
  /\ writes' = Append(writes, <<s, v>>)
  /\ UNCHANGED primed

(* schedule in Normal: the last write to a signal wins and keeps its place.*)
Buffer(s, v) ==
  /\ writes' = IF \E i \in DOMAIN writes : writes[i][1] = s
                 THEN [i \in DOMAIN writes |-> IF writes[i][1] = s THEN <<s, v>> ELSE writes[i]]
                 ELSE Append(writes, <<s, v>>)
  /\ primed' = primed \cup {"rw"}

(* schedule.                                                               *)
set(p, s, v) ==
  /\ Runs(p)
  /\ \/ phase = "ReadOnly" /\ Panic(p)
     \/ /\ phase = "ReadWrite"
        /\ Put(s, v)
        /\ lastSet' = [lastSet EXCEPT ![s] = v]
        /\ UNCHANGED <<writes, primed, await>>
     \/ /\ phase = "Normal"
        /\ Buffer(s, v)
        /\ lastSet' = [lastSet EXCEPT ![s] = v]
        /\ UNCHANGED <<sigval, await, fired, ready>>
  /\ UNCHANGED <<sync, phase, waiters, batch, where, region, due, fresh>>

(* Is a write to s buffered, or about to be applied?                       *)
Pending(s) == (\E i \in DOMAIN writes : writes[i][1] = s) \/ (\E i \in DOMAIN batch : batch[i][1] = s)

(* set_bool_now and its like: nothing is buffered, and a write that is     *)
(* still buffered will come on top.                                        *)
set_now(p, s, v) ==
  /\ Runs(p)
  /\ IF phase = "ReadOnly" THEN Panic(p)
     ELSE /\ Put(s, v)
          /\ lastSet' = IF Pending(s) THEN lastSet ELSE [lastSet EXCEPT ![s] = v]
          /\ UNCHANGED <<writes, primed, await>>
  /\ UNCHANGED <<sync, phase, waiters, batch, where, region, due, fresh>>

(* The first poll of a PhaseFut, Timer or Edge registers it.               *)
wait(p, k) ==
  /\ Runs(p)
  /\ IF phase = "ReadOnly" /\ k \in {"rw", "ro"}
       THEN Panic(p) /\ UNCHANGED <<waiters, fresh>>
       ELSE /\ await' = [await EXCEPT ![p] = k]
            /\ fired' = [fired EXCEPT ![p] = FALSE]
            /\ ready' = [ready EXCEPT ![p] = FALSE]
            /\ IF k \in Hubs
                 THEN /\ waiters' = [waiters EXCEPT ![k] = @ \cup {p}]
                      /\ primed' = primed \cup {k}
                 ELSE UNCHANGED <<waiters, primed>>
            /\ fresh' = fresh \cup {p}
            /\ UNCHANGED <<writes, sigval, lastSet>>
  /\ UNCHANGED <<sync, phase, batch, where, region, due>>

(* A later poll of a fired future: the task goes on.                       *)
resume(p) ==
  /\ where \in {"drain", "nested"}
  /\ ready[p] /\ fired[p]
  /\ await' = [await EXCEPT ![p] = "nothing"]
  /\ fired' = [fired EXCEPT ![p] = FALSE]
  /\ fresh' = fresh \ {p}
  /\ UNCHANGED <<sync, phase, writes, primed, waiters, batch, where, region, due, sigval, ready,
                 ops, lastSet>>

(* The task is done, or another one cancels it: its future is dropped and  *)
(* the hub's weak reference to it is dead, but the callback stays.         *)
finish(p) ==
  /\ where \in {"drain", "nested"}
  /\ await[p] # "dead" /\ (await[p] = "nothing" => ready[p])
  /\ await' = [await EXCEPT ![p] = "dead"]
  /\ ready' = [ready EXCEPT ![p] = FALSE]
  /\ waiters' = [k \in Hubs |-> waiters[k] \ {p}]
  /\ fresh' = fresh \ {p}
  /\ UNCHANGED <<sync, phase, writes, primed, batch, where, region, due, sigval, fired, ops, lastSet>>

Simulator ==
  \/ \E p \in Tasks : OtherCallback(p)
  \/ ReadWriteCallback \/ EnterReadOnly \/ ReadOnlyCallback \/ NextTime \/ NextTimeCallback

Rust ==
  \/ apply_write \/ EndNested \/ FireReadWrite \/ EndDrain
  \/ \E p \in Tasks :
       \/ \E s \in Signals, v \in Values : set(p, s, v) \/ set_now(p, s, v)
       \/ \E k \in Kinds : wait(p, k)
       \/ resume(p) \/ finish(p)

Next == Simulator \/ Rust

Spec == Init /\ [][Next]_vars

(* A drain ends, and a simulator with callbacks pending goes through its   *)
(* regions.                                                                *)
Fairness ==
  /\ WF_vars(Rust)
  /\ WF_vars(ReadWriteCallback) /\ WF_vars(EnterReadOnly) /\ WF_vars(ReadOnlyCallback)
  /\ WF_vars(NextTime) /\ WF_vars(NextTimeCallback)
-----------------------------------------------------------------------------
(* Nothing is forgotten: a buffered write, and a wait that is still        *)
(* wanted, always have their callback registered, or being executed.       *)
NothingIsForgotten ==
  /\ writes # <<>> => "rw" \in primed
  /\ \A p \in Tasks : await[p] \in Hubs /\ ~fired[p] =>
       /\ p \in waiters[await[p]]
       /\ await[p] \in primed \/ (await[p] = "rw" /\ where \in {"apply", "nested"})

(* Nothing is written in the simulator's ReadOnly region, by whichever     *)
(* call and whichever task the drain happens to run there.                 *)
ReadOnlyIsStable == [][region = "ro" => sigval' = sigval]_vars

(* Once no write is pending, every signal has the value that the last      *)
(* set() gave it, or a later immediate write.                              *)
LastWriteWins == writes = <<>> /\ batch = <<>> => sigval = lastSet

(* So it is with a simulator that delivers value changes late, though      *)
(* writes of a signal are buffered, replaced, applied and made in phases   *)
(* of both kinds.                                                          *)
LateEdgesKeepOrder == ~sync => LastWriteWins

(* A ReadWrite waiter goes on only when the whole buffer is on the signals *)
(* and, with such a simulator, only if its wait began before the callback. *)
ReadWriteWaits ==
  [][\A p \in Tasks : await[p] = "rw" /\ ~fired[p] /\ fired'[p] =>
       batch' = <<>> /\ (~sync => p \notin fresh)]_vars

(* Nothing is written in the ReadOnly region, and ReadWrite waits end      *)
(* after the writes, in a later callback.                                  *)
RegionsAreKept == ReadOnlyIsStable /\ ReadWriteWaits

(* Every wait for a phase ends.                                            *)
PhasesCome == \A p \in Tasks : await[p] \in Hubs ~> await[p] \notin Hubs
=============================================================================
