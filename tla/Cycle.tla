------------------------------- MODULE Cycle -------------------------------
(***************************************************************************)
(* Cycle models: one value-oriented model behind two adapters, the VPI one *)
(* (rustdv/src/cycle_vpi.rs, with the clock task of clock.rs) and the      *)
(* direct one (the C ABI of rustdv-cycle, called by the host               *)
(* sim/verilator_cycle_main.cpp).  The model and the design are those of   *)
(* the stream benchmark: a source with gaps, a sink with gaps, a design    *)
(* that counts the transfers it accepts.                                   *)
(*                                                                         *)
(* The pseudo-random gaps are free choices, a payload is its index, and    *)
(* the transform doubles it, so that the injected error (bit 0 of the      *)
(* output, flipped) is an odd number.                                      *)
(***************************************************************************)
EXTENDS Integers, Sequences

CONSTANTS
  Targets,     \* the transaction counts a benchmark may be asked for
  ResetCycles, \* RESET_CYCLES
  InjectAt,    \* the count at which the design flips a bit, when told to
  MaxCycles,   \* RUSTDV_CYCLE_MAX_CYCLES, and the bound of a VPI test's timeout
  Periods,     \* the clock periods asked for: records [n, exp], n * 10^exp seconds
  Precisions,  \* the simulator's time precisions, as powers of ten
  MaxU64       \* the largest u64

VARIABLES
  backend,  \* "vpi" or "direct"
  pc,       \* where the adapter is
  time,      \* simulation time, in precision steps
  clk,      \* the clock port
  deadline, \* when the clock task's timer expires
  due,      \* the tasks the present time step has woken: "clock", "model"
  steps,    \* the clock period in precision steps
  port,     \* the values at the design's input ports
  outputs,  \* the model's output structure
  accepted_count, \* the design's register
  model,    \* the benchmark model: target, inject, cycles, transactions
  status,   \* the adapter's status: "continue", "pass", "fail"
  error,    \* the adapter has an error to report
  finished, \* how often the model's finish was called
  panicked, \* the model panicked
  edges,    \* rising edges the design has seen: how many, the last one's time, its distance
  verdict   \* "none" until the adapter ends, then "pass" or "fail"

cycleVars == <<backend, pc, time, clk, deadline, due, steps, port, outputs, accepted_count, model,
               status, error, finished, panicked, edges, verdict>>

\* How a call of the model may come back, beside its value.
Outcomes == {"ok", "err", "panic"}

Idle == [reset_n |-> 0, s_valid |-> 0, s_data |-> 0, m_ready |-> 0, inject |-> 0]

-----------------------------------------------------------------------------
(* The design (the benchmark's stream_bench.sv). *)

\* What the output ports show.
Shown(p, count) ==
  [s_ready |-> p.m_ready, m_valid |-> p.s_valid, count |-> count,
   m_data |-> 2 * p.s_data + (IF p.inject = 1 /\ count = InjectAt THEN 1 ELSE 0)]

\* The register after a rising edge.
Clocked(p, count) ==
  IF p.reset_n = 0 THEN 0 ELSE IF p.s_valid = 1 /\ p.m_ready = 1 THEN count + 1 ELSE count

-----------------------------------------------------------------------------
(* The benchmark's model. *)

\* The source drives the next transfer, or leaves a gap.
load_source_for_cycle(m, o, source) ==
  IF source THEN [o EXCEPT !.s_valid = 1, !.s_data = m.transactions, !.inject = m.inject]
  ELSE [o EXCEPT !.s_valid = 0, !.inject = m.inject]

Failing(m, i, o) ==
  IF o.reset_n = 0 THEN i.m_valid # 0 \/ i.count # 0
  ELSE \/ (o.s_valid = 1 /\ i.s_ready = 1) # (i.m_valid = 1 /\ o.m_ready = 1)
       \/ i.s_ready # o.m_ready
       \/ i.m_valid # o.s_valid
       \/ i.m_valid = 1 /\ i.m_data # 2 * m.transactions
       \/ i.count # m.transactions + (IF i.m_valid = 1 /\ o.m_ready = 1 THEN 1 ELSE 0)

\* One cycle: check what the design shows, count the transfer, and prepare the next drive.
BenchStep(m, i, o, source, ready) ==
  LET m1 == [m EXCEPT !.cycles = @ + 1]
      emitted == o.reset_n = 1 /\ i.m_valid = 1 /\ o.m_ready = 1
      m2 == [m1 EXCEPT !.transactions = IF emitted THEN @ + 1 ELSE @]
      open == [o EXCEPT !.m_ready = IF ready THEN 1 ELSE 0]
      accepted == o.s_valid = 1 /\ i.s_ready = 1
  IN  IF Failing(m, i, o) THEN [status |-> "fail", model |-> m1, outputs |-> o]
      ELSE IF o.reset_n = 0 THEN
        [status |-> "continue", model |-> m1,
         outputs |-> IF m1.cycles < ResetCycles THEN o
                     ELSE load_source_for_cycle(m1, [open EXCEPT !.reset_n = 1], source)]
      ELSE IF m2.transactions = m.target THEN
        [status |-> "pass", model |-> m2, outputs |-> [o EXCEPT !.s_valid = 0]]
      ELSE
        [status |-> "continue", model |-> m2,
         outputs |-> IF accepted \/ o.s_valid = 0 THEN load_source_for_cycle(m2, open, source)
                     ELSE open]

\* The model's new: it panics when asked for no transactions.
BenchNew(m) ==
  IF m.target = 0 THEN "panic" ELSE "ok"

-----------------------------------------------------------------------------
(* Time and the clock. *)

\* n * 10^exp seconds in steps of 10^prec, or -1 for a panic: the duration is below the precision,
\* or the product does not fit and the build checks; without checks it wraps.  (The powers
\* themselves fit: units and precisions are between 10^-15 and 10^2.)
from_pow10(n, exp, prec) ==
  IF exp >= prec
  THEN LET product == n * 10^(exp - prec)
       IN  IF product <= MaxU64 THEN {product} ELSE {-1, product % (MaxU64 + 1)}
  ELSE {IF n % 10^(prec - exp) = 0 THEN n \div 10^(prec - exp) ELSE -1}

\* The design makes its error at a transfer, not before the first; durations are whole numbers.
ASSUME CycleAssumption ==
  /\ Targets \subseteq Nat /\ ResetCycles \in Nat /\ MaxCycles \in Nat /\ InjectAt \in Nat \ {0}
  /\ \A p \in Periods, prec \in Precisions : from_pow10(p.n, p.exp, prec) \subseteq Int

CycleInit ==
  /\ backend \in {"vpi", "direct"}
  /\ pc = "start" /\ time = 0 /\ clk = 0 /\ deadline = 0 /\ due = {}
  /\ \E p \in Periods, prec \in Precisions : steps \in from_pow10(p.n, p.exp, prec)
  /\ port = Idle /\ outputs = Idle /\ accepted_count = 0
  /\ model \in [target : Targets, inject : {0, 1}, cycles : {0}, transactions : {0}]
  /\ status = "continue" /\ error = FALSE /\ finished = 0 /\ panicked = FALSE
  /\ edges = [n |-> 0, at |-> 0, gap |-> 0] /\ verdict = "none"

\* The clock task: toggles the clock port and sleeps for half a period.
clock_task ==
  LET high == steps \div 2
      low == steps - high
  IN  /\ pc # "done" /\ "clock" \in due
      /\ due' = due \ {"clock"}
      /\ clk' = 1 - clk
      /\ deadline' = time + (IF clk = 0 THEN high ELSE low)
      /\ IF clk = 0
         THEN /\ accepted_count' = Clocked(port, accepted_count)
              /\ edges' = [n |-> edges.n + 1, at |-> time, gap |-> time - edges.at]
              /\ pc' = IF pc = "edge" THEN "ro" ELSE pc
         ELSE UNCHANGED <<accepted_count, edges, pc>>
      /\ UNCHANGED <<backend, time, steps, port, outputs, model, status, error, finished, panicked, verdict>>

\* The simulator moves to the next time step: the clock's deadline, or an earlier event of the design.
Advance ==
  /\ backend = "vpi" /\ pc \in {"edge", "nt"} /\ due = {}
  /\ \E t \in {deadline} \cup (IF time < deadline - 1 THEN {deadline - 1} ELSE {}) :
       /\ time' = t
       /\ due' = (IF t = deadline THEN {"clock"} ELSE {}) \cup (IF pc = "nt" THEN {"model"} ELSE {})
  /\ UNCHANGED <<backend, pc, clk, deadline, steps, port, outputs, accepted_count, model, status,
                 error, finished, panicked, edges, verdict>>

-----------------------------------------------------------------------------
(* The VPI adapter. *)

\* run_cycle_model_vpi up to its loop: create the model, drive its first outputs, start the clock.
\* A panic of the model or of the clock's assertion, and an error of either call, end the test.
VpiStart(drives) ==
  /\ backend = "vpi" /\ pc = "start"
  /\ LET created == steps # -1 /\ BenchNew(model) = "ok"
         values == [Idle EXCEPT !.inject = model.inject]
         begun == created /\ drives /\ steps >= 2
     IN  /\ outputs' = IF created THEN values ELSE outputs
         /\ port' = IF created /\ drives THEN values ELSE port
         /\ panicked' = (steps # -1 /\ ~created)
         /\ due' = IF begun THEN {"clock"} ELSE {}
         /\ pc' = IF begun THEN "edge" ELSE "done"
         /\ verdict' = IF begun THEN "none" ELSE "fail"
  /\ UNCHANGED <<backend, time, clk, deadline, steps, accepted_count, model, status, error, finished, edges>>

\* At ReadOnly after the edge: sample, step; an error of either leaves the loop, and so does a verdict.
VpiStep(samples, out, source, ready) ==
  /\ backend = "vpi" /\ pc = "ro" /\ due = {}
  /\ IF ~samples
     THEN status' = "fail" /\ pc' = "end" /\ UNCHANGED <<model, outputs, panicked, verdict>>
     ELSE LET r == BenchStep(model, Shown(port, accepted_count), outputs, source, ready)
          IN  /\ model' = r.model
              /\ outputs' = r.outputs
              /\ status' = IF out = "ok" THEN r.status ELSE "fail"
              /\ panicked' = (out = "panic")
              /\ pc' = IF out = "panic" THEN "done" ELSE IF status' = "continue" THEN "nt" ELSE "end"
              /\ verdict' = IF out = "panic" THEN "fail" ELSE verdict
  /\ UNCHANGED <<backend, time, clk, deadline, due, steps, port, accepted_count, error, finished, edges>>

\* In the next time step: drive the outputs the model prepared.
VpiDrive(drives) ==
  /\ pc = "nt" /\ "model" \in due
  /\ due' = due \ {"model"}
  /\ port' = IF drives THEN outputs ELSE port
  /\ pc' = IF drives THEN "edge" ELSE "end"
  /\ status' = IF drives THEN status ELSE "fail"
  /\ UNCHANGED <<backend, time, clk, deadline, steps, outputs, accepted_count, model, error,
                 finished, panicked, edges, verdict>>

\* The loop's error wins over finish's, and finish's over a status.
VpiVerdict_LoopOnly(loop, finish) == IF loop = "pass" THEN "pass" ELSE "fail"

VpiVerdict(loop, finish) == IF loop = "pass" /\ finish = "ok" THEN "pass" ELSE "fail"

\* After the loop: the clock is cancelled, the model is finished, the two results are joined.
VpiFinish(out) ==
  /\ backend = "vpi" /\ pc = "end"
  /\ due' = {} /\ pc' = "done"
  /\ finished' = finished + 1
  /\ panicked' = (out = "panic")
  /\ error' = (status = "fail" \/ out = "err")
  /\ verdict' = VpiVerdict(status, out)
  /\ UNCHANGED <<backend, time, clk, deadline, steps, port, outputs, accepted_count, model, status, edges>>

-----------------------------------------------------------------------------
(* The direct adapter: the host's main, and the exported functions it calls. *)

\* Load the library, compare its descriptor with the host's, create the model.
create_context(matches) ==
  /\ backend = "direct" /\ pc = "start"
  /\ LET created == matches /\ BenchNew(model) = "ok"
     IN  /\ outputs' = IF created THEN [Idle EXCEPT !.inject = model.inject] ELSE outputs
         /\ panicked' = (matches /\ ~created)
         /\ pc' = IF created THEN "loop" ELSE "done"
         /\ verdict' = IF created THEN "none" ELSE "fail"
  /\ UNCHANGED <<backend, time, clk, deadline, due, steps, port, accepted_count, model, status, error, finished, edges>>

\* A step and the finish of the model: an error and a panic are Fail, and their text is kept.
step_context(out, stepped) == IF out = "ok" THEN stepped ELSE "fail"
finish_context(out) == IF out = "ok" THEN "pass" ELSE "fail"

\* One turn of the host's loop: apply the outputs, a low and a high phase, capture, step.  A host
\* that is to watch its memory may fail to read it after the warm-up (~sampled).
HostTurn(out, source, ready, sampled) ==
  /\ pc = "loop" /\ status = "continue" /\ model.cycles < MaxCycles
  /\ LET count == Clocked(outputs, accepted_count)
         r == BenchStep(model, Shown(outputs, count), outputs, source, ready)
     IN  /\ accepted_count' = count
         /\ model' = r.model
         /\ outputs' = r.outputs
         /\ status' = IF sampled THEN step_context(out, r.status) ELSE "fail"
         /\ error' = (status' = "fail")
  /\ port' = outputs /\ clk' = 1
  /\ panicked' = (out = "panic")
  /\ edges' = [n |-> edges.n + 1, at |-> time + 1, gap |-> time + 1 - edges.at] /\ time' = time + 2
  /\ UNCHANGED <<backend, pc, deadline, due, steps, finished, verdict>>

\* After the loop, which ends on a verdict, at the cycle limit, or when the design called $finish:
\* no verdict is a failure, and so is a pass whose memory grew or was not measured; the model's
\* finish may add one; the exit code is the verdict.
HostEnd(out, gotFinish, grew) ==
  /\ pc = "loop" /\ (status # "continue" \/ model.cycles >= MaxCycles \/ gotFinish)
  /\ finished' = finished + 1
  /\ error' = (error \/ grew \/ finish_context(out) = "fail")
  /\ panicked' = (panicked \/ out = "panic")
  /\ verdict' = IF status = "pass" /\ ~grew /\ finish_context(out) = "pass" THEN "pass" ELSE "fail"
  /\ pc' = "done"
  /\ UNCHANGED <<backend, time, clk, deadline, due, steps, port, outputs, accepted_count, model, status, edges>>

\* A VPI test ends without a verdict: its timeout, or a $finish of the design.
VpiCutOff ==
  /\ backend = "vpi" /\ pc \in {"edge", "nt"}
  /\ pc' = "done" /\ verdict' = "fail"
  /\ UNCHANGED <<backend, time, clk, deadline, due, steps, port, outputs, accepted_count, model,
                 status, error, finished, panicked, edges>>

CycleNext ==
  \/ clock_task
  \/ Advance /\ model.cycles < MaxCycles
  \/ \E b \in BOOLEAN : VpiStart(b) \/ VpiDrive(b) \/ create_context(b)
  \/ \E out \in Outcomes, source, ready, b \in BOOLEAN :
       HostTurn(out, source, ready, b) \/ VpiStep(b, out, source, ready)
  \/ \E out \in Outcomes : VpiFinish(out) \/ \E b, grew \in BOOLEAN : HostEnd(out, b, grew)
  \/ VpiCutOff

CycleSpec == CycleInit /\ [][CycleNext]_cycleVars

-----------------------------------------------------------------------------
\* One cycle is one cycle behind either adapter: when the model steps, the design has seen one
\* rising edge per step, with the drive the model prepared for it, so a sound design is never
\* found at fault; the clock keeps the period it was asked for.  A run passes only when the
\* transfers are complete in model and design, the model was finished, once, and neither call
\* complained; an error the design was told to make is found.
CyclesAgree ==
  /\ pc = "ro" => /\ edges.n = model.cycles + 1 /\ port = outputs
                  /\ model.inject = 0 => ~Failing(model, Shown(port, accepted_count), outputs)
                  /\ edges.n > 1 => edges.gap = steps
  /\ pc = "loop" /\ status = "continue" =>
       LET count == Clocked(outputs, accepted_count) IN
       /\ edges.n = model.cycles
       /\ model.inject = 0 => ~Failing(model, Shown(outputs, count), outputs)
  /\ verdict = "pass" => /\ model.transactions = model.target /\ accepted_count = model.target
                         /\ ~error /\ ~panicked
                         /\ model.inject = 1 => model.target < InjectAt
  /\ pc = "done" /\ edges.n > 0 /\ ~panicked /\ status # "continue" => finished = 1
=============================================================================
