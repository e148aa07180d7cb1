# TLA+ models of rustdv

rustdv is a framework for verifying hardware designs in Rust. A testbench is a
shared library that a Verilog simulator loads; its tests are asynchronous tasks
that wait for edges, timers and phases of the simulator's time step, and on top
of them a methodology layer gives components, phases, ports, sequences and a
runner. Everything runs on the simulator's one thread. What is hard about it is
not parallelism but the orders in which callbacks, polls, drops and wakes can
follow one another, and, with some simulators, be nested in one another.

This directory models that. Each module is a translation of Rust code, and
`PROJECT.json` maps its definitions to the lines they model. TLC checks twelve
configurations. TLAPS proves thirty-one results about the executor, the lock,
the tapped FIFO, the channel, the phases and callbacks, the sequencer, the
analysis bus, the objections, the run phase, the regression, waveform capture
and cycle models, for every number of tasks, clients, signals, callbacks, items,
guards, cycles and tests and every tree of components, among them that the
executor and the lock implement their abstract specifications. Of the 35
properties that the passing runs check and that are not liveness, 26 are stated
by a theorem.

## The system and its parts

| Part | Source | Module | Extent |
|---|---|---|---|
| executor: tasks, wakers, join handles, cancellation | `rustdv-sim/src/executor.rs` | `Executor`, abstract `TaskScheduler` | whole |
| lock and event | `rustdv-sim/src/sync.rs` | `Lock` (abstract `FairLock`), `Event` | whole |
| queue | `rustdv-sim/src/queue.rs` | `Queue` | whole |
| TLM FIFO with taps | `rustdv-methodology/src/fifo.rs` | `TlmFifo` | whole |
| channel | `rustdv-methodology/src/channel.rs` | `Channel` | whole |
| phases of the time step and the write buffer | `rustdv-sim/src/phase.rs`, `handle/` | `Phase` | whole |
| triggers | `rustdv-sim/src/triggers.rs` | `Phase` | timers and edges as waits |
| simulator callbacks | `rustdv-gpi/src/rustdv_gpi.rs` | `Callbacks` | registration, trampolines, handles |
| sequencer and sequences | `rustdv-methodology/src/sequence.rs` | `Sequencer` | handshake, responses, dropped futures |
| objections | `rustdv-methodology/src/objection.rs` | `Objections` | whole |
| component tree and phases | `rustdv-methodology/src/component.rs` | `RunPhase`, `Elaboration` | run phase in full, build and connect walks |
| future combinators | `rustdv-sim/src/combinators.rs` | `RunPhase` | `first2`, `join_all` |
| runner | `rustdv-runner/src/rustdv_runner.rs` | `Runner` | the regression loop and the verdict |
| ConfigDb | `rustdv-methodology/src/config.rs` | `Config` | set, get, globs, precedences |
| factory | `rustdv-methodology/src/factory.rs` | `Elaboration` | overrides and their resolution |
| ports and exports | `port.rs` | `Elaboration` | binding and the sweep |
| analysis bus | `analysis.rs`, `shared.rs`, `port.rs` | `AnalysisBus` | connections and broadcasts |
| derive macros | `rustdv-macros/src/rustdv_macros.rs` | `Elaboration` | what the generated walks do |
| TinyALU and its testbench | `sim/hdl/tinyalu.sv`, `tinyalu_tb/src` | `TinyAlu`, `AluBench` | whole |
| the book's testbenches 1.0 to 8.0 | `output/examples/ch18` to `ch39`, `tinyalu-utils` | `BookBfm`, `FirstBench`, `TesterBench`, `SequenceBench`, `OutOfOrder` | whole |
| vpi values | `rustdv-gpi/src/value.rs`, `util.rs`, `rustdv_gpi.rs` | `Signals` | every getter, setter and conversion |
| handles | `rustdv_gpi.rs`, `rustdv-sim/src/handle.rs`, `handle/` | `Handles` | classification, lookup, iteration |
| logging and paths | `rustdv-sim/src/log.rs`, `path.rs` | `Logging` | levels, sinks, files, reset |
| waveform capture, Verilator host | `simulator_trace.rs`, `verilator_trace.rs`, `sim/verilator_main.cpp` | `TraceCapture` | both halves, and the time loop |
| cycle backend, clock and time | `rustdv-cycle`, `rustdv/src/cycle_vpi.rs`, `sim/verilator_cycle_main.cpp`, `clock.rs`, `time.rs` | `Cycle` | both adapters, with the stream benchmark's model and design |

### Not modelled

Random numbers (a draw is any value), error texts, C bindings and stubs,
facades, the framework's own tests, scripts, and the chapters of the book that
show the language or a single call. Of the modelled parts: the test filter, the
summary and the xUnit file of the runner; tracing and dump of the ConfigDb, and
its error for a value of another type; the registry of the factory's names and
the expansion of the macros; `bind_iface`, with which a component binds a port of
its own; a panic in a tap of a FIFO; `join2` and
`with_timeout`; the iterations of the Verilator host within a time slot, which
`Phase` has as its external simulator; the generator of the cycle bindings.
`PROJECT.json` gives the reason for each. What is left is text, I/O,
declarations, code generation or a use of the framework whose mechanism is
modelled elsewhere.

### How they interact

The simulator calls a **callback** (`Callbacks`). Its closure fires a trigger
and calls `run_until_idle` of the **executor** (`Executor`), which polls every
runnable task until none is left. Tasks wait on **triggers and phases**
(`Phase`), on **locks, events, queues and channels**, and on one another through
join handles. The **runner** (`Runner`) spawns each test as a task. A component
test is built and connected (`Config`, `Elaboration`), then its run bodies are
polled side by side within that one task until the **objections**
(`Objections`) are all dropped (`RunPhase`). Inside run bodies, sequences and
drivers meet at a **sequencer** (`Sequencer`), and drivers and monitors reach
the device through a bus functional model (`BookBfm`, `AluBench`), which reads
and writes signals (`Signals`) of handles it has looked up (`Handles`). Tests
log (`Logging`) and start or stop waveforms (`TraceCapture`) as they go.

The proofs are in eight modules:

| Module | About |
|---|---|
| `ExecutorProofs` | the executor, and that it implements `TaskScheduler` |
| `OwnershipProofs` | the lock, that it implements `FairLock`, and the references to callbacks |
| `BufferProofs` | the tapped FIFO and the channel |
| `PhaseProofs` | the phases of the time step and the write buffer |
| `TrafficProofs` | items between sequence and driver, and on the analysis bus |
| `ElaborationProofs` | that a test uses the bus as `AnalysisBus` says |
| `TestsProofs` | objections, the run phase, the tree and the regression |
| `ServicesProofs` | waveform capture and cycle models |

The models are composed where the code's correctness depends on it: `TlmFifo`
EXTENDS `Queue` (the taps run between the queue's operations), `RunPhase`
EXTENDS `Objections` (run bodies are stopped by the consensus), `Elaboration`
EXTENDS `Config` (overrides are entries of the ConfigDb) and `AnalysisBus`
(connections are made in the connect walk, broadcasts follow it), and the
testbenches
`AluBench`, `SequenceBench` and `OutOfOrder` EXTEND `Sequencer` and, but for the
last, `TinyAlu`: stimulus, sequencer, driver, device, monitors and checks in one
model.
Elsewhere the executor appears by what `Executor` shows of it: a woken task is
polled later, tasks are polled one at a time in any order, and a task may be
cancelled between any two polls.

## How the modules correspond to the code

A variable is named after the field it stands for where there is one; variables
marked *history* record what happened and are read by properties only. An action
is one call, or the part of it up to the point where other code can run: a poll
of a future is one action per outcome, and `await` ends an action. User code (a
run body, a driver, a subscriber) is any sequence of the operations it may call.

- **Executor.** `ctl` says whose code is on the stack: the simulator, the drain
  loop, a poll, a `cancel_after` sweep, or the deferred self-cancellations at
  the end of a poll. `Spawn`, `Join`, `Cancel`, `CancelSelf`, `CancelAfter` are
  what a polled future may call; `PollReady`, `PollPending`, `PollPanic` end the
  poll. A destructor that panics (`DropPanicIn...`) unwinds through the executor;
  if it takes a task out of the map before its end is recorded, whoever awaits
  that task stays parked.
- **TaskScheduler** has no queues: tasks are runnable, running, parked or over,
  and a parked task that is woken becomes runnable. It is what users rely on.
- **Lock, Event, Queue, Channel.** One action per operation and per poll of a
  future, `Drop` for a cancelled one. `FairLock` is a line of clients whose head
  owns the lock.
- **TlmFifo.** The tapped operations around the queue's. A subscriber of a put
  tap may take an item from inside the tap, one of a get tap may put one.
  `try_put` looks for space again after the taps, and the caller may ignore that it
  is refused. The histories of the taps hold the places of the items in the
  traffic, so that what the get taps saw can be compared with what left and was
  not flushed.
- **Buffers** puts FIFO and channel side by side and states what is asked of both.
- **Callbacks.** The reference count of the shared closure, the simulator's
  reference to it, and a stack of trampolines, since callbacks may nest. The
  simulator may refuse a registration (`register_fails`).
- **Phase.** The hub's buffer, waiters and registered callbacks. The simulator
  is external: `sync` tells whether it delivers value changes inside the write
  (Icarus) or later (Verilator). `where` follows the callback in progress.
- **Sequencer.** Sequences, a driver and the slots between them: request queue,
  grant, fill, release, and responses by ticket or to whoever asks. A sequence
  or a driver may be dropped wherever it waits. A call that is refused changes
  nothing and is a stuttering step.
- **Objections.** Counter, event and report; `Client` tasks raise, drop and wait.
- **RunPhase.** One poll of the test task walks the tree (`todo` is the rest of
  that walk); bodies return, fail, panic or are stopped. The other walks are one
  step each, in which a component may object (`WalkRaises`) or panic. Guards may
  live in fields of components: they go with the tree (`TreeDrops`).
- **Runner.** One test after the other, with what outlives a test: tasks, the
  failure a background task reported, the ConfigDb, the sequence overrides, and
  callbacks that a test registered and forgot (`CallbackPanics`).
- **Config.** The log of writes for one field. Paths and globs are sequences of
  characters, since matching is by character; everything else is abstract. Everyone
  asks for the type that was stored.
- **Elaboration.** The build walk from the root down, the connect walk from the
  leaves up, and the sweep for open ports. A component can name its own ports,
  those of its children, and those further down that are reached through plain
  fields (`Reach`); what `create_comp` made is opaque. `known`, a history, is how
  many overrides there were when a slot was resolved.
- **AnalysisBus.** The subscribers of each bus and the broadcasts in progress, a
  stack, since a subscriber may write. An item comes through a publish port
  (`publish`) or from the owner of the bus (`owner_write`). What the rest of a test does to the phase
  is `MovesOn`. `joined` and `heard` are histories: who was connected to a bus,
  and who was handed each item.
- **TinyAlu.** One cycle of the device per step of the clock. Between a falling
  and a rising edge the woken tasks of a bench run in any order; their writes are
  applied before the rising edge.
- **AluBench.** `tinyalu_tb`: two tests in a row on one device, the first of
  which may time out anywhere.
- **BookBfm, FirstBench, TesterBench, SequenceBench, OutOfOrder.** The book's
  benches. Operands are drawn from short fixed lists, as the code's seeded
  generator fixes them; the order of a bench's tests is free. In `TesterBench`
  the scoreboard of 2.0 to 5.0 spawns its own tasks (`get_cmds`, `get_results`);
  in 6.0 monitors broadcast to scoreboard and coverage.
- **Signals.** A vector word has `Word` bits, 32 in the code, and the integer
  types keep their size relative to it. The simulator may leave anything in the
  unused bits of the last word.
- **Handles.** The design is a constant tree of objects with their vpi types. A
  name with a NUL in it panics; the simulator may answer a read of a real or a
  string with no value or with another format.
- **Logging.** Paths are sequences of segments, files are sequences of lines; a
  file opened twice has two positions. An open may fail, which does nothing else;
  the result of a write is not looked at, so any line may be lost in any file.
- **TraceCapture.** The testbench's calls in any order within a time slot, with
  every kind of host, and the host's loop that dumps the settled slot. A time may
  have several slots; a dump records its time, where the loop was and how often
  the values had settled by then. The testbench also has control at the start of
  simulation, in no phase, where it may already finish.
- **Cycle.** The same model of the stream benchmark behind the VPI adapter and
  behind the C ABI; gaps are free, and the model may fail or panic anywhere. The
  conversion of a period to precision steps keeps the width of a u64 (`MaxU64`),
  with and without overflow checks. The host of the C ABI stops at its cycle limit
  or when the design finishes, and a pass becomes a failure if its memory grew or
  was not measured.

Data is abstracted to what the properties tell apart: items are numbers, signal
values are two (but for `Signals`), names are model values, and the text of
messages is left out.

## The runs

Every bound is a named constant and a guard of an action. Reaching a bound stops
the environment, never a handler halfway; that is why deadlock is not checked in
the runs with a bounded number of operations. In `elaboration` it is checked.

| Run | What it shows | Bounds | States |
|---|---|---|---|
| `executor` | polls never overlap and no live task is queued twice (`OnePollAtATime`); no wake is forgotten, and whoever awaits a task is told of its recorded end (`WakesAreKept`); self-cancellation takes effect (`SelfCancelTakesEffect`); control returns to the simulator only when nothing is runnable, unless a destructor's panic wedged the loop (`RunsToExhaustion`); ends are final (`EndIsFinal`); the executor implements `TaskScheduler` (`RefinesScheduler`); every wake is served (`WakeIsServed`) | 2 tasks, 2 wakes queued, 2 joiners, 1 deferred cancellation, destructors that panic | 160,440 |
| `primitives` | a lock has at most one owner and is not locked without one (`OwnershipIsSound`), and serves in order (`RefinesFairLock`); nobody sleeps while what they wait for is there (`NoSleeperMissesOut`); items keep their order, every item that passes a tapped FIFO is tapped and none is lost (`ItemsKeepOrder`); Disconnected is said only when nothing more can come (`DisconnectIsHonest`) | 3 clients, 3 items, capacity 2; 2 senders and 2 receivers with a capacity of 0, which the code makes 1 | 293,622 |
| `primitives_live` | every waiter is served (`WaitersAreServed`) | 2 clients, 2 items, capacity 1 | 30,919 |
| `simulator` | references to callbacks balance (`ReferencesBalance`); nothing buffered or awaited loses its callback (`NothingIsForgotten`); the ReadOnly region is not written, and a ReadWrite wait ends with the buffer applied (`RegionsAreKept`); with late edges the last write wins (`LateEdgesKeepOrder`); every wait for a phase ends (`PhasesCome`) | 3 callbacks nested 3 deep, 2 calls each; 2 tasks, 2 signals, 5 operations | 127,360 |
| `stimulus` | no item is lost, doubled or taken empty (`ItemsAreSound`), and the driver keeps its commitments (`GrantsAreKept`), with sequences and drivers dropped where they wait; no traffic of one test reaches the next (`StreamsAreOwn`); no check comes before the last result (`NothingIsCutOff`); every ticket gets its own answer (`AnswersAreOwn`); handshakes and tests end (`StimulusEnds`) | 2 sequences, 1 driver, 3 items, one of which may make room for a drop; the code's own lengths for the benches, but 2 rounds of operations in `AluBench`; 2 tests in a row | 144,732 |
| `tests` | the objection registry is exact and nobody sleeps through a consensus (`ReportIsExact`, `ConsensusIsSound`), waits end in one (`EndsInConsensus`); nobody who objects is stopped (`ObjectionsAreHeard`); no run is lost or its error swallowed, and tests start clean (`NothingIsLeftBehind`), pass only for cause (`PassIsEarned`), and end (`TestsEnd`) | 4 components, 1 spawned task, 3 objections; 2 tests with every registration, with and without a design, 2 surviving tasks | 332,002 |
| `elaboration` | `glob_match` agrees with a definition of matching and the right write answers (`LookupsAreRight`); a slot is of a type that an override in force at the time asked for, and of its own only if there was none (`OverridesAreHonoured`); nothing runs with an open port, and all are named (`WiringIsComplete`); a parent's connection replaces its child's (`ParentsDecide`); every item reaches every subscriber, nested writes included (`EveryItemIsHeard`) | 3 writes from 3 places, 7 globs; a tree of 4 with siblings, 2 overrides, 3 connections, 2 items | 480,757 |
| `services` | a value is the same on both sides of vpi, whatever its width and whatever the simulator leaves in unused bits, and handles are the objects asked for (`ValuesAreExact`); a message goes where the nearest settings send it, test after test (`MessagesAreRouted`); a capture shows each settled time once, with the values that settled first, whoever dumps it, and values that have not settled at most once, at its end (`CapturesAreTrue`); a cycle is one cycle behind either adapter, finish runs once and a pass is earned (`CyclesAgree`) | words of 4 bits, widths to 17 around every multiple of a word; 4 paths, 2 calls, 2 lines and 2 tests; 2 files, 3 times, 2 slots a time; up to 3 transfers, 9 cycles, two precisions and three periods, a u64 of 12 bits | 810,379 |

Most runs check several modules: the variable `part` chooses one in the initial
state, and the variables of the others stay as they are. `elaboration` takes
the factory (with one connection and no broadcasts) and the wiring (with no
overrides, on a chain of three components) as separate parts; all of both at once is out of reach. The widths of
`services` include 0 (an object without a size), one below, at and one above a
word, and two words and a bit; with words of 32 bits nothing else happens, only
larger numbers.

Four runs look for the violation of what the code's own documentation says.

| Run | Claim | What happens |
|---|---|---|
| `phase_last_write` | "the last write wins" (`handle/logic.rs:105`) | a value change delivered inside the application of the buffer wakes a task, whose `set()` is overwritten by an older one (`phase.rs:239`) |
| `callbacks_unwind` | "No unwinding across FFI" (`rustdv_gpi.rs:13`) | a recurring callback that is called again while its closure runs panics in `borrow_mut`, outside `catch_unwind` (`rustdv_gpi.rs:975`) |
| `runner_overrides` | "Clear per test" (`sequence.rs:663`) | nothing calls `clear_seq_overrides`; a test inherits the overrides of earlier ones |
| `config_specific` | "most-specific path first" (`config.rs:238`) | the comparison of globs is not transitive, and with three globs a less specific one can win |

Other places where code and comment differ, met while modelling. The models
follow the code; the properties are stated so that they hold of it.

- A panic in a destructor that escapes `run_until_idle` leaves `running` set, and
  the executor never drains again, although its doc says it runs to exhaustion.
  `RunsToExhaustion` excepts this state (`wedged`); it is proved that nothing
  else leads there.
- With synchronous value changes, a ReadWrite wait begun while the buffer is
  applied is ended by the callback in progress (`phase.rs:217` says a later one).
- `try_next_item` puts a granted, unfilled slot at the back of the queue: later
  requests overtake it, and its sequence goes on with no driver committed to it.
  Two overlapping `get_next_item` calls both pass the check of `current`.
- Run bodies are not all stopped in the same poll (`component.rs:595, 798`).
- A background panic is ignored when the expected error occurs
  (`rustdv_runner.rs:109, 211`).
- `set_sequence_seed` is never called by the runner, although its doc
  (`sequence.rs:572`) says so.
- The VPI adapter of a cycle model drives through the write buffer if the
  drive closure uses `set`, so that the first edge comes before the first drive;
  when the initial drive fails `finish` is not called (`cycle_vpi.rs`).
- When a slot does not settle, the final stop of a capture still dumps it
  (`verilator_main.cpp`), and so it does when a simulation that `RUSTDV_FST`
  captures finishes at its start, before anything has settled. `CapturesAreTrue`
  allows such a dump as the last one only.
- Of an object without a size, `get_bool` to `get_u32`, `is_high` and `is_low` take
  the first of no words and panic, although failures are Results
  (`rustdv_gpi.rs:538, 545, 552, 559`, `handle/logic.rs:48`). `ValuesAreExact`
  speaks of a width of 0 only for the getters that take all words.
- A refused registration of a callback panics and never releases the reference
  made for the simulator. `ReferencesBalance` is about the accepted ones.
- The panic of a callback that an earlier test has forgotten counts against the
  test in which it happens.
- Of the nine numbers of testbench 7.2 seven come from the device; its comment
  (`ch38:102`) says eight.
- Ties between incomparable globs are decided by the order of strings
  (`config.rs:261`).
- A subscriber that is reached again while its own `write` runs panics, although
  a handler "is free to do anything" (`analysis.rs:75`).

## Fairness

Fairness is assumed only where the code provides it or the user must:

- *Executor:* while rustdv has control it takes steps (`run_until_idle` loops,
  and a poll returns). A future that never returns from a poll hangs the real
  simulator too. The simulator owes nothing.
- *Lock, Event, Queue, Channel:* a woken task is polled, which is what
  `WakeIsServed` shows of the executor; and, for the lock, guards are dropped.
- *Phase:* a drain ends, and the simulator goes through its regions while
  callbacks are registered there. Timers and value changes need not come.
- *Sequencer:* sequences and the driver go on, and the driver answers what it
  owes. Without this users' code may simply stop.
- *Testbenches:* the clock runs, and a task that an edge or a timer has woken is
  polled. The tasks are the repository's own, so nothing is assumed of users.
- *RunPhase, Runner:* the woken test task is polled, and simulated time passes,
  so that a timeout expires. Bodies need not end.

All of it is weak fairness.

## What is proved

The theorems hold for all values of the constants that satisfy the named
assumptions, which TLC evaluates in every run. Bounds are arbitrary naturals.
The others are what the code provides:

- guards are a finite set, since the registry counts them;
- a sequencer has one driver (`OneDriver`): it is "a queue of items feeding one
  driver", and its methods take it for granted (see the remark on overlapping
  `get_next_item` calls above);
- components are a tree (`TreeAssumption`): nobody owns the root, nothing has two
  owners, and a set that holds the root and, with a component, its children holds
  all of them. The last is the induction principle of trees. Ownership in Rust
  gives all three;
- no signal has the name of a phase (`SignalsAssumption`), and no kind of error
  that of another outcome (`RegistrationsAssumption`): the model uses one set
  of values for both where the code has an enum;
- None, the owner of nothing, is not a component (`BusAssumption`);
- the design makes its error at a count above zero, 127 in `stream_bench.sv`, and
  the conversion of a period to precision steps gives integers
  (`CycleAssumption`; the prover cannot type the power of ten in it);
- the bound of a FIFO, where it has one, is a natural number (`CapAssumption`).

**Executor.** `Invariance` is `Spec => []IInv` with

    IInv == TypeOK /\ OnePollAtATime /\ QueueHoldsScheduled /\ NoLostWakeup
            /\ JoinersAreWoken /\ SelfCancelTakesEffect /\ Bookkeeping

None of these is inductive alone. That no wake is lost needs
`QueueHoldsScheduled`: an entry is Scheduled exactly when it is in the run queue,
so a wake that finds it Scheduled may be dropped. That queue in turn needs
`OnePollAtATime`: only the polled entry is Running. `Bookkeeping` keeps ids that
were not handed out out of every queue and finished tasks out of the map. Each
action has a lemma that it preserves `IInv`. The ways in which a task can end
share `EndOfTask`, and the steps on queues rest on lemmas about membership in a
sequence. From it follow `TypeCorrect`, `PollsAreExclusive`,
`NoWakeIsForgotten`, `SelfCancellation`, the action property `EndsAreFinal`, and
`Exhaustion`: the simulator gets control back with nothing runnable, or the loop
is wedged, which only happens where destructors panic.

**Refinement.** `Refinement` is `Spec => RefinesScheduler`. The
mapping takes the task map, the run queue and the list of outstanding wakes to
one status for each task, and a flag: the task being polled was woken. Under
`IInv`, and the fact that nothing runs before the first spawn (`Started`), the
initial states map to initial states and each action to an abstract step.
`drain_woken` is a stutter, since a parked task with an outstanding wake already
counts as runnable, and a destructor's panic is the abstract `Escape`.

**Lock.** The inductive invariant is `TypeOK /\ OwnershipIsSound /\
UnlockedIsFree`, for any set of clients. `UnlockedIsFree`, that a lock with
somebody in its queue is locked, is what a first poll that finds the lock free
rests on: it overtakes nobody. `Ownership` is then `Spec => []OwnershipIsSound`.
`LockIsFair` is `Spec => RefinesFairLock`: the line is the owner followed by the
queue, so a first poll is an `Ask`, a poll after the grant an `Enter`, and a
dropped guard, a dropped grant and a dropped place in the queue are each a
`Leave`, from the head of the line in the first two cases.

**Tapped FIFO.** `FInv` holds of `FSpec`, with `Bounded` and `Cap` arbitrary:
items leave in order (`FirstInFirstOut`), every put that returned put its item,
the put taps see the items in order, and nobody sleeps while its poll would
complete. The last is why both lists are woken whole: after a put into free space
every putter was awake already, and all getters are woken. `FifoKeepsOrder` adds
`SeenOK`: the get taps have seen ascending places of the traffic, all that left
but what a flush took. Stated over places rather than as a filtered sequence it
needs no induction over data.

**Channel.** The inductive invariant is

    CInv == CTypeOK /\ SendersSend /\ NoSleeperMissesOut
            /\ accepted = taken \o buf /\ (told => tx = {})

A sender's drop wakes the receivers only if it was the last, and a receiver
that finds the buffer empty parks only while senders are left, so nobody sleeps
through the disconnection. With the FIFO's part this is `NobodyMissesOut`.
`Disconnection` is the action property: `Disconnected` comes when the buffer is
empty, hence after everything that was accepted, and since no handle can be made
from none, what comes afterwards is from a send future that outlived its
handle.

**Phases.** The inductive invariant is

    IInv == TypeOK /\ ListsAreTrue /\ NothingIsForgotten /\ CallbackFits /\ LateFits

`NothingIsForgotten` (`WaitsAreServed`) says that what is buffered or awaited has
its callback registered. To be kept it needs `CallbackFits`: a callback has taken
the writes before tasks run in it, no task runs while the simulator has
control, and in the ReadOnly region only the ReadOnly callback runs.
`LateEdgesKeepOrder` (`LateWritesKeepOrder`) needs `LateFits`: where edges come
after the write, the buffer holds one write at most for each signal, a signal
without one has the value last given to it, and no task runs between the writes
of a batch. Applying a write, and replacing one in the buffer, keep this by the
lemmas on `Settles`. `RegionsHold`, `Spec => RegionsAreKept`, is
an action property: in the ReadOnly region a step that writes would have to
be taken by a task, and `CallbackFits` lets it run in phase ReadOnly only, where
a write panics. With edges inside the write the corresponding
claim is false, as `phase_last_write` shows, and `LateFits` says nothing.

**Callbacks.** `Balance` is `CbSpec => []ReferencesBalance`. The invariant says
who holds a reference: the simulator as long as it knows the registration, the
handle, and a trampoline on the stack. It counts one trampoline for each
callback, so it needs `OneTrampoline`: a one-shot callback is released before its
closure runs, a recurring one is borrowed while it runs, so neither is on the
stack twice.

**Sequencer.** The inductive invariant is

    IInv == SeqTypeOK /\ DriverFits /\ OnePlace /\ PayloadFits /\ CurFits
            /\ GrantFits /\ OrderFits

`OnePlace` is its centre: every ticket handed out is in the queue, in the
driver's slot, done or lost, and in one of these only. A dropped `get_next_item`
and a `try_next_item` that puts a slot back move it between them, which is where
an item could be lost or doubled. `PayloadFits` says that a payload is there from
`ready` until the item is handed over, `CurFits` that sequences have tickets of
their own, `DriverFits` that `current` is the driver's slot from the hand-over to
`item_done`. `ItemsSound` follows. `GrantsHold` needs the other two: tickets
leave the queue in ascending order, but for those put back, and whatever was
granted is waited for, driven, put back or dropped.

**Analysis bus.** `BusInv` says that of the item of each broadcast in progress
those who have heard it, followed by those who are to hear it, are the
subscribers of its bus, in order; that broadcasts in progress are about different
items; and that every other item has been heard by all. Nested writes only touch
items of their own, which is what the second part is for. `subs = joined`, and
that nothing was written before the run phase, make the subscribers of an item
those that were ever connected. `TestsUseTheBus` shows that `Elaboration`, for
any tree, overrides and connections, takes the bus through its own steps or
leaves it alone, and `ItemsAreHeardInTests` carries the result over.

**Objections.** The inductive invariant is

    RegInv == RegTypeOK /\ CountIsExact /\ HoldersHaveRaised /\ Consensus
              /\ NoConsensusIsMissed

The last two are `ConsensusIsSound`. The counter has to equal the number of live
guards for the drop that sets the event to be the last one. From it follow
`ConsensusIsExact` and `WaitsEndInConsensus`. `ReportsAreExact` is about the list
behind the warning: as a drop removes the first entry that equals its
description, and not its own, one has to count. Each description is listed as
often as live guards carry it; `Unlist` takes one place from the places of its
description and moves the others.

**Run phase.** `RunPhase` composes the component tree with the registry, and
`RegistryIsKept`, `Spec => RegSpec`, says that it uses the registry only through
its operations. So `RegInv` holds in every test, over any tree, and
with it `ConsensusInTests`; `NobodyIsOverruled`, `Spec => ObjectionsAreHeard`,
follows because a body is stopped, and the runner's wait ends, only where the
event is set or the counter is zero.

**The tree.** `RunsEndWell`, `Spec => []RunsAreAccountedFor`, rests on

    TreeInv == TreeTypeOK /\ StepsFit /\ GoodReturns /\ OutFits /\ EndFits

`StepsFit` says how far a child may be, given its parent: polled only by a parent
that has come to it, and over when the parent returns. What is out of the tree
was taken by a parent whose `run_all` still runs (`OutFits`), so nothing is out
when the root's is over. A `run_all` that returns Ok has seen its own run and all
its children end well (`GoodReturns`). From the root this reaches every component
by the last conjunct of `TreeAssumption`, so no error is swallowed.

**The regression.** `FailuresFit`: while a test runs, a failure is pending
exactly if one of its tasks has panicked. With it `StartsClean` is inductive, and
the verdict that `FinishTest` computes is the one that `PassIsEarned` allows, for
every registration. `NothingIsLeft` and `PassesAreEarned` state both of `MCSpec`.

**Waveform capture.** `CaptureInvariance` is `TraceSpec => []TInv`, which relates
the capture that is open, the files, and the times that have settled:

    TInv == /\ where # "over" => CaptureOK(tracep, waves)
            /\ where = "over" => FinalOK
            /\ PlaceOK /\ AnswerOK

Until the end every dump is of settled values, and a file shows exactly the settled
times between its start and its end, ascending, each as it settled first or as the
capture found it (`CaptureOK`). The open capture knows its count and its last
time, and the loop has dumped every settled time but the one it is at. That is
what keeps a `start`, `flush` or `stop` within a slot, and the dump of the loop
itself, from showing a time twice or skipping one when it has several slots. The
last stop may add one dump of what has not settled (`FinalOK`), if the scheduler
failed or nothing ever settled (`PlaceOK`). `CapturesShowAll` follows, for any
files, times and number of slots.

**Cycle models.** `CycleInv` says for each place of an adapter what the model has
prepared and what the design has counted. Between an edge and the step that
follows it the design is one cycle ahead (`Sampled`); elsewhere they agree
(`InStep`). `Fits` ties the drives to the model's counters: the data driven is
the number of the next transfer, and a design that injects an error has not yet
come to it. Behind VPI, where the clock is a
task of its own, it also says which of the two is due (`Asleep`), and that the
clock's next edge is half a period away (`ClockKept`): a model that slept through
an edge would break both. `CycleModelsAgree` is about both adapters at once.

### Only model-checked

- All liveness: TLAPS does not reason about fairness.
- What the recursive functions of `Config`, `Elaboration`, `Signals`, `Handles`
  and `Logging` compute (`LookupsAreRight`, `OverridesAreHonoured`,
  `WiringIsComplete`, `ParentsDecide`, `ValuesAreExact`, `MessagesAreRouted`):
  matching of globs, walks over a tree, conversions of digits and searches along a
  path all take an induction over data.
- The properties of the testbenches (`StreamsAreOwn`, `NothingIsCutOff`,
  `AnswersAreOwn`). The benches have fixed stimulus, so that their runs check the
  programs as they are, and the device's arithmetic is bitwise.
- The queue used without taps. `TlmFifo` is proved with its taps; the plain
  operations are the same ones without them.

## What comes next

Proofs: `ParentsDecide` and `WiringIsComplete`, with a walk that is a state machine
rather than a recursive function, and the tree's induction principle as in
`TreeAssumption`; and that the executor keeps the promises which the other
modules take from it (a woken task is polled, one at a time).

Of the model: `join2` and `with_timeout`, edge polarity in `Phase`, and the
iterations of the Verilator host within a time slot as an implementation of
`Phase`'s simulator. Modules that are to be proved about declare no RECURSIVE
operator.

## Running it

    tlc -config executor.cfg MCExecutor
    tlc -config primitives.cfg MCPrimitives    # likewise primitives_live.cfg
    tlc -config simulator.cfg MCSimulator      # phase_last_write.cfg, callbacks_unwind.cfg
    tlc -config stimulus.cfg MCStimulus
    tlc -config tests.cfg MCTests              # runner_overrides.cfg
    tlc -config elaboration.cfg MCElaboration  # config_specific.cfg
    tlc -config services.cfg MCServices
    tlapm ExecutorProofs.tla                   # and every other *Proofs

For every property of a passing run `PROJECT.json` names a mutant: a definition
such as `Buffer_NoPrime`, next to the one it alters, that the property refutes.
