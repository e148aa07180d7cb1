------------------------------- MODULE Runner -------------------------------
(***************************************************************************)
(* The regression (rustdv_runner.rs): tests run one after the other in the *)
(* regression task, each as a task of its own that may spawn others; the   *)
(* verdict of a test comes from how its task ended, its timeout, panics    *)
(* reported by other tasks, and what the registration expects.             *)
(*                                                                         *)
(* A test's body is the task that RunPhase models; here it only ends, in   *)
(* one of several ways.  Between two steps of the regression task other    *)
(* tasks run in any order (Executor).                                      *)
(***************************************************************************)
EXTENDS Naturals, FiniteSets

CONSTANTS
  N,              \* number of tests; test i is the i-th in (file, line) order
  Registrations,  \* the registrations to try
  Kinds,          \* classified causes of failure
  MaxTasks        \* bound: tasks that a test has spawned and that are alive

Tests == 1..N

VARIABLES
  reg,       \* the registration of each test
  dut,       \* the simulation has a design
  i,         \* the test the regression has come to
  pc,        \* "loop", "clean", "await", "done", or "dead" after a panic
  results,   \* the verdict of each test: "none", "pass", "fail", "skip"
  body,      \* the test task: "none", "running", "ok", "failed" (Err without
             \* a kind), "panicked", or the kind of its Err
  tasks,     \* how many other tasks are alive
  timer,     \* the timeout has expired
  CURRENT_FAILURE,  \* the test in which a panic was reported first; 0 is None
  config,    \* the tests whose entries the ConfigDb holds
  overrides, \* the tests whose entries SEQ_OVERRIDES holds
  panics     \* history: the tests in which a panic was reported

vars == <<reg, dut, i, pc, results, body, tasks, timer, CURRENT_FAILURE, config, overrides, panics>>
ambient == <<config, overrides>>

Init ==
  /\ reg \in [Tests -> Registrations] /\ dut \in BOOLEAN
  /\ i = 1 /\ pc = "loop"
  /\ results = [t \in Tests |-> "none"]
  /\ body = "none" /\ tasks = 0 /\ timer = FALSE
  /\ CURRENT_FAILURE = 0
  /\ config = {} /\ overrides = {} /\ panics = {}
-----------------------------------------------------------------------------
(* The loop of the regression: done, a test to skip, or one to run.        *)
regression ==
  /\ pc = "loop"
  /\ IF i > N THEN pc' = "done" /\ UNCHANGED <<i, results>>
     ELSE IF reg[i].skip
       THEN results' = [results EXCEPT ![i] = "skip"] /\ i' = i + 1 /\ UNCHANGED pc
       ELSE pc' = "clean" /\ UNCHANGED <<i, results>>
  /\ UNCHANGED <<reg, dut, body, tasks, timer, CURRENT_FAILURE, ambient, panics>>

(* run_one once the simulator has left ReadOnly: the ConfigDb is cleared   *)
(* and the test task spawned.                                              *)
StartTest ==
  /\ pc = "clean" /\ dut
  /\ config' = {}
  /\ body' = "running" /\ timer' = FALSE /\ pc' = "await"
  /\ UNCHANGED <<reg, dut, i, results, tasks, CURRENT_FAILURE, overrides, panics>>

(* top_module() finds no design: the test fails, whatever it expects.      *)
NoDut ==
  /\ pc = "clean" /\ ~dut
  /\ config' = {}
  /\ results' = [results EXCEPT ![i] = "fail"]
  /\ i' = i + 1 /\ pc' = "loop"
  /\ UNCHANGED <<reg, dut, body, tasks, timer, CURRENT_FAILURE, overrides, panics>>
-----------------------------------------------------------------------------
(* What the test's tasks do.                                               *)

Alive == body = "running" \/ tasks > 0

Spawn ==
  /\ pc = "await" /\ Alive /\ tasks < MaxTasks
  /\ tasks' = tasks + 1
  /\ UNCHANGED <<reg, dut, i, pc, results, body, timer, CURRENT_FAILURE, ambient, panics>>

Configure ==
  /\ pc = "await" /\ Alive
  /\ \/ config' = config \cup {i} /\ UNCHANGED overrides
     \/ overrides' = overrides \cup {i} /\ UNCHANGED config
  /\ UNCHANGED <<reg, dut, i, pc, results, body, tasks, timer, CURRENT_FAILURE, panics>>

(* The failure sinks keep the first message.                               *)
Report ==
  /\ CURRENT_FAILURE' = IF CURRENT_FAILURE = 0 THEN i ELSE CURRENT_FAILURE
  /\ panics' = panics \cup {i}

(* A callback that a test has registered itself and forgotten, perhaps in  *)
(* an earlier test, panics: while the test runs, or while it waits for the *)
(* end of ReadOnly.                                                        *)
CallbackPanics ==
  /\ dut
  /\ pc = "await" \/ (pc = "clean" /\ \E t \in 1..(i - 1) : ~reg[t].skip)
  /\ Report
  /\ UNCHANGED <<reg, dut, i, pc, results, body, tasks, timer, ambient>>

TaskEnds ==
  /\ pc = "await" /\ tasks > 0
  /\ tasks' = tasks - 1
  /\ Report \/ UNCHANGED <<CURRENT_FAILURE, panics>>
  /\ UNCHANGED <<reg, dut, i, pc, results, body, timer, ambient>>

BodyEnds ==
  /\ pc = "await" /\ body = "running"
  /\ \/ body' \in {"ok", "failed"} \cup Kinds /\ UNCHANGED <<CURRENT_FAILURE, panics>>
     \/ body' = "panicked" /\ Report
  /\ UNCHANGED <<reg, dut, i, pc, results, tasks, timer, ambient>>

TimerFires ==
  /\ pc = "await" /\ reg[i].timeout /\ ~timer
  /\ timer' = TRUE
  /\ UNCHANGED <<reg, dut, i, pc, results, body, tasks, CURRENT_FAILURE, ambient, panics>>
-----------------------------------------------------------------------------
(* The end of run_one.                                                     *)

(* Mutant: only the test task counts.                                      *)
Raw_BodyOnly ==
  CASE body = "ok" -> "pass"
    [] body \in Kinds -> body
    [] OTHER -> "fail"

(* The outcome before expectations: "pass", "fail", or the kind of the     *)
(* failure.  A body that has ended wins over its timeout.                  *)
Raw ==
  CASE body = "running" -> "fail"
    [] body = "ok" -> IF CURRENT_FAILURE # 0 THEN "fail" ELSE "pass"
    [] body \in Kinds -> body
    [] OTHER -> "fail"

(* What the registration makes of it.                                      *)
Verdict(r) ==
  CASE r.expect_error # "none" -> IF Raw = r.expect_error THEN "pass" ELSE "fail"
    [] r.expect_error = "none" /\ r.expect_fail -> IF Raw = "pass" THEN "fail" ELSE "pass"
    [] OTHER -> IF Raw = "pass" THEN "pass" ELSE "fail"

Decided == body # "running" \/ (reg[i].timeout /\ timer)

(* Mutant: the handle is awaited whatever the timeout.                     *)
FinishTest_NoTimeout ==
  /\ pc = "await" /\ body # "running"
  /\ results' = [results EXCEPT ![i] = Verdict(reg[i])]
  /\ CURRENT_FAILURE' = 0 /\ tasks' = 0
  /\ body' = "none" /\ timer' = FALSE
  /\ i' = i + 1 /\ pc' = "loop"
  /\ UNCHANGED <<reg, dut, ambient, panics>>

(* Mutant: the failure is only taken when it decides the outcome.          *)
FinishTest_LazyTake ==
  /\ pc = "await" /\ Decided
  /\ results' = [results EXCEPT ![i] = Verdict(reg[i])]
  /\ CURRENT_FAILURE' = IF body = "ok" THEN 0 ELSE CURRENT_FAILURE
  /\ tasks' = 0
  /\ body' = "none" /\ timer' = FALSE
  /\ i' = i + 1 /\ pc' = "loop"
  /\ UNCHANGED <<reg, dut, ambient, panics>>

(* The handle or the timer is done: cancel_after, the verdict, and the     *)
(* background failure taken.                                               *)
FinishTest ==
  /\ pc = "await" /\ Decided
  /\ results' = [results EXCEPT ![i] = Verdict(reg[i])]
  /\ CURRENT_FAILURE' = 0 /\ tasks' = 0
  /\ body' = "none" /\ timer' = FALSE
  /\ i' = i + 1 /\ pc' = "loop"
  /\ UNCHANGED <<reg, dut, ambient, panics>>

(* A drop in cancel_after panics: it unwinds the regression task.          *)
DropPanics ==
  /\ pc = "await" /\ Decided /\ Alive
  /\ pc' = "dead"
  /\ Report
  /\ UNCHANGED <<reg, dut, i, results, body, tasks, timer, ambient>>

Regression == regression \/ StartTest \/ NoDut \/ FinishTest

Next ==
  \/ Regression \/ DropPanics
  \/ Spawn \/ Configure \/ CallbackPanics \/ TaskEnds \/ BodyEnds \/ TimerFires

Spec == Init /\ [][Next]_vars
-----------------------------------------------------------------------------
(* A test meets nothing of the tests before it: none of their tasks, of    *)
(* the failures reported before it began, or of their configuration.  (A   *)
(* callback that outlives its test counts against the one it panics in.)   *)
StartsClean ==
  /\ pc \in {"loop", "done"} => CURRENT_FAILURE = 0
  /\ pc \in {"loop", "clean", "done"} => tasks = 0
  /\ pc \in {"clean", "await"} => CURRENT_FAILURE \in {0, i}
  /\ pc = "await" => config \subseteq {i}

(* A test that expects one cause of failure passes only by failing for     *)
(* that cause, one that expects any failure only if it failed, and any     *)
(* other only if no task and no callback has panicked in it.               *)
PassIsEarned ==
  [][\A t \in Tests : results[t] # "pass" /\ results'[t] = "pass" =>
       IF reg[t].expect_error # "none" THEN body = reg[t].expect_error
       ELSE reg[t].expect_fail <=> body # "ok" \/ t \in panics]_vars

(* If every test has a timeout the regression comes to its end, though     *)
(* bodies hang and leave tasks behind, unless a destructor's panic kills   *)
(* the regression task.                                                    *)
RegressionEnds ==
  (\A t \in Tests : reg[t].timeout \/ reg[t].skip) => <>(pc \in {"done", "dead"})

(* Sequence overrides are those of the test that runs.                     *)
OverridesAreOwn == pc = "await" => overrides \subseteq {i}
=============================================================================
