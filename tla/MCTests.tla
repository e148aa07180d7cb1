------------------------------ MODULE MCTests -------------------------------
(***************************************************************************)
(* How a test runs and ends, for model checking: a behaviour exercises the *)
(* run phase of one test, with its objection registry, or the regression   *)
(* over several tests, as part says.                                       *)
(***************************************************************************)
EXTENDS RunPhase, TLC

CONSTANTS
  Parts,
  test, env, driver, board,   \* components
  t1,                         \* a spawned task
  N, Kinds, Registrations, MaxTasks

(* A test with a component that stays in place and an environment that is  *)
(* moved out, with a driver of its own.                                    *)
MCComponents == {test, env, driver, board}
MCKids == (test :> <<board, env>>) @@ (env :> <<driver>>) @@ (driver :> <<>>) @@ (board :> <<>>)

(* Everybody may object; the driver and the task give the same reason.     *)
MCGuards == MCComponents \cup {t1}
MCClients == MCComponents \cup {Watcher}
MCDesc == [g \in MCGuards |-> IF g \in {driver, t1} THEN "stimulus" ELSE "drain"]

(* A registration of each sort.                                            *)
Plain == [skip |-> FALSE, timeout |-> FALSE, expect_fail |-> FALSE, expect_error |-> "none"]
Timed == [Plain EXCEPT !.timeout = TRUE]
AllSorts ==
  {Plain, Timed, [Plain EXCEPT !.skip = TRUE], [Timed EXCEPT !.expect_fail = TRUE],
   [Timed EXCEPT !.expect_error = "unconnected"]}

(* A registration expects a failure of some kind, any failure, or none;    *)
(* the names of the kinds are not the names of other ends of a test.       *)
ASSUME RegistrationsAssumption ==
  /\ N \in Nat
  /\ Kinds \cap {"none", "running", "ok", "failed", "panicked", "pass", "fail"} = {}
  /\ Registrations \subseteq
       [skip : BOOLEAN, timeout : BOOLEAN, expect_fail : BOOLEAN, expect_error : {"none"} \cup Kinds]

VARIABLES
  part, reg, dut, i, pc, results, body, tasks, timer, CURRENT_FAILURE, config, overrides, panics

gVars == <<reg, dut, i, pc, results, body, tasks, timer, CURRENT_FAILURE, config, overrides, panics>>

G == INSTANCE Runner

(* The registrations are looked at only where tests are run.               *)
MCInit ==
  /\ part \in Parts
  /\ Init /\ G!Init
  /\ part = "regression" \/ \A t \in DOMAIN reg : reg[t] = Plain

MCNext ==
  \/ part = "run_phase" /\ Next /\ UNCHANGED <<part, gVars>>
  \/ part = "regression" /\ G!Next /\ UNCHANGED <<part, vars>>

MCVars == <<part, vars, gVars>>

MCSpec == MCInit /\ [][MCNext]_MCVars

(* The executor polls the test task or the regression task when it was     *)
(* woken, a poll of a body ends, and simulated time passes.                *)
MCFairSpec ==
  /\ MCSpec
  /\ WF_MCVars(\/ part = "run_phase" /\ TestTask /\ UNCHANGED <<part, gVars>>
               \/ part = "regression" /\ G!Regression /\ UNCHANGED <<part, vars>>)
  /\ WF_MCVars(part = "regression" /\ G!TimerFires /\ UNCHANGED <<part, vars>>)
-----------------------------------------------------------------------------
(* The run phase leaves no component outside the tree and no failed run    *)
(* unreported, and a test meets nothing of the tests before it.            *)
NothingIsLeftBehind == RunsAreAccountedFor /\ G!StartsClean

(* Runner: a test passes only for the reason its registration gives.       *)
PassIsEarned == G!PassIsEarned

(* A lasting consensus ends the run phase, and timeouts the regression.    *)
TestsEnd == ConsensusEndsPhase /\ (part = "regression" => G!RegressionEnds)

(* Runner: sequence overrides are those of the test that runs.             *)
OverridesAreOwn == G!OverridesAreOwn
=============================================================================
