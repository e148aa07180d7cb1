------------------------------ MODULE RunPhase ------------------------------
(***************************************************************************)
(* The phaser of a component test (component.rs): elaboration, the run     *)
(* phase over the component tree, the post-run phases, and the runner's    *)
(* wait for the last objections (rustdv_runner.rs).                        *)
(*                                                                         *)
(* The whole tree runs in one task.  A poll of run_all visits the tree in  *)
(* a fixed order; every component's run body that is not finished is       *)
(* polled once in it, and then its wait for the drained event.  Nothing    *)
(* else runs during a poll; between polls, spawned tasks raise and drop    *)
(* objections.  The registry is module Objections, with one guard per      *)
(* component and per spawned task.  A component may object in any phase    *)
(* and keep its guard in a field, which lives as long as the tree.         *)
(***************************************************************************)
EXTENDS Objections, Functions

CONSTANTS
  Components, Root,
  Kids,        \* the children of each component, in order
  InPlace,     \* children that take_children cannot move out of their parent
  Tasks,       \* spawned tasks that hold a clone of the context
  Watcher,     \* the runner's wait_all_dropped
  Fallible,    \* components whose run may fail
  MaxRaises    \* bound: objections raised in a test

Children(c) == Range(Kids[c])

(* Components and tasks hold the guards; the run of every component and    *)
(* the runner wait for the consensus.                                      *)
ASSUME RunPhaseAssumption ==
  /\ Root \in Components /\ InPlace \subseteq Components \ {Root}
  /\ Kids \in [Components -> Seq(Components)]
  /\ Watcher \notin Components /\ Fallible \subseteq Components /\ MaxRaises \in Nat
  /\ Guards = Components \cup Tasks /\ Clients = Components \cup {Watcher}

(* A component owns its children, so the components are a tree: nobody     *)
(* owns the root, nothing has two owners, and everything is reached from   *)
(* the root.                                                               *)
ASSUME TreeAssumption ==
  /\ \A c \in Components : Root \notin Children(c)
  /\ \A c, d \in Components : Children(c) \cap Children(d) # {} => c = d
  /\ \A S \in SUBSET Components :
       Root \in S /\ (\A c \in S : Children(c) \subseteq S) => S = Components

VARIABLES
  phase,    \* "elab", "run", "consensus", "end", or "dead" after a panic
  step,     \* run_all of a component: "none", "in_place", "joined", "returned"
  failed,   \* the components whose run_all has returned Err
  own,      \* run_one: "none", "running", "ok", "err", "stopped"
  out,      \* the components that are moved out of the tree
  todo,     \* what is left to visit in this poll of the test task
  woken,    \* something has woken the test task since its last poll
  outcome,  \* "none", "ok", "err"
  raises    \* objections raised so far

tree == <<step, failed, own, out>>
vars == <<phase, tree, todo, woken, outcome, raises, regVars>>

Taken(c) == Children(c) \ InPlace
Kept(c) == Children(c) \cap InPlace

(* The order of a poll of run_all: enter a node, poll the children that    *)
(* stayed, join them, poll the children that were taken, and the node's    *)
(* own run.                                                                *)
Visits[c \in Components] ==
  LET Of(kept) ==
        LET Upto[k \in 0..Len(Kids[c])] ==
              IF k = 0 THEN <<>>
              ELSE IF (Kids[c][k] \in InPlace) = kept THEN Upto[k - 1] \o Visits[Kids[c][k]]
              ELSE Upto[k - 1]
        IN  Upto[Len(Kids[c])]
  IN  <<<<"enter", c>>>> \o Of(TRUE) \o <<<<"join", c>>>> \o Of(FALSE) \o <<<<"own", c>>>>

Parent(c) == CHOOSE p \in Components : c \in Children(p)

(* run_all(c) exists and its parent polls it.                              *)
Polled(c) ==
  /\ step[c] # "returned"
  /\ \/ c = Root
     \/ c \in InPlace /\ step[Parent(c)] = "in_place"
     \/ c # Root /\ c \notin InPlace /\ step[Parent(c)] = "joined"

Init ==
  /\ phase = "elab"
  /\ step = [c \in Components |-> "none"] /\ failed = {}
  /\ own = [c \in Components |-> "none"] /\ out = {}
  /\ todo = <<>> /\ woken = TRUE /\ outcome = "none" /\ raises = 0
  /\ RegInit
-----------------------------------------------------------------------------
(* The walks before and after the run phase; the runner does not wait yet. *)
InWalk == phase = "elab" \/ (phase = "consensus" /\ fut[Watcher] = "idle")

(* A component objects in a phase other than run.                          *)
WalkRaises(c) ==
  /\ InWalk /\ raises < MaxRaises
  /\ raise(c)
  /\ raises' = raises + 1
  /\ UNCHANGED <<phase, tree, todo, woken, outcome>>

(* build, connect, check_connections and the walks up to the run phase: a  *)
(* test with a port that nobody connected ends here, and so does one that  *)
(* panics.                                                                 *)
Elaborate ==
  /\ phase = "elab"
  /\ \/ phase' = "run" /\ UNCHANGED outcome
     \/ phase' \in {"consensus", "dead"} /\ outcome' = "err"
  /\ UNCHANGED <<tree, todo, woken, raises, regVars>>

(* The executor polls the test task.                                       *)
StartPoll ==
  /\ phase = "run" /\ todo = <<>>
  /\ woken \/ \E c \in Components : fut[c] = "drained" /\ ready[c]
  /\ todo' = Visits[Root] /\ woken' = FALSE
  /\ UNCHANGED <<phase, tree, outcome, raises, regVars>>

Visiting(kind, c) == phase = "run" /\ todo # <<>> /\ Head(todo) = <<kind, c>>

(* The poll goes on to the next visit, or ends.                            *)
Onward == todo' = Tail(todo)

Skip(kind, c) ==
  /\ Visiting(kind, c)
  /\ CASE kind = "enter" -> ~Polled(c) \/ step[c] # "none"
       [] kind = "join"  -> step[c] # "in_place" \/ \E d \in Kept(c) : step[d] # "returned"
       [] kind = "own"   -> step[c] # "joined"
  /\ Onward
  /\ UNCHANGED <<phase, tree, woken, outcome, raises, regVars>>

(* take_children, and the futures of the children that stay.               *)
Enter(c) ==
  /\ Visiting("enter", c) /\ Polled(c) /\ step[c] = "none"
  /\ step' = [step EXCEPT ![c] = "in_place"]
  /\ out' = out \cup Taken(c)
  /\ Onward
  /\ UNCHANGED <<phase, failed, own, woken, outcome, raises, regVars>>

(* The join of the children that stayed: an error returns at once, with    *)
(* restore_children; otherwise the taken ones and run_one start.           *)
JoinKept(c) ==
  /\ Visiting("join", c) /\ step[c] = "in_place"
  /\ \A d \in Kept(c) : step[d] = "returned"
  /\ IF Kept(c) \cap failed # {}
       THEN /\ step' = [step EXCEPT ![c] = "returned"]
            /\ failed' = failed \cup {c}
            /\ out' = out \ Taken(c)
            /\ UNCHANGED <<own, regVars>>
       ELSE /\ step' = [step EXCEPT ![c] = "joined"]
            /\ own' = [own EXCEPT ![c] = "running"]
            /\ wait_drained_event(c)
            /\ UNCHANGED <<failed, out>>
  /\ Onward
  /\ UNCHANGED <<phase, woken, outcome, raises>>

(* The join of the taken children with the node's own run, whose state is  *)
(* now r: restore_children and the first error, once all are done.         *)
JoinTaken(c, r) ==
  IF r # "running" /\ \A d \in Taken(c) : step[d] = "returned"
    THEN /\ step' = [step EXCEPT ![c] = "returned"]
         /\ failed' = IF r = "err" \/ Taken(c) \cap failed # {} THEN failed \cup {c} ELSE failed
         /\ out' = out \ Taken(c)
    ELSE UNCHANGED <<step, failed, out>>

(* The run of c was over before this poll.                                 *)
OwnIsOver(c) ==
  /\ Visiting("own", c) /\ step[c] = "joined" /\ own[c] # "running"
  /\ JoinTaken(c, own[c])
  /\ Onward
  /\ UNCHANGED <<phase, own, woken, outcome, raises, regVars>>

InBody(c) == Visiting("own", c) /\ step[c] = "joined" /\ own[c] = "running"

BodyRaises(c) ==
  /\ InBody(c) /\ raises < MaxRaises
  /\ raise(c)
  /\ raises' = raises + 1
  /\ UNCHANGED <<phase, tree, todo, woken, outcome>>

BodyDrops(c) ==
  /\ InBody(c)
  /\ drop(c)
  /\ UNCHANGED <<phase, tree, todo, woken, outcome, raises>>

(* The body is pending, and first2 polls the wait: a consensus stops it.   *)
BodyPends(c) ==
  /\ InBody(c)
  /\ Poll(c)
  /\ own' = IF drained THEN [own EXCEPT ![c] = "stopped"] ELSE own
  /\ JoinTaken(c, own'[c])
  /\ Onward
  /\ UNCHANGED <<phase, woken, outcome, raises>>

(* The body returns: first2 drops the wait.  Its guard may live on, in a   *)
(* field of the component.                                                 *)
BodyReturns(c) ==
  /\ InBody(c)
  /\ \E r \in {"ok"} \cup (IF c \in Fallible THEN {"err"} ELSE {}) :
       own' = [own EXCEPT ![c] = r] /\ JoinTaken(c, r)
  /\ Cancel(c)
  /\ Onward
  /\ UNCHANGED <<phase, woken, outcome, raises>>

(* A panic ends the test task.                                             *)
BodyPanics(c) ==
  /\ InBody(c) /\ c \in Fallible
  /\ phase' = "dead" /\ todo' = <<>> /\ outcome' = "err"
  /\ UNCHANGED <<tree, woken, raises, regVars>>

(* The tree goes, after a panic or after the last phase, and with it the   *)
(* guards in it.                                                           *)
TreeDrops(c) ==
  /\ phase = "dead" \/ (InWalk /\ phase # "elab")
  /\ drop(c)
  /\ UNCHANGED <<phase, tree, todo, woken, outcome, raises>>

(* Something that a pending body awaits happens.                           *)
Wake ==
  /\ phase = "run" /\ todo = <<>> /\ ~woken
  /\ \E c \in Components : own[c] = "running"
  /\ woken' = TRUE
  /\ UNCHANGED <<phase, tree, todo, outcome, raises, regVars>>

TaskRaises(t) ==
  /\ todo = <<>> /\ phase \in {"run", "consensus"} /\ raises < MaxRaises
  /\ raise(t)
  /\ raises' = raises + 1
  /\ UNCHANGED <<phase, tree, todo, woken, outcome>>

TaskDrops(t) ==
  /\ todo = <<>> /\ phase \in {"run", "consensus"}
  /\ drop(t)
  /\ UNCHANGED <<phase, tree, todo, woken, outcome, raises>>

(* run_all has returned: extract, check, report and final walk the tree,   *)
(* and the check may fail, or one of them panic.                           *)
PostRun ==
  /\ phase = "run" /\ todo = <<>> /\ step[Root] = "returned"
  /\ \/ /\ phase' = "consensus"
        /\ \E check \in {"ok", "err"} : outcome' = IF Root \in failed THEN "err" ELSE check
     \/ phase' = "dead" /\ outcome' = "err"
  /\ UNCHANGED <<tree, todo, woken, raises, regVars>>

(* Mutant: the runner does not wait.                                       *)
AwaitObjections_Never ==
  /\ phase = "consensus" /\ fut[Watcher] = "idle"
  /\ phase' = "end"
  /\ UNCHANGED <<tree, todo, woken, outcome, raises, regVars>>

(* The tree is gone.  The runner waits for the objections that are left,   *)
(* if there ever were any.                                                 *)
AwaitObjections ==
  /\ phase = "consensus" /\ fut[Watcher] = "idle"
  /\ guards \cap Components = {}
  /\ IF raised_ever THEN wait_all_dropped(Watcher) ELSE UNCHANGED regVars
  /\ phase' = IF ~raised_ever \/ count = 0 THEN "end" ELSE phase
  /\ UNCHANGED <<tree, todo, woken, outcome, raises>>

PollWatcher ==
  /\ phase = "consensus" /\ ready[Watcher]
  /\ Poll(Watcher)
  /\ phase' = IF drained THEN "end" ELSE phase
  /\ UNCHANGED <<tree, todo, woken, outcome, raises>>

TestTask ==
  \/ Elaborate \/ StartPoll \/ PostRun \/ AwaitObjections \/ PollWatcher
  \/ \E c \in Components :
       \/ \E kind \in {"enter", "join", "own"} : Skip(kind, c)
       \/ Enter(c) \/ JoinKept(c) \/ OwnIsOver(c)
       \/ BodyRaises(c) \/ BodyDrops(c) \/ BodyPends(c) \/ BodyReturns(c)
       \/ BodyPanics(c) \/ WalkRaises(c) \/ TreeDrops(c)

Next ==
  \/ TestTask
  \/ Wake
  \/ \E t \in Tasks : TaskRaises(t) \/ TaskDrops(t)

Spec == Init /\ [][Next]_vars
-----------------------------------------------------------------------------
(* In this step nobody is overruled.                                       *)
HeardStep ==
  /\ \A c \in Components :
       own[c] = "running" /\ own'[c] = "stopped" => raised_ever /\ guards = {}
  /\ phase' = "end" /\ phase # "end" => guards = {}

(* Objections are heard: a run body is stopped only in a consensus, where  *)
(* somebody has objected and nobody does, the body itself included, and    *)
(* the test ends only when nobody objects.                                 *)
ObjectionsAreHeard == [][HeardStep]_vars

(* After the run phase every component is back in the tree, whichever way  *)
(* the runs ended, and if no error is reported every run has ended without *)
(* one.                                                                    *)
RunsAreAccountedFor ==
  phase \in {"consensus", "end"} =>
    /\ out = {}
    /\ outcome = "ok" => \A c \in Components : own[c] \in {"ok", "stopped"}

(* When the last objection is dropped for good, the run phase ends, with   *)
(* the runs that would never return.                                       *)
ConsensusEndsPhase == (phase = "run" /\ []drained) ~> phase # "run"
=============================================================================
