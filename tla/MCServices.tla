----------------------------- MODULE MCServices -----------------------------
(***************************************************************************)
(* The services around the scheduler, for model checking: values and       *)
(* handles of the simulator's objects, logging, waveform capture, and the  *)
(* cycle backend.  A behaviour exercises one of them, named by part.       *)
(***************************************************************************)
EXTENDS Integers, Sequences, FiniteSets, TLC, TraceCapture, Cycle

CONSTANTS
  Parts,
  Word, Widths, Ints,                         \* Signals
  Levels, Files, MaxCalls, MaxLines, MaxTests \* Logging

VARIABLES
  part,
  width, offered, image, put, bits,
  handle, path, value, supplied, written,
  THRESHOLD, TARGET_LEVELS, TARGET_CONSOLE, TARGET_FILES, LOG_FILE, disk, opened, calls,
  last, count, owed, mixed

(* Short strings over all four values, and some longer than a word.        *)
MCStrings ==
  UNION {[1..n -> {"0", "1", "x", "Z"}] : n \in 0..2}
    \cup {<<"z", "1", "0", "?", "1">>, [i \in 1..9 |-> "1"], <<"x", "0", "0", "0", "0">>}

(* A design with an object of every kind, one of them without a width.     *)
Obj(type, size) == [type |-> type, size |-> size]
MCObjects ==
  (<<"tb">> :> Obj("Module", 0)) @@ (<<"clk">> :> Obj("Net", 1)) @@ (<<"tb", "clk">> :> Obj("Net", 1))
    @@ (<<"tb", "n">> :> Obj("IntVar", 32)) @@ (<<"tb", "r">> :> Obj("RealVar", 64))
    @@ (<<"tb", "s">> :> Obj("StringVar", 0)) @@ (<<"tb", "u">> :> Obj("StructVar", 0))
    @@ (<<"tb", "u", "r">> :> Obj("RealVar", 0)) @@ (<<"tb", "u", "n">> :> Obj("BitVar", -1))
    @@ (<<"tb", "d">> :> Obj("Module", 0)) @@ (<<"tb", "d", "s">> :> Obj("Reg", 8))
    @@ (<<"tb", "g">> :> Obj("GenScope", 0))

(* A path, one below it, and one whose text begins with the first's.       *)
MCPaths == {<<>>, <<"a">>, <<"a", "b">>, <<"ab">>}

(* One period below a coarse precision, one odd, one of many steps, and    *)
(* one of more picoseconds than fit (or, wrapped, of 904).                 *)
MCPeriods == {[n |-> 1, exp |-> -9], [n |-> 3, exp |-> -12], [n |-> 2000, exp |-> -12], [n |-> 5, exp |-> -9]}
MCPrecisions == {-12, -9}

Sig == INSTANCE Signals WITH Strings <- MCStrings
Han == INSTANCE Handles WITH
  Objects <- MCObjects, Names <- {"tb", "clk", "n", "r", "s", "u", "d", "g", "q", "NUL"},
  Texts <- {<<>>, <<"a">>, <<"a", "NUL", "b">>}
Log == INSTANCE Logging WITH Paths <- MCPaths

signalVars == <<width, offered, image, put, bits>>
handleVars == <<handle, path, value, supplied, written>>
logVars == <<THRESHOLD, TARGET_LEVELS, TARGET_CONSOLE, TARGET_FILES, LOG_FILE, disk, opened, calls,
             last, count, owed, mixed>>

NoSignal == width = 0 /\ offered = FALSE /\ image = <<>> /\ put = <<>> /\ bits = <<>>
NoHandle == handle = <<>> /\ path = <<>> /\ value = <<>> /\ supplied = <<>> /\ written = <<>>
NoLog ==
  /\ THRESHOLD = 0 /\ TARGET_LEVELS = <<>> /\ TARGET_CONSOLE = <<>> /\ TARGET_FILES = <<>> /\ LOG_FILE = <<>>
  /\ disk = <<>> /\ opened = <<>> /\ calls = <<>> /\ last = <<>> /\ count = <<>> /\ owed = <<>> /\ mixed = {}

MCInit ==
  /\ part \in Parts
  /\ IF part = "signals" THEN Sig!SignalInit ELSE NoSignal
  /\ IF part = "handles" THEN Han!HandleInit ELSE NoHandle
  /\ IF part = "logging" THEN Log!LogInit ELSE NoLog
  /\ TraceInit /\ (part # "trace" => host = "none")
  /\ CycleInit
  /\ part # "cycle" => backend = "vpi" /\ steps = 2 /\ model.target = 1 /\ model.inject = 0

MCNext ==
  /\ UNCHANGED part
  /\ \/ part = "signals" /\ Sig!SignalNext /\ UNCHANGED <<handleVars, logVars, traceVars, cycleVars>>
     \/ part = "handles" /\ Han!HandleNext /\ UNCHANGED <<signalVars, logVars, traceVars, cycleVars>>
     \/ part = "logging" /\ Log!LogNext /\ UNCHANGED <<signalVars, handleVars, traceVars, cycleVars>>
     \/ part = "trace" /\ TraceNext /\ UNCHANGED <<signalVars, handleVars, logVars, cycleVars>>
     \/ part = "cycle" /\ CycleNext /\ UNCHANGED <<signalVars, handleVars, logVars, traceVars>>

MCSpec == MCInit /\ [][MCNext]_<<part, signalVars, handleVars, logVars, traceVars, cycleVars>>
-----------------------------------------------------------------------------
(* Values are the same on both sides of the simulator's interface, and     *)
(* handles name the objects that they were asked for.                      *)
ValuesAreExact ==
  /\ part = "signals" => Sig!ValuesAreExact
  /\ part = "handles" => Han!HandlesAreTrue

(* Messages go where the calls of their own test say.                      *)
MessagesAreRouted == part = "logging" => Log!MessagesAreRouted
=============================================================================
