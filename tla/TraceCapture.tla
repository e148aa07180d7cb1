---------------------------- MODULE TraceCapture ----------------------------
(***************************************************************************)
(* Runtime waveform capture: the Rust half (simulator_trace.rs), which any *)
(* task may call at any time, and the host half (RuntimeTrace and the main *)
(* loop of sim/verilator_main.cpp), which dumps one set of values per      *)
(* time.  A time may have several slots, and its values settle in each.  A *)
(* dump is the time, the region that it was made in (the values have       *)
(* settled in ReadOnly) and the number of times that they had settled; a   *)
(* file is what was dumped to it.                                          *)
(***************************************************************************)
EXTENDS Naturals, Sequences

CONSTANTS
  TracePaths,  \* the capture files that may be asked for
  MaxTime,     \* bound on simulation time
  MaxSettles   \* bound on the slots of one time

VARIABLES
  host,     \* the symbols the simulator exports, and what is behind them
  where,    \* where the host's main loop is
  now,      \* simulation time
  settled,  \* how often the values have settled at this time
  ok,       \* scheduler_ok
  tracep,   \* the RuntimeTrace object
  waves,    \* the capture files: path to [start, first, end, dumps]
  visited,  \* the times whose values settled
  answer    \* the last call of the testbench, and what it got

traceVars == <<host, where, now, settled, ok, tracep, waves, visited, answer>>

(* "none": no trace symbols; "legacy": only the old control symbol; "fst"  *)
(* and "fast": this host with and without --trace-fst; "other": another    *)
(* simulator's.                                                            *)
Hosts == {"none", "legacy", "fst", "fast", "other"}

\* The codes that the host's control function returns, and what Rust makes of them.
Codes == [Unavailable |-> 1, Host |-> 2, InvalidPath |-> 3, WrongState |-> 4]

Commands == {"status", "start", "stop", "flush"}

Closed == [active |-> FALSE, path |-> "", start |-> 0, end |-> 0, count |-> 0, dumpedNow |-> FALSE]

TraceInit ==
  /\ host \in Hosts
  /\ where = "boot" /\ now = 0 /\ settled = 0 /\ ok = TRUE
  /\ tracep = Closed
  /\ waves = [p \in {} |-> 0]
  /\ visited = {}
  /\ answer = [command |-> "none", result |-> "none"]

-----------------------------------------------------------------------------
(* RuntimeTrace, on a record of its fields and the files. *)

Capture == [trace |-> tracep, files |-> waves]

\* A file with the present values added.
Dumped(f) == [f EXCEPT !.dumps = Append(@, [at |-> now, region |-> where, settled |-> settled]), !.end = now]

\* The same time is dumped once: has_last_dump_time_ and last_dump_time_.
dump_settled_time(c) ==
  IF ~c.trace.active \/ c.trace.dumpedNow THEN c
  ELSE [trace |-> [c.trace EXCEPT !.end = now, !.count = @ + 1, !.dumpedNow = TRUE],
        files |-> [c.files EXCEPT ![c.trace.path] = Dumped(@)]]

\* A start that forgets to clear has_last_dump_time_.
start_KeepsLast(c, path, dump_now) ==
  LET opened == [trace |-> [active |-> TRUE, path |-> path, start |-> now, end |-> now, count |-> 0,
                            dumpedNow |-> c.trace.dumpedNow],
                 files |-> [p \in DOMAIN c.files \cup {path} |->
                              IF p = path THEN [start |-> now, first |-> settled, end |-> now, dumps |-> <<>>]
                              ELSE c.files[p]]]
  IN  IF dump_now THEN dump_settled_time(opened) ELSE opened

\* The file is created or truncated, the counters start again, and the present values are dumped
\* when there are any.
start(c, path, dump_now) ==
  LET opened == [trace |-> [active |-> TRUE, path |-> path, start |-> now, end |-> now, count |-> 0,
                            dumpedNow |-> FALSE],
                 files |-> [p \in DOMAIN c.files \cup {path} |->
                              IF p = path THEN [start |-> now, first |-> settled, end |-> now, dumps |-> <<>>]
                              ELSE c.files[p]]]
  IN  IF dump_now THEN dump_settled_time(opened) ELSE opened

\* The writer would not open: what was at the path is gone.
removed(c, path) ==
  [c EXCEPT !.files = [p \in DOMAIN c.files \ {path} |-> c.files[p]]]

stop(c) ==
  LET d == dump_settled_time(c)
  IN  [trace |-> [d.trace EXCEPT !.active = FALSE, !.end = now],
       files |-> [d.files EXCEPT ![d.trace.path] = [@ EXCEPT !.end = now]]]

\* The host's control function: [code, capture], where open is how opening a file goes.
rustdv_simulator_trace_control(command, path, open) ==
  LET c == Capture
      none(code) == [code |-> code, capture |-> c]
  IN  IF host = "fast" THEN none(Codes.Unavailable)
      ELSE CASE command = "status" -> none(0)
             [] command = "start" ->
                  IF tracep.active THEN none(Codes.WrongState)
                  ELSE IF path = "" THEN none(Codes.InvalidPath)
                  ELSE IF open = "no_file" THEN none(Codes.Host)
                  ELSE IF open = "no_writer" THEN [code |-> Codes.Host, capture |-> removed(c, path)]
                  ELSE [code |-> 0, capture |-> start(c, path, TRUE)]
             [] command = "stop" ->
                  IF tracep.active THEN [code |-> 0, capture |-> stop(c)] ELSE none(Codes.WrongState)
             [] command = "flush" ->
                  IF tracep.active THEN [code |-> 0, capture |-> dump_settled_time(c)]
                  ELSE none(Codes.WrongState)

-----------------------------------------------------------------------------
(* The Rust half. *)

\* Does the executable export one of the two control symbols?
load_control == host # "none"

\* The format that the host says it writes; an old host can only write FST.
host_format(raw) ==
  CASE host = "none" -> "None"
    [] host = "other" -> IF raw = 1 THEN "Fst" ELSE "Other"
    [] OTHER -> "Fst"

\* Where the testbench has control: at the start and the end of simulation too, in no phase.
Running == {"starting", "timed", "settling", "ro", "ended"}

current_phase == IF where = "ro" THEN "ReadOnly" ELSE "Other"

\* Is control refused before the host is asked?
Refused == IF ~load_control THEN "Unavailable" ELSE IF current_phase # "ReadOnly" THEN "WrongState" ELSE "no"

\* What a code means.
Failure(code) ==
  IF \E e \in DOMAIN Codes : Codes[e] = code THEN CHOOSE e \in DOMAIN Codes : Codes[e] = code ELSE "Host"

\* The state in a status, or the error of a host that speaks another ABI.
decode_status(abi, capability, state) ==
  IF abi # 1 THEN "Host"
  ELSE IF capability = 0 THEN "NoCapture"
  ELSE IF capability = 1 /\ state = 0 THEN "Idle"
  ELSE IF capability = 1 /\ state = 1 THEN "Active"
  ELSE "Host"

\* A path with a NUL byte never gets as far as the host.
path_to_c_string(path) == path # "nul"

Answered(command, result, c) ==
  answer' = [command |-> command, result |-> result, start |-> c.trace.start, end |-> c.trace.end,
             count |-> c.trace.count, at |-> where]

\* A call of start, stop, flush or status, on this host.
control(command, path, open) ==
  /\ host # "other" /\ where \in Running
  /\ IF command = "start" /\ ~path_to_c_string(path)
     THEN Answered(command, "InvalidPath", Capture) /\ UNCHANGED <<tracep, waves>>
     ELSE IF Refused # "no" THEN Answered(command, Refused, Capture) /\ UNCHANGED <<tracep, waves>>
     ELSE LET r == rustdv_simulator_trace_control(command, path, open)
              state == IF r.capture.trace.active THEN 1 ELSE 0
          IN  /\ tracep' = r.capture.trace /\ waves' = r.capture.files
              /\ Answered(command, IF r.code = 0 THEN decode_status(1, 1, state) ELSE Failure(r.code),
                          r.capture)
  /\ UNCHANGED <<host, where, now, settled, ok, visited>>

\* Another simulator's host answers as it likes.
OtherControl(code, abi, capability, state) ==
  /\ host = "other" /\ where \in Running
  /\ Answered("status", IF Refused # "no" THEN Refused
                        ELSE IF code = 0 THEN decode_status(abi, capability, state) ELSE Failure(code),
              Capture)
  /\ UNCHANGED <<host, where, now, settled, ok, tracep, waves, visited>>

\* The format may be asked for in any phase.
AskFormat(raw) ==
  /\ where \in Running
  /\ Answered("format", host_format(raw), Capture)
  /\ UNCHANGED <<host, where, now, settled, ok, tracep, waves, visited>>

-----------------------------------------------------------------------------
(* The host's main. *)

\* RUSTDV_FST names a capture that begins before the first slot; if it cannot be opened, main returns.
Boot(path, open) ==
  /\ where = "boot"
  /\ LET c == start(Capture, path, FALSE)
         asked == path # "unset" /\ host \in {"fst", "legacy", "fast"}
         begins == asked /\ host # "fast" /\ path # "" /\ open = "opens"
     IN  /\ where' = IF asked => begins THEN "starting" ELSE "over"
         /\ tracep' = IF begins THEN c.trace ELSE tracep
         /\ waves' = IF begins THEN c.files ELSE waves
  /\ UNCHANGED <<host, now, settled, ok, visited, answer>>

\* cbStartOfSimulation runs the testbench up to its first await.  When that is its end (no test is
\* selected, or none awaits anything) it has called finish, and the loop is not entered.
StartOfSimulation(finished) ==
  /\ where = "starting" /\ where' = IF finished THEN "ended" ELSE "timed"
  /\ UNCHANGED <<host, now, settled, ok, tracep, waves, visited, answer>>

\* Timed callbacks, then the settling loop begins.
Timed ==
  /\ where = "timed" /\ where' = "settling"
  /\ UNCHANGED <<host, now, settled, ok, tracep, waves, visited, answer>>

\* settle: the values reach a fixed point and ReadOnly begins, or they never do.
settle(settles) ==
  /\ where = "settling"
  /\ where' = IF settles THEN "ro" ELSE "ended"
  /\ ok' = settles
  /\ settled' = IF settles THEN settled + 1 ELSE settled
  /\ visited' = IF settles THEN visited \cup {now} ELSE visited
  /\ UNCHANGED <<host, now, tracep, waves, answer>>

\* After ReadOnly the slot is dumped.  Then there is the next deadline, which may be the same time;
\* or the simulation is finished, or has no deadline, or has one in the past.
NextSlot(then, time) ==
  /\ where = "ro" /\ time <= MaxTime
  /\ then = "deadline" /\ time = now => settled < MaxSettles
  /\ then # "deadline" => time = now
  /\ LET c == dump_settled_time(Capture)
     IN  /\ waves' = c.files
         /\ tracep' = [c.trace EXCEPT !.dumpedNow = @ /\ time = now]
  /\ now' = time
  /\ settled' = IF time = now THEN settled ELSE 0
  /\ ok' = (then # "past")
  /\ where' = IF then = "deadline" THEN "timed" ELSE "ended"
  /\ UNCHANGED <<host, visited, answer>>

\* The end of simulation: an open capture is closed.
Finish ==
  /\ where = "ended" /\ where' = "over"
  /\ LET c == IF tracep.active THEN stop(Capture) ELSE Capture
     IN  tracep' = c.trace /\ waves' = c.files
  /\ UNCHANGED <<host, now, settled, ok, visited, answer>>

TraceNext ==
  \/ \E path \in TracePaths \cup {""}, open \in {"opens", "no_file", "no_writer"} :
       \/ Boot(path, open) \/ Boot("unset", open)
       \/ \E command \in Commands : control(command, path, open)
  \/ control("start", "nul", "opens")
  \/ \E code \in 0..5, abi \in {1, 2}, capability, state \in 0..2 : OtherControl(code, abi, capability, state)
  \/ \E raw \in {1, 2} : AskFormat(raw)
  \/ Timed \/ \E b \in BOOLEAN : StartOfSimulation(b) \/ settle(b)
  \/ \E then \in {"deadline", "end", "past"}, time \in {now, now + 1} : NextSlot(then, time)
  \/ Finish

TraceSpec == TraceInit /\ [][TraceNext]_traceVars

-----------------------------------------------------------------------------
\* The settling that a capture shows of a time: the first, or that in which the capture was started.
Shows(f, time) == IF time = f.start /\ f.first > 1 THEN f.first ELSE 1

\* The dumps of settled values.
Settled(f) == {i \in DOMAIN f.dumps : f.dumps[i].region = "ro"}

\* A capture shows every time that settled from its start to its end, each once, in order and with
\* the values that settled first, whoever dumps them: start, flush, stop or the host's own loop.
\* Values that have not settled are shown in one case, last: the capture was open, without a dump of
\* the time, when the scheduler failed or the simulation finished at its start.  What a call reports
\* of a capture is what the capture is, and a call is let through in ReadOnly only.
CapturesAreTrue ==
  /\ \A p \in DOMAIN waves :
       LET f == waves[p]
       IN  /\ \A i, j \in DOMAIN f.dumps : i < j => f.dumps[i].at < f.dumps[j].at
           /\ \A i \in Settled(f) : f.dumps[i].settled = Shows(f, f.dumps[i].at)
           /\ \A i \in DOMAIN f.dumps \ Settled(f) :
                /\ i = Len(f.dumps) /\ f.dumps[i].at = now /\ now \notin visited
                /\ where = "over" /\ (~ok \/ visited = {})
           /\ f.dumps # <<>> => {f.dumps[i].at : i \in Settled(f)} = {t \in visited : t \in f.start..f.end}
           /\ f.dumps = <<>> => tracep.active /\ tracep.path = p /\ f.start = now
  /\ tracep.active => /\ tracep.count = Len(waves[tracep.path].dumps)
                      /\ where = "timed" => tracep.end \in {now - 1, now}
  /\ answer.result \in {"Idle", "Active"} => answer.at = "ro"
  /\ answer.command = "start" /\ answer.result = "Active" => answer.count = 1 /\ answer.start = answer.end
=============================================================================
