------------------------------ MODULE Logging -------------------------------
(***************************************************************************)
(* The logger: levels, console and files for subtrees of the component     *)
(* tree, one global log file, and the reset that the runner makes before   *)
(* every test.                                                             *)
(*                                                                         *)
(* A path or prefix is the sequence of its segments.  A file is the        *)
(* sequence of its lines, all of one length; an open file that does not    *)
(* append has a position of its own.                                       *)
(***************************************************************************)
EXTENDS Integers, Sequences, FiniteSets, SequencesExt

CONSTANTS
  Paths,       \* paths of components, <<>> for a function without a tree
  Levels,      \* levels to set and to log at, of 0..5
  Files,       \* names of files
  MaxCalls,    \* bound: configuration calls before a reset
  MaxLines,    \* bound: messages
  MaxTests     \* bound: tests

VARIABLES
  THRESHOLD, TARGET_LEVELS, TARGET_CONSOLE, TARGET_FILES, LOG_FILE,
  disk,        \* the lines of each file
  opened,      \* the files opened in this test: [file, append, pos]
  calls,       \* history: the configuration calls since the reset
  last,        \* history: the last message and where it went
  count,       \* history: messages so far, and tests
  owed,        \* history: the lines written to a file since it was truncated
  mixed        \* history: files that were open twice, once without append

logVars == <<THRESHOLD, TARGET_LEVELS, TARGET_CONSOLE, TARGET_FILES, LOG_FILE, disk, opened, calls,
             last, count, owed, mixed>>

Debug == 0
Info == 1
Off == 5
NoFile == 0
NoPath == <<"<none>">>  \* of a message that is not a component's
-----------------------------------------------------------------------------
(* "".split('.') is one empty segment.                                     *)
Split(path) == IF path = <<>> THEN <<"">> ELSE path

str_is_under(path, prefix) ==
  prefix = <<>> \/ IsPrefix(prefix, Split(path))

(* The entry with the longest prefix of path; the last of equal ones.      *)
Longest(entries, path) ==
  {i \in DOMAIN entries :
     /\ str_is_under(path, entries[i].prefix)
     /\ \A j \in DOMAIN entries : str_is_under(path, entries[j].prefix) =>
          Len(entries[j].prefix) < Len(entries[i].prefix) \/ (Len(entries[j].prefix) = Len(entries[i].prefix) /\ j <= i)}

(* retain(other prefixes), then push.                                      *)
Replace(entries, prefix, v) ==
  Append(SelectSeq(entries, LAMBDA e : e.prefix # prefix), [prefix |-> prefix, value |-> v])

(* Logger::enabled.                                                        *)
enabled(path, level) ==
  LET per_target == Longest(TARGET_LEVELS, path)
  IN  IF per_target = {} THEN level >= THRESHOLD
      ELSE \E i \in per_target : level >= TARGET_LEVELS[i].value

console_enabled_for(path) ==
  LET entry == Longest(TARGET_CONSOLE, path)
  IN  entry = {} \/ \E i \in entry : TARGET_CONSOLE[i].value
-----------------------------------------------------------------------------
Call(c) == Len(calls) < MaxCalls /\ calls' = Append(calls, c)

set_level(l) ==
  /\ Call([call |-> "threshold", prefix |-> <<>>, value |-> l])
  /\ THRESHOLD' = l
  /\ UNCHANGED <<TARGET_LEVELS, TARGET_CONSOLE, TARGET_FILES, LOG_FILE, disk, opened, last, count, owed, mixed>>

set_level_for(prefix, l) ==
  /\ Call([call |-> "level", prefix |-> prefix, value |-> l])
  /\ TARGET_LEVELS' = Replace(TARGET_LEVELS, prefix, l)
  /\ UNCHANGED <<THRESHOLD, TARGET_CONSOLE, TARGET_FILES, LOG_FILE, disk, opened, last, count, owed, mixed>>

set_console_for(prefix, on) ==
  /\ Call([call |-> "console", prefix |-> prefix, value |-> on])
  /\ TARGET_CONSOLE' = Replace(TARGET_CONSOLE, prefix, on)
  /\ UNCHANGED <<THRESHOLD, TARGET_LEVELS, TARGET_FILES, LOG_FILE, disk, opened, last, count, owed, mixed>>

(* Who writes to a file now: by position in opened.                        *)
Users == (IF LOG_FILE = NoFile THEN {} ELSE {LOG_FILE}) \cup {TARGET_FILES[i].value : i \in DOMAIN TARGET_FILES}

(* open_log: a file that is not appended to is truncated.                  *)
open_log(f, append, others) ==
  /\ opened' = Append(opened, [file |-> f, append |-> append, pos |-> 0])
  /\ disk' = IF append THEN disk ELSE [disk EXCEPT ![f] = <<>>]
  /\ owed' = IF append THEN owed ELSE [owed EXCEPT ![f] = <<>>]
  /\ mixed' = IF \E u \in others : opened[u].file = f /\ ~(append /\ opened[u].append)
                THEN mixed \cup {f} ELSE mixed

(* An open that fails: the call returns its error and does nothing else.   *)
open_fails ==
  /\ Call([call |-> "failed"])
  /\ UNCHANGED <<THRESHOLD, TARGET_LEVELS, TARGET_CONSOLE, TARGET_FILES, LOG_FILE, disk, opened, last, count, owed, mixed>>

log_to_file(f, append) ==
  /\ Call([call |-> "log_file", prefix |-> <<>>, value |-> f])
  /\ open_log(f, append, Users \ {LOG_FILE})
  /\ LOG_FILE' = Len(opened')
  /\ UNCHANGED <<THRESHOLD, TARGET_LEVELS, TARGET_CONSOLE, TARGET_FILES, last, count>>

remove_log_file ==
  /\ LOG_FILE # NoFile
  /\ Call([call |-> "log_file", prefix |-> <<>>, value |-> "none"])
  /\ LOG_FILE' = NoFile
  /\ UNCHANGED <<THRESHOLD, TARGET_LEVELS, TARGET_CONSOLE, TARGET_FILES, disk, opened, last, count, owed, mixed>>

add_file_for(prefix, f, append) ==
  /\ Call([call |-> "file", prefix |-> prefix, value |-> f])
  /\ open_log(f, append, Users)
  /\ TARGET_FILES' = Append(TARGET_FILES, [prefix |-> prefix, value |-> Len(opened')])
  /\ UNCHANGED <<THRESHOLD, TARGET_LEVELS, TARGET_CONSOLE, LOG_FILE, last, count>>

(* Mutant: the global log file survives.                                   *)
reset_config_KeepsFile ==
  /\ THRESHOLD' = Info
  /\ TARGET_LEVELS' = <<>> /\ TARGET_CONSOLE' = <<>> /\ TARGET_FILES' = <<>>
  /\ UNCHANGED <<LOG_FILE, opened>>

reset_config ==
  /\ THRESHOLD' = Info
  /\ TARGET_LEVELS' = <<>> /\ TARGET_CONSOLE' = <<>> /\ TARGET_FILES' = <<>>
  /\ LOG_FILE' = NoFile /\ opened' = <<>>

(* The runner, before the next test.                                       *)
NextTest ==
  /\ count.tests < MaxTests
  /\ reset_config
  /\ count' = [count EXCEPT !.tests = @ + 1]
  /\ calls' = <<>> /\ last' = <<>>
  /\ UNCHANGED <<disk, owed, mixed>>
-----------------------------------------------------------------------------
(* One line to the open files us, in this order; the result of a write is  *)
(* not looked at, and those of lost do not happen.                         *)
Written(d, h, line) ==
  IF h.append \/ h.pos = Len(d[h.file]) THEN [d EXCEPT ![h.file] = Append(@, line)]
  ELSE IF h.pos < Len(d[h.file]) THEN [d EXCEPT ![h.file] = [@ EXCEPT ![h.pos + 1] = line]]
  ELSE [d EXCEPT ![h.file] = @ \o [i \in 1..(h.pos - Len(@)) |-> 0] \o <<line>>]

WriteAll(us, lost, line) ==
  LET done == SelectSeq(us, LAMBDA u : u \notin lost)
  IN  /\ disk' = FoldLeft(LAMBDA d, u : Written(d, opened[u], line), disk, done)
      /\ owed' = FoldLeft(LAMBDA o, u : [o EXCEPT ![opened[u].file] = Append(@, line)], owed, done)
      /\ opened' = [u \in DOMAIN opened |->
                      IF u \in ToSet(done) THEN [opened[u] EXCEPT !.pos = @ + 1] ELSE opened[u]]

(* emit_for: the files of the subtrees in the order they were added, then  *)
(* the global one.  emit: without subtrees, and the console cannot be off. *)
Covering(path) ==
  LET covers(e) == str_is_under(path, e.prefix)
      entries == SelectSeq(TARGET_FILES, covers)
  IN  [i \in DOMAIN entries |-> entries[i].value]

Global == IF LOG_FILE = NoFile THEN <<>> ELSE <<LOG_FILE>>

Message(path, level, on, console, us) ==
  /\ count.lines < MaxLines
  /\ count' = [count EXCEPT !.lines = @ + 1]
  /\ \E lost \in SUBSET ToSet(us) : WriteAll(IF on THEN us ELSE <<>>, lost, count.lines + 1)
  /\ last' = [path |-> path, level |-> level, console |-> on /\ console,
              files |-> IF on THEN [i \in DOMAIN us |-> opened[us[i]].file] ELSE <<>>, at |-> Len(calls)]
  /\ UNCHANGED <<THRESHOLD, TARGET_LEVELS, TARGET_CONSOLE, TARGET_FILES, LOG_FILE, calls, mixed>>

(* Logger::log, and the free function.                                     *)
LoggerLog(path, level) ==
  Message(path, level, enabled(path, level), console_enabled_for(path), Covering(path) \o Global)

log(level) == Message(NoPath, level, level >= THRESHOLD, TRUE, Global)

LogInit ==
  /\ THRESHOLD = Info
  /\ TARGET_LEVELS = <<>> /\ TARGET_CONSOLE = <<>> /\ TARGET_FILES = <<>> /\ LOG_FILE = NoFile
  /\ disk = [f \in Files |-> <<>>] /\ owed = disk /\ opened = <<>> /\ mixed = {}
  /\ calls = <<>> /\ last = <<>> /\ count = [lines |-> 0, tests |-> 1]

LogNext ==
  \/ \E l \in Levels : set_level(l) \/ \E p \in Paths : set_level_for(p, l)
  \/ \E l \in Levels \ {Off} : log(l) \/ \E p \in Paths : LoggerLog(p, l)
  \/ \E p \in Paths, on \in BOOLEAN : set_console_for(p, on)
  \/ \E f \in Files, append \in BOOLEAN : log_to_file(f, append) \/ \E p \in Paths : add_file_for(p, f, append)
  \/ open_fails \/ remove_log_file \/ NextTest

LogSpec == LogInit /\ [][LogNext]_logVars
-----------------------------------------------------------------------------
(* The rules, by the calls of this test as they were made: a setting is    *)
(* for a component and all below it, the nearest one rules, and of several *)
(* for the same component the last.                                        *)
Ancestors(path) == {SubSeq(path, 1, n) : n \in 0..Len(path)}

Made(kind, prefixes) ==
  {i \in 1..last.at : calls[i].call = kind /\ calls[i].prefix \in prefixes}

Rules(kind, path) ==
  {i \in Made(kind, Ancestors(path)) :
     \A j \in Made(kind, Ancestors(path)) :
       Len(calls[j].prefix) < Len(calls[i].prefix) \/ (calls[j].prefix = calls[i].prefix /\ j <= i)}

Latest(S) == {i \in S : \A j \in S : j <= i}

Allowed(path, level) ==
  LET own == IF path = NoPath THEN {} ELSE Rules("level", path)
      global == Latest(Made("threshold", {<<>>}))
  IN  CASE own # {} -> \E i \in own : level >= calls[i].value
        [] own = {} /\ global # {} -> \E i \in global : level >= calls[i].value
        [] OTHER -> level >= Info

FilesOf(path) ==
  LET own == IF path = NoPath THEN {} ELSE Made("file", Ancestors(path))
      global == {i \in Latest(Made("log_file", {<<>>})) : calls[i].value # "none"}
  IN  own \cup global

(* A message goes to the console and to every file exactly as the calls    *)
(* made in this test say, and no call of an earlier test has a say, nor    *)
(* one that failed; and a line that was written stays in the file, unless  *)
(* the file is open a second time.                                         *)
MessagesAreRouted ==
  /\ last # <<>> =>
       LET on == Allowed(last.path, last.level)
           quiet == last.path # NoPath /\ \E i \in Rules("console", last.path) : ~calls[i].value
       IN  /\ last.console = (on /\ ~quiet)
           /\ on => /\ ToSet(last.files) = {calls[i].value : i \in FilesOf(last.path)}
                    /\ Len(last.files) = Cardinality(FilesOf(last.path))
           /\ ~on => last.files = <<>>
  /\ \A f \in Files \ mixed : IsSuffix(owed[f], disk[f])
=============================================================================
