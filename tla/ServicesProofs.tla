--------------------------- MODULE ServicesProofs ---------------------------
(* Two of the services around the scheduler: waveform capture, for any     *)
(* files and any length of a simulation, and cycle models, for any number  *)
(* of transactions and any clock.                                          *)
EXTENDS TraceCapture, Cycle, TLAPS

-----------------------------------------------------------------------------
(* Waveform capture.  A capture t and its files w at time N, where the     *)
(* times V have settled, the host's loop is at W and the values have       *)
(* settled P times at N.                                                   *)
Places == {"boot", "starting", "timed", "settling", "ro", "ended", "over"}
Dump == [at : Nat, region : Places, settled : Nat]
Times(f) == {f.dumps[i].at : i \in DOMAIN f.dumps}

FileShape(f) ==
  /\ DOMAIN f = {"start", "first", "end", "dumps"}
  /\ f.start \in Nat /\ f.first \in Nat /\ f.end \in Nat /\ f.dumps \in Seq(Dump)

Shapes(t, w) ==
  /\ DOMAIN t = {"active", "path", "start", "end", "count", "dumpedNow"}
  /\ t.end \in Nat /\ t.count \in Nat
  /\ \A p \in DOMAIN w : FileShape(w[p])

(* The open capture counts its dumps and knows the last one; before the    *)
(* first, it has just begun.                                               *)
ActiveOK(t, w, N) ==
  t.active =>
    /\ t.path \in DOMAIN w
    /\ t.count = Len(w[t.path].dumps) /\ t.end = w[t.path].end
    /\ t.dumpedNow => w[t.path].dumps # <<>> /\ t.end = N
    /\ ~t.dumpedNow => IF w[t.path].dumps = <<>> THEN w[t.path].start = N /\ t.end = N ELSE t.end < N

(* A file shows the settled times from its start to its end, which is one  *)
(* of them; only the open capture may have none yet.                       *)
FileOK(f, V, N) ==
  /\ \A i, j \in DOMAIN f.dumps : i < j => f.dumps[i].at < f.dumps[j].at
  /\ \A i \in DOMAIN f.dumps : f.dumps[i].region = "ro" /\ f.dumps[i].settled = Shows(f, f.dumps[i].at)
  /\ f.dumps # <<>> => f.end <= N /\ f.end \in Times(f) /\ Times(f) = {v \in V : v \in f.start..f.end}

(* A file that has the present time yet to come, and nothing before it.    *)
Due(f, V, N) ==
  /\ V \in SUBSET Nat /\ N \in V /\ \A v \in V : v <= N
  /\ f.dumps = <<>> => f.start = N
  /\ f.dumps # <<>> => f.end < N /\ \A v \in V : f.end < v => v = N

FilesOK(t, w, N, V) ==
  \A p \in DOMAIN w : FileOK(w[p], V, N) /\ (w[p].dumps = <<>> => t.active /\ t.path = p)

(* The loop has dumped every time that settled, but the one it is at; what *)
(* it has yet to dump of that time is what the capture ought to show.      *)
LoopOK(t, w, N, V, W, P) ==
  /\ V \in SUBSET Nat /\ \A v \in V : v <= N
  /\ P \in Nat /\ (P = 0 <=> N \notin V)
  /\ W = "ro" => N \in V
  /\ t.active /\ w[t.path].dumps # <<>> => \A v \in V : t.end < v => v = N /\ W = "ro"
  /\ t.active /\ ~t.dumpedNow =>
       IF W = "ro" THEN P = Shows(w[t.path], N) ELSE P = 0 /\ (w[t.path].start = N => w[t.path].first = 0)

CaptureOK(t, w) ==
  /\ Shapes(t, w) /\ ActiveOK(t, w, now)
  /\ FilesOK(t, w, now, visited) /\ LoopOK(t, w, now, visited, where, settled)

(* What is left at the end, where O says that the scheduler did not fail:  *)
(* the last dump may be of values that did not settle.                     *)
FileTrue(f, N, V, W, O) ==
  /\ \A i, j \in DOMAIN f.dumps : i < j => f.dumps[i].at < f.dumps[j].at
  /\ \A i \in Settled(f) : f.dumps[i].settled = Shows(f, f.dumps[i].at)
  /\ \A i \in DOMAIN f.dumps \ Settled(f) :
       i = Len(f.dumps) /\ f.dumps[i].at = N /\ N \notin V /\ W = "over" /\ (~O \/ V = {})
  /\ f.dumps # <<>> => {f.dumps[i].at : i \in Settled(f)} = {v \in V : v \in f.start..f.end}

AnswerOK ==
  /\ answer.result \in {"Idle", "Active"} => answer.at = "ro"
  /\ answer.command = "start" /\ answer.result = "Active" => answer.count = 1 /\ answer.start = answer.end

PlaceOK ==
  /\ now \in Nat /\ where \in Places
  /\ where \notin {"ended", "over"} => ok
  /\ where \in {"boot", "starting"} => visited = {}
  /\ where = "boot" => ~tracep.active
  /\ where \in {"starting", "timed"} /\ tracep.active => tracep.end \in {now - 1, now}
  /\ where = "ended" /\ tracep.active /\ ~tracep.dumpedNow => ~ok \/ visited = {}

FinalOK ==
  ~tracep.active /\ \A p \in DOMAIN waves : waves[p].dumps # <<>> /\ FileTrue(waves[p], now, visited, where, ok)

TInv ==
  /\ where # "over" => CaptureOK(tracep, waves)
  /\ where = "over" => FinalOK
  /\ PlaceOK /\ AnswerOK

(* A file that is true so far stays so, whatever happens to the scheduler. *)
LEMMA TrueSoFar ==
  ASSUME NEW f, NEW V, NEW N, FileOK(f, V, N), NEW W, NEW O
  PROVE  FileTrue(f, N, V, W, O)
  <1>1. Settled(f) = DOMAIN f.dumps
    BY Zenon DEF Settled, FileOK
  <1>2. Times(f) = {f.dumps[i].at : i \in Settled(f)}
    BY <1>1, Zenon DEF Times
  <1>3. QED BY <1>1, <1>2, Zenon DEF FileOK, FileTrue

(* One more dump, at the end.                                              *)
LEMMA OneMoreDump ==
  ASSUME NEW f, FileShape(f), now \in Nat, settled \in Nat, where \in Places, NEW g, g = Dumped(f)
  PROVE  /\ FileShape(g) /\ g.start = f.start /\ g.first = f.first /\ g.end = now /\ g.dumps # <<>>
         /\ Len(g.dumps) = Len(f.dumps) + 1
         /\ DOMAIN f.dumps = 1..Len(f.dumps) /\ DOMAIN g.dumps = 1..(Len(f.dumps) + 1)
         /\ \A i \in 1..Len(f.dumps) : g.dumps[i] = f.dumps[i]
         /\ g.dumps[Len(f.dumps) + 1].at = now /\ g.dumps[Len(f.dumps) + 1].region = where
         /\ g.dumps[Len(f.dumps) + 1].settled = settled
         /\ Times(g) = Times(f) \cup {now}
  <1>1. PICK e : e = [at |-> now, region |-> where, settled |-> settled]
    BY Zenon
  <1>2. e \in Dump /\ e.at = now /\ e.region = where /\ e.settled = settled
    BY <1>1, Zenon DEF Dump
  <1>3. /\ DOMAIN g = {"start", "first", "end", "dumps"}
        /\ g.start = f.start /\ g.first = f.first /\ g.end = now /\ g.dumps = Append(f.dumps, e)
    BY <1>1, Zenon DEF FileShape, Dumped
  <1>4. f.dumps \in Seq(Dump) /\ f.start \in Nat /\ f.first \in Nat
    BY Zenon DEF FileShape
  <1>5. PICK d : d = f.dumps
    BY Zenon
  <1>6. PICK k : k = Append(d, e)
    BY Zenon
  <1>7. /\ k \in Seq(Dump) /\ k # <<>> /\ Len(k) = Len(d) + 1 /\ Len(d) \in Nat
        /\ DOMAIN d = 1..Len(d) /\ DOMAIN k = 1..(Len(d) + 1)
        /\ (\A i \in 1..Len(d) : k[i] = d[i]) /\ k[Len(d) + 1] = e
    BY <1>2, <1>4, <1>5, <1>6
  <1>8. FileShape(g)
    BY <1>3, <1>4, <1>5, <1>6, <1>7, Zenon DEF FileShape
  <1>9. \A i : i \in 1..(Len(d) + 1) <=> i \in 1..Len(d) \/ i = Len(d) + 1
    BY <1>7
  <1>10. Times(g) = Times(f) \cup {now}
    <2>1. g.dumps = k
      BY <1>3, <1>5, <1>6, Zenon
    <2>2. \A v : v \in {k[i].at : i \in DOMAIN k} <=> v \in {d[i].at : i \in DOMAIN d} \/ v = now
      BY <1>2, <1>7, <1>9, Zenon
    <2>3. Times(g) = {k[i].at : i \in DOMAIN k} /\ Times(f) = {d[i].at : i \in DOMAIN d}
      BY <1>5, <2>1, Zenon DEF Times
    <2>4. QED BY <2>2, <2>3, Zenon
  <1>11. QED BY <1>2, <1>3, <1>5, <1>6, <1>7, <1>8, <1>10, Zenon

DumpsInto(c, d) ==
  /\ d.trace.active /\ d.trace.path = c.trace.path /\ d.trace.start = c.trace.start
  /\ d.trace.end = now /\ d.trace.count = c.trace.count + 1 /\ d.trace.dumpedNow
  /\ DOMAIN d.files = DOMAIN c.files
  /\ \A p \in DOMAIN c.files \ {c.trace.path} : d.files[p] = c.files[p]
  /\ d.files[c.trace.path] = Dumped(c.files[c.trace.path])
  /\ Shapes(d.trace, d.files)

(* What dump_settled_time does to an open capture that has not dumped the  *)
(* present time.                                                           *)
LEMMA DumpEffect ==
  ASSUME NEW c, Shapes(c.trace, c.files), c.trace.active, ~c.trace.dumpedNow,
         c.trace.path \in DOMAIN c.files, now \in Nat, settled \in Nat, where \in Places,
         NEW d, d = dump_settled_time(c)
  PROVE  DumpsInto(c, d)
  <1>1. /\ d.trace = [c.trace EXCEPT !.end = now, !.count = @ + 1, !.dumpedNow = TRUE]
        /\ d.files = [c.files EXCEPT ![c.trace.path] = Dumped(@)]
    BY Zenon DEF dump_settled_time
  <1>2. /\ DOMAIN d.trace = {"active", "path", "start", "end", "count", "dumpedNow"}
        /\ d.trace.active /\ d.trace.path = c.trace.path /\ d.trace.start = c.trace.start
        /\ d.trace.end = now /\ d.trace.count = c.trace.count + 1 /\ d.trace.dumpedNow
    <2>1. PICK t : t = c.trace
      BY Zenon
    <2>2. PICK u : u = [t EXCEPT !.end = now, !.count = @ + 1, !.dumpedNow = TRUE]
      BY Zenon
    <2>3. u = d.trace
      BY <1>1, <2>1, <2>2, Zenon
    <2>4. DOMAIN t = {"active", "path", "start", "end", "count", "dumpedNow"} /\ t.active
      BY <2>1, Zenon DEF Shapes
    <2>5. /\ DOMAIN u = {"active", "path", "start", "end", "count", "dumpedNow"}
          /\ u.active /\ u.path = t.path /\ u.start = t.start
          /\ u.end = now /\ u.count = t.count + 1 /\ u.dumpedNow
      BY <2>2, <2>4, Zenon
    <2>6. QED BY <2>1, <2>3, <2>5, Zenon
  <1>5. /\ DOMAIN d.files = DOMAIN c.files
        /\ \A p \in DOMAIN c.files \ {c.trace.path} : d.files[p] = c.files[p]
        /\ d.files[c.trace.path] = Dumped(c.files[c.trace.path])
    BY <1>1, Zenon
  <1>6. \A p \in DOMAIN c.files : FileShape(c.files[p])
    BY Zenon DEF Shapes
  <1>7. FileShape(d.files[c.trace.path])
    BY <1>5, <1>6, OneMoreDump, Zenon
  <1>8. c.trace.count + 1 \in Nat
    BY DEF Shapes
  <1>9. QED BY <1>2, <1>5, <1>6, <1>7, <1>8, Zenon DEF Shapes, DumpsInto

(* The settled times up to N, when N is the only one after the last.       *)
LEMMA SettledUpTo ==
  ASSUME NEW V \in SUBSET Nat, NEW s \in Nat, NEW last \in Nat, NEW N \in Nat,
         N \in V, \A v \in V : v <= N, s = N \/ (s <= last /\ last < N),
         last < N => \A v \in V : last < v => v = N,
         NEW S, S = IF s = N THEN {} ELSE {v \in V : v \in s..last}
  PROVE  S \cup {N} = {v \in V : v \in s..N}
  <1>1. CASE s = N
    BY <1>1
  <1>2. CASE s # N
    <2>1. S = {v \in V : v \in s..last} /\ s <= last /\ last < N
      BY <1>2, Zenon
    <2>2. \A v \in V : v \in s..N <=> v \in s..last \/ v = N
      BY <2>1
    <2>3. QED BY <2>1, <2>2, Zenon
  <1>3. QED BY <1>1, <1>2, Zenon

LEMMA LastIsIn ==
  ASSUME NEW V \in SUBSET Nat, NEW s \in Nat, NEW last \in Nat, NEW N \in Nat,
         NEW S, S = {v \in V : v \in s..last}, last \in S, last < N
  PROVE  s <= last /\ s # N /\ \A v \in S : v < N
  OBVIOUS

(* A dump of a later time than all the others is the last.                 *)
LEMMA OrderKept ==
  ASSUME NEW f, FileShape(f), now \in Nat, settled \in Nat, where \in Places,
         \A i, j \in DOMAIN f.dumps : i < j => f.dumps[i].at < f.dumps[j].at, \A v \in Times(f) : v < now,
         NEW g, g = Dumped(f)
  PROVE  \A i, j \in DOMAIN g.dumps : i < j => g.dumps[i].at < g.dumps[j].at
  <1>1. /\ DOMAIN f.dumps = 1..Len(f.dumps) /\ DOMAIN g.dumps = 1..(Len(f.dumps) + 1)
        /\ \A i \in 1..Len(f.dumps) : g.dumps[i] = f.dumps[i]
        /\ g.dumps[Len(f.dumps) + 1].at = now
    BY OneMoreDump, ZenonT(60)
  <1>2. PICK n, k, d : n = Len(f.dumps) /\ k = g.dumps /\ d = f.dumps
    BY Zenon
  <1>3. n \in Nat
    BY <1>2 DEF FileShape
  <1>4. \A i \in 1..n : d[i].at < now
    BY <1>1, <1>2, Zenon DEF Times
  <1>5. ASSUME NEW i \in 1..(n + 1), NEW j \in 1..(n + 1), i < j
        PROVE  k[i].at < k[j].at
    <2>1. i \in 1..n /\ (j \in 1..n \/ j = n + 1)
      BY <1>3, <1>5
    <2>2. CASE j \in 1..n
      BY <1>1, <1>2, <1>5, <2>1, <2>2, Zenon
    <2>3. CASE j = n + 1
      BY <1>1, <1>2, <1>4, <2>1, <2>3, Zenon
    <2>4. QED BY <2>1, <2>2, <2>3, Zenon
  <1>6. QED BY <1>1, <1>2, <1>5, Zenon

(* The dump of a time that has settled keeps a file true.                  *)
LEMMA DumpedOK ==
  ASSUME NEW f, FileShape(f), FileOK(f, visited, now), Due(f, visited, now), now \in Nat, settled \in Nat,
         where = "ro", settled = Shows(f, now)
  PROVE  FileOK(Dumped(f), visited, now)
  <1> where \in Places
    BY Zenon DEF Places
  <1>1. PICK g : g = Dumped(f)
    BY Zenon
  <1>2. /\ FileShape(g) /\ g.start = f.start /\ g.first = f.first /\ g.end = now /\ g.dumps # <<>>
        /\ DOMAIN f.dumps = 1..Len(f.dumps) /\ DOMAIN g.dumps = 1..(Len(f.dumps) + 1)
        /\ \A i \in 1..Len(f.dumps) : g.dumps[i] = f.dumps[i]
        /\ g.dumps[Len(f.dumps) + 1].at = now /\ g.dumps[Len(f.dumps) + 1].region = where
        /\ g.dumps[Len(f.dumps) + 1].settled = settled
        /\ Times(g) = Times(f) \cup {now}
    BY <1>1, OneMoreDump, ZenonT(60)
  <1>3. f.start \in Nat /\ f.end \in Nat /\ Len(f.dumps) \in Nat
    BY DEF FileShape
  <1>b. PICK s, last : s = f.start /\ last = f.end
    BY Zenon
  <1>a. /\ visited \in SUBSET Nat /\ now \in visited /\ \A v \in visited : v <= now
        /\ s \in Nat /\ last \in Nat
    BY <1>3, <1>b, Zenon DEF Due
  <1>4. Times(g) = {v \in visited : v \in g.start..now} /\ \A v \in Times(f) : v < now
    <2>1. CASE f.dumps = <<>>
      <3>1. Times(f) = {}
        BY <2>1 DEF Times
      <3>2. s = now
        BY <1>b, <2>1, Zenon DEF Due
      <3>3. Times(f) \cup {now} = {v \in visited : v \in s..now}
        BY <1>a, <3>1, <3>2
      <3>4. QED BY <1>2, <1>b, <3>1, <3>3, Zenon
    <2>2. CASE f.dumps # <<>>
      <3>1. /\ Times(f) = {v \in visited : v \in s..last} /\ last \in Times(f) /\ last < now
            /\ \A v \in visited : last < v => v = now
        BY <1>b, <2>2, Zenon DEF FileOK, Due
      <3>2. s <= last /\ s # now /\ \A v \in Times(f) : v < now
        BY <1>a, <3>1, LastIsIn, Zenon
      <3>3. Times(f) \cup {now} = {v \in visited : v \in s..now}
        <4>1. PICK S : S = IF s = now THEN {} ELSE {v \in visited : v \in s..last}
          BY Zenon
        <4>2. S = Times(f)
          BY <3>1, <3>2, <4>1, Zenon
        <4>3. S \cup {now} = {v \in visited : v \in s..now}
          BY <1>a, <3>1, <3>2, <4>1, SettledUpTo
        <4>4. QED BY <4>2, <4>3, Zenon
      <3>4. QED BY <1>2, <1>b, <3>2, <3>3, Zenon
    <2>3. QED BY <2>1, <2>2, Zenon
  <1>5. \A i, j \in DOMAIN g.dumps : i < j => g.dumps[i].at < g.dumps[j].at
    <2>1. \A i, j \in DOMAIN f.dumps : i < j => f.dumps[i].at < f.dumps[j].at
      BY Zenon DEF FileOK
    <2>2. QED BY <1>1, <1>4, <2>1, OrderKept, Zenon
  <1>6. \A i \in DOMAIN g.dumps : g.dumps[i].region = "ro" /\ g.dumps[i].settled = Shows(g, g.dumps[i].at)
    <2>1. \A i \in 1..Len(f.dumps) : f.dumps[i].region = "ro" /\ f.dumps[i].settled = Shows(f, f.dumps[i].at)
      BY <1>2, Zenon DEF FileOK
    <2>2. \A i \in DOMAIN g.dumps : i \in 1..Len(f.dumps) \/ i = Len(f.dumps) + 1
      BY <1>2, <1>3
    <2>3. \A v : Shows(g, v) = Shows(f, v)
      BY <1>2, Zenon DEF Shows
    <2>4. QED BY <1>2, <2>1, <2>2, <2>3, Zenon
  <1>7. now <= now /\ now \in Times(g)
    BY <1>2
  <1>8. QED BY <1>1, <1>2, <1>4, <1>5, <1>6, <1>7, Zenon DEF FileOK

(* In ReadOnly, dump_settled_time keeps the whole capture true: it leaves  *)
(* it as it is, or adds the present time.                                  *)
LEMMA DumpOK ==
  ASSUME NEW c, CaptureOK(c.trace, c.files), now \in Nat, where = "ro",
         NEW d, d = dump_settled_time(c)
  PROVE  /\ CaptureOK(d.trace, d.files)
         /\ d.trace.active <=> c.trace.active
         /\ d.trace.path = c.trace.path /\ d.trace.start = c.trace.start
         /\ c.trace.active => d.trace.dumpedNow /\ d.trace.end = now
         /\ c.trace.active /\ ~c.trace.dumpedNow => d.trace.count = c.trace.count + 1
         /\ ~c.trace.active => d = c
  <1> where \in Places
    BY Zenon DEF Places
  <1>1. CASE ~c.trace.active \/ c.trace.dumpedNow
    <2>1. d = c
      BY <1>1, Zenon DEF dump_settled_time
    <2>2. QED BY <1>1, <2>1, Zenon DEF CaptureOK, ActiveOK
  <1>2. CASE c.trace.active /\ ~c.trace.dumpedNow
    <2>1. /\ Shapes(c.trace, c.files) /\ ActiveOK(c.trace, c.files, now)
          /\ FilesOK(c.trace, c.files, now, visited) /\ LoopOK(c.trace, c.files, now, visited, where, settled)
      BY Zenon DEF CaptureOK
    <2>2. PICK path, f : path = c.trace.path /\ f = c.files[path]
      BY Zenon
    <2>3. /\ path \in DOMAIN c.files /\ c.trace.count = Len(f.dumps) /\ c.trace.end = f.end
          /\ IF f.dumps = <<>> THEN f.start = now /\ c.trace.end = now ELSE c.trace.end < now
      BY <1>2, <2>1, <2>2, Zenon DEF ActiveOK
    <2>4. FileShape(f) /\ FileOK(f, visited, now)
      BY <2>1, <2>2, <2>3, Zenon DEF Shapes, FilesOK
    <2>5. Due(f, visited, now)
      BY <1>2, <2>1, <2>2, <2>3, Zenon DEF LoopOK, Due
    <2>a. settled \in Nat /\ settled = Shows(f, now)
      BY <1>2, <2>1, <2>2, Zenon DEF LoopOK
    <2>6. PICK g : g = Dumped(f)
      BY Zenon
    <2>7. /\ d.trace.active /\ d.trace.path = path /\ d.trace.start = c.trace.start
          /\ d.trace.end = now /\ d.trace.count = c.trace.count + 1 /\ d.trace.dumpedNow
          /\ DOMAIN d.files = DOMAIN c.files
          /\ \A p \in DOMAIN c.files \ {path} : d.files[p] = c.files[p]
          /\ d.files[path] = g
          /\ Shapes(d.trace, d.files)
      <3>1. c.trace.path \in DOMAIN c.files
        BY <2>2, <2>3, Zenon
      <3>2. DumpsInto(c, d)
        BY <1>2, <2>1, <2>a, <3>1, DumpEffect, Zenon
      <3>3. QED BY <2>2, <2>6, <3>2, Zenon DEF DumpsInto
    <2>8. /\ FileShape(g) /\ g.end = now /\ g.dumps # <<>> /\ Len(g.dumps) = Len(f.dumps) + 1
      BY <2>4, <2>6, <2>a, OneMoreDump, Zenon
    <2>9. FileOK(g, visited, now)
      BY <2>4, <2>5, <2>6, <2>a, DumpedOK, Zenon
    <2>10. ActiveOK(d.trace, d.files, now)
      <3>1. d.trace.count = Len(g.dumps) /\ d.trace.path \in DOMAIN d.files /\ d.files[d.trace.path] = g
        BY <2>3, <2>7, <2>8, Zenon
      <3>2. QED BY <2>7, <2>8, <3>1, Zenon DEF ActiveOK
    <2>11. FilesOK(d.trace, d.files, now, visited)
      <3> SUFFICES ASSUME NEW p \in DOMAIN d.files
                   PROVE  FileOK(d.files[p], visited, now) /\ (d.files[p].dumps = <<>> => d.trace.path = p)
        BY <2>7, Zenon DEF FilesOK
      <3>1. CASE p = path
        BY <3>1, <2>7, <2>9, Zenon
      <3>2. CASE p # path
        BY <3>2, <2>1, <2>2, <2>7, Zenon DEF FilesOK
      <3>3. QED BY <3>1, <3>2, Zenon
    <2>12. LoopOK(d.trace, d.files, now, visited, where, settled)
      <3>1. \A v \in visited : now < v => v = now
        BY <2>1 DEF LoopOK
      <3>2. QED BY <2>1, <2>7, <3>1, Zenon DEF LoopOK
    <2>13. QED BY <1>2, <2>2, <2>7, <2>10, <2>11, <2>12, Zenon DEF CaptureOK
  <1>3. QED BY <1>1, <1>2, Zenon

(* A capture that has just been opened, with nothing dumped yet.           *)
LEMMA OpenOK ==
  ASSUME NEW c, NEW path, CaptureOK(c.trace, c.files), ~c.trace.active, now \in Nat,
         where \in {"boot", "ro"}, where = "boot" => visited = {},
         NEW o, o = start(c, path, FALSE)
  PROVE  /\ CaptureOK(o.trace, o.files)
         /\ o.trace.active /\ ~o.trace.dumpedNow /\ o.trace.start = now /\ o.trace.count = 0 /\ o.trace.end = now
  <1>1. PICK f : f = [start |-> now, first |-> settled, end |-> now, dumps |-> <<>>]
    BY Zenon
  <1>2. PICK t : t = [active |-> TRUE, path |-> path, start |-> now, end |-> now, count |-> 0, dumpedNow |-> FALSE]
    BY Zenon
  <1>3. PICK w : w = [p \in DOMAIN c.files \cup {path} |-> IF p = path THEN f ELSE c.files[p]]
    BY Zenon
  <1>4. o.trace = t /\ o.files = w
    BY <1>1, <1>2, <1>3, Zenon DEF start
  <1>5. /\ DOMAIN t = {"active", "path", "start", "end", "count", "dumpedNow"}
        /\ t.active /\ ~t.dumpedNow /\ t.path = path /\ t.start = now /\ t.end = now /\ t.count = 0
    BY <1>2, Zenon
  <1>6. /\ DOMAIN f = {"start", "first", "end", "dumps"}
        /\ f.start = now /\ f.first = settled /\ f.end = now /\ f.dumps = <<>>
    BY <1>1, Zenon
  <1>a. LoopOK(c.trace, c.files, now, visited, where, settled) /\ settled \in Nat
    BY Zenon DEF CaptureOK, LoopOK
  <1>7. /\ DOMAIN w = DOMAIN c.files \cup {path} /\ w[path] = f
        /\ \A p \in DOMAIN w : p # path => p \in DOMAIN c.files /\ w[p] = c.files[p]
    BY <1>3, Zenon
  <1>8. FileShape(f) /\ Len(f.dumps) = 0 /\ 0 \in Nat
    <2>1. <<>> \in Seq(Dump) /\ Len(<<>>) = 0 /\ 0 \in Nat
      OBVIOUS
    <2>2. QED BY <1>6, <1>a, <2>1, Zenon DEF FileShape
  <1>9. FileOK(f, visited, now)
    <2>1. DOMAIN f.dumps = {}
      BY <1>6
    <2>2. QED BY <1>6, <2>1, Zenon DEF FileOK
  <1>10. Shapes(t, w)
    BY <1>5, <1>7, <1>8, Zenon DEF Shapes, CaptureOK
  <1>11. ActiveOK(t, w, now)
    BY <1>5, <1>6, <1>7, <1>8, Zenon DEF ActiveOK
  <1>12. FilesOK(t, w, now, visited)
    <2> SUFFICES ASSUME NEW p \in DOMAIN w
                 PROVE  FileOK(w[p], visited, now) /\ (w[p].dumps = <<>> => t.path = p)
      BY <1>5, Zenon DEF FilesOK
    <2>1. CASE p = path
      BY <1>5, <1>7, <1>9, <2>1, Zenon
    <2>2. CASE p # path
      BY <1>7, <2>2, Zenon DEF CaptureOK, FilesOK
    <2>3. QED BY <2>1, <2>2, Zenon
  <1>13. LoopOK(t, w, now, visited, where, settled)
    <2>1. settled = 0 <=> now \notin visited
      BY <1>a, Zenon DEF LoopOK
    <2>2. where = "ro" => now \in visited
      BY <1>a, Zenon DEF LoopOK
    <2>3. settled # 0 => settled = Shows(f, now)
      BY <1>6, <1>a DEF Shows
    <2>4. where # "ro" => settled = 0
      BY <2>1, Zenon
    <2>5. QED BY <1>5, <1>6, <1>7, <1>a, <2>1, <2>2, <2>3, <2>4, Zenon DEF LoopOK
  <1>14. QED BY <1>4, <1>5, <1>10, <1>11, <1>12, <1>13, Zenon DEF CaptureOK

SameDumps(g, f) == g.start = f.start /\ g.first = f.first /\ g.dumps = f.dumps

Closes(s, d) ==
  /\ DOMAIN s.files = DOMAIN d.files
  /\ \A p \in DOMAIN d.files \ {d.trace.path} : s.files[p] = d.files[p]
  /\ SameDumps(s.files[d.trace.path], d.files[d.trace.path]) /\ s.files[d.trace.path].end = now

LEMMA SameShows ==
  ASSUME NEW g, NEW f, g.start = f.start, g.first = f.first
  PROVE  \A v : Shows(g, v) = Shows(f, v)
  BY Zenon DEF Shows

(* A capture whose last dump was made at this time, and is closed.         *)
LEMMA CloseOK ==
  ASSUME NEW c, NEW d, d = dump_settled_time(c), Shapes(d.trace, d.files), d.trace.path \in DOMAIN d.files,
         now \in Nat, NEW s, s = stop(c)
  PROVE  /\ Shapes(s.trace, s.files) /\ ~s.trace.active
         /\ Closes(s, d)
         /\ FilesOK(d.trace, d.files, now, visited) /\ d.files[d.trace.path].end = now
             /\ d.files[d.trace.path].dumps # <<>> => FilesOK(s.trace, s.files, now, visited)
  <1>1. PICK path, f : path = d.trace.path /\ f = d.files[path]
    BY Zenon
  <1>2. PICK g : g = [f EXCEPT !.end = now]
    BY Zenon
  <1>3. PICK t, w : /\ t = [d.trace EXCEPT !.active = FALSE, !.end = now]
                    /\ w = [d.files EXCEPT ![d.trace.path] = [@ EXCEPT !.end = now]]
                    /\ s = [trace |-> t, files |-> w]
    BY Zenon DEF stop
  <1>4. /\ s.trace = [d.trace EXCEPT !.active = FALSE, !.end = now]
        /\ s.files = [d.files EXCEPT ![d.trace.path] = [@ EXCEPT !.end = now]]
    <2>1. s = [trace |-> t, files |-> w]
      BY <1>3, Zenon
    <2>2. s.trace = t /\ s.files = w
      BY <2>1
    <2>3. QED BY <1>3, <2>2, Zenon
  <1>5. /\ DOMAIN s.trace = {"active", "path", "start", "end", "count", "dumpedNow"}
        /\ ~s.trace.active /\ s.trace.end = now /\ s.trace.count = d.trace.count
    <2>1. PICK b : b = d.trace
      BY Zenon
    <2>2. PICK u : u = [b EXCEPT !.active = FALSE, !.end = now]
      BY Zenon
    <2>3. u = s.trace
      BY <1>4, <2>1, <2>2, Zenon
    <2>4. DOMAIN b = {"active", "path", "start", "end", "count", "dumpedNow"}
      BY <2>1, Zenon DEF Shapes
    <2>5. /\ DOMAIN u = {"active", "path", "start", "end", "count", "dumpedNow"}
          /\ ~u.active /\ u.end = now /\ u.count = b.count
      BY <2>2, <2>4, Zenon
    <2>6. QED BY <2>1, <2>3, <2>5, Zenon
  <1>6. /\ DOMAIN s.files = DOMAIN d.files
        /\ \A p \in DOMAIN d.files \ {d.trace.path} : s.files[p] = d.files[p]
        /\ s.files[d.trace.path] = [d.files[d.trace.path] EXCEPT !.end = now]
    BY <1>4, Zenon
  <1>7. s.files[path] = g
    BY <1>1, <1>2, <1>6, Zenon
  <1>8. FileShape(f)
    BY <1>1, Zenon DEF Shapes
  <1>9. FileShape(g) /\ SameDumps(g, f) /\ g.end = now
    BY <1>2, <1>8, Zenon DEF FileShape, SameDumps
  <1>10. Shapes(s.trace, s.files)
    <2>1. \A p \in DOMAIN s.files : FileShape(s.files[p])
      BY <1>1, <1>6, <1>7, <1>9, Zenon DEF Shapes
    <2>2. d.trace.count \in Nat
      BY Zenon DEF Shapes
    <2>3. QED BY <1>5, <2>1, <2>2, Zenon DEF Shapes
  <1>11. ASSUME FilesOK(d.trace, d.files, now, visited), f.end = now, f.dumps # <<>>
         PROVE  FilesOK(s.trace, s.files, now, visited)
    <2>1. FileOK(g, visited, now)
      <3>1. FileOK(f, visited, now) /\ Times(g) = Times(f)
        <4>1. FileOK(f, visited, now)
          BY <1>1, <1>11, Zenon DEF FilesOK
        <4>2. Times(g) = Times(f)
          BY <1>9, Zenon DEF Times, SameDumps
        <4>3. QED BY <4>1, <4>2, Zenon
      <3>2. \A v : Shows(g, v) = Shows(f, v)
        BY <1>9, SameShows, Zenon DEF SameDumps
      <3>3. QED BY <1>9, <1>11, <3>1, <3>2, Zenon DEF FileOK, SameDumps
    <2> SUFFICES ASSUME NEW p \in DOMAIN s.files
                 PROVE  FileOK(s.files[p], visited, now) /\ s.files[p].dumps # <<>>
      BY Zenon DEF FilesOK
    <2>2. CASE p = path
      BY <1>7, <1>9, <1>11, <2>1, <2>2, Zenon DEF SameDumps
    <2>3. CASE p # path
      <3>1. p \in DOMAIN d.files /\ s.files[p] = d.files[p]
        BY <1>1, <1>6, <2>3, Zenon
      <3>2. FileOK(d.files[p], visited, now) /\ (d.files[p].dumps = <<>> => d.trace.path = p)
        BY <1>11, <3>1, Zenon DEF FilesOK
      <3>3. QED BY <1>1, <2>3, <3>1, <3>2, Zenon
    <2>4. QED BY <2>2, <2>3, Zenon
  <1>12. Closes(s, d)
    BY <1>1, <1>5, <1>6, <1>7, <1>9, Zenon DEF Closes
  <1>13. QED BY <1>1, <1>5, <1>10, <1>11, <1>12, Zenon

LEMMA CaptureIs == Capture.trace = tracep /\ Capture.files = waves
  BY Zenon DEF Capture

LEMMA StartDumps ==
  ASSUME NEW c, NEW path
  PROVE  start(c, path, TRUE) = dump_settled_time(start(c, path, FALSE))
  BY Zenon DEF start

LEMMA CodesAre ==
  /\ Codes.Unavailable # 0 /\ Codes.Host # 0 /\ Codes.InvalidPath # 0 /\ Codes.WrongState # 0
  /\ DOMAIN Codes = {"Unavailable", "Host", "InvalidPath", "WrongState"}
  BY DEF Codes

(* A failure is never taken for a state.                                   *)
LEMMA FailureIsNoState ==
  ASSUME NEW code
  PROVE  Failure(code) \notin {"Idle", "Active"}
  <1>1. Failure(code) \in {"Unavailable", "Host", "InvalidPath", "WrongState"}
    BY CodesAre, Zenon DEF Failure
  <1>2. QED BY <1>1, Zenon

LEMMA RefusalIsNoState ==
  /\ Refused \notin {"Idle", "Active"} /\ (Refused = "no" => where = "ro")
  BY Zenon DEF Refused, current_phase

(* A capture with no file open, after the file at a path has gone.         *)
LEMMA RemovedOK ==
  ASSUME CaptureOK(tracep, waves), ~tracep.active, NEW path, NEW r, r = removed(Capture, path)
  PROVE  CaptureOK(r.trace, r.files)
  <1>1. PICK w : w = [p \in DOMAIN waves \ {path} |-> waves[p]]
    BY Zenon
  <1>2. r.trace = tracep /\ r.files = w
    BY <1>1, Zenon DEF removed, Capture
  <1>3. DOMAIN w = DOMAIN waves \ {path} /\ \A p \in DOMAIN w : p \in DOMAIN waves /\ w[p] = waves[p]
    BY <1>1, Zenon
  <1>4. Shapes(tracep, w)
    BY <1>3, Zenon DEF CaptureOK, Shapes
  <1>5. ActiveOK(tracep, w, now) /\ LoopOK(tracep, w, now, visited, where, settled)
    BY Zenon DEF CaptureOK, ActiveOK, LoopOK
  <1>6. FilesOK(tracep, w, now, visited)
    BY <1>3, Zenon DEF CaptureOK, FilesOK
  <1>7. QED BY <1>2, <1>4, <1>5, <1>6, Zenon DEF CaptureOK

(* What the host's control function gives back in ReadOnly.                *)
Sound(r, command) ==
  /\ CaptureOK(r.capture.trace, r.capture.files)
  /\ command = "start" /\ r.code = 0 => r.capture.trace.count = 1 /\ r.capture.trace.start = r.capture.trace.end

LEMMA SoundIs ==
  ASSUME NEW code, NEW c, NEW command, CaptureOK(c.trace, c.files),
         command = "start" /\ code = 0 => c.trace.count = 1 /\ c.trace.start = c.trace.end
  PROVE  Sound([code |-> code, capture |-> c], command)
  <1>1. PICK r : r = [code |-> code, capture |-> c]
    BY Zenon
  <1>2. r.code = code /\ r.capture = c
    BY <1>1, Zenon
  <1>3. QED BY <1>1, <1>2, Zenon DEF Sound

(* A start in ReadOnly makes its first dump at once.                       *)
LEMMA StartOK ==
  ASSUME CaptureOK(tracep, waves), ~tracep.active, now \in Nat, where = "ro", NEW path,
         NEW d, d = start(Capture, path, TRUE)
  PROVE  CaptureOK(d.trace, d.files) /\ d.trace.count = 1 /\ d.trace.start = d.trace.end
  <1>1. PICK o : o = start(Capture, path, FALSE)
    BY Zenon
  <1>2. /\ CaptureOK(o.trace, o.files)
        /\ o.trace.active /\ ~o.trace.dumpedNow /\ o.trace.start = now /\ o.trace.count = 0
    BY <1>1, CaptureIs, OpenOK, Zenon
  <1>3. d = dump_settled_time(o)
    BY <1>1, StartDumps, Zenon
  <1>4. /\ CaptureOK(d.trace, d.files) /\ d.trace.start = o.trace.start /\ d.trace.end = now
        /\ d.trace.count = o.trace.count + 1
    BY <1>2, <1>3, DumpOK, Zenon
  <1>5. 0 + 1 = 1
    OBVIOUS
  <1>6. QED BY <1>2, <1>4, <1>5, Zenon

(* A closed capture, whose files are true, is true.                        *)
LEMMA ClosedOK ==
  ASSUME NEW t, NEW w, NEW u, NEW x, Shapes(t, w), ~t.active, FilesOK(t, w, now, visited),
         LoopOK(u, x, now, visited, where, settled)
  PROVE  CaptureOK(t, w)
  BY Zenon DEF CaptureOK, ActiveOK, LoopOK

LEMMA StopOK ==
  ASSUME CaptureOK(tracep, waves), tracep.active, now \in Nat, where = "ro", NEW s, s = stop(Capture)
  PROVE  CaptureOK(s.trace, s.files)
  <1>1. PICK d : d = dump_settled_time(Capture)
    BY Zenon
  <1>2. CaptureOK(d.trace, d.files) /\ d.trace.active /\ d.trace.dumpedNow
    BY <1>1, CaptureIs, DumpOK, Zenon
  <1>3. /\ Shapes(d.trace, d.files) /\ d.trace.path \in DOMAIN d.files
        /\ FilesOK(d.trace, d.files, now, visited) /\ LoopOK(d.trace, d.files, now, visited, where, settled)
        /\ d.files[d.trace.path].end = now /\ d.files[d.trace.path].dumps # <<>>
    BY <1>2, Zenon DEF CaptureOK, ActiveOK
  <1>4. /\ Shapes(s.trace, s.files) /\ ~s.trace.active
        /\ FilesOK(s.trace, s.files, now, visited)
    BY <1>1, <1>3, CloseOK, Zenon
  <1>5. QED BY <1>3, <1>4, ClosedOK, Zenon

LEMMA ControlOK ==
  ASSUME CaptureOK(tracep, waves), now \in Nat, where = "ro", NEW command \in Commands, NEW path, NEW open
  PROVE  Sound(rustdv_simulator_trace_control(command, path, open), command)
  <1>1. PICK r : r = rustdv_simulator_trace_control(command, path, open)
    BY Zenon
  <1>a. ASSUME NEW code, NEW c, CaptureOK(c.trace, c.files), code # 0 \/ command # "start"
        PROVE  Sound([code |-> code, capture |-> c], command)
    BY <1>a, SoundIs, Zenon
  <1>2. \A code : code # 0 \/ command # "start" => Sound([code |-> code, capture |-> Capture], command)
    BY <1>a, CaptureIs, Zenon
  <1>3. CASE host = "fast"
    BY <1>2, <1>3, CodesAre, Zenon DEF rustdv_simulator_trace_control
  <1>4. CASE host # "fast" /\ command = "status"
    <2>1. r = [code |-> 0, capture |-> Capture]
      BY <1>1, <1>4, Zenon DEF rustdv_simulator_trace_control
    <2>2. QED BY <1>1, <1>2, <1>4, <2>1, Zenon
  <1>5. CASE host # "fast" /\ command = "start"
    <2>1. \/ r = [code |-> Codes.WrongState, capture |-> Capture]
          \/ r = [code |-> Codes.InvalidPath, capture |-> Capture]
          \/ r = [code |-> Codes.Host, capture |-> Capture]
          \/ ~tracep.active /\ r = [code |-> Codes.Host, capture |-> removed(Capture, path)]
          \/ ~tracep.active /\ r = [code |-> 0, capture |-> start(Capture, path, TRUE)]
      BY <1>1, <1>5, Zenon DEF rustdv_simulator_trace_control
    <2>2. ~tracep.active => /\ Sound([code |-> Codes.Host, capture |-> removed(Capture, path)], command)
                            /\ Sound([code |-> 0, capture |-> start(Capture, path, TRUE)], command)
      BY CodesAre, RemovedOK, StartOK, SoundIs, Zenon
    <2>3. QED BY <1>1, <1>2, <2>1, <2>2, CodesAre, Zenon
  <1>6. CASE host # "fast" /\ command = "stop"
    <2>1. PICK s : s = stop(Capture)
      BY Zenon
    <2>2. command # "start"
      BY <1>6, Zenon
    <2>3. \/ r = [code |-> Codes.WrongState, capture |-> Capture]
          \/ tracep.active /\ r = [code |-> 0, capture |-> s]
      BY <1>1, <1>6, <2>1, Zenon DEF rustdv_simulator_trace_control
    <2>4. tracep.active => CaptureOK(s.trace, s.files)
      BY <2>1, StopOK, Zenon
    <2>5. tracep.active => Sound([code |-> 0, capture |-> s], command)
      BY <1>a, <2>2, <2>4, Zenon
    <2>6. QED BY <1>1, <1>2, <2>2, <2>3, <2>5, Zenon
  <1>7. CASE host # "fast" /\ command = "flush"
    <2>1. PICK d : d = dump_settled_time(Capture)
      BY Zenon
    <2>2. command # "start"
      BY <1>7, Zenon
    <2>3. \/ r = [code |-> Codes.WrongState, capture |-> Capture]
          \/ tracep.active /\ r = [code |-> 0, capture |-> d]
      BY <1>1, <1>7, <2>1, Zenon DEF rustdv_simulator_trace_control
    <2>4. CaptureOK(d.trace, d.files)
      BY <2>1, CaptureIs, DumpOK, Zenon
    <2>5. Sound([code |-> 0, capture |-> d], command)
      BY <1>a, <2>2, <2>4, Zenon
    <2>6. QED BY <1>1, <1>2, <2>2, <2>3, <2>5, Zenon
  <1>8. QED BY <1>1, <1>3, <1>4, <1>5, <1>6, <1>7, Zenon DEF Commands

(* ------------------------- The calls of a testbench -------------------- *)

LEMMA AnswerKept ==
  ASSUME NEW command, NEW result, NEW c, Answered(command, result, c),
         result \in {"Idle", "Active"} => where = "ro",
         command = "start" /\ result = "Active" => c.trace.count = 1 /\ c.trace.start = c.trace.end
  PROVE  AnswerOK'
  <1>1. /\ answer'.command = command /\ answer'.result = result /\ answer'.at = where
        /\ answer'.start = c.trace.start /\ answer'.end = c.trace.end /\ answer'.count = c.trace.count
    BY Zenon DEF Answered
  <1>2. QED BY <1>1, Zenon DEF AnswerOK

(* A call that leaves the capture alone.                                   *)
LEMMA NothingMoves ==
  ASSUME CaptureOK(tracep, waves), PlaceOK, where # "over", UNCHANGED <<where, now, settled, ok, tracep, waves, visited>>
  PROVE  CaptureOK(tracep, waves)' /\ PlaceOK' /\ where' # "over"
  BY Zenon DEF CaptureOK, PlaceOK

LEMMA ControlKeeps ==
  ASSUME TInv, NEW command \in Commands, NEW path, NEW open, control(command, path, open)
  PROVE  TInv'
  <1>1. CaptureOK(tracep, waves) /\ PlaceOK /\ where # "over"
    BY Zenon DEF TInv, control, Running
  <1>2. UNCHANGED <<where, now, settled, ok, visited>>
    BY Zenon DEF control
  <1>3. CASE command = "start" /\ ~path_to_c_string(path)
    <2>1. Answered(command, "InvalidPath", Capture) /\ UNCHANGED <<tracep, waves>>
      BY <1>3, Zenon DEF control
    <2>2. AnswerOK'
      BY <2>1, AnswerKept, Zenon
    <2>3. QED BY <1>1, <1>2, <2>1, <2>2, NothingMoves, Zenon DEF TInv
  <1>4. CASE ~(command = "start" /\ ~path_to_c_string(path)) /\ Refused # "no"
    <2>1. Answered(command, Refused, Capture) /\ UNCHANGED <<tracep, waves>>
      BY <1>4, Zenon DEF control
    <2>2. AnswerOK'
      BY <2>1, AnswerKept, RefusalIsNoState, Zenon
    <2>3. QED BY <1>1, <1>2, <2>1, <2>2, NothingMoves, Zenon DEF TInv
  <1>5. CASE ~(command = "start" /\ ~path_to_c_string(path)) /\ Refused = "no"
    <2>1. PICK r : r = rustdv_simulator_trace_control(command, path, open)
      BY Zenon
    <2>2. PICK result : result = IF r.code = 0 THEN decode_status(1, 1, IF r.capture.trace.active THEN 1 ELSE 0)
                                 ELSE Failure(r.code)
      BY Zenon
    <2>3. tracep' = r.capture.trace /\ waves' = r.capture.files /\ Answered(command, result, r.capture)
      BY <1>5, <2>1, <2>2, Zenon DEF control
    <2>4. where = "ro" /\ now \in Nat
      BY <1>1, <1>5, RefusalIsNoState, Zenon DEF PlaceOK
    <2>5. Sound(r, command)
      BY <1>1, <2>1, <2>4, ControlOK, Zenon
    <2>6. CaptureOK(tracep, waves)'
      BY <1>2, <2>3, <2>5, Zenon DEF CaptureOK, Sound
    <2>7. result = "Active" => r.code = 0
      BY <2>2, FailureIsNoState, Zenon
    <2>8. AnswerOK'
      BY <2>3, <2>4, <2>5, <2>7, AnswerKept, Zenon DEF Sound
    <2>9. PlaceOK'
      BY <1>1, <1>2, <2>4, Zenon DEF PlaceOK
    <2>10. QED BY <1>1, <1>2, <2>6, <2>8, <2>9, Zenon DEF TInv
  <1>6. QED BY <1>3, <1>4, <1>5, Zenon

LEMMA OtherKeeps ==
  ASSUME TInv, NEW code, NEW abi, NEW capability, NEW state, OtherControl(code, abi, capability, state)
  PROVE  TInv'
  <1>1. /\ CaptureOK(tracep, waves) /\ PlaceOK /\ where # "over"
        /\ UNCHANGED <<where, now, settled, ok, tracep, waves, visited>>
    BY Zenon DEF TInv, OtherControl, Running
  <1>2. PICK result : /\ result = IF Refused # "no" THEN Refused
                                  ELSE IF code = 0 THEN decode_status(abi, capability, state) ELSE Failure(code)
                      /\ Answered("status", result, Capture)
    BY Zenon DEF OtherControl
  <1>3. result \in {"Idle", "Active"} => where = "ro"
    BY <1>2, RefusalIsNoState, Zenon
  <1>4. AnswerOK'
    BY <1>2, <1>3, AnswerKept, Zenon
  <1>5. QED BY <1>1, <1>4, NothingMoves, Zenon DEF TInv

LEMMA AskKeeps ==
  ASSUME TInv, NEW raw, AskFormat(raw)
  PROVE  TInv'
  <1>1. /\ CaptureOK(tracep, waves) /\ PlaceOK /\ where # "over"
        /\ UNCHANGED <<where, now, settled, ok, tracep, waves, visited>>
    BY Zenon DEF TInv, AskFormat, Running
  <1>2. host_format(raw) \notin {"Idle", "Active"}
    BY Zenon DEF host_format
  <1>3. AnswerOK'
    BY <1>2, AnswerKept, Zenon DEF AskFormat
  <1>4. QED BY <1>1, <1>3, NothingMoves, Zenon DEF TInv

(* --------------------------- The host's main --------------------------- *)

(* Away from ReadOnly, where the loop is makes no difference.              *)
LEMMA LoopMoves ==
  ASSUME NEW t, NEW w, NEW W, NEW X, LoopOK(t, w, now, visited, W, settled), W # "ro", X # "ro"
  PROVE  LoopOK(t, w, now, visited, X, settled)
  BY Zenon DEF LoopOK

(* A host that ends with no capture open leaves files that are true.       *)
LEMMA NoneIsOpen ==
  ASSUME NEW t, NEW w, FilesOK(t, w, now, visited), ~t.active, NEW W, NEW O
  PROVE  \A p \in DOMAIN w : w[p].dumps # <<>> /\ FileTrue(w[p], now, visited, W, O)
  BY TrueSoFar, Zenon DEF FilesOK

LEMMA BootKeeps ==
  ASSUME TInv, NEW path, NEW open, Boot(path, open)
  PROVE  TInv'
  <1>1. /\ CaptureOK(tracep, waves) /\ PlaceOK /\ AnswerOK /\ where = "boot" /\ ok /\ now \in Nat
        /\ ~tracep.active /\ visited = {}
        /\ UNCHANGED <<now, settled, ok, visited, answer>> /\ where' \in {"starting", "over"}
    BY Zenon DEF TInv, Boot, PlaceOK
  <1>2. PICK c : c = start(Capture, path, FALSE)
    BY Zenon
  <1>3. CaptureOK(c.trace, c.files) /\ c.trace.active /\ c.trace.end = now
    BY <1>1, <1>2, CaptureIs, OpenOK, Zenon
  <1>4. AnswerOK'
    BY <1>1, Zenon DEF AnswerOK
  <1>5. CASE where' = "starting"
    <2>1. \/ tracep' = c.trace /\ waves' = c.files
          \/ tracep' = tracep /\ waves' = waves
      BY <1>2, Zenon DEF Boot
    <2>2. PICK t, w : /\ tracep' = t /\ waves' = w /\ CaptureOK(t, w) /\ (t.active => t.end = now)
      BY <1>1, <1>3, <2>1, Zenon
    <2>3. LoopOK(t, w, now, visited, where', settled)
      BY <1>1, <1>5, <2>2, LoopMoves, Zenon DEF CaptureOK
    <2>4. CaptureOK(tracep, waves)'
      BY <1>1, <2>2, <2>3, Zenon DEF CaptureOK
    <2>5. PlaceOK'
      BY <1>1, <1>5, <2>2, Zenon DEF PlaceOK, Places
    <2>6. QED BY <1>4, <1>5, <2>4, <2>5, Zenon DEF TInv
  <1>6. CASE where' = "over"
    <2>1. tracep' = tracep /\ waves' = waves
      BY <1>6, Zenon DEF Boot
    <2>2. FinalOK'
      BY <1>1, <2>1, NoneIsOpen, Zenon DEF CaptureOK, FinalOK
    <2>3. PlaceOK'
      BY <1>1, <1>6, <2>1, Zenon DEF PlaceOK, Places
    <2>4. QED BY <1>4, <1>6, <2>2, <2>3, Zenon DEF TInv
  <1>7. QED BY <1>1, <1>5, <1>6, Zenon

LEMMA StartKeeps ==
  ASSUME TInv, NEW atOnce, StartOfSimulation(atOnce)
  PROVE  TInv'
  <1>1. /\ CaptureOK(tracep, waves) /\ PlaceOK /\ AnswerOK /\ where = "starting" /\ where' \in {"timed", "ended"}
        /\ UNCHANGED <<now, settled, ok, tracep, waves, visited, answer>>
    BY Zenon DEF TInv, StartOfSimulation
  <1>2. LoopOK(tracep, waves, now, visited, where', settled)
    BY <1>1, LoopMoves, Zenon DEF CaptureOK
  <1>3. CaptureOK(tracep, waves)'
    BY <1>1, <1>2, Zenon DEF CaptureOK
  <1>4. PlaceOK' /\ AnswerOK'
    BY <1>1, Zenon DEF PlaceOK, AnswerOK, Places
  <1>5. QED BY <1>1, <1>3, <1>4, Zenon DEF TInv

LEMMA TimedKeeps ==
  ASSUME TInv, Timed
  PROVE  TInv'
  <1>1. /\ CaptureOK(tracep, waves) /\ PlaceOK /\ AnswerOK /\ where = "timed" /\ where' = "settling"
        /\ UNCHANGED <<now, settled, ok, tracep, waves, visited, answer>>
    BY Zenon DEF TInv, Timed
  <1>2. LoopOK(tracep, waves, now, visited, where', settled)
    BY <1>1, LoopMoves, Zenon DEF CaptureOK
  <1>3. CaptureOK(tracep, waves)'
    BY <1>1, <1>2, Zenon DEF CaptureOK
  <1>4. PlaceOK' /\ AnswerOK'
    BY <1>1, Zenon DEF PlaceOK, AnswerOK, Places
  <1>5. QED BY <1>1, <1>3, <1>4, Zenon DEF TInv

(* One more time settles: the files that do not reach it are as true.      *)
LEMMA SettledFile ==
  ASSUME NEW f, FileShape(f), FileOK(f, visited, now), now \in Nat, visited \in SUBSET Nat
  PROVE  FileOK(f, visited \cup {now}, now)
  <1>1. CASE f.dumps = <<>>
    BY <1>1, Zenon DEF FileOK
  <1>2. CASE f.dumps # <<>>
    <2>1. PICK s, last, S : s = f.start /\ last = f.end /\ S = Times(f)
      BY Zenon
    <2>2. s \in Nat /\ last \in Nat /\ last <= now /\ last \in S /\ S = {v \in visited : v \in s..last}
      BY <1>2, <2>1, Zenon DEF FileOK, FileShape
    <2>3. now \in s..last => now \in visited
      BY <2>2
    <2>4. S = {v \in visited \cup {now} : v \in s..last}
      BY <2>2, <2>3, Zenon
    <2>5. QED BY <1>2, <2>1, <2>4, Zenon DEF FileOK
  <1>3. QED BY <1>1, <1>2, Zenon

LEMMA SettleKeeps ==
  ASSUME TInv, NEW settles \in BOOLEAN, settle(settles)
  PROVE  TInv'
  <1>1. /\ CaptureOK(tracep, waves) /\ PlaceOK /\ AnswerOK /\ where = "settling" /\ ok /\ now \in Nat
        /\ UNCHANGED <<now, tracep, waves, answer>>
    BY Zenon DEF TInv, settle, PlaceOK
  <1>2. AnswerOK'
    BY <1>1, Zenon DEF AnswerOK
  <1>3. CASE settles
    <2>1. where' = "ro" /\ ok' /\ visited' = visited \cup {now} /\ settled' = settled + 1
      BY <1>3, Zenon DEF settle
    <2>2. /\ Shapes(tracep, waves) /\ ActiveOK(tracep, waves, now)
          /\ FilesOK(tracep, waves, now, visited) /\ LoopOK(tracep, waves, now, visited, where, settled)
      BY <1>1, Zenon DEF CaptureOK
    <2>3. visited \in SUBSET Nat /\ (\A v \in visited : v <= now) /\ settled \in Nat
      BY <2>2, Zenon DEF LoopOK
    <2>4. FilesOK(tracep, waves, now, visited')
      <3>1. \A p \in DOMAIN waves : FileOK(waves[p], visited \cup {now}, now)
        BY <1>1, <2>2, <2>3, SettledFile, Zenon DEF FilesOK, Shapes
      <3>2. QED BY <2>1, <2>2, <3>1, Zenon DEF FilesOK
    <2>5. LoopOK(tracep, waves, now, visited', where', settled')
      <3>1. visited' \in SUBSET Nat /\ \A v \in visited' : v <= now
        BY <1>1, <2>1, <2>3
      <3>2. settled' \in Nat /\ settled' # 0 /\ (settled = 0 => settled' = 1)
        BY <2>1, <2>3
      <3>3. tracep.active /\ ~tracep.dumpedNow => settled' = Shows(waves[tracep.path], now)
        <4>1. 0 > 1 <=> FALSE
          OBVIOUS
        <4>2. QED BY <1>1, <2>2, <3>2, <4>1, Zenon DEF LoopOK, Shows
      <3>4. QED BY <1>1, <2>1, <2>2, <3>1, <3>2, <3>3, Zenon DEF LoopOK
    <2>6. CaptureOK(tracep, waves)'
      BY <1>1, <2>2, <2>4, <2>5, Zenon DEF CaptureOK
    <2>7. PlaceOK'
      BY <1>1, <2>1, Zenon DEF PlaceOK, Places
    <2>8. QED BY <1>2, <2>1, <2>6, <2>7, Zenon DEF TInv
  <1>4. CASE ~settles
    <2>1. where' = "ended" /\ ~ok' /\ UNCHANGED <<visited, settled>>
      BY <1>4, Zenon DEF settle
    <2>2. LoopOK(tracep, waves, now, visited, where', settled)
      BY <1>1, <2>1, LoopMoves, Zenon DEF CaptureOK
    <2>3. CaptureOK(tracep, waves)'
      BY <1>1, <2>1, <2>2, Zenon DEF CaptureOK
    <2>4. PlaceOK'
      BY <1>1, <2>1, Zenon DEF PlaceOK, Places
    <2>5. QED BY <1>2, <2>1, <2>3, <2>4, Zenon DEF TInv
  <1>5. QED BY <1>3, <1>4, Zenon

LEMMA NextSlotKeeps ==
  ASSUME TInv, NEW then, NEW slot \in {now, now + 1}, NextSlot(then, slot)
  PROVE  TInv'
  <1>1. /\ CaptureOK(tracep, waves) /\ PlaceOK /\ AnswerOK /\ where = "ro" /\ now \in Nat
        /\ now' = slot /\ UNCHANGED <<visited, answer>>
        /\ settled' = (IF slot = now THEN settled ELSE 0)
        /\ \/ where' = "timed" /\ ok'
           \/ where' = "ended" /\ slot = now
    BY Zenon DEF TInv, NextSlot, PlaceOK
  <1>2. PICK d : d = dump_settled_time(Capture)
    BY Zenon
  <1>3. PICK t, w, u : t = d.trace /\ w = d.files /\ u = [t EXCEPT !.dumpedNow = @ /\ slot = now]
    BY Zenon
  <1>4. tracep' = u /\ waves' = w
    BY <1>2, <1>3, Zenon DEF NextSlot
  <1>5. CaptureOK(t, w) /\ (t.active => t.dumpedNow /\ t.end = now)
    <2>1. /\ CaptureOK(d.trace, d.files) /\ (d.trace.active <=> tracep.active)
          /\ (tracep.active => d.trace.dumpedNow /\ d.trace.end = now)
      BY <1>1, <1>2, CaptureIs, DumpOK, Zenon
    <2>2. QED BY <1>3, <2>1, Zenon
  <1>6. /\ Shapes(t, w) /\ ActiveOK(t, w, now)
        /\ FilesOK(t, w, now, visited) /\ LoopOK(t, w, now, visited, where, settled)
    BY <1>1, <1>5, Zenon DEF CaptureOK
  <1>7. /\ DOMAIN u = {"active", "path", "start", "end", "count", "dumpedNow"}
        /\ u.active = t.active /\ u.path = t.path /\ u.end = t.end /\ u.count = t.count
        /\ u.dumpedNow <=> t.dumpedNow /\ slot = now
    BY <1>3, <1>6, Zenon DEF Shapes
  <1>8. slot \in Nat /\ now <= slot /\ (slot # now => now < slot) /\ now \in {slot - 1, slot}
    BY <1>1
  <1>9. Shapes(u, w)
    BY <1>6, <1>7, Zenon DEF Shapes
  <1>10. ActiveOK(u, w, slot)
    <2> SUFFICES ASSUME u.active
                 PROVE  /\ u.path \in DOMAIN w
                        /\ u.count = Len(w[u.path].dumps) /\ u.end = w[u.path].end
                        /\ w[u.path].dumps # <<>>
                        /\ u.dumpedNow => u.end = slot
                        /\ ~u.dumpedNow => u.end < slot
      BY Zenon DEF ActiveOK
    <2>1. /\ t.path \in DOMAIN w /\ t.count = Len(w[t.path].dumps) /\ t.end = w[t.path].end
          /\ w[t.path].dumps # <<>> /\ t.end = now /\ t.dumpedNow
      BY <1>5, <1>6, <1>7, Zenon DEF ActiveOK
    <2>2. QED BY <1>7, <1>8, <2>1, Zenon
  <1>11. FilesOK(u, w, slot, visited)
    <2> SUFFICES ASSUME NEW p \in DOMAIN w
                 PROVE  FileOK(w[p], visited, slot) /\ (w[p].dumps = <<>> => u.active /\ u.path = p)
      BY Zenon DEF FilesOK
    <2>1. PICK f : f = w[p]
      BY Zenon
    <2>2. FileOK(f, visited, now) /\ (f.dumps = <<>> => t.active /\ t.path = p) /\ FileShape(f)
      BY <1>6, <2>1, Zenon DEF FilesOK, Shapes
    <2>3. f.end \in Nat
      BY <2>2, Zenon DEF FileShape
    <2>4. f.end <= now => f.end <= slot
      BY <1>1, <1>8, <2>3
    <2>5. FileOK(f, visited, slot)
      BY <2>2, <2>4, Zenon DEF FileOK
    <2>6. QED BY <1>7, <2>1, <2>2, <2>5, Zenon
  <1>12. LoopOK(u, w, slot, visited, where', settled')
    <2>1. visited \in SUBSET Nat /\ \A v \in visited : v <= now
      BY <1>6, Zenon DEF LoopOK
    <2>2. \A v \in visited : v <= slot /\ ~(now < v)
      BY <1>1, <1>8, <2>1
    <2>3. where' # "ro" /\ (u.active => u.end = now)
      BY <1>1, <1>5, <1>7, Zenon
    <2>4. settled' \in Nat /\ (settled' = 0 <=> slot \notin visited)
      <3>1. settled \in Nat /\ (settled = 0 <=> now \notin visited)
        BY <1>6, Zenon DEF LoopOK
      <3>2. slot # now => slot \notin visited
        BY <1>1, <1>8, <2>1
      <3>3. QED BY <1>1, <3>1, <3>2, Zenon
    <2>5. ASSUME u.active, ~u.dumpedNow
          PROVE  settled' = 0 /\ w[u.path].start # slot
      <3>1. slot # now /\ settled' = 0
        BY <1>1, <1>5, <1>7, <2>5, Zenon
      <3>2. PICK f : f = w[u.path]
        BY Zenon
      <3>3. f.dumps # <<>> /\ FileOK(f, visited, now) /\ FileShape(f)
        BY <1>5, <1>6, <1>7, <2>5, <3>2, Zenon DEF ActiveOK, FilesOK, Shapes
      <3>4. f.end <= now /\ f.end \in f.start..f.end /\ f.start \in Nat /\ f.end \in Nat
        BY <3>3, Zenon DEF FileOK, FileShape
      <3>5. f.start # slot
        BY <1>1, <1>8, <3>1, <3>4
      <3>6. QED BY <3>1, <3>2, <3>5, Zenon
    <2>6. QED BY <2>1, <2>2, <2>3, <2>4, <2>5, Zenon DEF LoopOK
  <1>13. CaptureOK(tracep, waves)'
    BY <1>1, <1>4, <1>9, <1>10, <1>11, <1>12, Zenon DEF CaptureOK
  <1>14. PlaceOK'
    <2>1. u.active => u.end \in {slot - 1, slot}
      BY <1>5, <1>7, <1>8, Zenon
    <2>2. where' = "ended" /\ u.active => u.dumpedNow
      BY <1>1, <1>5, <1>7, Zenon
    <2>3. QED BY <1>1, <1>4, <1>8, <2>1, <2>2, Zenon DEF PlaceOK, Places
  <1>15. QED BY <1>1, <1>13, <1>14, Zenon DEF TInv, AnswerOK

(* A last dump at a time that did not settle.                              *)
Unsettled(f) ==
  /\ now \notin visited /\ (~ok \/ visited = {})
  /\ f.dumps = <<>> => f.start = now
  /\ f.dumps # <<>> => f.end < now /\ \A v \in visited : ~(f.end < v)

LEMMA UnsettledDump ==
  ASSUME NEW f, FileShape(f), FileOK(f, visited, now), now \in Nat, settled \in Nat, where \in Places,
         where # "ro", visited \in SUBSET Nat, Unsettled(f), NEW h, SameDumps(h, Dumped(f)), h.end = now
  PROVE  h.dumps # <<>> /\ FileTrue(h, now, visited, "over", ok)
  <1>1. PICK g : g = Dumped(f)
    BY Zenon
  <1>2. /\ g.start = f.start /\ g.first = f.first /\ g.dumps # <<>> /\ Len(g.dumps) = Len(f.dumps) + 1
        /\ DOMAIN f.dumps = 1..Len(f.dumps) /\ DOMAIN g.dumps = 1..(Len(f.dumps) + 1)
        /\ \A i \in 1..Len(f.dumps) : g.dumps[i] = f.dumps[i]
        /\ g.dumps[Len(f.dumps) + 1].at = now /\ g.dumps[Len(f.dumps) + 1].region = where
    BY <1>1, OneMoreDump, ZenonT(60)
  <1>3. h.start = f.start /\ h.first = f.first /\ h.dumps = g.dumps
    BY <1>1, <1>2, Zenon DEF SameDumps
  <1>4. PICK n : n = Len(f.dumps)
    BY Zenon
  <1>5. n \in Nat /\ (\A i : i \in 1..(n + 1) <=> i \in 1..n \/ i = n + 1) /\ n + 1 \notin 1..n
    BY <1>4 DEF FileShape
  <1>6. \A i \in 1..n : f.dumps[i].region = "ro" /\ f.dumps[i].settled = Shows(f, f.dumps[i].at)
    BY <1>2, <1>4, Zenon DEF FileOK
  <1>7. Settled(h) = 1..n
    <2>1. \A i \in 1..n : h.dumps[i].region = "ro"
      BY <1>2, <1>3, <1>4, <1>6, Zenon
    <2>2. h.dumps[n + 1].region # "ro" /\ DOMAIN h.dumps = 1..(n + 1)
      BY <1>2, <1>3, <1>4, Zenon
    <2>3. \A i : i \in Settled(h) <=> i \in 1..(n + 1) /\ h.dumps[i].region = "ro"
      BY <2>2, Zenon DEF Settled
    <2>4. \A i : i \in Settled(h) <=> i \in 1..n
      BY <1>5, <2>1, <2>2, <2>3, Zenon
    <2>5. QED BY <2>4, Zenon
  <1>8. Times(f) = {v \in visited : v \in f.start..now} /\ \A v \in Times(f) : v < now
    <2>1. PICK s, last, S : s = f.start /\ last = f.end /\ S = Times(f)
      BY Zenon
    <2>2. s \in Nat /\ last \in Nat
      BY <2>1, Zenon DEF FileShape
    <2>3. CASE f.dumps = <<>>
      <3>0. s = now
        BY <2>1, <2>3, Zenon DEF Unsettled
      <3>a. now \notin visited
        BY Zenon DEF Unsettled
      <3>1. S = {} /\ s = now
        BY <2>1, <2>3, <3>0 DEF Times
      <3>2. S = {v \in visited : v \in s..now} /\ \A v \in S : v < now
        BY <3>1, <3>a
      <3>3. QED BY <2>1, <3>2, Zenon
    <2>4. CASE f.dumps # <<>>
      <3>1. S = {v \in visited : v \in s..last} /\ last < now /\ \A v \in visited : ~(last < v)
        BY <2>1, <2>4, Zenon DEF FileOK, Unsettled
      <3>2. \A v \in visited : v \in s..last <=> v \in s..now
        BY <2>2, <3>1
      <3>3. S = {v \in visited : v \in s..now}
        BY <3>1, <3>2, Zenon
      <3>4. \A v \in S : v < now
        BY <2>2, <3>1
      <3>5. QED BY <2>1, <3>3, <3>4, Zenon
    <2>5. QED BY <2>3, <2>4, Zenon
  <1>9. \A i, j \in DOMAIN h.dumps : i < j => h.dumps[i].at < h.dumps[j].at
    <2>1. \A i, j \in DOMAIN f.dumps : i < j => f.dumps[i].at < f.dumps[j].at
      BY Zenon DEF FileOK
    <2>2. \A i, j \in DOMAIN g.dumps : i < j => g.dumps[i].at < g.dumps[j].at
      BY <1>1, <1>8, <2>1, OrderKept, Zenon
    <2>3. QED BY <1>3, <2>2, Zenon
  <1>10. \A i \in Settled(h) : h.dumps[i] = f.dumps[i] /\ h.dumps[i].settled = Shows(h, h.dumps[i].at)
    <2>1. \A v : Shows(h, v) = Shows(f, v)
      BY <1>3, SameShows, Zenon
    <2>2. \A i \in 1..n : h.dumps[i] = f.dumps[i]
      BY <1>2, <1>3, <1>4, Zenon
    <2>3. QED BY <1>6, <1>7, <2>1, <2>2, Zenon
  <1>11. {h.dumps[i].at : i \in Settled(h)} = Times(f)
    BY <1>2, <1>4, <1>7, <1>10, Zenon DEF Times
  <1>12. \A i \in DOMAIN h.dumps \ Settled(h) : i = Len(h.dumps) /\ h.dumps[i].at = now
    BY <1>2, <1>3, <1>4, <1>5, <1>7, Zenon
  <1>13. {h.dumps[i].at : i \in Settled(h)} = {v \in visited : v \in h.start..h.end}
    BY <1>3, <1>8, <1>11, Zenon
  <1>14. \A i \in Settled(h) : h.dumps[i].settled = Shows(h, h.dumps[i].at)
    BY <1>10, Zenon
  <1>15. FileTrue(h, now, visited, "over", ok)
    BY <1>9, <1>12, <1>13, <1>14, Zenon DEF FileTrue, Unsettled
  <1>16. QED BY <1>2, <1>3, <1>15, Zenon

(* A capture that has not dumped the time at which the host ends is closed *)
(* with a dump of values that did not settle.                              *)
LEMMA UnsettledClose ==
  ASSUME CaptureOK(tracep, waves), PlaceOK, where = "ended", tracep.active, ~tracep.dumpedNow,
         NEW s, s = stop(Capture)
  PROVE  /\ ~s.trace.active
         /\ \A p \in DOMAIN s.files : s.files[p].dumps # <<>> /\ FileTrue(s.files[p], now, visited, "over", ok)
  <1>1. /\ Shapes(tracep, waves) /\ ActiveOK(tracep, waves, now) /\ FilesOK(tracep, waves, now, visited)
        /\ LoopOK(tracep, waves, now, visited, where, settled) /\ now \in Nat /\ where \in Places
        /\ (~ok \/ visited = {})
    BY Zenon DEF CaptureOK, PlaceOK
  <1>2. visited \in SUBSET Nat /\ settled \in Nat /\ now \notin visited
    BY <1>1, Zenon DEF LoopOK
  <1>3. PICK path, f, d : path = tracep.path /\ f = waves[path] /\ d = dump_settled_time(Capture)
    BY Zenon
  <1>4. /\ path \in DOMAIN waves /\ FileShape(f) /\ FileOK(f, visited, now) /\ tracep.end = f.end
        /\ f.dumps = <<>> => f.start = now
        /\ f.dumps # <<>> => f.end < now
    BY <1>1, <1>3, Zenon DEF ActiveOK, FilesOK, Shapes
  <1>5. f.dumps # <<>> => \A v \in visited : ~(f.end < v)
    BY <1>1, <1>3, <1>4, Zenon DEF LoopOK
  <1>6. DumpsInto(Capture, d)
    <2>1. Capture.trace.path \in DOMAIN Capture.files
      BY <1>3, <1>4, CaptureIs, Zenon
    <2>2. QED BY <1>1, <1>2, <1>3, <2>1, CaptureIs, DumpEffect, Zenon
  <1>7. /\ Shapes(d.trace, d.files) /\ d.trace.path = path /\ DOMAIN d.files = DOMAIN waves
        /\ (\A p \in DOMAIN waves \ {path} : d.files[p] = waves[p]) /\ d.files[path] = Dumped(f)
    BY <1>3, <1>6, CaptureIs, Zenon DEF DumpsInto
  <1>8. /\ ~s.trace.active /\ DOMAIN s.files = DOMAIN waves
        /\ \A p \in DOMAIN waves \ {path} : s.files[p] = waves[p]
        /\ SameDumps(s.files[path], Dumped(f)) /\ s.files[path].end = now
    <2>1. d.trace.path \in DOMAIN d.files
      BY <1>4, <1>7, Zenon
    <2>a. d = dump_settled_time(Capture) /\ Shapes(d.trace, d.files) /\ now \in Nat
      BY <1>1, <1>3, <1>7, Zenon
    <2>2. ~s.trace.active /\ Closes(s, d)
      BY <2>a, <2>1, CloseOK, Zenon
    <2>3. QED BY <1>7, <2>2, Zenon DEF Closes
  <1>9. s.files[path].dumps # <<>> /\ FileTrue(s.files[path], now, visited, "over", ok)
    <2>1. Unsettled(f)
      BY <1>1, <1>2, <1>4, <1>5, Zenon DEF Unsettled
    <2>2. QED BY <1>1, <1>2, <1>4, <1>8, <2>1, UnsettledDump, Zenon
  <1>10. ASSUME NEW p \in DOMAIN waves \ {path}
         PROVE  s.files[p].dumps # <<>> /\ FileTrue(s.files[p], now, visited, "over", ok)
    <2>1. s.files[p] = waves[p] /\ FileOK(waves[p], visited, now) /\ waves[p].dumps # <<>>
      BY <1>1, <1>3, <1>8, Zenon DEF FilesOK
    <2>2. QED BY <2>1, TrueSoFar, Zenon
  <1>11. QED BY <1>8, <1>9, <1>10, Zenon

LEMMA FinishKeeps ==
  ASSUME TInv, Finish
  PROVE  TInv'
  <1>1. /\ CaptureOK(tracep, waves) /\ PlaceOK /\ AnswerOK /\ where = "ended" /\ where' = "over" /\ now \in Nat
        /\ UNCHANGED <<now, settled, ok, visited, answer>>
    BY Zenon DEF TInv, Finish, PlaceOK
  <1>2. PlaceOK' /\ AnswerOK'
    BY <1>1, Zenon DEF PlaceOK, AnswerOK, Places
  <1>3. CASE ~tracep.active
    <2>1. tracep' = tracep /\ waves' = waves
      BY <1>3, CaptureIs, Zenon DEF Finish
    <2>2. FinalOK'
      BY <1>1, <1>3, <2>1, NoneIsOpen, Zenon DEF CaptureOK, FinalOK
    <2>3. QED BY <1>1, <1>2, <2>2, Zenon DEF TInv
  <1>4. CASE tracep.active
    <2>1. PICK d, s : d = dump_settled_time(Capture) /\ s = stop(Capture)
      BY Zenon
    <2>2. tracep' = s.trace /\ waves' = s.files
      BY <1>4, <2>1, Zenon DEF Finish
    <2>3. CASE tracep.dumpedNow
      <3>1. d = Capture
        BY <2>1, <2>3, CaptureIs, Zenon DEF dump_settled_time
      <3>2. /\ Shapes(d.trace, d.files) /\ FilesOK(d.trace, d.files, now, visited)
            /\ d.trace.path \in DOMAIN d.files /\ d.files[d.trace.path].end = now
            /\ d.files[d.trace.path].dumps # <<>>
        BY <1>1, <1>4, <2>3, <3>1, CaptureIs, Zenon DEF CaptureOK, ActiveOK
      <3>3. ~s.trace.active /\ FilesOK(s.trace, s.files, now, visited)
        BY <1>1, <2>1, <3>2, CloseOK, Zenon
      <3>4. FinalOK'
        BY <1>1, <2>2, <3>3, NoneIsOpen, Zenon DEF FinalOK
      <3>5. QED BY <1>1, <1>2, <3>4, Zenon DEF TInv
    <2>4. CASE ~tracep.dumpedNow
      <3>1. FinalOK'
        BY <1>1, <1>4, <2>1, <2>2, <2>4, UnsettledClose, Zenon DEF FinalOK
      <3>2. QED BY <1>1, <1>2, <3>1, Zenon DEF TInv
    <2>5. QED BY <2>3, <2>4, Zenon
  <1>5. QED BY <1>3, <1>4, Zenon

(* The invariant: a capture in progress and its files agree with the times *)
(* that have settled, at every step of the testbench and of the host.      *)
THEOREM CaptureInvariance == TraceSpec => []TInv
  <1>1. TraceInit => TInv
    <2> SUFFICES ASSUME TraceInit PROVE TInv
      BY Zenon
    <2>1. /\ DOMAIN tracep = {"active", "path", "start", "end", "count", "dumpedNow"}
          /\ ~tracep.active /\ tracep.end = 0 /\ tracep.count = 0
      BY Zenon DEF TraceInit, Closed
    <2>2. DOMAIN waves = {} /\ where = "boot" /\ now = 0 /\ settled = 0 /\ ok /\ visited = {}
          /\ answer.command = "none" /\ answer.result = "none"
      BY Zenon DEF TraceInit
    <2>3. 0 \in Nat /\ {} \in SUBSET Nat
      BY Zenon
    <2>4. CaptureOK(tracep, waves)
      BY <2>1, <2>2, <2>3, Zenon DEF CaptureOK, Shapes, ActiveOK, FilesOK, LoopOK
    <2>5. PlaceOK /\ AnswerOK
      BY <2>1, <2>2, <2>3, Zenon DEF PlaceOK, AnswerOK, Places
    <2>6. QED BY <2>2, <2>4, <2>5, Zenon DEF TInv
  <1>2. TInv /\ [TraceNext]_traceVars => TInv'
    <2> SUFFICES ASSUME TInv, [TraceNext]_traceVars PROVE TInv'
      BY Zenon
    <2>1. ASSUME NEW path, NEW open, Boot(path, open) PROVE TInv'
      BY <2>1, BootKeeps, Zenon
    <2>2. ASSUME NEW command \in Commands, NEW path, NEW open, control(command, path, open) PROVE TInv'
      BY <2>2, ControlKeeps, Zenon
    <2>3. ASSUME NEW code, NEW abi, NEW capability, NEW state, OtherControl(code, abi, capability, state) PROVE TInv'
      BY <2>3, OtherKeeps, Zenon
    <2>4. ASSUME NEW raw, AskFormat(raw) PROVE TInv'
      BY <2>4, AskKeeps, Zenon
    <2>5. CASE Timed
      BY <2>5, TimedKeeps, Zenon
    <2>a. ASSUME NEW b \in BOOLEAN, StartOfSimulation(b) PROVE TInv'
      BY <2>a, StartKeeps, Zenon
    <2>6. ASSUME NEW b \in BOOLEAN, settle(b) PROVE TInv'
      BY <2>6, SettleKeeps, Zenon
    <2>7. ASSUME NEW then, NEW slot \in {now, now + 1}, NextSlot(then, slot) PROVE TInv'
      BY <2>7, NextSlotKeeps, Zenon
    <2>8. CASE Finish
      BY <2>8, FinishKeeps, Zenon
    <2>9. CASE UNCHANGED traceVars
      BY <2>9, Zenon DEF traceVars, TInv, CaptureOK, FinalOK, PlaceOK, AnswerOK
    <2>10. "start" \in Commands
      BY Zenon DEF Commands
    <2>11. QED BY <2>1, <2>2, <2>3, <2>4, <2>5, <2>a, <2>6, <2>7, <2>8, <2>9, <2>10, Zenon DEF TraceNext
  <1>3. QED BY <1>1, <1>2, PTL DEF TraceSpec

(* A capture shows every time that settled from its start to its end, each *)
(* once, in order and with the values that settled first, however the      *)
(* calls of start, flush and stop meet the host's own loop; values that    *)
(* did not settle come last, of a scheduler that failed or a simulation    *)
(* that finished at its start.                                             *)
THEOREM CapturesShowAll == TraceSpec => []CapturesAreTrue
  <1>1. TInv => CapturesAreTrue
    <2> SUFFICES ASSUME TInv PROVE CapturesAreTrue
      BY Zenon
    <2>1. ASSUME NEW p \in DOMAIN waves, NEW f, f = waves[p]
          PROVE  /\ FileTrue(f, now, visited, where, ok)
                 /\ f.dumps = <<>> => tracep.active /\ tracep.path = p /\ f.start = now
      <3>1. CASE where = "over"
        BY <2>1, <3>1, Zenon DEF TInv, FinalOK
      <3>2. CASE where # "over"
        <4>1. ActiveOK(tracep, waves, now) /\ FilesOK(tracep, waves, now, visited)
          BY <3>2, Zenon DEF TInv, CaptureOK
        <4>2. FileOK(f, visited, now) /\ (f.dumps = <<>> => tracep.active /\ tracep.path = p)
          BY <2>1, <4>1, Zenon DEF FilesOK
        <4>3. f.dumps = <<>> => f.start = now
          BY <2>1, <4>1, <4>2, Zenon DEF ActiveOK
        <4>4. QED BY <4>2, <4>3, TrueSoFar, Zenon
      <3>3. QED BY <3>1, <3>2, Zenon
    <2>2. tracep.active => /\ tracep.count = Len(waves[tracep.path].dumps)
                           /\ where = "timed" => tracep.end \in {now - 1, now}
      BY Zenon DEF TInv, FinalOK, CaptureOK, ActiveOK, PlaceOK
    <2>3. AnswerOK
      BY Zenon DEF TInv
    <2>4. ASSUME NEW p \in DOMAIN waves, NEW f, f = waves[p]
          PROVE  /\ \A i, j \in DOMAIN f.dumps : i < j => f.dumps[i].at < f.dumps[j].at
                 /\ \A i \in Settled(f) : f.dumps[i].settled = Shows(f, f.dumps[i].at)
                 /\ \A i \in DOMAIN f.dumps \ Settled(f) :
                      /\ i = Len(f.dumps) /\ f.dumps[i].at = now /\ now \notin visited
                      /\ where = "over" /\ (~ok \/ visited = {})
                 /\ f.dumps # <<>> => {f.dumps[i].at : i \in Settled(f)} = {v \in visited : v \in f.start..f.end}
                 /\ f.dumps = <<>> => tracep.active /\ tracep.path = p /\ f.start = now
      <3>1. /\ FileTrue(f, now, visited, where, ok)
            /\ f.dumps = <<>> => tracep.active /\ tracep.path = p /\ f.start = now
        BY <2>1, <2>4, Zenon
      <3>2. QED BY <3>1, Zenon DEF FileTrue
    <2>5. QED BY <2>2, <2>3, <2>4, Zenon DEF CapturesAreTrue, AnswerOK
  <1>2. QED BY <1>1, CaptureInvariance, PTL
-----------------------------------------------------------------------------
(* Cycle models.                                                           *)
Bit == {0, 1}
Drive == [reset_n : Bit, s_valid : Bit, s_data : Nat, m_ready : Bit, inject : Bit]
Model == [target : Nat, inject : Bit, cycles : Nat, transactions : Nat]
Status == {"continue", "pass", "fail"}

CycleTypeOK ==
  /\ backend \in {"vpi", "direct"} /\ pc \in {"start", "edge", "ro", "nt", "end", "loop", "done"}
  /\ time \in Int /\ clk \in Bit /\ deadline \in Int /\ due \subseteq {"clock", "model"} /\ steps \in Int
  /\ port \in Drive /\ outputs \in Drive /\ accepted_count \in Nat /\ model \in Model
  /\ status \in Status /\ error \in BOOLEAN /\ finished \in Nat /\ panicked \in BOOLEAN
  /\ edges \in [n : Nat, at : Int, gap : Int] /\ verdict \in {"none", "pass", "fail"}

(* The drive that a model prepared fits it: it is silent in reset, offers  *)
(* the transfer that is due, and a model that told the design to make its  *)
(* error has not come to the transfer where it is made.                    *)
Fits(m, o) ==
  /\ o.inject = m.inject
  /\ o.reset_n = 0 => o.s_valid = 0 /\ m.transactions = 0
  /\ o.s_valid = 1 => o.s_data = m.transactions
  /\ m.inject = 1 => m.transactions < InjectAt

(* The clock task's timer runs from edge to edge, half a period each; a    *)
(* task that is woken runs at the time it asked for.                       *)
ClockKept ==
  /\ steps >= 2 /\ ("clock" \in due => time = deadline)
  /\ edges.n > 0 => deadline = edges.at + (IF clk = 1 THEN steps \div 2 ELSE steps)

(* Nothing has happened.                                                   *)
AtStart ==
  /\ due = {} /\ time = deadline /\ edges.n = 0 /\ status = "continue" /\ ~error /\ ~panicked
  /\ accepted_count = 0 /\ model.transactions = 0 /\ model.cycles = 0

(* Between two cycles: the design has seen an edge for every step of the   *)
(* model, and has taken as many transfers.                                 *)
InStep ==
  /\ edges.n = model.cycles /\ accepted_count = model.transactions /\ Fits(model, outputs)

(* The design's register at an edge that a fitting drive was put before.   *)
Taken(m, o) ==
  IF o.reset_n = 1 /\ o.s_valid = 1 /\ o.m_ready = 1 THEN m.transactions + 1 ELSE m.transactions

(* After the edge, when the model is about to look.                        *)
Sampled ==
  /\ edges.n = model.cycles + 1 /\ port = outputs /\ Fits(model, outputs)
  /\ accepted_count = Taken(model, outputs) /\ clk = 1 /\ due = {}
  /\ edges.n > 1 => edges.gap = steps

(* The model waits for the next time step, which comes before the clock    *)
(* rises again.                                                            *)
Asleep == (clk = 0 => due = {"model"}) /\ (due = {} \/ "model" \in due)

(* A model that has passed.                                                *)
Complete(m, count) ==
  /\ m.transactions = m.target /\ count = m.target
  /\ m.inject = 1 => m.target < InjectAt

(* The cycle of a model that checks what the design shows after the edge.  *)
Stepped(m, o, count, r) ==
  /\ r.model \in Model /\ r.outputs \in Drive /\ r.status \in Status
  /\ r.model.cycles = m.cycles + 1
  /\ r.status = "continue" => Fits(r.model, r.outputs) /\ r.model.transactions = count
  /\ r.status = "pass" => Complete(r.model, count)

LEMMA ClockedFits ==
  ASSUME NEW m \in Model, NEW o \in Drive, Fits(m, o)
  PROVE  Clocked(o, m.transactions) = Taken(m, o) /\ Taken(m, o) \in Nat
  BY DEF Model, Drive, Bit, Fits, Clocked, Taken

LEMMA SoundDesign ==
  ASSUME NEW m \in Model, NEW o \in Drive, Fits(m, o), m.inject = 0
  PROVE  ~Failing(m, Shown(o, Taken(m, o)), o)
  BY DEF Model, Drive, Bit, Fits, Taken, Failing, Shown

LEMMA LoadFits ==
  ASSUME NEW m \in Model, NEW o \in Drive, o.reset_n = 1, NEW source \in BOOLEAN,
         m.inject = 1 => m.transactions < InjectAt
  PROVE  /\ load_source_for_cycle(m, o, source) \in Drive
         /\ Fits(m, load_source_for_cycle(m, o, source))
  <1> DEFINE q == load_source_for_cycle(m, o, source)
  <1>1. m.transactions \in Nat /\ m.inject \in Bit /\ 0 \in Bit /\ 1 \in Bit
    BY Zenon DEF Model, Bit
  <1>2. CASE source
    <2>1. q = [o EXCEPT !.s_valid = 1, !.s_data = m.transactions, !.inject = m.inject]
      BY <1>2, Zenon DEF load_source_for_cycle
    <2>2. q \in Drive /\ q.reset_n = o.reset_n /\ q.s_valid = 1 /\ q.s_data = m.transactions /\ q.inject = m.inject
      BY <1>1, <2>1, Zenon DEF Drive
    <2>3. QED BY <2>2 DEF Fits
  <1>3. CASE ~source
    <2>1. q = [o EXCEPT !.s_valid = 0, !.inject = m.inject]
      BY <1>3, Zenon DEF load_source_for_cycle
    <2>2. q \in Drive /\ q.reset_n = o.reset_n /\ q.s_valid = 0 /\ q.inject = m.inject
      BY <1>1, <2>1, Zenon DEF Drive
    <2>3. QED BY <2>2 DEF Fits
  <1>4. QED BY <1>2, <1>3, Zenon

(* A cycle's result, put together.                                         *)
LEMMA ResultIs ==
  ASSUME NEW m, NEW o, NEW k, NEW n \in Model, NEW p \in Drive, NEW s \in Status,
         n.cycles = m.cycles + 1,
         s = "continue" => Fits(n, p) /\ n.transactions = k,
         s = "pass" => Complete(n, k)
  PROVE  Stepped(m, o, k, [status |-> s, model |-> n, outputs |-> p])
  <1>1. PICK r : r = [status |-> s, model |-> n, outputs |-> p]
    BY Zenon
  <1>2. r.status = s /\ r.model = n /\ r.outputs = p
    BY <1>1, Zenon
  <1>3. Stepped(m, o, k, r)
    BY <1>2, Zenon DEF Stepped
  <1>4. QED BY <1>1, <1>3, Zenon

LEMMA StatusIs ==
  /\ "continue" \in Status /\ "pass" \in Status /\ "fail" \in Status
  /\ "continue" # "pass" /\ "continue" # "fail" /\ "pass" # "fail"
  BY Zenon DEF Status

(* What the checks of a cycle let pass.                                    *)
LEMMA PassesChecks ==
  ASSUME NEW m \in Model, NEW o \in Drive, Fits(m, o),
         ~Failing(m, Shown(o, Taken(m, o)), o), m.inject = 1
  PROVE  Taken(m, o) < InjectAt
  BY CycleAssumption DEF Model, Drive, Bit, Fits, Taken, Failing, Shown

LEMMA BenchSteps ==
  ASSUME NEW m \in Model, NEW o \in Drive, Fits(m, o), NEW source \in BOOLEAN, NEW ready \in BOOLEAN
  PROVE  Stepped(m, o, Taken(m, o), BenchStep(m, Shown(o, Taken(m, o)), o, source, ready))
  <1> DEFINE k == Taken(m, o)
             i == Shown(o, k)
             r == BenchStep(m, i, o, source, ready)
             m1 == [m EXCEPT !.cycles = @ + 1]
             m2 == [m1 EXCEPT !.transactions = k]
             open == [o EXCEPT !.m_ready = IF ready THEN 1 ELSE 0]
             up == [open EXCEPT !.reset_n = 1]
  <1>1. /\ m1 \in Model /\ m1.cycles = m.cycles + 1 /\ m1.transactions = m.transactions
        /\ m1.inject = m.inject /\ m1.target = m.target
    BY DEF Model
  <1>2. /\ k \in Nat /\ m2 \in Model /\ m2.cycles = m.cycles + 1 /\ m2.transactions = k
        /\ m2.inject = m.inject /\ m2.target = m.target
    <2>1. k \in Nat
      BY ClockedFits, Zenon
    <2>2. QED BY <1>1, <2>1, Zenon DEF Model
  <1>3. /\ open \in Drive /\ open.reset_n = o.reset_n /\ open.s_valid = o.s_valid
        /\ open.s_data = o.s_data /\ open.inject = o.inject
        /\ up \in Drive /\ up.reset_n = 1
    BY Zenon DEF Drive, Bit
  <1>4. (o.reset_n = 0 => k = m.transactions)
    BY DEF Taken, Drive, Bit
  <1>0. SUFFICES Stepped(m, o, k, r)
    BY Zenon
  <1> HIDE DEF k, i, r, m1, m2, open, up
  <1>5. CASE Failing(m, i, o)
    <2>1. r = [status |-> "fail", model |-> m1, outputs |-> o]
      BY <1>5, Zenon DEF BenchStep, r, m1
    <2>2. QED BY <1>1, <2>1, ResultIs, StatusIs, Zenon
  <1>6. CASE ~Failing(m, i, o) /\ o.reset_n = 0 /\ m1.cycles < ResetCycles
    <2>1. r = [status |-> "continue", model |-> m1, outputs |-> o]
      BY <1>6, Zenon DEF BenchStep, r, m1
    <2>2. Fits(m1, o)
      BY <1>1, Zenon DEF Fits
    <2>3. QED BY <1>1, <1>4, <1>6, <2>1, <2>2, ResultIs, StatusIs, Zenon
  <1>7. CASE ~Failing(m, i, o) /\ o.reset_n = 0 /\ ~(m1.cycles < ResetCycles)
    <2>1. r = [status |-> "continue", model |-> m1, outputs |-> load_source_for_cycle(m1, up, source)]
      BY <1>7, Zenon DEF BenchStep, r, m1, up, open
    <2>2. /\ load_source_for_cycle(m1, up, source) \in Drive
          /\ Fits(m1, load_source_for_cycle(m1, up, source))
      <3>1. m1.inject = 1 => m1.transactions < InjectAt
        BY <1>1, Zenon DEF Fits
      <3>2. QED BY <1>1, <1>3, <3>1, LoadFits, Zenon
    <2>3. QED BY <1>1, <1>4, <1>7, <2>1, <2>2, ResultIs, StatusIs, Zenon
  <1>8. CASE ~Failing(m, i, o) /\ o.reset_n # 0
    <2>1. o.reset_n = 1 /\ i.m_valid = o.s_valid /\ i.s_ready = o.m_ready
      BY <1>8, Zenon DEF Drive, Bit, Shown, i
    <2>2. [m1 EXCEPT !.transactions =
             IF o.reset_n = 1 /\ i.m_valid = 1 /\ o.m_ready = 1 THEN @ + 1 ELSE @] = m2
      <3>1. k = IF o.reset_n = 1 /\ i.m_valid = 1 /\ o.m_ready = 1 THEN m1.transactions + 1 ELSE m1.transactions
        BY <1>1, <2>1, Zenon DEF k, Taken
      <3>2. QED BY <3>1, Zenon DEF m2
    <2>3. m2.inject = 1 => k < InjectAt
      BY <1>2, <1>8, PassesChecks, Zenon DEF i, k
    <2>4. CASE m2.transactions = m.target
      <3>1. r = [status |-> "pass", model |-> m2, outputs |-> [o EXCEPT !.s_valid = 0]]
        BY <1>8, <2>2, <2>4, Zenon DEF BenchStep, r, m1
      <3>2. [o EXCEPT !.s_valid = 0] \in Drive
        BY Zenon DEF Drive, Bit
      <3>3. Complete(m2, k)
        BY <1>2, <2>3, <2>4, Zenon DEF Complete
      <3>4. QED BY <1>2, <3>1, <3>2, <3>3, ResultIs, StatusIs, Zenon
    <2>5. CASE m2.transactions # m.target
      <3>1. CASE (o.s_valid = 1 /\ i.s_ready = 1) \/ o.s_valid = 0
        <4>1. r = [status |-> "continue", model |-> m2, outputs |-> load_source_for_cycle(m2, open, source)]
          BY <1>8, <2>2, <2>5, <3>1, Zenon DEF BenchStep, r, m1, open
        <4>2. /\ load_source_for_cycle(m2, open, source) \in Drive
              /\ Fits(m2, load_source_for_cycle(m2, open, source))
          BY <1>2, <1>3, <2>1, <2>3, LoadFits, Zenon
        <4>3. QED BY <1>2, <4>1, <4>2, ResultIs, StatusIs, Zenon
      <3>2. CASE ~((o.s_valid = 1 /\ i.s_ready = 1) \/ o.s_valid = 0)
        <4>1. r = [status |-> "continue", model |-> m2, outputs |-> open]
          BY <1>8, <2>2, <2>5, <3>2, Zenon DEF BenchStep, r, m1, open
        <4>2. o.s_valid = 1 /\ o.m_ready # 1 /\ k = m.transactions
          BY <2>1, <3>2, Zenon DEF Drive, Bit, Taken, k
        <4>3. Fits(m2, open)
          BY <1>2, <1>3, <2>1, <2>3, <4>2, Zenon DEF Fits
        <4>4. QED BY <1>2, <1>3, <4>1, <4>3, ResultIs, StatusIs, Zenon
      <3>3. QED BY <3>1, <3>2, Zenon
    <2>6. QED BY <2>4, <2>5, Zenon
  <1>9. QED BY <1>5, <1>6, <1>7, <1>8, Zenon
-----------------------------------------------------------------------------
(* Where the adapter is, and what that means.                              *)
Whereabouts ==
  /\ pc = "start" => AtStart
  /\ pc \in {"edge", "ro", "nt"} => status = "continue" /\ ClockKept
  /\ pc = "edge" => InStep /\ port = outputs /\ "model" \notin due
  /\ pc = "ro" => Sampled
  /\ pc = "nt" => InStep /\ Asleep
  /\ pc = "end" => status # "continue" /\ (status = "pass" => due = {} /\ Complete(model, accepted_count))
  /\ pc = "loop" /\ status = "continue" => InStep
  /\ pc = "loop" /\ status = "pass" => Complete(model, accepted_count) /\ ~error /\ ~panicked

(* The inductive invariant.                                                *)
CycleInv ==
  /\ CycleTypeOK
  /\ backend = "direct" => due = {} /\ pc \in {"start", "loop", "done"}
  /\ backend = "vpi" => pc # "loop"
  /\ pc # "done" => finished = 0 /\ verdict = "none"
  /\ Whereabouts
  /\ verdict = "pass" => Complete(model, accepted_count) /\ ~error /\ ~panicked
  /\ pc = "done" /\ edges.n > 0 /\ ~panicked /\ status # "continue" => finished = 1

LEMMA FitsHere ==
  /\ pc = "start" /\ AtStart => Whereabouts
  /\ pc = "edge" /\ status = "continue" /\ ClockKept /\ InStep /\ port = outputs /\ "model" \notin due => Whereabouts
  /\ pc = "ro" /\ status = "continue" /\ ClockKept /\ Sampled => Whereabouts
  /\ pc = "nt" /\ status = "continue" /\ ClockKept /\ InStep /\ Asleep => Whereabouts
  /\ pc = "end" /\ status = "fail" => Whereabouts
  /\ pc = "end" /\ status = "pass" /\ due = {} /\ Complete(model, accepted_count) => Whereabouts
  /\ pc = "loop" /\ status = "continue" /\ InStep => Whereabouts
  /\ pc = "loop" /\ status = "fail" => Whereabouts
  /\ pc = "loop" /\ status = "pass" /\ Complete(model, accepted_count) /\ ~error /\ ~panicked => Whereabouts
  /\ pc = "done" => Whereabouts
  BY Zenon DEF Whereabouts

LEMMA FitsNext ==
  /\ pc' = "start" /\ AtStart' => Whereabouts'
  /\ pc' = "edge" /\ status' = "continue" /\ ClockKept' /\ InStep' /\ port' = outputs' /\ "model" \notin due' => Whereabouts'
  /\ pc' = "ro" /\ status' = "continue" /\ ClockKept' /\ Sampled' => Whereabouts'
  /\ pc' = "nt" /\ status' = "continue" /\ ClockKept' /\ InStep' /\ Asleep' => Whereabouts'
  /\ pc' = "end" /\ status' = "fail" => Whereabouts'
  /\ pc' = "end" /\ status' = "pass" /\ due' = {} /\ Complete(model', accepted_count') => Whereabouts'
  /\ pc' = "loop" /\ status' = "continue" /\ InStep' => Whereabouts'
  /\ pc' = "loop" /\ status' = "fail" => Whereabouts'
  /\ pc' = "loop" /\ status' = "pass" /\ Complete(model', accepted_count') /\ ~error' /\ ~panicked' => Whereabouts'
  /\ pc' = "done" => Whereabouts'
  BY Zenon DEF Whereabouts

(* The model's first outputs.                                              *)
LEMMA FirstDrive ==
  ASSUME NEW m \in Model, m.transactions = 0
  PROVE  /\ Idle \in Drive /\ [Idle EXCEPT !.inject = m.inject] \in Drive
         /\ Fits(m, [Idle EXCEPT !.inject = m.inject])
  <1> DEFINE q == [Idle EXCEPT !.inject = m.inject]
  <1>1. m.inject \in Bit /\ 0 \in Bit /\ 0 \in Nat
    BY Zenon DEF Model, Bit
  <1>2. Idle \in Drive
    BY <1>1, Zenon DEF Idle, Drive
  <1>3. q \in Drive /\ q.reset_n = 0 /\ q.s_valid = 0 /\ q.inject = m.inject
    BY <1>1, Zenon DEF Idle, Drive
  <1>4. Fits(m, q)
    BY <1>3, CycleAssumption DEF Fits
  <1>5. QED BY <1>2, <1>3, <1>4, Zenon

LEMMA CycleStarts == ASSUME CycleInit PROVE CycleInv
  <1>1. model \in Model /\ model.transactions = 0 /\ model.cycles = 0
    <2>1. model \in [target : Targets, inject : Bit, cycles : {0}, transactions : {0}]
      BY DEF CycleInit, Bit
    <2>2. Targets \subseteq Nat /\ {0} \subseteq Nat
      BY CycleAssumption
    <2>3. model \in Model
      BY <2>1, <2>2, Zenon DEF Model
    <2>4. QED BY <2>1, <2>3, Zenon
  <1>2. edges \in [n : Nat, at : Int, gap : Int] /\ edges.n = 0
    BY DEF CycleInit
  <1>3. steps \in Int
    <2>1. PICK p \in Periods, prec \in Precisions : steps \in from_pow10(p.n, p.exp, prec)
      BY DEF CycleInit
    <2>2. QED BY <2>1, CycleAssumption, Zenon
  <1>4. CycleTypeOK
    <2>1. /\ port \in Drive /\ outputs \in Drive
      BY <1>1, FirstDrive, Zenon DEF CycleInit
    <2>2. /\ time \in Int /\ clk \in Bit /\ deadline \in Int /\ accepted_count \in Nat /\ finished \in Nat
      BY DEF CycleInit, Bit
    <2>3. /\ pc \in {"start", "edge", "ro", "nt", "end", "loop", "done"} /\ due \subseteq {"clock", "model"}
          /\ status \in Status /\ verdict \in {"none", "pass", "fail"} /\ backend \in {"vpi", "direct"}
      BY DEF CycleInit, Status
    <2>4. error \in BOOLEAN /\ panicked \in BOOLEAN
      BY Zenon DEF CycleInit
    <2>5. QED BY <1>1, <1>2, <1>3, <2>1, <2>2, <2>3, <2>4, Zenon DEF CycleTypeOK
  <1>5. AtStart
    BY <1>1, <1>2, Zenon DEF CycleInit, AtStart
  <1>6. Whereabouts
    BY <1>5, FitsHere, Zenon DEF CycleInit
  <1>7. QED BY <1>4, <1>6, Zenon DEF CycleInit, CycleInv

(* run_cycle_model_vpi up to its loop.                                     *)
LEMMA VpiStartKeeps ==
  ASSUME CycleInv, NEW drives \in BOOLEAN, VpiStart(drives)
  PROVE  CycleInv'
  <1> DEFINE values == [Idle EXCEPT !.inject = model.inject]
             created == steps # -1 /\ BenchNew(model) = "ok"
             begun == created /\ drives /\ steps >= 2
  <1>1. /\ CycleTypeOK /\ AtStart /\ backend = "vpi" /\ finished = 0 /\ verdict = "none"
    BY Zenon DEF CycleInv, Whereabouts, VpiStart
  <1>2. /\ UNCHANGED <<backend, time, clk, deadline, steps, accepted_count, model, status, error, finished, edges>>
        /\ outputs' = (IF created THEN values ELSE outputs)
        /\ port' = (IF created /\ drives THEN values ELSE port)
        /\ panicked' = (steps # -1 /\ ~created)
        /\ due' = (IF begun THEN {"clock"} ELSE {})
        /\ pc' = (IF begun THEN "edge" ELSE "done")
        /\ verdict' = (IF begun THEN "none" ELSE "fail")
    BY Zenon DEF VpiStart
  <1>3. values \in Drive /\ Fits(model, values)
    BY <1>1, FirstDrive, Zenon DEF CycleTypeOK, AtStart
  <1> HIDE DEF values, created, begun
  <1>4. CycleTypeOK'
    <2>1. outputs' \in Drive /\ port' \in Drive
      BY <1>1, <1>2, <1>3, Zenon DEF CycleTypeOK
    <2>2. panicked' \in BOOLEAN
      BY <1>2, Zenon
    <2>3. due' \subseteq {"clock", "model"}
      BY <1>2, Zenon
    <2>4. /\ pc' \in {"start", "edge", "ro", "nt", "end", "loop", "done"} /\ verdict' \in {"none", "pass", "fail"}
      BY <1>2, Zenon
    <2>5. QED BY <1>1, <1>2, <2>1, <2>2, <2>3, <2>4, Zenon DEF CycleTypeOK
  <1>5. CASE begun
    <2>1. outputs' = values /\ port' = values /\ pc' = "edge" /\ due' = {"clock"} /\ verdict' = "none" /\ steps >= 2
      BY <1>2, <1>5, Zenon DEF begun
    <2>2. Fits(model', outputs')
      BY <1>2, <1>3, <2>1, Zenon
    <2>3. ClockKept'
      BY <1>1, <1>2, <2>1 DEF ClockKept, AtStart
    <2>4. InStep'
      BY <1>1, <1>2, <2>2, Zenon DEF InStep, AtStart
    <2>5. Whereabouts'
      BY <1>1, <1>2, <2>1, <2>3, <2>4, FitsNext, Zenon DEF AtStart
    <2>6. QED BY <1>1, <1>2, <1>4, <2>1, <2>5, Zenon DEF CycleInv
  <1>6. CASE ~begun
    <2>1. pc' = "done" /\ due' = {} /\ verdict' = "fail" /\ status' = "continue"
      BY <1>1, <1>2, <1>6, Zenon DEF AtStart
    <2>2. QED BY <1>1, <1>2, <1>4, <2>1, FitsNext, Zenon DEF CycleInv
  <1>7. QED BY <1>5, <1>6, Zenon

(* create_context.                                                         *)
LEMMA CreateKeeps ==
  ASSUME CycleInv, NEW matches \in BOOLEAN, create_context(matches)
  PROVE  CycleInv'
  <1> DEFINE values == [Idle EXCEPT !.inject = model.inject]
             created == matches /\ BenchNew(model) = "ok"
  <1>1. /\ CycleTypeOK /\ AtStart /\ backend = "direct" /\ finished = 0 /\ verdict = "none"
    BY Zenon DEF CycleInv, Whereabouts, create_context
  <1>2. /\ UNCHANGED <<backend, time, clk, deadline, due, steps, port, accepted_count, model, status, error, finished, edges>>
        /\ outputs' = (IF created THEN values ELSE outputs)
        /\ panicked' = (matches /\ ~created)
        /\ pc' = (IF created THEN "loop" ELSE "done")
        /\ verdict' = (IF created THEN "none" ELSE "fail")
    BY Zenon DEF create_context
  <1>3. values \in Drive /\ Fits(model, values)
    BY <1>1, FirstDrive, Zenon DEF CycleTypeOK, AtStart
  <1> HIDE DEF values, created
  <1>4. CycleTypeOK'
    <2>1. outputs' \in Drive
      BY <1>1, <1>2, <1>3, Zenon DEF CycleTypeOK
    <2>2. panicked' \in BOOLEAN
      BY <1>2, Zenon
    <2>3. /\ pc' \in {"start", "edge", "ro", "nt", "end", "loop", "done"} /\ verdict' \in {"none", "pass", "fail"}
      BY <1>2, Zenon
    <2>4. QED BY <1>1, <1>2, <2>1, <2>2, <2>3, Zenon DEF CycleTypeOK
  <1>5. CASE created
    <2>1. outputs' = values /\ pc' = "loop" /\ verdict' = "none"
      BY <1>2, <1>5, Zenon
    <2>2. InStep'
      BY <1>1, <1>2, <1>3, <2>1, Zenon DEF InStep, AtStart
    <2>3. Whereabouts'
      BY <1>1, <1>2, <2>1, <2>2, FitsNext, Zenon DEF AtStart
    <2>4. QED BY <1>1, <1>2, <1>4, <2>1, <2>3, Zenon DEF CycleInv, AtStart
  <1>6. CASE ~created
    <2>1. pc' = "done" /\ due' = {} /\ verdict' = "fail" /\ status' = "continue"
      BY <1>1, <1>2, <1>6, Zenon DEF AtStart
    <2>2. QED BY <1>1, <1>2, <1>4, <2>1, FitsNext, Zenon DEF CycleInv
  <1>7. QED BY <1>5, <1>6, Zenon

(* The clock falls: half a period is over, and the other is to come.       *)
LEMMA ClockFalls ==
  ASSUME CycleInv, clock_task, clk # 0
  PROVE  CycleInv'
  <1>1. /\ CycleTypeOK /\ Whereabouts /\ pc # "done" /\ "clock" \in due /\ backend = "vpi" /\ clk = 1
    BY Zenon DEF CycleInv, clock_task, CycleTypeOK, Bit
  <1>2. /\ due' = due \ {"clock"} /\ clk' = 1 - clk /\ deadline' = time + (steps - steps \div 2)
        /\ UNCHANGED <<backend, pc, time, steps, port, outputs, accepted_count, model, status, error,
                       finished, panicked, edges, verdict>>
    BY Zenon DEF clock_task
  <1>3. clk' = 0 /\ deadline' \in Int
    BY <1>1, <1>2 DEF CycleTypeOK
  <1>4. CycleTypeOK'
    <2>1. clk' \in Bit /\ due' \subseteq {"clock", "model"}
      BY <1>1, <1>2, <1>3, Zenon DEF CycleTypeOK, Bit
    <2>2. QED BY <1>1, <1>2, <1>3, <2>1, Zenon DEF CycleTypeOK
  <1>5. ClockKept => ClockKept'
    BY <1>1, <1>2, <1>3 DEF ClockKept, CycleTypeOK
  <1>6. InStep => InStep'
    BY <1>2, Zenon DEF InStep
  <1>7. Whereabouts'
    <2>1. CASE pc = "edge"
      BY <1>1, <1>2, <1>5, <1>6, <2>1, FitsNext, Zenon DEF Whereabouts
    <2>2. CASE pc = "nt"
      <3>1. "model" \in due
        BY <1>1, <2>2, Zenon DEF Whereabouts, Asleep
      <3>2. due' = {"model"}
        BY <1>1, <1>2, <3>1, Zenon DEF CycleTypeOK
      <3>3. Asleep'
        BY <3>2, Zenon DEF Asleep
      <3>4. QED BY <1>1, <1>2, <1>5, <1>6, <2>2, <3>3, FitsNext, Zenon DEF Whereabouts
    <2>3. CASE pc = "end"
      BY <1>1, <1>2, <2>3, FitsNext, Zenon DEF Whereabouts, CycleTypeOK, Status
    <2>4. pc \in {"edge", "nt", "end"}
      BY <1>1, Zenon DEF Whereabouts, AtStart, Sampled, CycleTypeOK, CycleInv
    <2>5. QED BY <2>1, <2>2, <2>3, <2>4, Zenon
  <1>8. QED BY <1>1, <1>2, <1>4, <1>7, Zenon DEF CycleInv

(* It rises: the design counts, and a model that waits for the edge is     *)
(* about to look.                                                          *)
LEMMA ClockRises ==
  ASSUME CycleInv, clock_task, clk = 0
  PROVE  CycleInv'
  <1>1. /\ CycleTypeOK /\ Whereabouts /\ pc # "done" /\ "clock" \in due /\ backend = "vpi"
        /\ finished = 0 /\ verdict = "none"
    BY Zenon DEF CycleInv, clock_task, CycleTypeOK
  <1>2. /\ due' = due \ {"clock"} /\ clk' = 1 - clk /\ deadline' = time + steps \div 2
        /\ accepted_count' = Clocked(port, accepted_count)
        /\ edges' = [n |-> edges.n + 1, at |-> time, gap |-> time - edges.at]
        /\ pc' = (IF pc = "edge" THEN "ro" ELSE pc)
        /\ UNCHANGED <<backend, time, steps, port, outputs, model, status, error, finished, panicked, verdict>>
    BY Zenon DEF clock_task
  <1>3. clk' = 1 /\ deadline' \in Int
    BY <1>1, <1>2 DEF CycleTypeOK
  <1>4. /\ edges' \in [n : Nat, at : Int, gap : Int]
        /\ edges'.n = edges.n + 1 /\ edges'.at = time /\ edges'.gap = time - edges.at
    BY <1>1, <1>2 DEF CycleTypeOK
  <1>5. CycleTypeOK'
    <2>1. clk' \in Bit /\ due' \subseteq {"clock", "model"}
      BY <1>1, <1>2, <1>3, Zenon DEF CycleTypeOK, Bit
    <2>2. accepted_count' \in Nat
      BY <1>1, <1>2 DEF Clocked, CycleTypeOK
    <2>3. pc' \in {"start", "edge", "ro", "nt", "end", "loop", "done"}
      BY <1>1, <1>2, Zenon DEF CycleTypeOK
    <2>4. QED BY <1>1, <1>2, <1>3, <1>4, <2>1, <2>2, <2>3, Zenon DEF CycleTypeOK
  <1>6. Whereabouts'
    <2>1. CASE pc = "edge"
      <3>1. /\ ClockKept /\ InStep /\ port = outputs /\ "model" \notin due /\ status = "continue"
        BY <1>1, <2>1, Zenon DEF Whereabouts
      <3>2. due' = {}
        BY <1>1, <1>2, <3>1, Zenon DEF CycleTypeOK
      <3>3. ClockKept'
        BY <1>1, <1>2, <1>3, <1>4, <3>1, <3>2, Zenon DEF ClockKept, CycleTypeOK
      <3>4. accepted_count' = Taken(model', outputs')
        BY <1>1, <1>2, <3>1, ClockedFits, Zenon DEF InStep, CycleTypeOK
      <3>5. edges'.n > 1 => edges'.gap = steps
        BY <1>1, <1>4, <3>1 DEF ClockKept, CycleTypeOK
      <3>6. edges'.n = model.cycles + 1
        BY <1>4, <3>1, Zenon DEF InStep
      <3>7. Sampled'
        BY <1>2, <1>3, <3>1, <3>2, <3>4, <3>5, <3>6, Zenon DEF Sampled, InStep
      <3>8. QED BY <1>2, <2>1, <3>1, <3>3, <3>7, FitsNext, Zenon
    <2>2. CASE pc = "end"
      BY <1>1, <1>2, <2>2, FitsNext, Zenon DEF Whereabouts, CycleTypeOK, Status
    <2>3. pc \in {"edge", "end"}
      <3>1. pc # "start" /\ pc # "ro" /\ pc # "loop"
        BY <1>1, Zenon DEF Whereabouts, AtStart, Sampled, CycleInv
      <3>2. pc # "nt"
        <4>1. "clock" # "model"
          BY Zenon
        <4>2. QED BY <1>1, <4>1, Zenon DEF Whereabouts, Asleep
      <3>3. QED BY <1>1, <3>1, <3>2, Zenon DEF CycleTypeOK
    <2>4. QED BY <2>1, <2>2, <2>3, Zenon
  <1>7. pc' # "done"
    BY <1>1, <1>2, Zenon
  <1>8. QED BY <1>1, <1>2, <1>5, <1>6, <1>7, Zenon DEF CycleInv

(* The next time step.                                                     *)
LEMMA AdvanceKeeps ==
  ASSUME CycleInv, Advance
  PROVE  CycleInv'
  <1>1. /\ CycleTypeOK /\ Whereabouts /\ backend = "vpi" /\ pc \in {"edge", "nt"} /\ due = {}
        /\ UNCHANGED <<backend, pc, clk, deadline, steps, port, outputs, accepted_count, model, status,
                       error, finished, panicked, edges, verdict>>
    BY Zenon DEF CycleInv, Advance
  <1>2. PICK t \in {deadline} \cup (IF time < deadline - 1 THEN {deadline - 1} ELSE {}) :
          /\ time' = t
          /\ due' = (IF t = deadline THEN {"clock"} ELSE {}) \cup (IF pc = "nt" THEN {"model"} ELSE {})
    BY Zenon DEF Advance
  <1>3. time' \in Int /\ due' \subseteq {"clock", "model"} /\ ("clock" \in due' => time' = deadline)
    BY <1>1, <1>2 DEF CycleTypeOK
  <1>4. CycleTypeOK'
    BY <1>1, <1>3, Zenon DEF CycleTypeOK
  <1>5. ClockKept /\ InStep /\ status = "continue"
    BY <1>1, Zenon DEF Whereabouts
  <1>6. ClockKept' /\ InStep'
    BY <1>1, <1>3, <1>5, Zenon DEF ClockKept, InStep
  <1>7. Whereabouts'
    <2>1. CASE pc = "edge"
      <3>1. "model" \notin due'
        BY <1>2, <2>1, Zenon
      <3>2. QED BY <1>1, <1>5, <1>6, <2>1, <3>1, FitsNext, Zenon DEF Whereabouts
    <2>2. CASE pc = "nt"
      <3>1. clk # 0 /\ "model" \in due'
        BY <1>1, <1>2, <2>2, Zenon DEF Whereabouts, Asleep
      <3>2. Asleep'
        BY <1>1, <3>1, Zenon DEF Asleep
      <3>3. QED BY <1>1, <1>5, <1>6, <2>2, <3>2, FitsNext, Zenon
    <2>3. QED BY <1>1, <2>1, <2>2, Zenon
  <1>8. QED BY <1>1, <1>4, <1>7, Zenon DEF CycleInv

(* Sample and step.                                                        *)
LEMMA VpiStepKeeps ==
  ASSUME CycleInv, NEW samples \in BOOLEAN, NEW out \in Outcomes, NEW source \in BOOLEAN,
         NEW ready \in BOOLEAN, VpiStep(samples, out, source, ready)
  PROVE  CycleInv'
  <1>1. /\ CycleTypeOK /\ Sampled /\ ClockKept /\ status = "continue" /\ backend = "vpi" /\ pc = "ro"
        /\ finished = 0 /\ verdict = "none"
        /\ UNCHANGED <<backend, time, clk, deadline, due, steps, port, accepted_count, error, finished, edges>>
    BY Zenon DEF CycleInv, Whereabouts, VpiStep
  <1>2. CASE ~samples
    <2>1. status' = "fail" /\ pc' = "end" /\ UNCHANGED <<model, outputs, panicked, verdict>>
      BY <1>2, Zenon DEF VpiStep
    <2>2. CycleTypeOK'
      BY <1>1, <2>1, Zenon DEF CycleTypeOK, Status
    <2>3. QED BY <1>1, <2>1, <2>2, FitsNext, Zenon DEF CycleInv
  <1>3. CASE samples
    <2> DEFINE r == BenchStep(model, Shown(port, accepted_count), outputs, source, ready)
    <2>1. /\ model' = r.model /\ outputs' = r.outputs
          /\ status' = (IF out = "ok" THEN r.status ELSE "fail")
          /\ panicked' = (out = "panic")
          /\ pc' = (IF out = "panic" THEN "done" ELSE IF status' = "continue" THEN "nt" ELSE "end")
          /\ verdict' = (IF out = "panic" THEN "fail" ELSE verdict)
      BY <1>3, Zenon DEF VpiStep
    <2>2. Stepped(model, outputs, accepted_count, r)
      BY <1>1, BenchSteps, Zenon DEF Sampled, CycleTypeOK
    <2> HIDE DEF r
    <2>3. /\ model' \in Model /\ outputs' \in Drive /\ status' \in Status /\ model'.cycles = model.cycles + 1
          /\ status' = "continue" => Fits(model', outputs') /\ model'.transactions = accepted_count
          /\ status' = "pass" => Complete(model', accepted_count)
      BY <2>1, <2>2, StatusIs, Zenon DEF Stepped
    <2>4. CycleTypeOK'
      <3>1. panicked' \in BOOLEAN
        BY <2>1, Zenon
      <3>2. /\ pc' \in {"start", "edge", "ro", "nt", "end", "loop", "done"} /\ verdict' \in {"none", "pass", "fail"}
        BY <1>1, <2>1, Zenon
      <3>3. QED BY <1>1, <2>3, <3>1, <3>2, Zenon DEF CycleTypeOK
    <2>5. CASE out = "panic"
      <3>1. pc' = "done" /\ verdict' = "fail" /\ panicked'
        BY <2>1, <2>5, Zenon
      <3>2. QED BY <1>1, <2>4, <3>1, FitsNext, Zenon DEF CycleInv
    <2>6. CASE out # "panic" /\ status' = "continue"
      <3>1. pc' = "nt" /\ verdict' = "none"
        BY <1>1, <2>1, <2>6, Zenon
      <3>2. ClockKept'
        BY <1>1, Zenon DEF ClockKept
      <3>3. edges'.n = model'.cycles
        BY <1>1, <2>3, Zenon DEF Sampled
      <3>4. InStep'
        BY <1>1, <2>3, <2>6, <3>3, Zenon DEF InStep
      <3>5. clk' # 0
        BY <1>1 DEF Sampled
      <3>6. Asleep'
        BY <1>1, <3>5, Zenon DEF Sampled, Asleep
      <3>7. Whereabouts'
        BY <2>6, <3>1, <3>2, <3>4, <3>6, FitsNext, Zenon
      <3>8. QED BY <1>1, <2>4, <3>1, <3>7, Zenon DEF CycleInv
    <2>7. CASE out # "panic" /\ status' # "continue"
      <3>1. pc' = "end" /\ verdict' = "none" /\ due' = {}
        BY <1>1, <2>1, <2>7, Zenon DEF Sampled
      <3>2. status' = "pass" \/ status' = "fail"
        BY <2>3, <2>7, Zenon DEF Status
      <3>3. Whereabouts'
        BY <1>1, <2>3, <3>1, <3>2, FitsNext, Zenon
      <3>4. QED BY <1>1, <2>4, <3>1, <3>3, Zenon DEF CycleInv
    <2>8. QED BY <2>5, <2>6, <2>7, Zenon
  <1>4. QED BY <1>2, <1>3, Zenon

(* Drive what was prepared.                                                *)
LEMMA VpiDriveKeeps ==
  ASSUME CycleInv, NEW drives \in BOOLEAN, VpiDrive(drives)
  PROVE  CycleInv'
  <1>1. /\ CycleTypeOK /\ InStep /\ ClockKept /\ Asleep /\ status = "continue" /\ backend = "vpi" /\ pc = "nt"
        /\ finished = 0 /\ verdict = "none" /\ due' = due \ {"model"}
        /\ UNCHANGED <<backend, time, clk, deadline, steps, outputs, accepted_count, model, error,
                       finished, panicked, edges, verdict>>
        /\ port' = (IF drives THEN outputs ELSE port)
        /\ pc' = (IF drives THEN "edge" ELSE "end")
        /\ status' = (IF drives THEN status ELSE "fail")
    <2>1. pc = "nt"
      BY Zenon DEF VpiDrive
    <2>2. backend = "vpi"
      BY <2>1, Zenon DEF CycleInv, CycleTypeOK
    <2>3. QED BY <2>1, <2>2, Zenon DEF CycleInv, Whereabouts, VpiDrive
  <1>2. due' \subseteq {"clock", "model"} /\ "model" \notin due' /\ ("clock" \in due' => "clock" \in due)
    BY <1>1, Zenon DEF CycleTypeOK
  <1>3. CycleTypeOK'
    <2>1. port' \in Drive /\ status' \in Status /\ pc' \in {"start", "edge", "ro", "nt", "end", "loop", "done"}
      BY <1>1, StatusIs, Zenon DEF CycleTypeOK
    <2>2. QED BY <1>1, <1>2, <2>1, Zenon DEF CycleTypeOK
  <1>4. CASE drives
    <2>1. pc' = "edge" /\ port' = outputs' /\ status' = "continue"
      BY <1>1, <1>4, Zenon
    <2>2. ClockKept' /\ InStep'
      BY <1>1, <1>2, Zenon DEF ClockKept, InStep
    <2>3. Whereabouts'
      BY <1>2, <2>1, <2>2, FitsNext, Zenon
    <2>4. QED BY <1>1, <1>3, <2>1, <2>3, Zenon DEF CycleInv
  <1>5. CASE ~drives
    <2>1. pc' = "end" /\ status' = "fail"
      BY <1>1, <1>5, Zenon
    <2>2. QED BY <1>1, <1>3, <2>1, FitsNext, Zenon DEF CycleInv
  <1>6. QED BY <1>4, <1>5, Zenon

(* The end of a VPI run.                                                   *)
LEMMA VpiFinishKeeps ==
  ASSUME CycleInv, NEW out \in Outcomes, VpiFinish(out)
  PROVE  CycleInv'
  <1>1. /\ CycleTypeOK /\ Whereabouts /\ backend = "vpi" /\ pc = "end" /\ finished = 0
        /\ due' = {} /\ pc' = "done" /\ finished' = finished + 1 /\ panicked' = (out = "panic")
        /\ error' = (status = "fail" \/ out = "err")
        /\ verdict' = (IF status = "pass" /\ out = "ok" THEN "pass" ELSE "fail")
        /\ UNCHANGED <<backend, time, clk, deadline, steps, port, outputs, accepted_count, model, status, edges>>
    BY Zenon DEF CycleInv, VpiFinish, VpiVerdict
  <1>2. finished' = 1 /\ finished' \in Nat
    BY <1>1
  <1>3. CycleTypeOK'
    <2>1. panicked' \in BOOLEAN /\ error' \in BOOLEAN /\ due' \subseteq {"clock", "model"}
      BY <1>1, Zenon
    <2>2. verdict' \in {"none", "pass", "fail"} /\ pc' \in {"start", "edge", "ro", "nt", "end", "loop", "done"}
      BY <1>1, Zenon
    <2>3. QED BY <1>1, <1>2, <2>1, <2>2, Zenon DEF CycleTypeOK
  <1>4. verdict' = "pass" => Complete(model', accepted_count') /\ ~error' /\ ~panicked'
    <2>1. verdict' = "pass" => status = "pass" /\ out = "ok"
      BY <1>1, Zenon
    <2>2. status = "pass" => Complete(model', accepted_count')
      BY <1>1, Zenon DEF Whereabouts
    <2>3. status = "pass" /\ out = "ok" => ~error' /\ ~panicked'
      BY <1>1, Zenon
    <2>4. QED BY <2>1, <2>2, <2>3, Zenon
  <1>5. QED BY <1>1, <1>2, <1>3, <1>4, FitsNext, Zenon DEF CycleInv

(* One turn of the host's loop.                                            *)
LEMMA HostTurnKeeps ==
  ASSUME CycleInv, NEW out \in Outcomes, NEW source \in BOOLEAN, NEW ready \in BOOLEAN,
         NEW sampled \in BOOLEAN, HostTurn(out, source, ready, sampled)
  PROVE  CycleInv'
  <1> DEFINE k == Clocked(outputs, accepted_count)
             r == BenchStep(model, Shown(outputs, k), outputs, source, ready)
  <1>1. pc = "loop" /\ status = "continue"
    BY Zenon DEF HostTurn
  <1>2. /\ CycleTypeOK /\ InStep /\ backend = "direct" /\ finished = 0 /\ verdict = "none" /\ due = {}
    BY <1>1, Zenon DEF CycleInv, Whereabouts, CycleTypeOK
  <1>3. /\ accepted_count' = k /\ model' = r.model /\ outputs' = r.outputs
        /\ status' = (IF sampled /\ out = "ok" THEN r.status ELSE "fail") /\ error' = (status' = "fail")
        /\ port' = outputs /\ clk' = 1 /\ panicked' = (out = "panic")
        /\ edges' = [n |-> edges.n + 1, at |-> time + 1, gap |-> time + 1 - edges.at] /\ time' = time + 2
        /\ UNCHANGED <<backend, pc, deadline, due, steps, finished, verdict>>
    BY Zenon DEF HostTurn, step_context
  <1>4. k = Taken(model, outputs) /\ k \in Nat
    BY <1>2, ClockedFits, Zenon DEF InStep, CycleTypeOK
  <1>5. Stepped(model, outputs, k, r)
    BY <1>2, <1>4, BenchSteps, Zenon DEF InStep, CycleTypeOK
  <1> HIDE DEF k, r
  <1>6. /\ model' \in Model /\ outputs' \in Drive /\ status' \in Status /\ model'.cycles = model.cycles + 1
        /\ status' = "continue" => Fits(model', outputs') /\ model'.transactions = accepted_count'
        /\ status' = "pass" => Complete(model', accepted_count')
    BY <1>3, <1>5, StatusIs, Zenon DEF Stepped
  <1>7. edges' \in [n : Nat, at : Int, gap : Int] /\ edges'.n = edges.n + 1 /\ time' \in Int /\ clk' \in Bit
    BY <1>2, <1>3 DEF CycleTypeOK, Bit
  <1>8. CycleTypeOK'
    <2>1. panicked' \in BOOLEAN /\ error' \in BOOLEAN
      BY <1>3, Zenon
    <2>2. port' \in Drive /\ accepted_count' \in Nat
      BY <1>2, <1>3, <1>4, Zenon DEF CycleTypeOK
    <2>3. QED BY <1>2, <1>3, <1>6, <1>7, <2>1, <2>2, Zenon DEF CycleTypeOK
  <1>9. Whereabouts'
    <2>1. CASE status' = "continue"
      <3>1. edges'.n = model'.cycles
        BY <1>2, <1>6, <1>7, Zenon DEF InStep
      <3>2. InStep'
        BY <1>6, <2>1, <3>1, Zenon DEF InStep
      <3>3. QED BY <1>1, <1>3, <2>1, <3>2, FitsNext, Zenon
    <2>2. CASE status' = "fail"
      BY <1>1, <1>3, <2>2, FitsNext, Zenon
    <2>3. CASE status' = "pass"
      <3>1. ~error' /\ out = "ok"
        BY <1>3, <2>3, StatusIs, Zenon
      <3>2. ~panicked'
        BY <1>3, <3>1, Zenon
      <3>3. QED BY <1>1, <1>3, <1>6, <2>3, <3>1, <3>2, FitsNext, Zenon
    <2>4. QED BY <1>6, <2>1, <2>2, <2>3, Zenon DEF Status
  <1>10. QED BY <1>1, <1>2, <1>3, <1>8, <1>9, Zenon DEF CycleInv

(* The end of the host's loop.                                             *)
LEMMA HostEndKeeps ==
  ASSUME CycleInv, NEW out \in Outcomes, NEW gotFinish \in BOOLEAN, NEW grew \in BOOLEAN,
         HostEnd(out, gotFinish, grew)
  PROVE  CycleInv'
  <1>1. /\ CycleTypeOK /\ Whereabouts /\ pc = "loop" /\ finished = 0
        /\ finished' = finished + 1 /\ error' = (error \/ grew \/ out # "ok")
        /\ panicked' = (panicked \/ out = "panic")
        /\ verdict' = (IF status = "pass" /\ ~grew /\ out = "ok" THEN "pass" ELSE "fail") /\ pc' = "done"
        /\ UNCHANGED <<backend, time, clk, deadline, due, steps, port, outputs, accepted_count, model, status, edges>>
    <2>1. (finish_context(out) = "fail") = (out # "ok") /\ (finish_context(out) = "pass") = (out = "ok")
      BY Zenon DEF finish_context
    <2>2. QED BY <2>1, Zenon DEF CycleInv, HostEnd
  <1>2. finished' = 1 /\ finished' \in Nat
    BY <1>1
  <1>3. backend = "direct" /\ due = {}
    BY <1>1, Zenon DEF CycleInv, CycleTypeOK
  <1>4. CycleTypeOK'
    <2>1. panicked' \in BOOLEAN /\ error' \in BOOLEAN
      BY <1>1, Zenon
    <2>2. verdict' \in {"none", "pass", "fail"} /\ pc' \in {"start", "edge", "ro", "nt", "end", "loop", "done"}
      BY <1>1, Zenon
    <2>3. QED BY <1>1, <1>2, <2>1, <2>2, Zenon DEF CycleTypeOK
  <1>5. verdict' = "pass" => Complete(model', accepted_count') /\ ~error' /\ ~panicked'
    <2>1. verdict' = "pass" => status = "pass" /\ ~grew /\ out = "ok"
      BY <1>1, Zenon
    <2>2. status = "pass" => Complete(model', accepted_count') /\ ~error /\ ~panicked
      BY <1>1, Zenon DEF Whereabouts
    <2>3. out = "ok" => out # "panic"
      BY Zenon
    <2>4. QED BY <1>1, <2>1, <2>2, <2>3, Zenon
  <1>6. QED BY <1>1, <1>2, <1>3, <1>4, <1>5, FitsNext, Zenon DEF CycleInv

(* A timeout, or a $finish.                                                *)
LEMMA CutOffKeeps == ASSUME CycleInv, VpiCutOff PROVE CycleInv'
  <1>1. /\ CycleTypeOK /\ Whereabouts /\ pc \in {"edge", "nt"} /\ backend = "vpi" /\ pc' = "done" /\ verdict' = "fail"
        /\ UNCHANGED <<backend, time, clk, deadline, due, steps, port, outputs, accepted_count, model,
                       status, error, finished, panicked, edges>>
    BY Zenon DEF CycleInv, VpiCutOff
  <1>2. status' = "continue"
    BY <1>1, Zenon DEF Whereabouts
  <1>3. CycleTypeOK'
    BY <1>1, Zenon DEF CycleTypeOK
  <1>4. QED BY <1>1, <1>2, <1>3, FitsNext, Zenon DEF CycleInv

LEMMA CycleStutters == ASSUME CycleInv, UNCHANGED cycleVars PROVE CycleInv'
  <1>1. CycleTypeOK'
    BY Zenon DEF CycleInv, cycleVars, CycleTypeOK
  <1>2. /\ AtStart => AtStart'
        /\ ClockKept => ClockKept'
        /\ InStep => InStep'
        /\ Sampled => Sampled'
        /\ Asleep => Asleep'
    BY Zenon DEF cycleVars, AtStart, ClockKept, InStep, Sampled, Asleep
  <1>3. Whereabouts'
    BY <1>2, Zenon DEF CycleInv, Whereabouts, cycleVars
  <1>4. QED BY <1>1, <1>3, Zenon DEF CycleInv, cycleVars
-----------------------------------------------------------------------------
(* The invariant of the two adapters holds in every state, for any number  *)
(* of transactions, any clock period and precision, and any reset: the     *)
(* model and the design count the same edges and the same transfers.       *)
THEOREM CycleInvariance == CycleSpec => []CycleInv
  <1>1. ASSUME CycleInv, [CycleNext]_cycleVars PROVE CycleInv'
    <2>1. CASE UNCHANGED cycleVars
      BY <1>1, <2>1, CycleStutters, Zenon
    <2>2. CASE clock_task
      BY <1>1, <2>2, ClockFalls, ClockRises, Zenon
    <2>3. CASE Advance
      BY <1>1, <2>3, AdvanceKeeps, Zenon
    <2>4. CASE \E b \in BOOLEAN : VpiStart(b) \/ VpiDrive(b) \/ create_context(b)
      BY <1>1, <2>4, VpiStartKeeps, VpiDriveKeeps, CreateKeeps, Zenon
    <2>5. CASE \E out \in Outcomes, source, ready, b \in BOOLEAN :
                 HostTurn(out, source, ready, b) \/ VpiStep(b, out, source, ready)
      BY <1>1, <2>5, HostTurnKeeps, VpiStepKeeps, Zenon
    <2>6. CASE \E out \in Outcomes : VpiFinish(out) \/ \E b, grew \in BOOLEAN : HostEnd(out, b, grew)
      BY <1>1, <2>6, VpiFinishKeeps, HostEndKeeps, Zenon
    <2>7. CASE VpiCutOff
      BY <1>1, <2>7, CutOffKeeps, Zenon
    <2>8. QED BY <1>1, <2>1, <2>2, <2>3, <2>4, <2>5, <2>6, <2>7, Zenon DEF CycleNext
  <1>2. QED BY <1>1, CycleStarts, PTL DEF CycleSpec

LEMMA CyclesAgreeFollows == ASSUME CycleInv PROVE CyclesAgree
  <1>0. outputs \in Drive /\ model \in Model
    BY Zenon DEF CycleInv, CycleTypeOK
  <1>1. pc = "ro" => /\ edges.n = model.cycles + 1 /\ port = outputs
                     /\ model.inject = 0 => ~Failing(model, Shown(port, accepted_count), outputs)
                     /\ edges.n > 1 => edges.gap = steps
    BY <1>0, SoundDesign, Zenon DEF CycleInv, Whereabouts, Sampled
  <1>2. ASSUME pc = "loop", status = "continue"
        PROVE  /\ edges.n = model.cycles
               /\ model.inject = 0 =>
                    ~Failing(model, Shown(outputs, Clocked(outputs, accepted_count)), outputs)
    <2>1. InStep
      BY <1>2, Zenon DEF CycleInv, Whereabouts
    <2>2. Clocked(outputs, accepted_count) = Taken(model, outputs)
      BY <1>0, <2>1, ClockedFits, Zenon DEF InStep
    <2>3. QED BY <1>0, <2>1, <2>2, SoundDesign, Zenon DEF InStep
  <1>3. verdict = "pass" => /\ model.transactions = model.target /\ accepted_count = model.target
                            /\ ~error /\ ~panicked
                            /\ model.inject = 1 => model.target < InjectAt
    BY Zenon DEF CycleInv, Complete
  <1>4. pc = "done" /\ edges.n > 0 /\ ~panicked /\ status # "continue" => finished = 1
    BY Zenon DEF CycleInv
  <1>5. QED BY <1>1, <1>2, <1>3, <1>4, Zenon DEF CyclesAgree

(* A model sees one edge per cycle with the drive that it prepared, behind *)
(* the VPI adapter and behind the direct one, and no design that is sound  *)
(* is found at fault; a run that passes is complete in model and design,   *)
(* and an error that the design makes before its end is found.             *)
THEOREM CycleModelsAgree == CycleSpec => []CyclesAgree
  BY CycleInvariance, CyclesAgreeFollows, PTL
=============================================================================
