------------------------------- MODULE Config -------------------------------
(***************************************************************************)
(* The ConfigDb (config.rs): values stored under path globs, found by the  *)
(* path of whoever asks.  A glob keeps one entry per precedence; a build-  *)
(* phase write has a precedence that falls with the depth of its writer.   *)
(*                                                                         *)
(* Paths and globs are sequences of characters, and a character is a       *)
(* number, in the order of the bytes: the order of the store is an order   *)
(* of strings.  One field stands for all; a value is the number of the     *)
(* write that stored it.  Everybody asks for the type that was stored: the *)
(* error that get returns for another type is left out.                    *)
(***************************************************************************)
EXTENDS Integers, Sequences, SequencesExt, FiniteSetsExt

CONSTANTS
  Star, Dot,   \* the characters '*' and '.'
  Contexts,    \* paths of the components that write, and NoContext
  NoContext,
  Offsets,     \* what they write to
  Paths,       \* paths of the components that read
  MaxWrites    \* bound: writes in a test

DEFAULT_PRECEDENCE == 1000

ASSUME ConfigAssumption == MaxWrites \in Nat /\ Star < Dot

VARIABLES
  STORE,     \* glob -> precedence -> value
  IN_BUILD,  \* the build phase is walking
  log        \* history: the writes, as [glob, depth, build]

configVars == <<STORE, IN_BUILD, log>>

Empty == [g \in {} |-> 0]

ConfigInit == STORE = Empty /\ IN_BUILD = FALSE /\ log = <<>>
-----------------------------------------------------------------------------
(* Does a path, or another glob read as one, match a glob?                 *)
glob_match(path, glob) ==
  LET inner[p \in 1..(Len(path) + 1), g \in 1..(Len(glob) + 1)] ==
        IF g <= Len(glob) /\ glob[g] = Star
          THEN inner[p, g + 1] \/ (p <= Len(path) /\ inner[p + 1, g])
        ELSE IF p <= Len(path) /\ g <= Len(glob)
          THEN path[p] = glob[g] /\ inner[p + 1, g + 1]
        ELSE p > Len(path) /\ g > Len(glob)
  IN  inner[1, 1]

more_specific(a, b) == glob_match(a, b)

resolve(ctx, offset) ==
  CASE ctx = NoContext -> offset
    [] ctx # NoContext /\ offset = <<>> -> ctx
    [] ctx = <<>> /\ offset # <<>> -> offset
    [] OTHER -> ctx \o <<Dot>> \o offset

depth_of(path) == Cardinality({k \in 1..Len(path) : path[k] = Dot})

(* Mutant: the depth of what is written to counts.                         *)
Precedence_OfTarget(ctx, offset) ==
  IF IN_BUILD THEN DEFAULT_PRECEDENCE - depth_of(resolve(ctx, offset)) ELSE DEFAULT_PRECEDENCE

(* The precedence of a write.                                              *)
Precedence(ctx, offset) ==
  IF IN_BUILD /\ ctx # NoContext THEN DEFAULT_PRECEDENCE - depth_of(ctx) ELSE DEFAULT_PRECEDENCE

(* Function f with f[x] = v.                                               *)
Put(f, x, v) == [y \in DOMAIN f \cup {x} |-> IF y = x THEN v ELSE f[y]]

set(ctx, offset) ==
  LET glob == resolve(ctx, offset)
      entries == IF glob \in DOMAIN STORE THEN STORE[glob] ELSE Empty
  IN  /\ Len(log) < MaxWrites
      /\ STORE' = Put(STORE, glob, Put(entries, Precedence(ctx, offset), Len(log) + 1))
      /\ log' = Append(log, [glob |-> glob, build |-> IN_BUILD,
                             depth |-> IF ctx = NoContext THEN 0 ELSE depth_of(ctx)])
      /\ UNCHANGED IN_BUILD

(* The order of the store's keys: the order of strings.                    *)
Before(a, b) ==
  \/ Len(a) < Len(b) /\ SubSeq(b, 1, Len(a)) = a
  \/ \E k \in 1..Len(a) : /\ k <= Len(b) /\ a[k] < b[k]
                          /\ \A j \in 1..(k - 1) : a[j] = b[j]

Matching(path) == {g \in DOMAIN STORE : glob_match(path, g)}

(* The comparison that get sorts by: a strictly before b.                  *)
GoesFirst(a, b) == more_specific(a, b) /\ ~more_specific(b, a)

(* sort_by on a short vector: each element goes left past those it is to   *)
(* come before, up to the first that it is not.                            *)
Insert(sorted, g) ==
  LET stops == {k \in 1..Len(sorted) : ~GoesFirst(g, sorted[k])}
  IN  InsertAt(sorted, 1 + Max(stops \cup {0}), g)

Sorted(path) == FoldLeft(Insert, <<>>, SetToSortSeq(Matching(path), Before))

Exists(path) == Matching(path) # {}

(* The entry of a glob: the one of highest precedence.                     *)
Top(glob) == STORE[glob][Max(DOMAIN STORE[glob])]

(* What get returns; only for a path with a match.                         *)
get(path) == Top(Head(Sorted(path)))

(* The phaser brackets the build walk, which comes first in a component    *)
(* test; a test that is a function has none.                               *)
set_in_build ==
  /\ IN_BUILD \/ log = <<>>
  /\ IN_BUILD' = ~IN_BUILD
  /\ UNCHANGED <<STORE, log>>

(* clear, which the runner calls before a test.                            *)
clear == STORE' = Empty /\ log' = <<>> /\ IN_BUILD' = FALSE

ConfigNext == set_in_build \/ clear \/ \E ctx \in Contexts, offset \in Offsets : set(ctx, offset)

ConfigSpec == ConfigInit /\ [][ConfigNext]_configVars
-----------------------------------------------------------------------------
(* The reference for glob_match: how much of the path the glob can have    *)
(* used up, character of the glob by character.                            *)
Used(path, glob) ==
  FoldLeft(LAMBDA used, c :
             IF c = Star THEN {n \in 0..Len(path) : \E m \in used : m <= n}
             ELSE {n \in 1..Len(path) : n - 1 \in used /\ path[n] = c},
           {0}, glob)

(* glob_match finds exactly the matches there are, for paths and for globs *)
(* compared with one another.                                              *)
GlobMatchIsRight ==
  \A g \in DOMAIN STORE : \A p \in Paths \cup DOMAIN STORE :
    glob_match(p, g) <=> Len(p) \in Used(p, g)

Writes(glob) == {k \in 1..Len(log) : log[k].glob = glob}

(* The write that a glob should answer with: the last one after build, or  *)
(* else the last one of the shallowest writer.                             *)
Wins(k) ==
  \A j \in Writes(log[k].glob) \ {k} :
    CASE log[j].build /\ log[k].build -> log[k].depth < log[j].depth
                                           \/ (log[k].depth = log[j].depth /\ j < k)
      [] log[j].build /\ ~log[k].build -> TRUE
      [] OTHER -> ~log[k].build /\ j < k

(* Whatever the order of the writes, in build and after, a glob answers    *)
(* with the write of the shallowest writer, or with the last after build.  *)
ShallowestWins == \A g \in DOMAIN STORE : Top(g) \in Writes(g) /\ Wins(Top(g))

(* A value set for the very path is found, whatever globs match besides.   *)
ExactPathWins == \A p \in Paths : p \in DOMAIN STORE => get(p) = Top(p)

(* Of the writes that match, the right one wins: by path and by precedence.*)
WinnerIsRight == ShallowestWins /\ ExactPathWins

(* A lookup finds every glob that matches, no other, and the right write.  *)
LookupsAreRight == GlobMatchIsRight /\ WinnerIsRight

(* No glob that matches is strictly more specific than the one that get    *)
(* answers with.                                                           *)
MostSpecificWins ==
  \A p \in Paths : Exists(p) => \A g \in Matching(p) : ~GoesFirst(g, Head(Sorted(p)))
=============================================================================
