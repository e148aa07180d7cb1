------------------------------ MODULE FairLock ------------------------------
(***************************************************************************)
(* What "FIFO-fair mutex" means: clients stand in one line in the order in *)
(* which they asked, only the client at its head may be inside, and a      *)
(* client leaves the line by finishing or by giving up.                    *)
(***************************************************************************)
EXTENDS Naturals, Sequences

CONSTANT Clients

VARIABLES
  line,    \* the clients that asked and have not left, in order
  inside   \* the clients that have the lock

lvars == <<line, inside>>

Standing(p) == \E i \in 1..Len(line) : line[i] = p

LineInit == line = <<>> /\ inside = {}

Ask(p) ==
  /\ ~Standing(p)
  /\ line' = Append(line, p)
  /\ inside' = IF line = <<>> THEN {p} ELSE inside

Enter(p) ==
  /\ line # <<>> /\ Head(line) = p
  /\ inside' = {p}
  /\ UNCHANGED line

Leave(p) ==
  /\ \E i \in 1..Len(line) :
       line[i] = p /\ line' = SubSeq(line, 1, i - 1) \o SubSeq(line, i + 1, Len(line))
  /\ inside' = inside \ {p}

LineNext == \E p \in Clients : Ask(p) \/ Enter(p) \/ Leave(p)

LineSpec == LineInit /\ [][LineNext]_lvars
=============================================================================
