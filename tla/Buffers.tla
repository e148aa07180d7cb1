------------------------------ MODULE Buffers -------------------------------
(***************************************************************************)
(* The two buffers that tasks hand items through, side by side: the FIFO   *)
(* (a Queue with taps) and the channel, each with state of its own, and    *)
(* what is asked of both.                                                  *)
(***************************************************************************)
EXTENDS Naturals

CONSTANTS
  Users, Bounded, Cap, MaxItems,   \* the FIFO's clients and its bound
  SendTasks, RecvTasks, Capacity   \* the channel's tasks and its capacity

\* A bound is a usize.
ASSUME CapAssumption == Bounded => Cap \in Nat

VARIABLES
  tapped,   \* is the FIFO used through its taps, or its Queue directly?
  buf, getWaiters, putWaiters, op, item, qReady, offered, accepted, taken,
  putSeen, getSeen, finished, flushed,
  cBuf, tx, rx, sendWaiters, recvWaiters, cOp, cItem, cReady, cOffered, cAccepted,
  cTaken, told

F == INSTANCE TlmFifo WITH Clients <- Users, ready <- qReady
C == INSTANCE Channel WITH
  buf <- cBuf, op <- cOp, item <- cItem, ready <- cReady, offered <- cOffered,
  accepted <- cAccepted, taken <- cTaken

qVars == <<buf, getWaiters, putWaiters, op, item, qReady, offered, accepted, taken>>
tVars == <<putSeen, getSeen, finished, flushed>>
cVars == <<cBuf, tx, rx, sendWaiters, recvWaiters, cOp, cItem, cReady, cOffered,
           cAccepted, cTaken, told>>
-----------------------------------------------------------------------------
(* Queue, TlmFifo and Channel: no client sleeps while the poll that it     *)
(* waits for would complete.                                               *)
NoSleeperMissesOut == F!NoSleeperMissesOut /\ C!NoSleeperMissesOut

(* Queue and TlmFifo: items leave in the order of entry, each once; no put *)
(* is lost on the way in, and the taps see the traffic.                    *)
ItemsKeepOrder == F!FirstInFirstOut /\ (tapped => F!TrafficIsTapped)

(* Channel: Disconnected is said after the last item, and truly.           *)
DisconnectIsHonest == C!DisconnectIsHonest
=============================================================================
