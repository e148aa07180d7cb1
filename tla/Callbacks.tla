----------------------------- MODULE Callbacks ------------------------------
(***************************************************************************)
(* The lifetime of simulator callbacks in rustdv-gpi (CbShared,            *)
(* CallbackHandle, trampoline).  A registration is shared between the      *)
(* simulator, which holds one strong reference as user_data, the           *)
(* CallbackHandle, and every trampoline that is on the stack.  A closure   *)
(* may drop any handle, its own too, register callbacks, and write a       *)
(* signal, which makes the simulator call other trampolines before the     *)
(* closure returns.                                                        *)
(***************************************************************************)
EXTENDS Naturals, Sequences

CONSTANTS
  Cbs,        \* registrations
  MaxDepth,   \* bound: trampolines on the stack
  MaxCalls    \* bound: calls of one registration

VARIABLES
  kind,      \* CbShared.kind, "none" before the registration, "failed" if the
             \* simulator refused it
  vpi,       \* is the registration known to the simulator?
  released,  \* CbShared.released
  borrowed,  \* CbShared.repeat is mutably borrowed
  handle,    \* the CallbackHandle exists
  refs,      \* the strong count of the Rc<CbShared>
  stack,     \* the trampolines on the stack, innermost first
  aborted,   \* a panic left a trampoline: the process is gone
  calls,     \* history: trampolines entered
  removes,   \* history: calls of vpi_remove_cb
  reclaims   \* history: times the C-side reference was given back

cbVars == <<kind, vpi, released, borrowed, handle, refs, stack, aborted, calls,
            removes, reclaims>>

CbInit ==
  /\ kind = [c \in Cbs |-> "none"]
  /\ vpi = [c \in Cbs |-> FALSE] /\ released = [c \in Cbs |-> FALSE]
  /\ borrowed = [c \in Cbs |-> FALSE]
  /\ handle = [c \in Cbs |-> FALSE]
  /\ refs = [c \in Cbs |-> 0]
  /\ stack = <<>>
  /\ aborted = FALSE
  /\ calls = [c \in Cbs |-> 0]
  /\ removes = [c \in Cbs |-> 0] /\ reclaims = [c \in Cbs |-> 0]

(* register: one reference for the handle and one for the simulator.       *)
register(c, k) ==
  /\ kind[c] = "none"
  /\ kind' = [kind EXCEPT ![c] = k]
  /\ vpi' = [vpi EXCEPT ![c] = TRUE]
  /\ handle' = [handle EXCEPT ![c] = TRUE]
  /\ refs' = [refs EXCEPT ![c] = 2]
  /\ UNCHANGED <<released, borrowed, stack, aborted, calls, removes, reclaims>>

(* The registrations there are: a value change recurs, a timer and the     *)
(* phases of a time step are called once.                                  *)
Registers(c) == \E k \in {"once", "recurring"} : register(c, k)

(* register, the simulator refuses: the assert panics, the local reference *)
(* is dropped while unwinding and the one made for the simulator is never  *)
(* given back.  The panic is caught by the poll or by the trampoline it is *)
(* raised under.  (Refused outside of a callback, in the start-up routine, *)
(* it ends the process with nothing simulated.)                            *)
register_fails(c) ==
  /\ kind[c] = "none" /\ stack # <<>>
  /\ kind' = [kind EXCEPT ![c] = "failed"]
  /\ refs' = [refs EXCEPT ![c] = 1]
  /\ UNCHANGED <<vpi, released, borrowed, handle, stack, aborted, calls, removes,
                 reclaims>>

(* The simulator calls a trampoline: from its own loop, or, for a value    *)
(* change, from inside vpi_put_value.                                      *)
Called(c) ==
  /\ vpi[c] /\ calls[c] < MaxCalls
  /\ Len(stack) < MaxDepth
  /\ stack # <<>> => kind[c] = "recurring"
  /\ calls' = [calls EXCEPT ![c] = @ + 1]

(* trampoline, OneShot: its own reference is taken, the registration is    *)
(* removed and the simulator's reference given back before the closure     *)
(* runs.                                                                   *)
FireOnce(c) ==
  /\ kind[c] = "once" /\ Called(c)
  /\ ~released[c]
  /\ released' = [released EXCEPT ![c] = TRUE]
  /\ vpi' = [vpi EXCEPT ![c] = FALSE]
  /\ removes' = [removes EXCEPT ![c] = @ + 1]
  /\ reclaims' = [reclaims EXCEPT ![c] = @ + 1]
  /\ refs' = [refs EXCEPT ![c] = (@ + 1) - 1]
  /\ stack' = <<c>> \o stack
  /\ UNCHANGED <<kind, borrowed, handle, aborted>>

(* trampoline, Recurring: the closure is borrowed while it runs.  A second *)
(* borrow panics, outside catch_unwind and inside an extern "C" function.  *)
FireRecurring(c) ==
  /\ kind[c] = "recurring" /\ Called(c)
  /\ IF borrowed[c]
       THEN aborted' = TRUE /\ UNCHANGED <<borrowed, refs, stack>>
       ELSE /\ borrowed' = [borrowed EXCEPT ![c] = TRUE]
            /\ refs' = [refs EXCEPT ![c] = @ + 1]
            /\ stack' = <<c>> \o stack
            /\ UNCHANGED aborted
  /\ UNCHANGED <<kind, vpi, released, handle, removes, reclaims>>

(* The innermost closure returns, or panics and is caught: the guard and   *)
(* the trampoline's reference go.                                          *)
Return ==
  /\ stack # <<>>
  /\ stack' = Tail(stack)
  /\ borrowed' = [borrowed EXCEPT ![Head(stack)] = FALSE]
  /\ refs' = [refs EXCEPT ![Head(stack)] = @ - 1]
  /\ UNCHANGED <<kind, vpi, released, handle, aborted, calls, removes, reclaims>>

(* Mutant: the drop does not look whether the callback has fired.          *)
DropHandle_Again(c) ==
  /\ handle[c]
  /\ handle' = [handle EXCEPT ![c] = FALSE]
  /\ released' = [released EXCEPT ![c] = TRUE]
  /\ vpi' = [vpi EXCEPT ![c] = FALSE]
  /\ removes' = [removes EXCEPT ![c] = @ + 1]
  /\ reclaims' = [reclaims EXCEPT ![c] = @ + 1]
  /\ refs' = [refs EXCEPT ![c] = IF @ >= 2 THEN @ - 2 ELSE 0]
  /\ UNCHANGED <<kind, borrowed, stack, aborted, calls>>

(* CallbackHandle::drop, and forget, which drops without releasing.        *)
DropHandle(c) ==
  /\ handle[c]
  /\ handle' = [handle EXCEPT ![c] = FALSE]
  /\ IF released[c]
       THEN /\ refs' = [refs EXCEPT ![c] = @ - 1]
            /\ UNCHANGED <<vpi, released, removes, reclaims>>
       ELSE /\ released' = [released EXCEPT ![c] = TRUE]
            /\ vpi' = [vpi EXCEPT ![c] = FALSE]
            /\ removes' = [removes EXCEPT ![c] = @ + 1]
            /\ reclaims' = [reclaims EXCEPT ![c] = @ + 1]
            /\ refs' = [refs EXCEPT ![c] = @ - 2]
  /\ UNCHANGED <<kind, borrowed, stack, aborted, calls>>

forget(c) ==
  /\ handle[c]
  /\ handle' = [handle EXCEPT ![c] = FALSE]
  /\ refs' = [refs EXCEPT ![c] = @ - 1]
  /\ UNCHANGED <<kind, vpi, released, borrowed, stack, aborted, calls, removes,
                 reclaims>>

CbNext ==
  /\ ~aborted
  /\ \/ Return
     \/ \E c \in Cbs :
          \/ Registers(c) \/ register_fails(c)
          \/ FireOnce(c) \/ FireRecurring(c) \/ DropHandle(c) \/ forget(c)

CbSpec == CbInit /\ [][CbNext]_cbVars
-----------------------------------------------------------------------------
OnStack(c) == \E i \in 1..Len(stack) : stack[i] = c

(* The crate's invariant 5: the simulator's reference is given back, and   *)
(* the registration removed, at most once, in whatever order a callback    *)
(* fires and its handle is dropped, also from inside its own closure.      *)
ReclaimedOnce == \A c \in Cbs : reclaims[c] <= 1 /\ removes[c] <= 1

(* Nobody who can still reach a registration finds it freed: not the       *)
(* simulator, not a handle, not a trampoline on the stack.                 *)
NoDanglingCallback ==
  \A c \in Cbs : vpi[c] \/ handle[c] \/ OnStack(c) => refs[c] > 0

(* A callback that was released and has no handle is freed as soon as its  *)
(* trampoline returns.  (What a refused registration leaves behind is      *)
(* never released.)                                                        *)
NoLeakedCallback ==
  \A c \in Cbs : released[c] /\ ~handle[c] /\ ~OnStack(c) => refs[c] = 0

(* References balance: no double release, no dangling and no leaked        *)
(* registration.                                                           *)
ReferencesBalance == ReclaimedOnce /\ NoDanglingCallback /\ NoLeakedCallback

(* The crate's invariant 4: no panic leaves a trampoline.                  *)
NoUnwindingAcrossFfi == ~aborted
=============================================================================
