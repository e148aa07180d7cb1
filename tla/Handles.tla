------------------------------ MODULE Handles -------------------------------
(***************************************************************************)
(* How a test finds the objects of a design: from the top module by name   *)
(* or by iteration, classified by their vpi type into handles of a kind,   *)
(* on which alone the operations of that kind exist.  Real and string      *)
(* variables are read and written here; vectors are in module Signals.     *)
(*                                                                         *)
(* An object has a full name, a sequence of names.  A module, struct or    *)
(* union has members; what vpi knows of the design is the constant         *)
(* Objects.                                                                *)
(***************************************************************************)
EXTENDS Integers, Sequences, FiniteSets, SequencesExt

CONSTANTS
  Objects,   \* the objects of the design, by full name: [type, size]
  Names,     \* names to ask for; "NUL" stands for one with a NUL in it
  Texts      \* strings to write, as sequences of characters

VARIABLES
  handle,    \* the last handle, or the error that came instead of it
  path,      \* history: the names asked for since the top, if all were found
  value,     \* the values of real and string variables
  supplied,  \* what vpi_get_value makes of them: a value, no pointer, or another format
  written    \* history: the last value accepted for each of them

handleVars == <<handle, path, value, supplied, written>>

Err(e) == [err |-> e]
IsHandle(h) == "kind" \in DOMAIN h

(* vpi: an object by its full name, and the objects of a type in a scope.  *)
ByName(name) == name \in DOMAIN Objects
Iterate(type, scope) ==
  {o \in DOMAIN Objects : o # <<>> /\ Front(o) = scope /\ Objects[o].type = type}
-----------------------------------------------------------------------------
Vectors == {"Net", "Reg", "IntegerVar", "Port", "Memory", "LongIntVar", "ShortIntVar", "IntVar",
            "ByteVar", "EnumVar", "BitVar"}

(* AnyHandle::classify; a vector's width is cached.                        *)
classify(o) ==
  LET type == Objects[o].type
      size == Objects[o].size
      kind == CASE type = "Module" -> "Hierarchy"
                [] type = "RealVar" -> "Real"
                [] type = "StringVar" -> "String"
                [] type = "StructVar" -> "Struct"
                [] type = "UnionVar" -> "Union"
                [] type \in Vectors -> "Logic"
                [] OTHER -> "Other"
  IN  [object |-> o, kind |-> kind,
       width |-> IF kind = "Logic" THEN (IF size > 0 THEN size ELSE 0) ELSE 0]

(* as_hierarchy, as_logic, as_real, as_string and as_aggregate.            *)
KindsOf ==
  [module |-> {"Hierarchy"}, signal |-> {"Logic"}, real |-> {"Real"}, string |-> {"String"},
   aggregate |-> {"Struct", "Union"}]

As(h, wanted) == IF h.kind \in KindsOf[wanted] THEN h ELSE Err("WrongKind")

top_modules == Iterate("Module", <<>>)

(* select_top_module: by the name in RUSTDV_TOP, or the first root, which  *)
(* may be any.                                                             *)
SelectTop(name) ==
  {IF name = <<"NUL">> THEN Err("panic")
   ELSE IF ByName(name) THEN As(classify(name), "module") ELSE Err("NotFound")}

FirstTop ==
  IF top_modules = {} THEN {Err("NoTopModule")} ELSE {classify(o) : o \in top_modules}

(* child() of a module looks in its scope, ...                             *)
InScope(h, name) == {o \in DOMAIN Objects : o # <<>> /\ Front(o) = h.object /\ Last(o) = name}

HierarchyChild(h, name) ==
  IF name = "NUL" THEN Err("panic")
  ELSE IF InScope(h, name) = {} THEN Err("NotFound")
  ELSE classify(CHOOSE o \in InScope(h, name) : TRUE)

(* ... that of a struct or union by the full name.                         *)
AggregateChild(h, name) ==
  LET o == Append(h.object, name)
  IN  IF name = "NUL" THEN Err("panic") ELSE IF ByName(o) THEN classify(o) ELSE Err("NotFound")

Child(h, name) == IF h.kind = "Hierarchy" THEN HierarchyChild(h, name) ELSE AggregateChild(h, name)

HasChildren(h) == IsHandle(h) /\ h.kind \in {"Hierarchy", "Struct", "Union"}

(* children(): of a module, modules, nets and registers only.              *)
HierarchyChildren(h) ==
  {classify(o) : o \in UNION {Iterate(type, h.object) : type \in {"Module", "Net", "Reg"}}}

(* ... of a struct or union, its members.                                  *)
AggregateChildren(h) ==
  {classify(o) : o \in {x \in DOMAIN Objects : x # <<>> /\ Front(x) = h.object}}
-----------------------------------------------------------------------------
top_module(name) ==
  /\ handle' \in (IF name = <<>> THEN FirstTop ELSE SelectTop(name))
  /\ path' = IF IsHandle(handle') THEN handle'.object ELSE <<>>
  /\ UNCHANGED <<value, supplied, written>>

(* signal, real, string, hierarchy and aggregate: child(name)?.as_...      *)
child(name, wanted) ==
  /\ HasChildren(handle)
  /\ handle' = LET c == Child(handle, name) IN IF IsHandle(c) THEN As(c, wanted) ELSE c
  /\ path' = Append(path, name)
  /\ UNCHANGED <<value, supplied, written>>

(* A handle from an iteration.                                             *)
pick ==
  /\ HasChildren(handle)
  /\ handle' \in (IF handle.kind = "Hierarchy" THEN HierarchyChildren(handle) ELSE AggregateChildren(handle))
  /\ path' = Append(path, Last(handle'.object))
  /\ UNCHANGED <<value, supplied, written>>

(* RealHandle::get: the format that came back must be that asked for.      *)
get_real(o) == IF supplied[o] = "other" THEN Err("Unavailable") ELSE [ok |-> value[o]]

(* StringHandle::get: and there must be a string.                          *)
get_string(o) ==
  IF supplied[o] = "other" \/ supplied[o] = "null" THEN Err("Unavailable") ELSE [ok |-> value[o]]

(* RealHandle::set_now.                                                    *)
set_real(v) ==
  /\ IsHandle(handle) /\ handle.kind = "Real"
  /\ value' = [value EXCEPT ![handle.object] = v]
  /\ written' = [written EXCEPT ![handle.object] = v]
  /\ UNCHANGED <<handle, path, supplied>>

(* StringHandle::set_now: a text with a NUL is refused.  The simulator     *)
(* would read it as far as the NUL.                                        *)
CString(text) == SubSeq(text, 1, (CHOOSE n \in 0..Len(text) :
  (\A i \in 1..n : text[i] # "NUL") /\ (n < Len(text) => text[n + 1] = "NUL")))

set_string(text) ==
  /\ IsHandle(handle) /\ handle.kind = "String"
  /\ IF "NUL" \in ToSet(text) THEN UNCHANGED <<value, written>>
     ELSE /\ value' = [value EXCEPT ![handle.object] = CString(text)]
          /\ written' = [written EXCEPT ![handle.object] = text]
  /\ UNCHANGED <<handle, path, supplied>>

Variables == {o \in DOMAIN Objects : Objects[o].type \in {"RealVar", "StringVar"}}

HandleInit ==
  /\ handle = Err("none") /\ path = <<>>
  /\ value = [o \in Variables |-> <<>>] /\ written = value
  /\ supplied \in [Variables -> {"value", "null", "other"}]
  /\ \A o \in Variables : supplied[o] = "null" => Objects[o].type = "StringVar"

HandleNext ==
  \/ \E name \in {<<>>} \cup {<<n>> : n \in Names} : top_module(name)
  \/ \E name \in Names, wanted \in DOMAIN KindsOf : child(name, wanted)
  \/ pick
  \/ \E text \in Texts : set_real(text) \/ set_string(text)

HandleSpec == HandleInit /\ [][HandleNext]_handleVars
-----------------------------------------------------------------------------
(* A handle is the object that was asked for, of a kind that fits its vpi  *)
(* type, with its width; whatever an iteration lists can also be asked for *)
(* by name, and is the same; and a variable reads as the last value that   *)
(* was accepted for it, never as a part of one, or not at all.             *)
HandlesAreTrue ==
  /\ IsHandle(handle) =>
       /\ handle.object = path /\ ByName(path)
       /\ (handle.kind = "Logic") = (Objects[path].type \in Vectors)
       /\ handle.kind = "Logic" /\ Objects[path].size > 0 => handle.width = Objects[path].size
       /\ handle.kind = "Hierarchy" =>
            \A c \in HierarchyChildren(handle) : Child(handle, Last(c.object)) = c
       /\ handle.kind \in {"Struct", "Union"} =>
            {Last(c.object) : c \in AggregateChildren(handle)}
              = {n \in Names : IsHandle(Child(handle, n))}
  /\ \A o \in Variables :
       LET read == IF Objects[o].type = "RealVar" THEN get_real(o) ELSE get_string(o)
       IN  read = IF supplied[o] = "value" THEN [ok |-> written[o]] ELSE Err("Unavailable")
=============================================================================
