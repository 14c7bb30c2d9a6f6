----------------------------- MODULE CustomRegistry -----------------------------
(***************************************************************************)
(* AddCustomUnmarshaler and its three siblings, and the operations that    *)
(* use what they registered.  The maps of handlers are plain Go maps,      *)
(* shared by all goroutines; createdTypeIndexer, an atomic flag set by the *)
(* first operation, is to keep registrations out of the way of operations. *)
(*                                                                         *)
(* Abstractions.  What an operation works on is the sequence of the things *)
(* it unmarshals or marshals: of each, its type, whether it is a pointer,  *)
(* where it is in the document, and whether its field is an interface that *)
(* holds it, whose type is not indexed then.  Types have no methods of     *)
(* their own (UnmarshalKDL, MarshalText, ...), and pointers are not nil; a *)
(* thing without a handler is stored by its kind or refused.  Left out are *)
(* the elements of ',multiple' fields and the entries of a root map, whose *)
(* details are nil and panic before a value's handler (marshal.go:676).    *)
(* A map is written in two steps, and any access to it in between is a     *)
(* data race, after which anything may happen: the model stops.            *)
(***************************************************************************)
EXTENDS Integers, Sequences, SequencesExt

CONSTANTS
  Procs,        \* goroutines
  Types,        \* the types, pointers aside
  NameOf,       \* the type's String(): the name of its package and its own
  Handlers,     \* functions
  NoHandler,    \* a nil function
  Programs,     \* what an operation may work on: sequences of things
  MaxCalls      \* calls of all goroutines together

Sides == {"unmarshal", "marshal"}
Keys  == [type : Types, ptr : BOOLEAN]

\* The maps of handlers: of nodes and of values, for each side
NodeMap  == [unmarshal |-> "customUnmarshalers", marshal |-> "customMarshalers"]
ValueMap == [unmarshal |-> "customValueUnmarshalers", marshal |-> "customValueMarshalers"]
Kinds    == {NodeMap[s] : s \in Sides} \cup {ValueMap[s] : s \in Sides}

\* Where a thing is: a node, with exactly one argument or not; a ',arg' field;
\* a property, which is also how the elements of an ',args' field are treated
\* and the fields of a struct below the root when they are marshaled; an entry
\* of a ',props' map.
Positions == {"node", "unary node", "argument", "property", "entry"}
Things    == [side : Sides, type : Types, ptr : BOOLEAN, at : Positions, held : BOOLEAN]

ASSUME NamesAssumption == NameOf \in [Types -> STRING]
ASSUME HandlersAssumption == NoHandler \notin Handlers
ASSUME SomethingToRegister == Types # {} /\ Handlers # {}
ASSUME ProgramsAssumption ==
  Programs \subseteq UNION {Seq({x \in Things : x.side = s}) : s \in Sides}
ASSUME CallsAssumption == MaxCalls \in Nat

VARIABLES
  created,    \* createdTypeIndexer
  handlers,   \* the four maps
  pc,         \* where each goroutine is
  adding,     \* what it registers: a kind, a key and a handler
  fields,     \* what its operation has still to store
  todo,       \* and what it has still to index
  index,      \* typeIndexer.index: a map from the names of types to flags
  used,       \* how its operation stored what it stored: a history
  calls,      \* the calls made so far
  race,       \* what raced with a write: "nothing", "write" or "read"
  first       \* the first operation: what was registered when it began, and
              \* the registrations that were past their check

vars == <<created, handlers, pc, adding, fields, todo, index, used, calls, race, first>>

Registrations == [kind : Kinds, key : Keys, handler : Handlers]
NoFlags == [name \in {} |-> {}]

Init ==
  /\ created = FALSE
  /\ handlers = [k \in Kinds |-> [x \in Keys |-> NoHandler]]
  /\ pc = [p \in Procs |-> "idle"]
  /\ adding \in [Procs -> {CHOOSE r \in Registrations : TRUE}]
  /\ fields = [p \in Procs |-> << >>] /\ todo = [p \in Procs |-> << >>]
  /\ index = [p \in Procs |-> NoFlags]
  /\ used = [p \in Procs |-> << >>]
  /\ calls = 0
  /\ race = "nothing"
  /\ first = [handlers |-> handlers, pending |-> {}]

IsAt(p, where)  == race = "nothing" /\ pc[p] = where
GoesTo(p, where) == pc' = [pc EXCEPT ![p] = where]
Calls == calls < MaxCalls /\ calls' = calls + 1

\* The maps someone else is writing
Written(p) == {adding[q].kind : q \in {r \in Procs \ {p} : pc[r] = "writing"}}

-----------------------------------------------------------------------------
(* AddCustomUnmarshaler, AddCustomValueUnmarshaler, AddCustomMarshaler, *)
(* AddCustomValueMarshaler                                              *)

\* Mutant of AddChecked: the flag is not looked at.
AddUnchecked(p) ==
  /\ IsAt(p, "idle") /\ Calls
  /\ \E r \in Registrations : adding' = [adding EXCEPT ![p] = r]
  /\ GoesTo(p, "checked")
  /\ UNCHANGED <<created, handlers, fields, todo, index, used, race, first>>

\* assertNoIndexers
AddChecked(p) ==
  /\ IsAt(p, "idle") /\ Calls /\ ~created
  /\ \E r \in Registrations : adding' = [adding EXCEPT ![p] = r]
  /\ GoesTo(p, "checked")
  /\ UNCHANGED <<created, handlers, fields, todo, index, used, race, first>>

\* It panics; the caller may recover.
AddRefused(p) ==
  /\ IsAt(p, "idle") /\ Calls /\ created
  /\ UNCHANGED <<created, handlers, pc, adding, fields, todo, index, used, race, first>>

StartWrite(p) ==
  /\ IsAt(p, "checked")
  /\ GoesTo(p, "writing")
  /\ race' = IF adding[p].kind \in Written(p) THEN "write" ELSE race
  /\ UNCHANGED <<created, handlers, adding, fields, todo, index, used, calls, first>>

EndWrite(p) ==
  /\ IsAt(p, "writing")
  /\ handlers' = [handlers EXCEPT ![adding[p].kind][adding[p].key] = adding[p].handler]
  /\ GoesTo(p, "idle")
  /\ UNCHANGED <<created, adding, fields, todo, index, used, calls, race, first>>

-----------------------------------------------------------------------------
(* Marshal, Unmarshal *)

\* Mutant of Begin: the flag is not set.
BeginUnflagged(p) ==
  /\ IsAt(p, "idle") /\ Calls
  /\ \E program \in Programs :
       fields' = [fields EXCEPT ![p] = program] /\ todo' = [todo EXCEPT ![p] = program]
  /\ index' = [index EXCEPT ![p] = NoFlags] /\ used' = [used EXCEPT ![p] = << >>]
  /\ first' = IF created THEN first
              ELSE [handlers |-> handlers,
                    pending |-> {adding[q] : q \in {r \in Procs : pc[r] \in {"checked", "writing"}}}]
  /\ GoesTo(p, "indexing")
  /\ UNCHANGED <<created, handlers, adding, race>>

\* newTypeIndexer
Begin(p) ==
  /\ IsAt(p, "idle") /\ Calls
  /\ \E program \in Programs :
       fields' = [fields EXCEPT ![p] = program] /\ todo' = [todo EXCEPT ![p] = program]
  /\ created' = TRUE
  /\ index' = [index EXCEPT ![p] = NoFlags] /\ used' = [used EXCEPT ![p] = << >>]
  /\ first' = IF created THEN first
              ELSE [handlers |-> handlers,
                    pending |-> {adding[q] : q \in {r \in Procs : pc[r] \in {"checked", "writing"}}}]
  /\ GoesTo(p, "indexing")
  /\ UNCHANGED <<handlers, adding, race>>

\* Mutants of Flags: only handlers of the type itself count; any handler sets
\* all flags.
FlagsOfType(t) == {k \in Kinds : handlers[k][[type |-> t, ptr |-> FALSE]] # NoHandler}
FlagsOfEither(t) ==
  {k \in Kinds : \E j \in Kinds, b \in BOOLEAN : handlers[j][[type |-> t, ptr |-> b]] # NoHandler}

\* CustomArshalers: handlers registered for the type and for a pointer to it
Flags(t) == {k \in Kinds : \E b \in BOOLEAN : handlers[k][[type |-> t, ptr |-> b]] # NoHandler}

\* indexType: a name is indexed once, and what an interface holds never.
IndexType(p) ==
  /\ IsAt(p, "indexing") /\ todo[p] # << >>
  /\ LET t == Head(todo[p]).type
     IN  IF Head(todo[p]).held \/ NameOf[t] \in DOMAIN index[p] THEN UNCHANGED <<index, race>>
         ELSE /\ index' = [index EXCEPT ![p] = [n \in DOMAIN @ \cup {NameOf[t]} |->
                                                  IF n = NameOf[t] THEN Flags(t) ELSE @[n]]]
              /\ race' = IF Written(p) # {} THEN "read" ELSE race
  /\ todo' = [todo EXCEPT ![p] = Tail(@)]
  /\ UNCHANGED <<created, handlers, pc, adding, fields, used, calls, first>>

Indexed(p) ==
  /\ IsAt(p, "indexing") /\ todo[p] = << >>
  /\ GoesTo(p, "storing")
  /\ UNCHANGED <<created, handlers, adding, fields, todo, index, used, calls, race, first>>

Stored(p, u) ==
  /\ fields' = [fields EXCEPT ![p] = Tail(@)]
  /\ used' = [used EXCEPT ![p] = Append(@, u)]

AtNode(x) == x.at \in {"node", "unary node"}

\* typeIndexer.Get.  An interface is looked through only where a node is
\* marshaled (marshalValueToNode), and its content may have no entry.
FlagsOf(p, x) ==
  IF \/ NameOf[x.type] \notin DOMAIN index[p]
     \/ x.held /\ ~(x.side = "marshal" /\ AtNode(x))
  THEN {} ELSE index[p][NameOf[x.type]]

\* The maps that count where a thing is: that of nodes at nodes only, that of
\* values anywhere but for a node that does not have exactly one argument.
Consulted(x) ==
  {k \in Kinds : \/ k = NodeMap[x.side] /\ AtNode(x)
                 \/ k = ValueMap[x.side] /\ (x.side = "unmarshal" => x.at # "node")}

\* The node's handler before the value's
KindCalled(x, flags) ==
  IF NodeMap[x.side] \in Consulted(x) \cap flags THEN NodeMap[x.side]
  ELSE IF ValueMap[x.side] \in Consulted(x) \cap flags THEN ValueMap[x.side]
  ELSE "none"

\* What a map is asked for: the type of the value that is there, or, where the
\* code has followed the pointer by then, what it points to.
LookedUp(x, kind) ==
  [type |-> x.type,
   ptr  |-> /\ x.ptr
            /\ kind = ValueMap[x.side] =>
                 x.at \in IF x.side = "unmarshal" THEN {"unary node", "property"} ELSE {"entry"}]

\* unmarshalNodeWithUnmarshaler, unmarshalIntfWithUnmarshaler,
\* marshalValueWithMarshaler, reflectValueToDocumentValue
StoreWithHandler(p) ==
  /\ IsAt(p, "storing") /\ fields[p] # << >>
  /\ LET x       == Head(fields[p])
         kind    == KindCalled(x, FlagsOf(p, x))
         handler == handlers[kind][LookedUp(x, kind)]
     IN  /\ kind # "none"
         /\ IF handler = NoHandler
            THEN GoesTo(p, "panicked") /\ UNCHANGED <<fields, used>>
            ELSE Stored(p, [thing |-> x, kind |-> kind, handler |-> handler]) /\ UNCHANGED pc
         /\ race' = IF kind \in Written(p) THEN "read" ELSE race
  /\ UNCHANGED <<created, handlers, adding, todo, index, calls, first>>

StorePlainly(p) ==
  /\ IsAt(p, "storing") /\ fields[p] # << >>
  /\ LET x == Head(fields[p])
     IN  /\ KindCalled(x, FlagsOf(p, x)) = "none"
         /\ Stored(p, [thing |-> x, kind |-> "none", handler |-> NoHandler])
  /\ UNCHANGED <<created, handlers, pc, adding, todo, index, calls, race, first>>

Return(p) ==
  /\ IsAt(p, "storing") /\ fields[p] = << >>
  /\ GoesTo(p, "idle")
  /\ UNCHANGED <<created, handlers, adding, fields, todo, index, used, calls, race, first>>

Add(p)     == AddChecked(p) \/ AddRefused(p) \/ StartWrite(p) \/ EndWrite(p)
Operate(p) == Begin(p) \/ IndexType(p) \/ Indexed(p) \/ StoreWithHandler(p)
              \/ StorePlainly(p) \/ Return(p)

Next == \E p \in Procs : Add(p) \/ Operate(p)

Spec == Init /\ [][Next]_vars

-----------------------------------------------------------------------------
(* Properties *)

\* Type invariant.  An operation is under way only after the flag was set, and
\* the static types of all it has still to store are indexed before it stores.
TypeOK ==
  /\ created \in BOOLEAN
  /\ handlers \in [Kinds -> [Keys -> Handlers \cup {NoHandler}]]
  /\ pc \in [Procs -> {"idle", "checked", "writing", "indexing", "storing", "panicked"}]
  /\ adding \in [Procs -> Registrations]
  /\ race \in {"nothing", "write", "read"}
  /\ \A p \in Procs :
       /\ fields[p] \in Seq(Things) /\ todo[p] \in Seq(Things)
       /\ pc[p] \in {"indexing", "storing", "panicked"} => created
       /\ pc[p] = "storing" => \A x \in Range(fields[p]) : x.held \/ NameOf[x.type] \in DOMAIN index[p]

\* The check of the flag and the write are not one step, and still nothing is
\* registered once operations have begun except by calls that were past their
\* check at that moment: a handler that is not the one the first operation
\* found is that of such a call.
HandlersFreeze ==
  created =>
    \A k \in Kinds, x \in Keys :
      \/ handlers[k][x] = first.handlers[k][x]
      \/ [kind |-> k, key |-> x, handler |-> handlers[k][x]] \in first.pending

\* An operation reads a map while a registration writes it only if some
\* registration was past its check when the first operation began, which the
\* flag cannot prevent.  It is about overlap: a write that has ended without
\* anything that orders it before the read is not a race here.
ReadsRaceOnlyWithPending == race = "read" => first.pending # {}

\* Two types of one operation that share a name
SharesItsName(program, t) ==
  \E x \in Range(program) : x.type # t /\ NameOf[x.type] = NameOf[t]
Worked(p) == [i \in DOMAIN used[p] |-> used[p][i].thing] \o fields[p]

\* What was registered before the first operation began is what is called.  At a
\* node it is the node's handler if there is one, or else the value's, provided
\* that a node that is unmarshaled has exactly one argument; at an argument or a
\* property it is the value's and never the node's.  The exceptions: what an
\* interface holds, whose type may not be indexed; a registration that was
\* pending; and a type that shares its name with another the operation works
\* on, for the index keeps one entry for both.
RegisteredHandlersAreCalled ==
  \A p \in Procs : \A i \in DOMAIN used[p] :
    LET u == used[p][i]
        x == u.thing
        nodes  == first.handlers[NodeMap[x.side]][LookedUp(x, NodeMap[x.side])]
        values == first.handlers[ValueMap[x.side]][LookedUp(x, ValueMap[x.side])]
    IN  \/ u.handler = IF AtNode(x) /\ nodes # NoHandler THEN nodes
                       ELSE IF x.side = "unmarshal" /\ x.at = "node" THEN NoHandler
                       ELSE values
        \/ x.held
        \/ \E r \in first.pending : r.key.type = x.type
        \/ SharesItsName(Worked(p), x.type)

\* A nil function is called only where a map is asked for a type with one number
\* of stars and has a handler for the other: for T where *T is registered, for
\* *T where T is.  A pointer to a T may be either, for the values it is followed
\* at some positions (LookedUp).  The one other way is a type that shares its
\* name with another the operation works on.
NilCallsOnlyHere ==
  \A p \in Procs : pc[p] = "panicked" =>
    LET x == Head(fields[p])
    IN  \/ \E k \in Consulted(x) : handlers[k][[LookedUp(x, k) EXCEPT !.ptr = ~@]] # NoHandler
        \/ SharesItsName(Worked(p), x.type)
=============================================================================
