-------------------------- MODULE CustomRegistryProofs --------------------------
(***************************************************************************)
(* Registration against use, for any number of goroutines, types, handlers *)
(* and programs.                                                           *)
(***************************************************************************)
EXTENDS CustomRegistry, SequenceTheorems, TLAPS

Uses == [thing : Things, kind : Kinds \cup {"none"}, handler : Handlers \cup {NoHandler}]

-----------------------------------------------------------------------------
(***************************************************************************)
(* What is known of the variables over and above TypeOK                    *)
(***************************************************************************)
Functions ==
  /\ fields \in [Procs -> Seq(Things)] /\ todo \in [Procs -> Seq(Things)]
  /\ used \in [Procs -> Seq(Uses)]
  /\ DOMAIN index = Procs
  /\ first.handlers \in [Kinds -> [Keys -> Handlers \cup {NoHandler}]]
  /\ \A p \in Procs : pc[p] = "panicked" => fields[p] # << >>

\* Before the first operation nothing was stored, and after it every
\* registration under way was past its check when it began.
FirstIsFirst ==
  /\ ~created => \A p \in Procs : used[p] = << >>
  /\ created => \A p \in Procs : pc[p] \in {"checked", "writing"} => adding[p] \in first.pending
  /\ race = "read" => first.pending # {}

\* What an operation indexes is what it stores.
IndexesItsFields ==
  \A p \in Procs : pc[p] = "indexing" =>
    /\ used[p] = << >>
    /\ \A i \in DOMAIN todo[p] : \E j \in DOMAIN fields[p] : todo[p][i] = fields[p][j]
    /\ \A j \in DOMAIN fields[p] :
         \/ fields[p][j].held
         \/ NameOf[fields[p][j].type] \in DOMAIN index[p]
         \/ \E i \in DOMAIN todo[p] : todo[p][i] = fields[p][j]

\* The things an operation works on
ThingIn(u, f, x) == (\E i \in DOMAIN u : u[i].thing = x) \/ (\E i \in DOMAIN f : f[i] = x)
WorksOn(p, x)  == ThingIn(used[p], fields[p], x)

Pending(t) == \E r \in first.pending : r.key.type = t

FirstFlags(t) ==
  {k \in Kinds : \E b \in BOOLEAN : first.handlers[k][[type |-> t, ptr |-> b]] # NoHandler}

\* An entry of the index is that of one of the types with its name: it says for
\* which kinds there are handlers, and, but for what is pending, for which there
\* were when the first operation began.
EntryIsOf(p, n, x) ==
  /\ WorksOn(p, x) /\ NameOf[x.type] = n
  /\ index[p][n] \subseteq Flags(x.type)
  /\ index[p][n] = FirstFlags(x.type) \/ Pending(x.type)

IndexIsRight ==
  \A p \in Procs : pc[p] \in {"indexing", "storing", "panicked"} =>
    \A n \in DOMAIN index[p] : \E x \in Things : EntryIsOf(p, n, x)

IInv == TypeOK /\ Functions /\ FirstIsFirst /\ IndexesItsFields /\ HandlersFreeze
        /\ IndexIsRight
AllInv == IInv /\ RegisteredHandlersAreCalled /\ NilCallsOnlyHere

-----------------------------------------------------------------------------
(* Sequences *)

LEMMA FirstAndRest ==
  ASSUME NEW S, NEW q \in Seq(S), q # << >>
  PROVE  /\ Head(q) \in S /\ Tail(q) \in Seq(S)
         /\ 1 \in DOMAIN q /\ q[1] = Head(q)
         /\ \A i \in DOMAIN Tail(q) : i + 1 \in DOMAIN q /\ Tail(q)[i] = q[i + 1]
         /\ \A i \in DOMAIN q : i = 1 \/ (i - 1 \in DOMAIN Tail(q) /\ Tail(q)[i - 1] = q[i])
<1>1. /\ Len(q) \in Nat \ {0} /\ DOMAIN q = 1 .. Len(q)
  BY EmptySeq, LenProperties
<1>2. /\ Head(q) \in S /\ Tail(q) \in Seq(S) /\ Len(Tail(q)) = Len(q) - 1
      /\ \A i \in 1 .. Len(Tail(q)) : Tail(q)[i] = q[i + 1]
  BY HeadTailProperties
<1>3. DOMAIN Tail(q) = 1 .. Len(q) - 1
  BY <1>2, LenProperties
<1>4. q[1] = Head(q)
  BY <1>1
<1> QED BY <1>1, <1>2, <1>3, <1>4

LEMMA OneMore ==
  ASSUME NEW S, NEW q \in Seq(S), NEW e \in S
  PROVE  /\ Append(q, e) \in Seq(S)
         /\ \A i \in DOMAIN q : i \in DOMAIN Append(q, e) /\ Append(q, e)[i] = q[i]
         /\ \A i \in DOMAIN Append(q, e) :
              \/ i \in DOMAIN q /\ Append(q, e)[i] = q[i]
              \/ Append(q, e)[i] = e
         /\ \E i \in DOMAIN Append(q, e) : Append(q, e)[i] = e
<1>1. /\ Len(q) \in Nat /\ DOMAIN q = 1 .. Len(q)
  BY LenProperties
<1>2. /\ Append(q, e) \in Seq(S) /\ Len(Append(q, e)) = Len(q) + 1
      /\ \A i \in 1 .. Len(q) : Append(q, e)[i] = q[i]
      /\ Append(q, e)[Len(q) + 1] = e
  OBVIOUS
<1>3. DOMAIN Append(q, e) = 1 .. Len(q) + 1
  BY <1>2, LenProperties
<1> QED BY <1>1, <1>2, <1>3

LEMMA WorkedThings ==
  ASSUME NEW u \in Seq(Uses), NEW f \in Seq(Things), NEW x
  PROVE  x \in Range([i \in DOMAIN u |-> u[i].thing] \o f) <=> ThingIn(u, f, x)
<1> DEFINE k == [i \in DOMAIN u |-> u[i].thing]
<1>1. /\ Len(u) \in Nat /\ DOMAIN u = 1 .. Len(u) /\ \A i \in DOMAIN u : u[i] \in Uses
      /\ Len(f) \in Nat /\ DOMAIN f = 1 .. Len(f)
  BY LenProperties, ElementOfSeq
<1>2. k \in Seq(Things) /\ Len(k) = Len(u)
  <2>1. k \in [1 .. Len(u) -> Things]
    BY <1>1 DEF Uses
  <2> QED BY <1>1, <2>1
<1>3. /\ DOMAIN (k \o f) = 1 .. Len(u) + Len(f)
      /\ \A i \in 1 .. Len(u) + Len(f) :
           (k \o f)[i] = IF i <= Len(u) THEN k[i] ELSE f[i - Len(u)]
  BY <1>2, ConcatProperties, LenProperties
<1>4. \A i \in DOMAIN u : k[i] = u[i].thing
  OBVIOUS
<1> HIDE DEF k
<1>5. ASSUME NEW i \in DOMAIN (k \o f), x = (k \o f)[i] PROVE ThingIn(u, f, x)
  <2>1. CASE i <= Len(u)
    BY <1>1, <1>3, <1>4, <1>5, <2>1 DEF ThingIn
  <2>2. CASE ~(i <= Len(u))
    <3>1. i - Len(u) \in DOMAIN f /\ x = f[i - Len(u)]
      BY <1>1, <1>3, <1>5, <2>2
    <3> QED BY <3>1 DEF ThingIn
  <2> QED BY <2>1, <2>2
<1>6. ASSUME NEW i \in DOMAIN u, u[i].thing = x PROVE \E j \in DOMAIN (k \o f) : (k \o f)[j] = x
  <2>1. i \in DOMAIN (k \o f) /\ (k \o f)[i] = x
    BY <1>1, <1>3, <1>4, <1>6
  <2> QED BY <2>1
<1>7. ASSUME NEW i \in DOMAIN f, f[i] = x PROVE \E j \in DOMAIN (k \o f) : (k \o f)[j] = x
  <2>1. Len(u) + i \in DOMAIN (k \o f) /\ (k \o f)[Len(u) + i] = x
    BY <1>1, <1>3, <1>7
  <2> QED BY <2>1
<1>8. x \in Range(k \o f) <=> \E j \in DOMAIN (k \o f) : (k \o f)[j] = x
  BY DEF Range
<1>9. x \in Range(k \o f) <=> ThingIn(u, f, x)
  BY <1>5, <1>6, <1>7, <1>8 DEF ThingIn
<1> QED BY <1>9 DEF k

LEMMA StoringKeepsThings ==
  ASSUME NEW u \in Seq(Uses), NEW f \in Seq(Things), f # << >>,
         NEW v \in Uses, v.thing = Head(f), NEW x
  PROVE  ThingIn(Append(u, v), Tail(f), x) <=> ThingIn(u, f, x)
<1>1. ASSUME NEW i \in DOMAIN u, u[i].thing = x PROVE ThingIn(Append(u, v), Tail(f), x)
  BY <1>1, OneMore DEF ThingIn
<1>2. ASSUME NEW i \in DOMAIN f, f[i] = x PROVE ThingIn(Append(u, v), Tail(f), x)
  <2>1. CASE i = 1
    <3>1. x = v.thing
      BY <1>2, <2>1, FirstAndRest
    <3>2. PICK j \in DOMAIN Append(u, v) : Append(u, v)[j] = v
      BY OneMore
    <3> QED BY <3>1, <3>2 DEF ThingIn
  <2>2. CASE i # 1
    <3>1. i - 1 \in DOMAIN Tail(f) /\ Tail(f)[i - 1] = x
      BY <1>2, <2>2, FirstAndRest
    <3> QED BY <3>1 DEF ThingIn
  <2> QED BY <2>1, <2>2
<1>3. ASSUME NEW i \in DOMAIN Append(u, v), Append(u, v)[i].thing = x PROVE ThingIn(u, f, x)
  BY <1>3, FirstAndRest, OneMore DEF ThingIn
<1>4. ASSUME NEW i \in DOMAIN Tail(f), Tail(f)[i] = x PROVE ThingIn(u, f, x)
  BY <1>4, FirstAndRest DEF ThingIn
<1> QED BY <1>1, <1>2, <1>3, <1>4 DEF ThingIn

-----------------------------------------------------------------------------
(* Types *)

LEMMA InitHolds == Init => AllInv
<1> SUFFICES ASSUME Init PROVE AllInv
  OBVIOUS
<1>1. (CHOOSE r \in Registrations : TRUE) \in Registrations
  <2>1. PICK t \in Types, h \in Handlers : TRUE
    BY SomethingToRegister
  <2>2. [kind |-> NodeMap["marshal"], key |-> [type |-> t, ptr |-> TRUE], handler |-> h] \in Registrations
    BY DEF Registrations, Kinds, Sides, Keys
  <2> QED BY <2>2
<1>2. \A S : << >> \in Seq(S)
  BY EmptySeq
<1>3. TypeOK
  <2>1. adding \in [Procs -> Registrations]
    BY <1>1 DEF Init
  <2> QED BY <1>2, <2>1 DEF Init, TypeOK
<1>4. Functions
  BY <1>2 DEF Init, Functions
<1>5. FirstIsFirst /\ IndexesItsFields /\ HandlersFreeze /\ IndexIsRight
  BY DEF Init, FirstIsFirst, IndexesItsFields, HandlersFreeze, IndexIsRight
<1>6. RegisteredHandlersAreCalled /\ NilCallsOnlyHere
  BY DEF Init, RegisteredHandlersAreCalled, NilCallsOnlyHere
<1> QED BY <1>3, <1>4, <1>5, <1>6 DEF AllInv, IInv

\* What a registration leaves alone
LEMMA AddingLeavesOperations ==
  ASSUME TypeOK, NEW p \in Procs, Add(p)
  PROVE  /\ UNCHANGED <<created, fields, todo, index, used, first>>
         /\ \A q \in Procs : pc'[q] = pc[q] \/ q = p
         /\ pc[p] \in {"idle", "checked", "writing"}
         /\ pc'[p] \in {"idle", "checked", "writing"}
<1> USE DEF TypeOK, IsAt, GoesTo
<1>1. CASE AddChecked(p)
  BY <1>1 DEF AddChecked
<1>2. CASE AddRefused(p)
  BY <1>2 DEF AddRefused
<1>3. CASE StartWrite(p)
  BY <1>3 DEF StartWrite
<1>4. CASE EndWrite(p)
  BY <1>4 DEF EndWrite
<1> QED BY <1>1, <1>2, <1>3, <1>4 DEF Add

\* The map that is asked is one that counts there and is flagged, and what it is
\* asked for is a key.
LEMMA WhatIsAsked ==
  ASSUME NEW x \in Things, NEW flags
  PROVE  /\ KindCalled(x, flags) # "none" =>
               KindCalled(x, flags) \in Kinds \cap Consulted(x) \cap flags
         /\ NodeMap[x.side] \in Kinds /\ ValueMap[x.side] \in Kinds
         /\ NodeMap[x.side] # ValueMap[x.side]
         /\ \A k : /\ LookedUp(x, k) \in Keys /\ LookedUp(x, k).type = x.type
                  /\ LookedUp(x, k) = [type |-> x.type, ptr |-> LookedUp(x, k).ptr]
<1>1. x.side \in Sides /\ x.type \in Types /\ x.ptr \in BOOLEAN
  BY DEF Things
<1>2. /\ NodeMap[x.side] \in Kinds /\ ValueMap[x.side] \in Kinds
      /\ NodeMap[x.side] # ValueMap[x.side]
  BY <1>1 DEF Kinds, Sides, NodeMap, ValueMap
<1>3. KindCalled(x, flags) # "none" => KindCalled(x, flags) \in Kinds \cap Consulted(x) \cap flags
  BY <1>2 DEF KindCalled
<1>4. ASSUME NEW k
      PROVE  /\ LookedUp(x, k) \in Keys /\ LookedUp(x, k).type = x.type
             /\ LookedUp(x, k) = [type |-> x.type, ptr |-> LookedUp(x, k).ptr]
  BY <1>1 DEF LookedUp, Keys
<1> QED BY <1>2, <1>3, <1>4

\* What storing does: it panics, or it moves a field to what was used.
LEMMA StoringStep ==
  ASSUME TypeOK, Functions, NEW p \in Procs, StoreWithHandler(p) \/ StorePlainly(p)
  PROVE  \/ UNCHANGED <<fields, used>> /\ GoesTo(p, "panicked")
         \/ /\ UNCHANGED pc
            /\ fields' = [fields EXCEPT ![p] = Tail(@)]
            /\ \E u \in Uses : u.thing = Head(fields[p]) /\ used' = [used EXCEPT ![p] = Append(@, u)]
<1> DEFINE x == Head(fields[p])
           kind == KindCalled(x, FlagsOf(p, x))
           h == handlers[kind][LookedUp(x, kind)]
<1>1. x \in Things
  <2>1. fields[p] \in Seq(Things) /\ fields[p] # << >>
    BY DEF Functions, StoreWithHandler, StorePlainly
  <2> QED BY <2>1, FirstAndRest
<1>2. CASE StorePlainly(p)
  <2>1. [thing |-> x, kind |-> "none", handler |-> NoHandler] \in Uses
    BY <1>1 DEF Uses
  <2> QED BY <1>2, <2>1 DEF StorePlainly, Stored
<1>3. CASE StoreWithHandler(p)
  <2>1. kind \in Kinds /\ LookedUp(x, kind) \in Keys
    <3>1. kind # "none"
      BY <1>3 DEF StoreWithHandler
    <3> QED BY <1>1, <3>1, WhatIsAsked
  <2>2. [thing |-> x, kind |-> kind, handler |-> h] \in Uses
    <3>1. h \in Handlers \cup {NoHandler}
      BY <2>1 DEF TypeOK
    <3> HIDE DEF x, kind, h
    <3>2. QED
      BY <1>1, <2>1, <3>1 DEF Uses
  <2>3. \/ UNCHANGED <<fields, used>> /\ GoesTo(p, "panicked")
        \/ UNCHANGED pc /\ Stored(p, [thing |-> x, kind |-> kind, handler |-> h])
    BY <1>3 DEF StoreWithHandler
  <2> QED BY <2>2, <2>3 DEF Stored
<1> QED BY <1>2, <1>3

LEMMA TypesKept ==
  ASSUME IInv, Next
  PROVE  TypeOK' /\ Functions'
<1>1. PICK p \in Procs : Add(p) \/ Operate(p)
  BY DEF Next
<1> USE DEF IsAt, GoesTo, Calls
<1>2. TypeOK /\ Functions
  BY DEF IInv
<1>3. CASE AddChecked(p)
  BY <1>2, <1>3 DEF AddChecked, TypeOK, Functions
<1>4. CASE AddRefused(p)
  BY <1>2, <1>4 DEF AddRefused, TypeOK, Functions
<1>5. CASE StartWrite(p)
  BY <1>2, <1>5 DEF StartWrite, TypeOK, Functions
<1>6. CASE EndWrite(p)
  BY <1>2, <1>6 DEF EndWrite, TypeOK, Functions, Registrations
<1>7. CASE Begin(p)
  <2>1. PICK program \in Programs : /\ fields' = [fields EXCEPT ![p] = program]
                                    /\ todo' = [todo EXCEPT ![p] = program]
    BY <1>7 DEF Begin
  <2>2. program \in Seq(Things) /\ << >> \in Seq(Uses)
    <3>1. PICK side \in Sides : program \in Seq({x \in Things : x.side = side})
      BY ProgramsAssumption
    <3>2. {x \in Things : x.side = side} \subseteq Things
      OBVIOUS
    <3> QED BY <3>1, <3>2, SeqMonotonic, EmptySeq
  <2> QED BY <1>2, <1>7, <2>1, <2>2 DEF Begin, TypeOK, Functions
<1>8. CASE IndexType(p)
  <2>1. Tail(todo[p]) \in Seq(Things)
    BY <1>2, <1>8, FirstAndRest DEF IndexType, Functions
  <2> QED BY <1>2, <1>8, <2>1 DEF IndexType, TypeOK, Functions
<1>9. CASE Indexed(p)
  <2>1. \A i \in DOMAIN fields[p] :
          fields[p][i].held \/ NameOf[fields[p][i].type] \in DOMAIN index[p]
    <3>1. todo[p] = << >> /\ DOMAIN << >> = {}
      BY <1>9 DEF Indexed
    <3> QED BY <1>9, <3>1 DEF Indexed, IInv, IndexesItsFields
  <2>2. /\ pc' = [pc EXCEPT ![p] = "storing"] /\ pc[p] = "indexing"
        /\ UNCHANGED <<created, handlers, adding, fields, todo, index, used, race, first>>
    BY <1>9 DEF Indexed
  <2>3. ASSUME NEW q \in Procs, pc'[q] = "storing", NEW x \in Range(fields[q])
        PROVE  x.held \/ NameOf[x.type] \in DOMAIN index[q]
    <3>1. CASE q = p
      BY <2>1, <2>3, <3>1 DEF Range
    <3>2. CASE q # p
      BY <1>2, <2>2, <2>3, <3>2 DEF TypeOK
    <3> QED BY <3>1, <3>2
  <2>4. TypeOK'
    BY <1>2, <2>2, <2>3 DEF TypeOK
  <2> QED BY <1>2, <2>2, <2>4 DEF TypeOK, Functions
<1>10. CASE StoreWithHandler(p) \/ StorePlainly(p)
  <2>1. /\ fields[p] # << >> /\ IsAt(p, "storing")
        /\ Head(fields[p]) \in Things /\ Tail(fields[p]) \in Seq(Things)
        /\ \A i \in DOMAIN Tail(fields[p]) :
             i + 1 \in DOMAIN fields[p] /\ Tail(fields[p])[i] = fields[p][i + 1]
    <3>1. fields[p] # << >> /\ IsAt(p, "storing")
      BY <1>10 DEF StoreWithHandler, StorePlainly
    <3>2. fields[p] \in Seq(Things)
      BY <1>2 DEF Functions
    <3> QED BY <3>1, <3>2, FirstAndRest
  <2>2. UNCHANGED <<created, handlers, adding, todo, index, calls, first>>
        /\ race' \in {"nothing", "read", race}
    BY <1>10 DEF StoreWithHandler, StorePlainly
  <2>3. \/ UNCHANGED <<fields, used>> /\ GoesTo(p, "panicked")
        \/ /\ UNCHANGED pc
           /\ fields' = [fields EXCEPT ![p] = Tail(@)]
           /\ \E u \in Uses : used' = [used EXCEPT ![p] = Append(@, u)]
    BY <1>2, <1>10, StoringStep
  <2>4. CASE UNCHANGED <<fields, used>> /\ GoesTo(p, "panicked")
    BY <1>2, <2>1, <2>2, <2>4 DEF TypeOK, Functions
  <2>5. CASE /\ UNCHANGED pc
             /\ fields' = [fields EXCEPT ![p] = Tail(@)]
             /\ \E u \in Uses : used' = [used EXCEPT ![p] = Append(@, u)]
    <3>1. Functions'
      <4>1. used' \in [Procs -> Seq(Uses)]
        BY <1>2, <2>5, OneMore DEF Functions
      <4> QED BY <1>2, <2>1, <2>2, <2>5, <4>1 DEF Functions
    <3>2. \A q \in Procs : pc'[q] = "storing" =>
            \A y \in Range(fields'[q]) : y.held \/ NameOf[y.type] \in DOMAIN index'[q]
      BY <1>2, <2>1, <2>2, <2>5 DEF TypeOK, Functions, Range
    <3> QED BY <1>2, <2>2, <2>5, <3>1, <3>2 DEF TypeOK, Functions
  <2> QED BY <2>3, <2>4, <2>5
<1>11. CASE Return(p)
  BY <1>2, <1>11 DEF Return, TypeOK, Functions
<1> QED
  BY <1>1, <1>3, <1>4, <1>5, <1>6, <1>7, <1>8, <1>9, <1>10, <1>11 DEF Add, Operate

-----------------------------------------------------------------------------
(* The first operation, and what was registered when it began *)

LEMMA FirstKept ==
  ASSUME IInv, Next
  PROVE  FirstIsFirst'
<1>1. PICK p \in Procs : Add(p) \/ Operate(p)
  BY DEF Next
<1> USE DEF IsAt, GoesTo, Calls
<1>2. TypeOK /\ Functions /\ FirstIsFirst
  BY DEF IInv
<1>3. CASE AddChecked(p)
  BY <1>2, <1>3 DEF AddChecked, FirstIsFirst
<1>4. CASE AddRefused(p)
  BY <1>2, <1>4 DEF AddRefused, FirstIsFirst
<1>5. CASE StartWrite(p)
  <2>1. created' => \A q \in Procs : pc'[q] \in {"checked", "writing"} => adding'[q] \in first'.pending
    BY <1>2, <1>5 DEF StartWrite, FirstIsFirst, TypeOK
  <2> QED BY <1>2, <1>5, <2>1 DEF StartWrite, FirstIsFirst
<1>6. CASE EndWrite(p)
  <2>1. created' => \A q \in Procs : pc'[q] \in {"checked", "writing"} => adding'[q] \in first'.pending
    BY <1>2, <1>6 DEF EndWrite, FirstIsFirst, TypeOK
  <2> QED BY <1>2, <1>6, <2>1 DEF EndWrite, FirstIsFirst
<1>7. CASE Begin(p)
  <2>1. CASE created
    BY <1>2, <1>7, <2>1 DEF Begin, FirstIsFirst, TypeOK
  <2>2. CASE ~created
    <3>1. \A q \in Procs : pc'[q] \in {"checked", "writing"} => adding'[q] \in first'.pending
      BY <1>2, <1>7, <2>2 DEF Begin, TypeOK
    <3> QED BY <1>7, <3>1 DEF Begin, FirstIsFirst
  <2> QED BY <2>1, <2>2
<1>8. ASSUME pc[p] \in {"indexing", "storing"}, Written(p) # {}
      PROVE  first.pending # {}
  BY <1>2, <1>8 DEF Written, FirstIsFirst, TypeOK
<1>9. CASE IndexType(p)
  <2>1. race' = "read" => race = "read" \/ Written(p) # {}
    BY <1>9 DEF IndexType
  <2> QED BY <1>2, <1>8, <1>9, <2>1 DEF IndexType, FirstIsFirst
<1>10. CASE Indexed(p)
  BY <1>2, <1>10 DEF Indexed, FirstIsFirst, TypeOK
<1>11. CASE StoreWithHandler(p) \/ StorePlainly(p)
  <2>1. /\ UNCHANGED <<created, adding, first>> /\ pc[p] = "storing" /\ created
        /\ pc' = pc \/ pc' = [pc EXCEPT ![p] = "panicked"]
        /\ race' = "read" => race = "read" \/ Written(p) # {}
    BY <1>2, <1>11 DEF StoreWithHandler, StorePlainly, TypeOK
  <2> QED BY <1>2, <1>8, <2>1 DEF FirstIsFirst, TypeOK
<1>12. CASE Return(p)
  BY <1>2, <1>12 DEF Return, FirstIsFirst, TypeOK
<1> QED
  BY <1>1, <1>3, <1>4, <1>5, <1>6, <1>7, <1>9, <1>10, <1>11, <1>12 DEF Add, Operate

LEMMA HandlersKept ==
  ASSUME IInv, Next
  PROVE  /\ HandlersFreeze'
         /\ \A k \in Kinds, x \in Keys : handlers'[k][x] = NoHandler => handlers[k][x] = NoHandler
<1>1. PICK p \in Procs : Add(p) \/ Operate(p)
  BY DEF Next
<1> USE DEF IsAt, GoesTo
<1>2. TypeOK /\ Functions /\ FirstIsFirst /\ HandlersFreeze
  BY DEF IInv
<1>3. CASE UNCHANGED <<handlers, created, first>>
  BY <1>2, <1>3 DEF HandlersFreeze
<1>4. CASE EndWrite(p)
  <2>1. /\ adding[p] \in Registrations
        /\ handlers' = [handlers EXCEPT ![adding[p].kind][adding[p].key] = adding[p].handler]
        /\ UNCHANGED <<created, first>>
        /\ created => adding[p] \in first.pending
    BY <1>2, <1>4 DEF EndWrite, TypeOK, FirstIsFirst
  <2>2. ASSUME NEW k \in Kinds, NEW x \in Keys
        PROVE  handlers'[k][x] = IF k = adding[p].kind /\ x = adding[p].key
                                 THEN adding[p].handler ELSE handlers[k][x]
    BY <1>2, <2>1 DEF TypeOK, Registrations
  <2>3. adding[p] = [kind |-> adding[p].kind, key |-> adding[p].key, handler |-> adding[p].handler]
    BY <2>1 DEF Registrations
  <2>4. adding[p].handler # NoHandler
    BY <2>1, HandlersAssumption DEF Registrations
  <2> QED BY <1>2, <2>1, <2>2, <2>3, <2>4 DEF HandlersFreeze
<1>5. CASE Begin(p)
  BY <1>2, <1>5 DEF Begin, HandlersFreeze
<1>6. Begin(p) \/ EndWrite(p) \/ UNCHANGED <<handlers, created, first>>
  BY <1>1 DEF Add, Operate, AddChecked, AddRefused, StartWrite, IndexType, Indexed,
              StoreWithHandler, StorePlainly, Return
<1> QED BY <1>3, <1>4, <1>5, <1>6

LEMMA FieldsKept ==
  ASSUME IInv, Next
  PROVE  IndexesItsFields'
<1>1. PICK p \in Procs : Add(p) \/ Operate(p)
  BY DEF Next
<1> USE DEF IsAt, GoesTo
<1>2. TypeOK /\ Functions /\ IndexesItsFields
  BY DEF IInv
<1>3. CASE Add(p)
  BY <1>2, <1>3, AddingLeavesOperations DEF IndexesItsFields
<1>4. CASE Begin(p)
  <2>1. /\ used'[p] = << >> /\ todo'[p] = fields'[p]
        /\ \A q \in Procs : q # p =>
             /\ pc'[q] = pc[q] /\ used'[q] = used[q] /\ todo'[q] = todo[q]
             /\ fields'[q] = fields[q] /\ index'[q] = index[q]
    BY <1>2, <1>4 DEF Begin, TypeOK, Functions
  <2> QED BY <1>2, <2>1 DEF IndexesItsFields
<1>5. CASE IndexType(p)
  <2> DEFINE t == Head(todo[p])
  <2>1. todo[p] \in Seq(Things) /\ todo[p] # << >> /\ pc[p] = "indexing"
    BY <1>2, <1>5 DEF IndexType, Functions
  <2>2. /\ todo' = [todo EXCEPT ![p] = Tail(@)] /\ UNCHANGED <<pc, fields, used>>
        /\ \A q \in Procs : q # p => index'[q] = index[q]
        /\ DOMAIN index[p] \subseteq DOMAIN index'[p]
        /\ t.held \/ NameOf[t.type] \in DOMAIN index'[p]
    BY <1>2, <1>5 DEF IndexType, Functions
  <2>3. ASSUME NEW q \in Procs, q # p, pc'[q] = "indexing"
        PROVE  /\ used'[q] = << >>
               /\ \A i \in DOMAIN todo'[q] : \E j \in DOMAIN fields'[q] : todo'[q][i] = fields'[q][j]
               /\ \A j \in DOMAIN fields'[q] :
                    \/ fields'[q][j].held
                    \/ NameOf[fields'[q][j].type] \in DOMAIN index'[q]
                    \/ \E i \in DOMAIN todo'[q] : todo'[q][i] = fields'[q][j]
    BY <1>2, <2>2, <2>3 DEF IndexesItsFields, Functions
  <2>4. todo'[p] = Tail(todo[p])
    BY <1>2, <2>2 DEF Functions
  <2>5. ASSUME NEW i \in DOMAIN todo'[p]
        PROVE  \E j \in DOMAIN fields'[p] : todo'[p][i] = fields'[p][j]
    <3>1. i + 1 \in DOMAIN todo[p] /\ todo'[p][i] = todo[p][i + 1]
      BY <2>1, <2>4, <2>5, FirstAndRest
    <3> QED BY <1>2, <2>1, <2>2, <3>1 DEF IndexesItsFields
  <2>6. ASSUME NEW j \in DOMAIN fields'[p], ~fields'[p][j].held,
               NameOf[fields'[p][j].type] \notin DOMAIN index'[p]
        PROVE  \E i \in DOMAIN todo'[p] : todo'[p][i] = fields'[p][j]
    <3>1. PICK i \in DOMAIN todo[p] : todo[p][i] = fields[p][j]
      BY <1>2, <2>1, <2>2, <2>6 DEF IndexesItsFields
    <3>2. i # 1
      BY <2>1, <2>2, <2>6, <3>1, FirstAndRest
    <3>3. i - 1 \in DOMAIN Tail(todo[p]) /\ Tail(todo[p])[i - 1] = todo[p][i]
      BY <2>1, <3>2, FirstAndRest
    <3> QED BY <2>2, <2>4, <3>1, <3>3
  <2> QED BY <1>2, <2>1, <2>2, <2>3, <2>5, <2>6 DEF IndexesItsFields
<1>6. CASE Indexed(p) \/ StoreWithHandler(p) \/ StorePlainly(p) \/ Return(p)
  <2>1. /\ pc'[p] # "indexing" /\ UNCHANGED <<todo, index>>
        /\ \A q \in Procs : q # p => pc'[q] = pc[q] /\ fields'[q] = fields[q] /\ used'[q] = used[q]
    BY <1>2, <1>6 DEF Indexed, StoreWithHandler, StorePlainly, Stored, Return, TypeOK, Functions
  <2> QED BY <1>2, <2>1 DEF IndexesItsFields
<1> QED BY <1>1, <1>3, <1>4, <1>5, <1>6 DEF Operate

-----------------------------------------------------------------------------
(* The index *)

LEMMA IndexKept ==
  ASSUME IInv, Next
  PROVE  IndexIsRight'
<1>1. PICK p \in Procs : Add(p) \/ Operate(p)
  BY DEF Next
<1>2. TypeOK /\ Functions /\ IndexIsRight
  BY DEF IInv
<1>3. ASSUME NEW q \in Procs, NEW n, NEW x \in Things, EntryIsOf(q, n, x),
             ThingIn(used'[q], fields'[q], x), index'[q][n] = index[q][n], UNCHANGED first
      PROVE  EntryIsOf(q, n, x)'
  <2>1. Flags(x.type) \subseteq Flags(x.type)'
    <3>1. \A b \in BOOLEAN : [type |-> x.type, ptr |-> b] \in Keys
      BY DEF Keys, Things
    <3> QED BY <3>1, HandlersKept DEF Flags
  <2>2. FirstFlags(x.type)' = FirstFlags(x.type) /\ Pending(x.type)' = Pending(x.type)
    BY <1>3 DEF FirstFlags, Pending
  <2> QED BY <1>3, <2>1, <2>2 DEF EntryIsOf, WorksOn
\* An operation whose variables stay as they are
<1>4. ASSUME NEW q \in Procs, pc[q] \in {"indexing", "storing", "panicked"}, UNCHANGED first,
             index'[q] = index[q], \A x \in Things : WorksOn(q, x) => ThingIn(used'[q], fields'[q], x),
             NEW n \in DOMAIN index'[q]
      PROVE  \E x \in Things : EntryIsOf(q, n, x)'
  <2>1. PICK x \in Things : EntryIsOf(q, n, x)
    BY <1>2, <1>4 DEF IndexIsRight
  <2> QED BY <1>3, <1>4, <2>1 DEF EntryIsOf
<1>5. CASE Add(p)
  <2>1. ASSUME NEW q \in Procs, pc'[q] \in {"indexing", "storing", "panicked"}
        PROVE  pc[q] \in {"indexing", "storing", "panicked"}
    BY <1>2, <1>5, <2>1, AddingLeavesOperations
  <2> QED BY <1>2, <1>4, <1>5, <2>1, AddingLeavesOperations DEF IndexIsRight, WorksOn
<1>6. CASE Begin(p)
  <2>1. /\ DOMAIN index'[p] = {}
        /\ \A q \in Procs : q # p =>
             pc'[q] = pc[q] /\ used'[q] = used[q] /\ fields'[q] = fields[q] /\ index'[q] = index[q]
        /\ created => UNCHANGED first
    BY <1>2, <1>6 DEF Begin, GoesTo, NoFlags, TypeOK, Functions
  <2>2. ASSUME NEW q \in Procs, q # p, pc'[q] \in {"indexing", "storing", "panicked"}
        PROVE  UNCHANGED first
    BY <1>2, <2>1, <2>2 DEF TypeOK
  <2> QED BY <1>4, <2>1, <2>2 DEF IndexIsRight, WorksOn
<1>7. CASE IndexType(p)
  <2>2. PICK h \in Things : h = Head(todo[p]) /\ WorksOn(p, h)
    <3>1. todo[p] \in Seq(Things) /\ todo[p] # << >> /\ pc[p] = "indexing"
      BY <1>2, <1>7 DEF IndexType, IsAt, Functions
    <3>2. Head(todo[p]) \in Things /\ 1 \in DOMAIN todo[p] /\ todo[p][1] = Head(todo[p])
      BY <3>1, FirstAndRest
    <3>3. PICK j \in DOMAIN fields[p] : todo[p][1] = fields[p][j]
      BY <3>1, <3>2 DEF IInv, IndexesItsFields
    <3> QED BY <3>2, <3>3 DEF WorksOn, ThingIn
  <2> DEFINE m == NameOf[h.type]
  <2>1. /\ pc[p] = "indexing" /\ UNCHANGED <<pc, fields, used, handlers, first>> /\ created
        /\ \A q \in Procs : q # p => index'[q] = index[q]
        /\ \/ index'[p] = index[p]
           \/ /\ DOMAIN index'[p] = DOMAIN index[p] \cup {m} /\ m \notin DOMAIN index[p]
              /\ \A n \in DOMAIN index[p] : index'[p][n] = index[p][n]
              /\ index'[p][m] = Flags(h.type)
    <3>1. /\ pc[p] = "indexing" /\ UNCHANGED <<pc, fields, used, handlers, first>> /\ created
      BY <1>2, <1>7 DEF IndexType, IsAt, TypeOK
    <3>2. CASE h.held \/ m \in DOMAIN index[p]
      BY <1>7, <2>2, <3>1, <3>2 DEF IndexType
    <3>3. CASE ~h.held /\ m \notin DOMAIN index[p]
      <4>1. index' = [index EXCEPT ![p] = [n \in DOMAIN @ \cup {m} |->
                                            IF n = m THEN Flags(h.type) ELSE @[n]]]
        BY <1>7, <2>2, <3>3 DEF IndexType
      <4> HIDE DEF m
      <4>2. index'[p] = [n \in DOMAIN index[p] \cup {m} |->
                           IF n = m THEN Flags(h.type) ELSE index[p][n]]
        BY <1>2, <4>1 DEF Functions
      <4>3. \A q \in Procs : q # p => index'[q] = index[q]
        BY <1>2, <4>1 DEF Functions
      <4> QED BY <3>1, <3>3, <4>2, <4>3
    <3> QED BY <3>2, <3>3
  <2>3. Flags(h.type) = FirstFlags(h.type) \/ Pending(h.type)
    <3>1. \A b \in BOOLEAN : [type |-> h.type, ptr |-> b] \in Keys
      BY <2>2 DEF Keys, Things
    <3>2. ASSUME ~Pending(h.type), NEW k \in Kinds, NEW b \in BOOLEAN
          PROVE  handlers[k][[type |-> h.type, ptr |-> b]] = first.handlers[k][[type |-> h.type, ptr |-> b]]
      <4> DEFINE y == [type |-> h.type, ptr |-> b]
      <4>1. y \in Keys /\ y.type = h.type
        BY <3>1
      <4>2. [kind |-> k, key |-> y, handler |-> handlers[k][y]] \notin first.pending
        BY <3>2, <4>1 DEF Pending
      <4> QED BY <2>1, <4>1, <4>2 DEF IInv, HandlersFreeze
    <3> QED BY <3>2 DEF Flags, FirstFlags
  <2>4. ASSUME index'[p][m] = Flags(h.type) PROVE EntryIsOf(p, m, h)'
    <3>1. /\ Flags(h.type)' = Flags(h.type) /\ FirstFlags(h.type)' = FirstFlags(h.type)
          /\ Pending(h.type)' = Pending(h.type) /\ WorksOn(p, h)' = WorksOn(p, h)
      BY <2>1 DEF Flags, FirstFlags, Pending, WorksOn
    <3> QED BY <2>2, <2>3, <2>4, <3>1 DEF EntryIsOf
  <2>5. ASSUME NEW n \in DOMAIN index[p], index'[p][n] = index[p][n]
        PROVE  \E x \in Things : EntryIsOf(p, n, x)'
    <3>1. PICK x \in Things : EntryIsOf(p, n, x)
      BY <1>2, <2>1 DEF IndexIsRight
    <3> QED BY <1>3, <2>1, <2>5, <3>1 DEF EntryIsOf, WorksOn
  <2>6. \A n \in DOMAIN index'[p] : \E x \in Things : EntryIsOf(p, n, x)'
    BY <2>1, <2>2, <2>4, <2>5
  <2>7. ASSUME NEW q \in Procs, q # p, pc'[q] \in {"indexing", "storing", "panicked"}
        PROVE  \A n \in DOMAIN index'[q] : \E x \in Things : EntryIsOf(q, n, x)'
    BY <1>4, <2>1, <2>7 DEF WorksOn
  <2> QED BY <2>6, <2>7 DEF IndexIsRight
<1>8. CASE Indexed(p) \/ Return(p)
  <2>1. /\ UNCHANGED <<index, first, fields, used>>
        /\ \A q \in Procs : pc'[q] \in {"indexing", "storing", "panicked"} =>
                             pc[q] \in {"indexing", "storing", "panicked"}
    BY <1>2, <1>8 DEF Indexed, Return, IsAt, GoesTo, TypeOK
  <2> QED BY <1>4, <2>1 DEF IndexIsRight, WorksOn
<1>9. CASE StoreWithHandler(p) \/ StorePlainly(p)
  <2>1. /\ UNCHANGED <<index, first>> /\ fields[p] # << >> /\ pc[p] = "storing"
    BY <1>9 DEF StoreWithHandler, StorePlainly, IsAt
  <2>2. \A q \in Procs : pc'[q] \in {"indexing", "storing", "panicked"} =>
                         pc[q] \in {"indexing", "storing", "panicked"}
    BY <1>2, <1>9, <2>1, StoringStep DEF GoesTo, TypeOK
  <2>3. ASSUME NEW q \in Procs, NEW x \in Things, WorksOn(q, x)
        PROVE  ThingIn(used'[q], fields'[q], x)
    <3>1. CASE UNCHANGED <<fields, used>>
      BY <2>3, <3>1 DEF WorksOn
    <3>2. ASSUME NEW u \in Uses, u.thing = Head(fields[p]), fields' = [fields EXCEPT ![p] = Tail(@)],
                 used' = [used EXCEPT ![p] = Append(@, u)]
          PROVE  ThingIn(used'[q], fields'[q], x)
      <4>1. CASE q = p
        <5>1. /\ used'[p] = Append(used[p], u) /\ fields'[p] = Tail(fields[p])
              /\ used[p] \in Seq(Uses) /\ fields[p] \in Seq(Things)
          BY <1>2, <3>2 DEF Functions
        <5> QED BY <2>1, <2>3, <3>2, <4>1, <5>1, StoringKeepsThings DEF WorksOn
      <4>2. CASE q # p
        BY <1>2, <2>3, <3>2, <4>2 DEF WorksOn, Functions
      <4> QED BY <4>1, <4>2
    <3> QED BY <1>2, <1>9, <3>1, <3>2, StoringStep
  <2>4. ASSUME NEW q \in Procs, pc'[q] \in {"indexing", "storing", "panicked"},
               NEW n \in DOMAIN index'[q]
        PROVE  \E x \in Things : EntryIsOf(q, n, x)'
    BY <1>4, <2>1, <2>2, <2>3, <2>4
  <2> QED BY <2>4 DEF IndexIsRight
<1> QED BY <1>1, <1>5, <1>6, <1>7, <1>8, <1>9 DEF Operate

LEMMA InvariantKept ==
  ASSUME IInv, [Next]_vars
  PROVE  IInv'
<1>1. CASE Next
  BY <1>1, TypesKept, FirstKept, FieldsKept, HandlersKept, IndexKept DEF IInv
<1>2. CASE UNCHANGED vars
  <2> USE <1>2 DEF vars
  <2>1. TypeOK' /\ Functions'
    BY DEF IInv, TypeOK, Functions
  <2>2. FirstIsFirst' /\ IndexesItsFields' /\ HandlersFreeze'
    BY DEF IInv, FirstIsFirst, IndexesItsFields, HandlersFreeze
  <2>3. IndexIsRight'
    BY DEF IInv, IndexIsRight, EntryIsOf, WorksOn, Flags, FirstFlags, Pending
  <2> QED BY <2>1, <2>2, <2>3 DEF IInv
<1> QED BY <1>1, <1>2

-----------------------------------------------------------------------------
(* What is called *)

LEMMA SharingAThing ==
  ASSUME Functions, NEW p \in Procs, NEW t
  PROVE  SharesItsName(Worked(p), t) <=>
           \E y : WorksOn(p, y) /\ y.type # t /\ NameOf[y.type] = NameOf[t]
<1>1. used[p] \in Seq(Uses) /\ fields[p] \in Seq(Things)
  BY DEF Functions
<1>2. \A y : y \in Range(Worked(p)) <=> WorksOn(p, y)
  BY <1>1, WorkedThings DEF Worked, WorksOn
<1> QED BY <1>2 DEF SharesItsName

\* An operation that goes on works on the keys it worked on.
LEMMA SharingKept ==
  ASSUME IInv, Next, NEW q \in Procs, NEW t, SharesItsName(Worked(q), t),
         \/ UNCHANGED <<used[q], fields[q]>>
         \/ StoreWithHandler(q) \/ StorePlainly(q)
  PROVE  SharesItsName(Worked(q), t)'
<1>1. Functions /\ Functions' /\ TypeOK
  BY TypesKept DEF IInv
<1>2. PICK y : WorksOn(q, y) /\ y.type # t /\ NameOf[y.type] = NameOf[t]
  BY <1>1, SharingAThing
<1>3. ThingIn(used'[q], fields'[q], y)
  <2>1. CASE UNCHANGED <<used[q], fields[q]>>
    BY <1>2, <2>1 DEF WorksOn
  <2>2. CASE StoreWithHandler(q) \/ StorePlainly(q)
    <3>1. used[q] \in Seq(Uses) /\ fields[q] \in Seq(Things) /\ fields[q] # << >>
      BY <1>1, <2>2 DEF Functions, StoreWithHandler, StorePlainly
    <3>2. \/ used'[q] = used[q] /\ fields'[q] = fields[q]
          \/ \E u \in Uses : /\ u.thing = Head(fields[q]) /\ fields'[q] = Tail(fields[q])
                             /\ used'[q] = Append(used[q], u)
      BY <1>1, <2>2, StoringStep DEF Functions
    <3>3. CASE used'[q] = used[q] /\ fields'[q] = fields[q]
      BY <1>2, <3>3 DEF WorksOn
    <3>4. ASSUME NEW u \in Uses, u.thing = Head(fields[q]), fields'[q] = Tail(fields[q]),
                 used'[q] = Append(used[q], u)
          PROVE  ThingIn(used'[q], fields'[q], y)
      <4>1. ThingIn(Append(used[q], u), Tail(fields[q]), y) <=> ThingIn(used[q], fields[q], y)
        BY <3>1, <3>4, StoringKeepsThings
      <4> QED BY <1>2, <3>4, <4>1 DEF WorksOn
    <3> QED BY <3>2, <3>3, <3>4
  <2> QED BY <2>1, <2>2
<1>4. Functions' => (SharesItsName(Worked(q), t)' <=>
        \E z : WorksOn(q, z)' /\ z.type # t /\ NameOf[z.type] = NameOf[t])
  <2>1. ASSUME Functions' PROVE \A z : z \in Range(Worked(q)') <=> WorksOn(q, z)'
    <3>1. used'[q] \in Seq(Uses) /\ fields'[q] \in Seq(Things)
      BY <2>1 DEF Functions
    <3> QED BY <3>1, WorkedThings DEF Worked, WorksOn
  <2> QED BY <2>1 DEF SharesItsName
<1> QED BY <1>1, <1>2, <1>3, <1>4 DEF WorksOn

\* The entry an operation stores by
LEMMA EntryUsed ==
  ASSUME IInv, NEW p \in Procs, StoreWithHandler(p) \/ StorePlainly(p)
  PROVE  LET x == Head(fields[p])
             flags == FlagsOf(p, x)
         IN  /\ x \in Things
             /\ \/ SharesItsName(Worked(p), x.type)
                \/ /\ flags \subseteq Flags(x.type)
                   /\ x.held \/ flags = FirstFlags(x.type) \/ Pending(x.type)
<1> DEFINE x == Head(fields[p])
           flags == FlagsOf(p, x)
<1>1. TypeOK /\ Functions /\ IndexIsRight
  BY DEF IInv
<1>2. /\ fields[p] \in Seq(Things) /\ fields[p] # << >> /\ pc[p] = "storing"
  BY <1>1 DEF Functions, StoreWithHandler, StorePlainly, IsAt
<1>3. x \in Things /\ 1 \in DOMAIN fields[p] /\ fields[p][1] = x
  BY <1>2, FirstAndRest
<1>4. x.held \/ NameOf[x.type] \in DOMAIN index[p]
  BY <1>1, <1>2, <1>3 DEF TypeOK, Range
<1>5. CASE flags = {} /\ x.held
  BY <1>3, <1>5
<1>6. CASE NameOf[x.type] \in DOMAIN index[p] /\ flags = index[p][NameOf[x.type]]
  <2>1. PICK y \in Things : EntryIsOf(p, NameOf[x.type], y)
    BY <1>1, <1>2, <1>6 DEF IndexIsRight
  <2>2. CASE y.type = x.type
    BY <1>3, <1>6, <2>1, <2>2 DEF EntryIsOf
  <2>3. CASE y.type # x.type
    BY <1>1, <1>3, <2>1, <2>3, SharingAThing DEF EntryIsOf
  <2> QED BY <2>2, <2>3
<1>7. (flags = {} /\ x.held) \/ (NameOf[x.type] \in DOMAIN index[p] /\ flags = index[p][NameOf[x.type]])
  BY <1>4 DEF FlagsOf
<1> QED BY <1>5, <1>6, <1>7

\* The handler the first operation found for a thing where it is
FirstFound(x) ==
  LET nodes  == first.handlers[NodeMap[x.side]][LookedUp(x, NodeMap[x.side])]
      values == first.handlers[ValueMap[x.side]][LookedUp(x, ValueMap[x.side])]
  IN  IF AtNode(x) /\ nodes # NoHandler THEN nodes
      ELSE IF x.side = "unmarshal" /\ x.at = "node" THEN NoHandler
      ELSE values

RightlyStored(p, u) ==
  \/ u.handler = FirstFound(u.thing)
  \/ u.thing.held
  \/ Pending(u.thing.type)
  \/ SharesItsName(Worked(p), u.thing.type)

\* The handler is looked for where the index says, and it is the first operation's.
LEMMA StoredRightly ==
  ASSUME IInv, NEW p \in Procs, NEW kind, NEW h, NEW x \in Things, x = Head(fields[p]),
         kind = KindCalled(x, FlagsOf(p, x)),
         \/ StorePlainly(p) /\ h = NoHandler
         \/ StoreWithHandler(p) /\ h # NoHandler /\ h = handlers[kind][LookedUp(x, kind)]
  PROVE  RightlyStored(p, [thing |-> x, kind |-> kind, handler |-> h])
<1> DEFINE flags == FlagsOf(p, x)
           N == NodeMap[x.side]
           V == ValueMap[x.side]
           found(k) == first.handlers[k][LookedUp(x, k)]
<1> SUFFICES ASSUME ~x.held, ~Pending(x.type), ~SharesItsName(Worked(p), x.type)
             PROVE  h = FirstFound(x)
  BY DEF RightlyStored
<1>1. flags = FirstFlags(x.type)
  BY EntryUsed
<1>2. /\ N \in Kinds /\ V \in Kinds /\ N # V
      /\ kind # "none" => kind \in Kinds \cap Consulted(x) \cap flags
      /\ \A k : /\ LookedUp(x, k) \in Keys /\ LookedUp(x, k).type = x.type
               /\ LookedUp(x, k) = [type |-> x.type, ptr |-> LookedUp(x, k).ptr]
  BY WhatIsAsked
<1>3. ASSUME NEW k \in Kinds, k \notin flags PROVE found(k) = NoHandler
  <2>1. LookedUp(x, k).ptr \in BOOLEAN
    BY <1>2 DEF Keys
  <2>2. first.handlers[k][[type |-> x.type, ptr |-> LookedUp(x, k).ptr]] = NoHandler
    BY <1>1, <1>3, <2>1 DEF FirstFlags
  <2> QED BY <1>2, <2>2
<1>4. ASSUME NEW k \in Kinds PROVE handlers[k][LookedUp(x, k)] = found(k)
  <2> DEFINE y == LookedUp(x, k)
  <2>1. created
    BY DEF IInv, TypeOK, StorePlainly, StoreWithHandler, IsAt
  <2>2. y \in Keys /\ y.type = x.type
    BY <1>2
  <2> HIDE DEF y
  <2>3. [kind |-> k, key |-> y, handler |-> handlers[k][y]] \notin first.pending
    BY <2>2 DEF Pending
  <2>4. handlers[k][y] = first.handlers[k][y]
    BY <2>1, <2>2, <2>3 DEF IInv, HandlersFreeze
  <2> QED BY <2>4 DEF y
<1>5. /\ N \in Consulted(x) <=> AtNode(x)
      /\ V \in Consulted(x) <=> ~(x.side = "unmarshal" /\ x.at = "node")
      /\ x.side = "unmarshal" /\ x.at = "node" => AtNode(x)
  BY <1>2 DEF Consulted, AtNode
<1>6. FirstFound(x) = IF AtNode(x) /\ found(N) # NoHandler THEN found(N)
                      ELSE IF x.side = "unmarshal" /\ x.at = "node" THEN NoHandler
                      ELSE found(V)
  BY DEF FirstFound
<1>7. kind = IF N \in Consulted(x) \cap flags THEN N
             ELSE IF V \in Consulted(x) \cap flags THEN V ELSE "none"
  BY DEF KindCalled
<1>8. /\ kind = "none" => h = NoHandler
      /\ kind # "none" => h # NoHandler /\ h = handlers[kind][LookedUp(x, kind)]
  <2>1. StorePlainly(p) => kind = "none"
    BY DEF StorePlainly
  <2>2. StoreWithHandler(p) => kind # "none"
    BY DEF StoreWithHandler
  <2> QED BY <2>1, <2>2
<1>9. kind # "none" => h = found(kind) /\ found(kind) # NoHandler
  BY <1>2, <1>4, <1>8
<1> HIDE DEF flags, N, V, found
<1>10. CASE N \in Consulted(x) \cap flags
  <2>1. kind = N /\ AtNode(x)
    BY <1>5, <1>7, <1>10
  <2>2. kind # "none"
    BY <2>1, <1>2 DEF Kinds, NodeMap, ValueMap, Sides
  <2> QED BY <1>6, <1>9, <2>1, <2>2
<1>11. CASE N \notin Consulted(x) \cap flags
  <2>1. ~(AtNode(x) /\ found(N) # NoHandler)
    BY <1>2, <1>3, <1>5, <1>11
  <2>2. CASE V \in Consulted(x) \cap flags
    <3>1. kind = V
      BY <1>7, <1>11, <2>2
    <3>2. kind # "none"
      BY <3>1, <1>2 DEF Kinds, NodeMap, ValueMap, Sides
    <3> QED BY <1>5, <1>6, <1>9, <2>1, <2>2, <3>1, <3>2
  <2>3. CASE V \notin Consulted(x) \cap flags
    <3>1. kind = "none"
      BY <1>7, <1>11, <2>3
    <3>2. (x.side = "unmarshal" /\ x.at = "node") \/ found(V) = NoHandler
      BY <1>2, <1>3, <1>5, <2>3
    <3> QED BY <1>6, <1>8, <2>1, <3>1, <3>2
  <2> QED BY <2>2, <2>3
<1> QED BY <1>10, <1>11

LEMMA CallsKept ==
  ASSUME IInv, RegisteredHandlersAreCalled, Next
  PROVE  RegisteredHandlersAreCalled'
<1>1. PICK p \in Procs : Add(p) \/ Operate(p)
  BY DEF Next
<1>2. TypeOK /\ Functions /\ FirstIsFirst
  BY DEF IInv
<1>3. ASSUME NEW q \in Procs, NEW i \in DOMAIN used[q] PROVE RightlyStored(q, used[q][i])
  BY DEF RegisteredHandlersAreCalled, RightlyStored, FirstFound, Pending
\* What was stored rightly, whoever goes on
<1>4. ASSUME NEW q \in Procs, NEW u, RightlyStored(q, u), UNCHANGED first,
             \/ UNCHANGED <<used[q], fields[q]>>
             \/ StoreWithHandler(q) \/ StorePlainly(q)
      PROVE  RightlyStored(q, u)'
  <2>1. SharesItsName(Worked(q), u.thing.type) => SharesItsName(Worked(q), u.thing.type)'
    BY <1>4, SharingKept
  <2> QED BY <1>4, <2>1 DEF RightlyStored, FirstFound, Pending
<1>6. \A q \in Procs : \A i \in DOMAIN used'[q] : \A u : u = used'[q][i] => RightlyStored(q, u)'
  <2>1. CASE UNCHANGED <<used, fields, first>>
    BY <1>3, <1>4, <2>1
  <2>2. CASE Begin(p)
    <3>1. /\ used'[p] = << >>
          /\ \A q \in Procs : q # p => used'[q] = used[q] /\ fields'[q] = fields[q]
          /\ created => UNCHANGED first
      BY <1>2, <2>2 DEF Begin, TypeOK, Functions
    <3>2. ~created => \A q \in Procs : used[q] = << >>
      BY <1>2 DEF FirstIsFirst
    <3> QED BY <1>3, <1>4, <3>1, <3>2
  <2>3. CASE StoreWithHandler(p) \/ StorePlainly(p)
    <3>1. UNCHANGED first
      BY <2>3 DEF StoreWithHandler, StorePlainly
    <3>2. ASSUME NEW q \in Procs, q # p PROVE used'[q] = used[q] /\ fields'[q] = fields[q]
      BY <1>2, <2>3, <3>2, StoringStep DEF Functions
    <3>3. PICK x \in Things : x = Head(fields[p])
      <4>1. Head(fields[p]) \in Things
        BY <2>3, EntryUsed
      <4> QED BY <4>1
    <3>4. CASE UNCHANGED used
      BY <1>3, <1>4, <2>3, <3>1, <3>2, <3>4
    <3>5. ASSUME NEW u, RightlyStored(p, u), u \in Uses, used' = [used EXCEPT ![p] = Append(@, u)],
                 NEW i \in DOMAIN used'[p], NEW v, v = used'[p][i]
          PROVE  RightlyStored(p, v)'
      <4>1. used[p] \in Seq(Uses) /\ used'[p] = Append(used[p], u)
        BY <1>2, <3>5 DEF Functions
      <4>2. v = u \/ (i \in DOMAIN used[p] /\ v = used[p][i])
        BY <3>5, <4>1, OneMore
      <4>3. RightlyStored(p, v)
        BY <1>3, <3>5, <4>2
      <4> QED BY <1>4, <2>3, <3>1, <4>3
    <3>6. CASE StorePlainly(p)
      <4> DEFINE u == [thing |-> x, kind |-> "none", handler |-> NoHandler]
      <4>1. /\ u \in Uses /\ used' = [used EXCEPT ![p] = Append(@, u)]
            /\ KindCalled(x, FlagsOf(p, x)) = "none"
        BY <3>3, <3>6 DEF StorePlainly, Stored, Uses
      <4>2. RightlyStored(p, u)
        BY <3>3, <3>6, <4>1, StoredRightly
      <4> HIDE DEF u
      <4>3. \A i \in DOMAIN used'[p] : \A v : v = used'[p][i] => RightlyStored(p, v)'
        BY <3>5, <4>1, <4>2
      <4> QED BY <1>3, <1>4, <3>1, <3>2, <4>3
    <3>7. CASE StoreWithHandler(p) /\ ~UNCHANGED used
      <4>1. PICK kind, h : kind = KindCalled(x, FlagsOf(p, x)) /\ h = handlers[kind][LookedUp(x, kind)]
        OBVIOUS
      <4>2. /\ kind # "none" /\ h # NoHandler
            /\ used' = [used EXCEPT ![p] = Append(@, [thing |-> x, kind |-> kind, handler |-> h])]
        BY <3>3, <3>7, <4>1 DEF StoreWithHandler, Stored
      <4>3. PICK u : u = [thing |-> x, kind |-> kind, handler |-> h]
        OBVIOUS
      <4>4. u \in Uses
        <5>1. kind \in Kinds /\ LookedUp(x, kind) \in Keys
          BY <4>1, <4>2, WhatIsAsked
        <5>2. h \in Handlers \cup {NoHandler}
          BY <1>2, <4>1, <5>1 DEF TypeOK
        <5> QED BY <4>3, <5>1, <5>2 DEF Uses
      <4>5. RightlyStored(p, u)
        BY <3>3, <3>7, <4>1, <4>2, <4>3, StoredRightly
      <4>6. \A i \in DOMAIN used'[p] : \A v : v = used'[p][i] => RightlyStored(p, v)'
        BY <3>5, <4>2, <4>3, <4>4, <4>5
      <4> QED BY <1>3, <1>4, <3>1, <3>2, <4>6
    <3> QED BY <2>3, <3>4, <3>6, <3>7
  <2>4. Begin(p) \/ StoreWithHandler(p) \/ StorePlainly(p) \/ UNCHANGED <<used, fields, first>>
    BY <1>1, <1>2, AddingLeavesOperations DEF Operate, IndexType, Indexed, Return
  <2> QED BY <2>1, <2>2, <2>3, <2>4
<1> QED BY <1>6 DEF RegisteredHandlersAreCalled, RightlyStored, FirstFound, Pending

\* A map that counts where a thing is, asked for the type with one number of
\* stars, has a handler for the other; or another type has the thing's name.
OtherStar(x) ==
  \E k \in Consulted(x) : handlers[k][[LookedUp(x, k) EXCEPT !.ptr = ~@]] # NoHandler
MayPanic(q, x) == OtherStar(x) \/ SharesItsName(Worked(q), x.type)

LEMMA PanicsKept ==
  ASSUME IInv, NilCallsOnlyHere, Next
  PROVE  NilCallsOnlyHere'
<1>1. PICK p \in Procs : Add(p) \/ Operate(p)
  BY DEF Next
<1>2. TypeOK /\ Functions
  BY DEF IInv
<1>3. ASSUME NEW q \in Procs, NEW x \in Things, MayPanic(q, x),
             \/ UNCHANGED <<used[q], fields[q]>>
             \/ StoreWithHandler(q) \/ StorePlainly(q)
      PROVE  MayPanic(q, x)'
  <2>1. \A k \in Consulted(x) : k \in Kinds /\ [LookedUp(x, k) EXCEPT !.ptr = ~@] \in Keys
    <3>1. ASSUME NEW k, NEW y \in Keys PROVE [y EXCEPT !.ptr = ~@] \in Keys
      BY DEF Keys
    <3> QED BY <3>1, WhatIsAsked DEF Consulted
  <2>2. OtherStar(x) => OtherStar(x)'
    BY <2>1, HandlersKept DEF OtherStar
  <2> QED BY <1>3, <2>2, SharingKept DEF MayPanic
\* A panic
<1>4. ASSUME NEW x \in Things, x = Head(fields[p]), StoreWithHandler(p),
             NEW k, k = KindCalled(x, FlagsOf(p, x)), handlers[k][LookedUp(x, k)] = NoHandler
      PROVE  MayPanic(p, x)
  <2> DEFINE flags == FlagsOf(p, x)
  <2>1. CASE SharesItsName(Worked(p), x.type)
    BY <2>1 DEF MayPanic
  <2>2. CASE flags \subseteq Flags(x.type)
    <3>1. k # "none"
      BY <1>4 DEF StoreWithHandler
    <3>2. k \in Kinds /\ k \in Consulted(x) /\ k \in Flags(x.type)
      BY <1>4, <2>2, <3>1, WhatIsAsked
    <3>3. PICK b \in BOOLEAN : handlers[k][[type |-> x.type, ptr |-> b]] # NoHandler
      BY <3>2 DEF Flags
    <3>4. PICK y \in Keys : /\ y = LookedUp(x, k)
                            /\ y = [type |-> x.type, ptr |-> y.ptr]
      BY WhatIsAsked
    <3>5. b = ~y.ptr /\ y.ptr \in BOOLEAN
      BY <1>4, <3>3, <3>4 DEF Keys
    <3>6. [y EXCEPT !.ptr = ~@] = [type |-> x.type, ptr |-> b]
      BY <3>4, <3>5
    <3>7. OtherStar(x)
      BY <3>2, <3>3, <3>4, <3>6 DEF OtherStar
    <3> QED BY <3>7 DEF MayPanic
  <2> QED BY <1>4, <2>1, <2>2, EntryUsed
<1>5. ASSUME NEW q \in Procs, pc'[q] = "panicked", pc[q] = "panicked"
      PROVE  UNCHANGED <<used[q], fields[q]>>
  BY <1>1, <1>2, <1>5, AddingLeavesOperations, StoringStep
     DEF Operate, Begin, IndexType, Indexed, StoreWithHandler, StorePlainly, Return, IsAt, Functions
<1>6. ASSUME NEW q \in Procs, pc'[q] = "panicked", pc[q] # "panicked"
      PROVE  /\ q = p /\ StoreWithHandler(p) /\ UNCHANGED <<used, fields>>
             /\ \E k : LET x == Head(fields[p])
                       IN  k = KindCalled(x, FlagsOf(p, x)) /\ handlers[k][LookedUp(x, k)] = NoHandler
  <2>1. CASE StoreWithHandler(p)
    BY <1>2, <1>6, <2>1 DEF StoreWithHandler, GoesTo, TypeOK
  <2>2. CASE ~StoreWithHandler(p)
    BY <1>1, <1>2, <1>6, <2>2, AddingLeavesOperations
       DEF Operate, Begin, IndexType, Indexed, StorePlainly, Return, GoesTo, TypeOK
  <2> QED BY <2>1, <2>2
<1>7. ASSUME NEW q \in Procs, pc'[q] = "panicked"
      PROVE  \E x \in Things : /\ x = Head(fields[q]) /\ UNCHANGED <<used[q], fields[q]>>
                               /\ MayPanic(q, x)
  <2>1. fields[q] \in Seq(Things) /\ fields'[q] # << >>
    BY <1>2, <1>7, TypesKept DEF Functions
  <2>2. CASE pc[q] = "panicked"
    <3>1. UNCHANGED <<used[q], fields[q]>>
      BY <1>5, <1>7, <2>2
    <3>2. PICK x \in Things : x = Head(fields[q])
      <4>1. Head(fields[q]) \in Things
        BY <2>1, <3>1, FirstAndRest
      <4> QED BY <4>1
    <3> QED BY <2>2, <3>1, <3>2 DEF NilCallsOnlyHere, MayPanic, OtherStar
  <2>3. CASE pc[q] # "panicked"
    <3>1. PICK x \in Things : x = Head(fields[p])
      <4>1. Head(fields[p]) \in Things
        BY <1>6, <1>7, <2>3, EntryUsed
      <4> QED BY <4>1
    <3> QED BY <1>4, <1>6, <1>7, <2>3, <3>1
  <2> QED BY <2>2, <2>3
<1>8. ASSUME NEW q \in Procs, pc'[q] = "panicked", NEW y, y = Head(fields'[q])
      PROVE  MayPanic(q, y)'
  <2>1. PICK x \in Things : /\ x = Head(fields[q]) /\ UNCHANGED <<used[q], fields[q]>>
                            /\ MayPanic(q, x)
    BY <1>7, <1>8
  <2>2. MayPanic(q, x)'
    BY <1>3, <2>1
  <2>3. y = x
    BY <1>8, <2>1
  <2> QED BY <2>2, <2>3
<1> QED BY <1>8 DEF NilCallsOnlyHere, MayPanic, OtherStar

-----------------------------------------------------------------------------
(* Theorems *)

LEMMA AllKept == AllInv /\ [Next]_vars => AllInv'
<1> SUFFICES ASSUME AllInv, [Next]_vars PROVE AllInv'
  OBVIOUS
<1> USE DEF AllInv
<1>1. CASE Next
  BY <1>1, InvariantKept, CallsKept, PanicsKept
<1>2. CASE UNCHANGED vars
  <2>1. IInv'
    BY InvariantKept
  <2>2. RegisteredHandlersAreCalled'
    <3>1. /\ UNCHANGED <<used, first>>
          /\ \A q \in Procs : \A t :
               SharesItsName(Worked(q), t) => SharesItsName(Worked(q), t)'
      BY <1>2 DEF vars, SharesItsName, Worked
    <3> QED BY <3>1 DEF RegisteredHandlersAreCalled
  <2>3. NilCallsOnlyHere'
    BY <1>2 DEF vars, NilCallsOnlyHere, SharesItsName, Worked
  <2> QED BY <2>1, <2>2, <2>3
<1> QED BY <1>1, <1>2

LEMMA AlwaysAll == Spec => []AllInv
<1> QED BY InitHolds, AllKept, PTL DEF Spec

\* The type invariant: operations run under a flag that is set, and find the
\* static types of what they store in the index.
THEOREM TypeCorrect == Spec => []TypeOK
<1>1. AllInv => TypeOK
  BY DEF AllInv, IInv
<1> QED BY <1>1, AlwaysAll, PTL

\* Once an operation has begun, only registrations that were past their check
\* (assertNoIndexers) by then change what is registered.
THEOREM HandlersAreFrozen == Spec => []HandlersFreeze
<1>1. AllInv => HandlersFreeze
  BY DEF AllInv, IInv
<1> QED BY <1>1, AlwaysAll, PTL

\* Without such registrations no read of a map overlaps a write to it.
THEOREM OnlyPendingRace == Spec => []ReadsRaceOnlyWithPending
<1>1. AllInv => ReadsRaceOnlyWithPending
  BY DEF AllInv, IInv, FirstIsFirst, ReadsRaceOnlyWithPending
<1> QED BY <1>1, AlwaysAll, PTL

\* What was registered before the first operation is called, at a node the
\* node's handler before the value's and elsewhere the value's only, but for
\* what interfaces hold, pending registrations and types that share a name.
THEOREM WhatIsRegisteredIsCalled == Spec => []RegisteredHandlersAreCalled
<1>1. AllInv => RegisteredHandlersAreCalled
  BY DEF AllInv
<1> QED BY <1>1, AlwaysAll, PTL

\* A nil function is called only where a map is asked for T and has *T, or for *T
\* and has T - after the code has followed the pointer, where it does - and for
\* types that share a name.
THEOREM NilIsCalledOnlyHere == Spec => []NilCallsOnlyHere
<1>1. AllInv => NilCallsOnlyHere
  BY DEF AllInv
<1> QED BY <1>1, AlwaysAll, PTL
=============================================================================
