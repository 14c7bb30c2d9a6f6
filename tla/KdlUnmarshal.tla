------------------------------ MODULE KdlUnmarshal ------------------------------
(***************************************************************************)
(* internal/marshaler/unmarshal.go: what storing a node in a value of a Go *)
(* type does to it.  Every operator gives [out, v, s]: whether the call    *)
(* returned nil, an error, or panicked, what dest holds, and the comments  *)
(* of the enclosing struct (a pointer in the code).                        *)
(*                                                                         *)
(* "can" says whether reflect may set dest in place: what MapIndex or Elem *)
(* of an interface returned cannot be set, and setting it panics.  "order" *)
(* ranks names: the order a map of properties is ranged over in.           *)
(***************************************************************************)
EXTENDS GoValues

Done(v, s) == [out |-> "ok", v |-> v, s |-> s]
Refused    == [out |-> "error", v |-> Nil, s |-> NoStructure]
Panicked   == [out |-> "panic", v |-> Nil, s |-> NoStructure]

\* Settable dest takes v, the other one panics.
SetTo(can, v, s) == IF can THEN Done(v, s) ELSE Panicked

\* r, and if it is ok what follows it
Then(r, Next(_)) == IF r.out # "ok" THEN r ELSE Next(r)

Arranged(names, order) == SetToSortSeq(names, LAMBDA a, b : order[a] < order[b])

\* strconv.Itoa of an argument's index
Digits == <<"0", "1", "2", "3">>
Index(i) == Digits[i + 1]

-----------------------------------------------------------------------------
(***************************************************************************)
(* setReflectValueFromIntf and directSetReflectValueFromIntf: a value of   *)
(* the document into a scalar or an interface.  UnmarshalText works on a   *)
(* copy of a dest that cannot be set, and what it stored is lost.          *)
(***************************************************************************)
SetScalar(t, old, can, v) ==
  CASE t.kind = "text"      -> Done(IF can THEN v ELSE old, NoStructure)
    [] t.kind = "string"    -> SetTo(can, v, NoStructure)
    [] t.kind = "interface" -> SetTo(can /\ old = Nil, v, NoStructure)
    [] OTHER                -> Refused

\* addArgumentsToSlice
RECURSIVE AddArguments(_, _, _)
AddArguments(t, sofar, args) ==
  IF args = << >> THEN Done(List(sofar), NoStructure)
  ELSE Then(SetScalar(t.elem, Zero(t.elem), TRUE, Head(args)),
            LAMBDA r : AddArguments(t, Append(sofar, r.v), Tail(args)))

\* createSliceIfNil; IsNil panics on an array.
SliceReady(t, v, can) == t.kind # "array" /\ (v = Nil => can)

(***************************************************************************)
(* unmarshalNodeToSlice: the arguments, then the properties as pairs or    *)
(* key=value strings.  The children of the node are not looked at.         *)
(***************************************************************************)
NodeToSlice(n, t, v, can, order) ==
  IF ~SliceReady(t, v, can) THEN Panicked
  ELSE Then(AddArguments(t, Elements(v), n.args), LAMBDA r :
         LET pairs  == Arranged(DOMAIN n.props, order)
             pair(k) == IF t.elem = Interface THEN List(<<Atom(k), n.props[k]>>)
                        ELSE Atom(Joined(k, n.props[k].text))
         IN  CASE n.props = Empty -> r
               [] t.elem.kind \in {"interface", "string", "text"} ->
                    Done(List(r.v.elems \o [i \in DOMAIN pairs |-> pair(pairs[i])]), NoStructure)
               [] OTHER -> Refused)

\* setMapKeyValueFromIntf ends by setting what MapIndex returned.
SetKey(t, m, k, v) ==
  LET new == k \notin DOMAIN m
  IN  Then(SetScalar(t.elem, IF new THEN Zero(t.elem) ELSE m[k], new, v),
           LAMBDA r : SetTo(new, Map(Put(m, k, r.v)), NoStructure))

RECURSIVE SetKeys(_, _, _, _)
SetKeys(t, m, keys, vals) ==
  IF keys = << >> THEN Done(Map(m), NoStructure)
  ELSE Then(SetKey(t, m, Head(keys), vals[Head(keys)]),
            LAMBDA r : SetKeys(t, r.v.at, Tail(keys), vals))

\* Mutant of MapReady: a nil map is not created.
MapReadyIfMade(v, can) == v # Nil

\* createMapIfNil
MapReady(v, can) == v = Nil => can

\* verifyArgsPropsChildren, for a scalar
OneArgument(o, n) ==
  /\ Len(n.args) >= 1 /\ (Len(n.args) > 1 => o.args)
  /\ n.props # Empty => o.props
  /\ n.kids = << >>

-----------------------------------------------------------------------------
RECURSIVE NodeToValue(_, _, _, _, _, _, _), NodesToStruct(_, _, _, _, _, _),
          NodesToMap(_, _, _, _, _, _, _), KidsToMap(_, _, _, _, _, _, _)

\* setMapKeyValueFromFunc, the function storing n
SetKeyToNode(o, n, t, m, k, s, order) ==
  LET new == k \notin DOMAIN m
  IN  Then(NodeToValue(o, n, t.elem, IF new THEN Zero(t.elem) ELSE m[k], new, s, order),
           LAMBDA r : Done(Map(Put(m, k, r.v)), r.s))

(***************************************************************************)
(* unmarshalNodeToMap: arguments by index, properties by key, children by  *)
(* name; the comments of the children are kept in the enclosing struct.    *)
(***************************************************************************)
KidsToMap(o, n, kids, t, m, s, order) ==
  IF kids = << >> THEN Done(Map(m), s)
  ELSE LET kid == Head(kids)
       IN  Then(SetKeyToNode(o, kid, t, m, kid.name, NoStructure, order),
                LAMBDA r : KidsToMap(o, n, Tail(kids), t, r.v.at,
                                     RememberChild(s, n, kid), order))

NodeToMap(o, n, t, v, can, s, order) ==
  LET indices == [i \in DOMAIN n.args |-> Index(i - 1)]
      byIndex == [k \in Range(indices) |-> n.args[CHOOSE i \in DOMAIN n.args : indices[i] = k]]
  IN  IF ~MapReady(v, can) THEN Panicked
      ELSE Then(SetKeys(t, At(v), indices, byIndex), LAMBDA a :
           Then(SetKeys(t, a.v.at, Arranged(DOMAIN n.props, order), n.props), LAMBDA p :
                KidsToMap(o, n, n.kids, t, p.v.at, s, order)))

\* Mutants of NodeToInterface: the children are not looked at; unhandled
\* properties and children allowed, a single argument is the value.
NodeToInterfaceChildless(o, n, v, can, s, order) ==
  CASE n.args = << >> /\ n.props = Empty -> Done(v, s)
    [] Len(n.args) = 1 /\ n.props = Empty -> SetTo(can /\ v = Nil, n.args[1], s)
    [] Len(n.args) > 1 /\ n.props = Empty -> SetTo(can /\ v = Nil, List(n.args), s)
    [] OTHER -> NodeToMap(o, n, MapTo(Interface), Map(Empty), TRUE, s, order)
NodeToInterfaceLeniently(o, n, v, can, s, order) ==
  CASE n.args = << >> /\ n.props = Empty /\ n.kids = << >> -> Done(v, s)
    [] Len(n.args) = 1 /\ (n.props = Empty \/ o.props) /\ (n.kids = << >> \/ o.children) ->
         SetTo(can /\ v = Nil, n.args[1], s)
    [] OTHER -> NodeToMap(o, n, MapTo(Interface), Map(Empty), TRUE, s, order)

\* The interface case of unmarshalNodeToValue
NodeToInterface(o, n, v, can, s, order) ==
  CASE n.args = << >> /\ n.props = Empty /\ n.kids = << >> -> Done(v, s)
    [] Len(n.args) = 1 /\ n.props = Empty /\ n.kids = << >> ->
         SetTo(can /\ v = Nil, n.args[1], s)
    [] Len(n.args) > 1 /\ n.props = Empty /\ n.kids = << >> ->
         SetTo(can /\ v = Nil, List(n.args), s)
    [] OTHER -> NodeToMap(o, n, MapTo(Interface), Map(Empty), TRUE, s, order)

-----------------------------------------------------------------------------
(* unmarshalNodeToStruct *)

SetField(v, i, x) == [v EXCEPT !.fields[i] = x]

\* What a field of a struct that cannot be set keeps of a new value: what was
\* done to the map it refers to
FieldKeeps(t, can, old, new) == IF can \/ t.kind \in {"map", "struct"} THEN new ELSE old

\* The fields tagged ",arg" take one argument each, those the node has.
RECURSIVE ArgsToFields(_, _, _, _, _)
ArgsToFields(t, v, can, fields, args) ==
  IF fields = << >> THEN Done(v, NoStructure)
  ELSE IF args = << >> THEN Panicked
  ELSE LET i == Head(fields)
       IN  Then(SetScalar(t.fields[i].type, v.fields[i], can, Head(args)),
                LAMBDA r : ArgsToFields(t, SetField(v, i, r.v), can, Tail(fields), Tail(args)))

ArgsToStruct(o, n, t, v, can) ==
  LET one == WithAttr(t, "arg")
      all == WithAttr(t, "args")
  IN  CASE n.args = << >> -> Done(v, NoStructure)
        [] n.args # << >> /\ ~o.args /\ all = << >> /\ Len(one) < Len(n.args) -> Refused
        [] n.args # << >> /\ Len(all) > 1 -> Refused
        [] OTHER ->
             Then(ArgsToFields(t, v, can, one, n.args), LAMBDA r :
               IF all = << >> THEN r
               ELSE LET i == all[1] IN
                 CASE ~IsList(t.fields[i].type) -> Refused
                   [] ~SliceReady(t.fields[i].type, r.v.fields[i], can) -> Panicked
                   [] OTHER ->
                        Then(AddArguments(t.fields[i].type, Elements(r.v.fields[i]),
                                          SubSeq(n.args, Len(one) + 1, Len(n.args))),
                             LAMBDA e : Done(SetField(r.v, i, FieldKeeps(t.fields[i].type, can,
                                                                   r.v.fields[i], e.v)),
                                        NoStructure)))

\* Mutant of PropsToFields: it stops at the first property without a field.
RECURSIVE PropsToFieldsBreaking(_, _, _, _, _, _), PropsToFields(_, _, _, _, _, _)
PropsToFieldsBreaking(o, t, v, can, keys, props) ==
  IF keys = << >> THEN Done(v, NoStructure)
  ELSE LET name == Normalised(Head(keys), o.case)
           i    == FieldAt(t, name, o.case)
       IN  IF FieldsNamed(t, name, o.case) = {} THEN Done(v, NoStructure)
           ELSE Then(SetScalar(t.fields[i].type, v.fields[i], can, props[Head(keys)]),
                     LAMBDA r : PropsToFieldsBreaking(o, t, SetField(v, i, r.v), can, Tail(keys), props))

\* The properties with a field of their name
PropsToFields(o, t, v, can, keys, props) ==
  IF keys = << >> THEN Done(v, NoStructure)
  ELSE LET name == Normalised(Head(keys), o.case)
           i    == FieldAt(t, name, o.case)
       IN  IF FieldsNamed(t, name, o.case) = {} THEN
             PropsToFields(o, t, v, can, Tail(keys), props)
           ELSE Then(SetScalar(t.fields[i].type, v.fields[i], can, props[Head(keys)]),
                     LAMBDA r : PropsToFields(o, t, SetField(v, i, r.v), can, Tail(keys), props))

PropsToStruct(o, n, t, v, can, order) ==
  LET captures  == WithAttr(t, "props")
      unhandled == {k \in DOMAIN n.props : FieldsNamed(t, Normalised(k, o.case), o.case) = {}}
  IN  IF n.props = Empty THEN Done(v, NoStructure)
      ELSE Then(PropsToFields(o, t, v, can, Arranged(DOMAIN n.props, order), n.props), LAMBDA r :
             CASE captures = << >> -> IF ~o.props /\ unhandled # {} THEN Refused ELSE r
               [] Len(captures) > 1 -> Refused
               [] OTHER ->
                    LET i  == captures[1]
                        ft == t.fields[i].type
                    IN  CASE ft.kind # "map" -> Refused
                          [] ~MapReady(r.v.fields[i], can) -> Panicked
                          [] OTHER -> Then(SetKeys(ft, At(r.v.fields[i]),
                                                   Arranged(DOMAIN n.props, order), n.props),
                                           LAMBDA m : Done(SetField(r.v, i, m.v), NoStructure)))

\* childrenFieldInfo[0] is read also where it is empty, and an interface it
\* names has no key type.
KidsToStruct(o, n, t, v, can, order) ==
  LET captures == WithAttr(t, "children")
  IN  CASE n.kids = << >> -> Done(v, NoStructure)
        [] n.kids # << >> /\ captures = << >> ->
             IF o.children THEN Panicked ELSE NodesToStruct(o, n.kids, t, v, can, order)
        [] OTHER ->
             LET i     == captures[1]
                 ft    == t.fields[i].type
                 kept(r) == Done(SetField(v, i, r.v), NoStructure)
             IN  CASE ft.kind = "map"    ->
                        Then(NodesToMap(o, n.kids, ft, v.fields[i], can, NoStructure, order), kept)
                   [] ft.kind = "struct" ->
                        Then(NodesToStruct(o, n.kids, ft, v.fields[i], can, order), kept)
                   [] ft.kind = "interface" -> Panicked
                   [] OTHER -> Refused

NodeToStruct(o, n, t, v, can, order) ==
  Then(ArgsToStruct(o, n, t, v, can), LAMBDA a :
  Then(PropsToStruct(o, n, t, a.v, can, order), LAMBDA p :
       KidsToStruct(o, n, t, p.v, can, order)))

-----------------------------------------------------------------------------
(* unmarshalNodeToValue, unmarshalNodesToMap *)

NodeToValue(o, n, t, v, can, s, order) ==
  CASE t.kind = "text" /\ Len(n.args) = 1 -> Done(IF can THEN n.args[1] ELSE v, s)
    [] IsScalar(t) /\ ~(t.kind = "text" /\ Len(n.args) = 1) ->
         IF OneArgument(o, n) THEN [SetScalar(t, v, can, n.args[1]) EXCEPT !.s = s]
         ELSE Refused
    [] t.kind = "struct"    -> [NodeToStruct(o, n, t, v, can, order) EXCEPT !.s = s]
    [] t.kind = "map"       -> NodeToMap(o, n, t, v, can, s, order)
    [] t.kind = "interface" -> NodeToInterface(o, n, v, can, s, order)
    [] IsList(t)            -> [NodeToSlice(n, t, v, can, order) EXCEPT !.s = s]

RECURSIVE NodesInto(_, _, _, _, _, _)
NodesInto(o, nodes, t, m, s, order) ==
  IF nodes = << >> THEN Done(Map(m), s)
  ELSE Then(SetKeyToNode(o, Head(nodes), t, m, Head(nodes).name, s, order),
            LAMBDA r : NodesInto(o, Tail(nodes), t, r.v.at, r.s, order))

NodesToMap(o, nodes, t, v, can, s, order) ==
  IF ~MapReady(v, can) THEN Panicked ELSE NodesInto(o, nodes, t, At(v), s, order)

-----------------------------------------------------------------------------
(* unmarshalNodeToMultiple *)

\* SetStructure
Commented(t, v, can, name, n) ==
  CASE ~KeepsStructure(t) -> Done(v, NoStructure)
    [] KeepsStructure(t) /\ ~v.structure.present /\ ~can -> Panicked
    [] OTHER ->
         Done([v EXCEPT !.structure =
                 Remember(IF @.present THEN @ ELSE NewStructure, name, n)], NoStructure)

RECURSIVE NodeToNestedMap(_, _, _, _, _, _, _)
NodeToNestedMap(o, n, t, v, can, s, order) ==
  IF ~MapReady(v, can) \/ n.args = << >> THEN Panicked
  ELSE LET k    == n.args[1].text
           rest == [n EXCEPT !.args = Tail(@)]
           new  == k \notin DOMAIN At(v)
           old  == IF new THEN Zero(t.elem) ELSE At(v)[k]
       IN  IF t.elem.kind = "map" /\ rest.args # << >>
           THEN Then(NodeToNestedMap(o, rest, t.elem, old, new, NoStructure, order),
                     LAMBDA r : Done(Map(Put(At(v), k, r.v)), s))
           ELSE Then(NodeToValue(o, rest, t.elem, old, new, s, order),
                     LAMBDA r : Done(Map(Put(At(v), k, r.v)), r.s))

NodeToMultiple(o, n, t, v, can, s, order) ==
  CASE t.kind = "map" -> NodeToNestedMap(o, n, t, v, can, s, order)
    [] IsList(t) ->
         IF ~SliceReady(t, v, can) THEN Panicked
         ELSE Then(NodeToValue(o, n, t.elem, Zero(t.elem), TRUE, NoStructure, order), LAMBDA r :
                Then(IF t.elem.kind = "struct" /\ n.comment # NoComment
                     THEN Commented(t.elem, r.v, TRUE, "__parent", n) ELSE r,
                     LAMBDA e : Done(List(Append(Elements(v), e.v)), s)))
    [] OTHER -> Refused

-----------------------------------------------------------------------------
(***************************************************************************)
(* unmarshalNodeToStructField and unmarshalNodesToStruct.                  *)
(***************************************************************************)
NodeToStructField(o, n, t, v, can, order) ==
  LET name == Normalised(n.name, o.case)
      i    == FieldAt(t, name, o.case)
      f    == t.fields[i]
  IN  IF FieldsNamed(t, name, o.case) = {} THEN
        IF o.nodes THEN Done(v, NoStructure) ELSE Refused
      ELSE Then(IF n.comment # NoComment THEN Commented(t, v, can, name, n)
                ELSE Done(v, NoStructure), LAMBDA c :
           Then(IF Has(f, "multiple")
                THEN LET r == NodeToMultiple(o, n, f.type, v.fields[i], can, c.v.structure, order)
                     IN  IF can THEN r ELSE Panicked   \* set before the error is looked at
                ELSE NodeToValue(o, n, f.type, v.fields[i], can, c.v.structure, order), LAMBDA r :
             Done([SetField(c.v, i, FieldKeeps(f.type, can, v.fields[i], r.v))
                    EXCEPT !.structure = r.s], NoStructure)))

NodesToStruct(o, nodes, t, v, can, order) ==
  IF nodes = << >> THEN Done(v, NoStructure)
  ELSE Then(NodeToStructField(o, Head(nodes), t, v, can, order),
            LAMBDA r : NodesToStruct(o, Tail(nodes), t, r.v, can, order))
=============================================================================
