------------------------------- MODULE KdlMarshal -------------------------------
(***************************************************************************)
(* internal/marshaler/marshal.go: the nodes a Go value becomes.  Operators *)
(* give [out, nodes]: whether the call returned nil, an error, or          *)
(* panicked, and its nodes.  "order" ranks names: the order sortMapKeys    *)
(* leaves map keys in (any, without the tag kdldeterministic).             *)
(***************************************************************************)
EXTENDS KdlUnmarshal

Made(nodes) == [out |-> "ok", nodes |-> nodes]
Failed      == [out |-> "error", nodes |-> << >>]
Crashed     == [out |-> "panic", nodes |-> << >>]

\* The structFieldDetails a call is given, nil among them
NoDetails    == [attrs |-> {}, given |-> FALSE]
EmptyDetails == [attrs |-> {}, given |-> TRUE]
Details(f)   == [attrs |-> f.attrs, given |-> TRUE]

OmitsEmpty(f, t, v) == Has(f, "omitempty") /\ v = Zero(t)

\* strings.Cut(text, "=")
EqualsAt(text) == {i \in 1 .. Len(text) : SubSeq(text, i, i) = "="}
\* Mutant of BeforeEquals: the equals sign is part of the key.
UpToEquals(text) == SubSeq(text, 1, CHOOSE i \in EqualsAt(text) : \A j \in EqualsAt(text) : i <= j)
FirstEquals(text)  == CHOOSE i \in EqualsAt(text) : \A j \in EqualsAt(text) : i <= j
BeforeEquals(text) == SubSeq(text, 1, FirstEquals(text) - 1)
AfterEquals(text)  == SubSeq(text, FirstEquals(text) + 1, Len(text))

-----------------------------------------------------------------------------
(* Comments *)

\* assignCommentToNode
WithComment(s, n, caseSensitive) ==
  IF ~s.present \/ n.comment # NoComment THEN n
  ELSE [n EXCEPT !.comment = Remembered(s, Normalised(n.name, caseSensitive), n)]
WithComments(s, nodes, caseSensitive) ==
  [i \in DOMAIN nodes |-> WithComment(s, nodes[i], caseSensitive)]

\* The comment an element of a ",multiple" field keeps itself
WithParentComment(t, v, n) ==
  IF t.kind = "struct" /\ n.comment = NoComment /\ v.structure.present
  THEN [n EXCEPT !.comment = Remembered(v.structure, "__parent", Bare("__parent"))]
  ELSE n

-----------------------------------------------------------------------------
(***************************************************************************)
(* marshalSliceToNode: an element that looks like a property - a pair in a *)
(* []interface{}, a string with an equals sign - becomes one.              *)
(***************************************************************************)
IsPair(t, e)     == t.elem = Interface /\ e.is = "list" /\ Len(e.elems) = 2
IsProperty(t, e) == IsPair(t, e) \/ (t.elem.kind \in {"string", "text"} /\ EqualsAt(e.text) # {})

AddProperty(t, n, e) ==
  IF IsPair(t, e) THEN [n EXCEPT !.props = Put(@, e.elems[1].text, e.elems[2])]
  ELSE [n EXCEPT !.props = Put(@, BeforeEquals(e.text), Atom(AfterEquals(e.text)))]

SliceToNode(name, t, v) ==
  FoldLeft(LAMBDA n, e : IF IsProperty(t, e) THEN AddProperty(t, n, e)
                         ELSE [n EXCEPT !.args = Append(@, e)],
           Bare(name), Elements(v))

\* The nodes of calls made one after the other, up to the one that fails
Together(results) ==
  FoldLeft(LAMBDA all, r : IF all.out # "ok" THEN all
                           ELSE IF r.out # "ok" THEN r ELSE Made(all.nodes \o r.nodes),
           Made(<< >>), results)

-----------------------------------------------------------------------------
RECURSIVE ValueToNode(_, _, _, _, _, _, _), MapToNode(_, _, _, _, _, _, _),
          StructToNode(_, _, _, _, _), ValueToNodes(_, _, _, _),
          MultiMapToNodes(_, _, _, _, _, _, _)

\* marshalMultiSliceToNodes
MultiSliceToNodes(name, t, v, f, c, order) ==
  LET of(e) ==
        LET r == ValueToNode(name, t.elem, e, f, NoStructure, c, order)
        IN  [r EXCEPT !.nodes = [j \in DOMAIN @ |-> WithParentComment(t.elem, e, @[j])]]
      elems == Elements(v)
  IN  Together([i \in DOMAIN elems |-> of(elems[i])])

\* marshalMultiMapToNodes; the keys become the first arguments.
MultiMapToNodes(names, t, v, f, s, c, order) ==
  LET m    == At(v)
      of(k) ==
        LET r     == ValueToNode(names[1], t.elem, m[k], f, s, c, order)
            key   == Tail(Append(names, k))
            keyed(n) == [WithParentComment(t.elem, m[k], n) EXCEPT
                           !.args = [i \in DOMAIN key |-> Atom(key[i])] \o @]
        IN  IF t.elem.kind = "map"
            THEN MultiMapToNodes(Append(names, k), t.elem, m[k], f, s, c, order)
            ELSE [r EXCEPT !.nodes = [j \in DOMAIN @ |-> keyed(@[j])]]
      keys == Arranged(DOMAIN m, order)
  IN  Together([i \in DOMAIN keys |-> of(keys[i])])

(***************************************************************************)
(* tryMarshalValueAsChild: whether a value is a child of its node, several *)
(* children, left out, or a value of the node.                             *)
(***************************************************************************)
As(what, r) == [is |-> IF r.out = "ok" THEN what ELSE r.out, nodes |-> r.nodes]

TryAsChild(name, st, sv, f, s, c, order) ==
  LET t == IF st.kind = "interface" /\ sv # Nil THEN Dynamic(sv) ELSE st
      v == sv
  IN  CASE OmitsEmpty(f, t, v) -> [is |-> "skip", nodes |-> << >>]
        [] t.kind = "map" /\ ~OmitsEmpty(f, t, v) ->
             IF Has(f, "multiple") THEN As("children", MultiMapToNodes(<<name>>, t, v, f, s, c, order))
             ELSE As("child", MapToNode(name, t, v, f, s, c, order))
        [] IsList(t) /\ ~OmitsEmpty(f, t, v) ->
             IF t.elem.kind = "struct"
             THEN As("children", MultiSliceToNodes(name, t, v, EmptyDetails, c, order))
             ELSE As("child", Made(<<SliceToNode(name, t, v)>>))
        [] t.kind = "struct" /\ ~OmitsEmpty(f, t, v) ->
             As("child", StructToNode(name, t, v, c, order))
        [] OTHER -> IF Has(f, "child") THEN As("child", ValueToNode(name, t, v, f, s, c, order))
                    ELSE [is |-> "value", nodes |-> << >>]

(***************************************************************************)
(* marshalMapToNode: the keys that look like an index become arguments,    *)
(* after everything else, the others properties or children.               *)
(***************************************************************************)
Numeral(k) == k \in Range(Digits)

\* The arguments: args[i] of a key that is missing is nil.
ByIndex(args) == [i \in 1 .. Cardinality(DOMAIN args) |->
                    IF Index(i - 1) \in DOMAIN args THEN args[Index(i - 1)] ELSE Nil]

MapToNode(name, t, v, f, s, c, order) ==
  LET m == At(v)
      element == IF Has(f, "childvalues") THEN [EmptyDetails EXCEPT !.attrs = {"child"}] ELSE NoDetails
      \* The comment of the children is asked for with the arguments yet to come.
      commented(n, kids) ==
        IF s.present THEN [i \in DOMAIN kids |->
                             [kids[i] EXCEPT !.comment = RememberedChild(s, n, kids[i])]]
        ELSE kids
      entry(k, r, child) ==
        LET n == r.node
        IN  CASE child.is = "child" ->
                   LET added == [n EXCEPT !.kids = @ \o child.nodes]
                   IN  [r EXCEPT !.node.kids = n.kids \o commented(added, child.nodes)]
              [] child.is = "children" ->
                   [r EXCEPT !.node.kids = @ \o commented(n, child.nodes)]
              [] child.is = "value" /\ Numeral(k)  -> [r EXCEPT !.args = Put(@, k, m[k])]
              [] child.is = "value" /\ ~Numeral(k) -> [r EXCEPT !.node.props = Put(@, k, m[k])]
              [] child.is = "skip" -> r
              [] OTHER -> [r EXCEPT !.out = child.is]
      made(r) == [out |-> r.out, nodes |-> <<[r.node EXCEPT !.args = ByIndex(r.args)]>>]
  IN  made(FoldLeft(LAMBDA r, k :
                      IF r.out # "ok" THEN r
                      ELSE entry(k, r, TryAsChild(k, t.elem, m[k], element, s, c, order)),
                    [out |-> "ok", node |-> Bare(name), args |-> Empty],
                    Arranged(DOMAIN m, order)))

(***************************************************************************)
(* marshalStructToNode: the fields tagged ",arg", ",args" and ",props",    *)
(* those with a name, and the one tagged ",children".                      *)
(***************************************************************************)
StructToNode(name, t, v, c, order) ==
  LET one  == WithAttr(t, "arg")
      all  == WithAttr(t, "args")
      bag  == WithAttr(t, "props")
      kids == WithAttr(t, "children")
      args == [i \in DOMAIN one |-> v.fields[one[i]]]
              \o (IF all = << >> THEN << >> ELSE Elements(v.fields[all[1]]))
      start == [Bare(name) EXCEPT !.args = args,
                                  !.props = IF bag = << >> THEN @ ELSE At(v.fields[bag[1]])]
      tried(i, f) == TryAsChild(FieldName(f, c), f.type, v.fields[i], Details(f),
                                NoStructure, c, order)
      field(i, r, child) ==
        LET f  == t.fields[i]
            at == FieldName(f, c)
        IN  CASE at = "-" \/ IsCapture(f) \/ child.is = "skip" -> r
              [] child.is = "child"    ->
                   [r EXCEPT !.node.kids = @ \o WithComments(v.structure, child.nodes, c)]
              [] child.is = "children" ->
                   [r EXCEPT !.node.kids = WithComments(v.structure, @ \o child.nodes, c)]
              [] child.is = "value"    -> [r EXCEPT !.node.props = Put(@, at, v.fields[i])]
              [] OTHER                 -> [r EXCEPT !.out = child.is]
      made(named, rest) ==
        CASE named.out # "ok" -> [Failed EXCEPT !.out = named.out]
          [] named.out = "ok" /\ rest.out # "ok" -> rest
          [] OTHER -> Made(<<[named.node EXCEPT !.kids = @ \o rest.nodes]>>)
  IN  IF \/ all # << >> /\ ~IsList(t.fields[all[1]].type)
         \/ bag # << >> /\ t.fields[bag[1]].type.kind # "map" THEN Failed
      ELSE made(FoldLeft(LAMBDA r, i : IF r.out = "ok" THEN field(i, r, tried(i, t.fields[i])) ELSE r,
                         [out |-> "ok", node |-> start], Named(t)),
                IF kids = << >> THEN Made(<< >>)
                ELSE ValueToNodes(t.fields[kids[1]].type, v.fields[kids[1]], c, order))

(***************************************************************************)
(* marshalValueToNode: no node for a value left out; a value of a type     *)
(* with MarshalText has its format read from details that may be nil.      *)
(***************************************************************************)
ValueToNode(name, t, v, f, s, c, order) ==
  CASE OmitsEmpty(f, t, v) -> Made(<< >>)
    [] t.kind = "text" /\ ~OmitsEmpty(f, t, v) ->
         IF f.given THEN Made(<<[Bare(name) EXCEPT !.args = <<v>>]>>) ELSE Crashed
    [] t.kind = "string" /\ ~OmitsEmpty(f, t, v) -> Made(<<[Bare(name) EXCEPT !.args = <<v>>]>>)
    [] t.kind = "struct" /\ ~OmitsEmpty(f, t, v) -> StructToNode(name, t, v, c, order)
    [] t.kind = "map" /\ ~OmitsEmpty(f, t, v)    -> MapToNode(name, t, v, f, s, c, order)
    [] IsList(t) /\ ~OmitsEmpty(f, t, v)         -> Made(<<SliceToNode(name, t, v)>>)
    [] t.kind = "interface" /\ ~OmitsEmpty(f, t, v) ->
         IF v = Nil THEN Made(<<[Bare(name) EXCEPT !.args = <<Nil>>]>>)
         ELSE ValueToNode(name, Dynamic(v), v, f, s, c, order)

-----------------------------------------------------------------------------
\* marshalValueToNodeOrNodes
FieldToNodes(name, f, v, s, c, order) ==
  CASE ~Has(f, "multiple") -> ValueToNode(name, f.type, v, Details(f), s, c, order)
    [] Has(f, "multiple") /\ IsList(f.type) ->
         MultiSliceToNodes(name, f.type, v, Details(f), c, order)
    [] Has(f, "multiple") /\ f.type.kind = "map" ->
         MultiMapToNodes(<<name>>, f.type, v, Details(f), s, c, order)
    [] OTHER -> Failed

\* What marshalStructToNodes adds for one field: those tagged ",arg" and so
\* on are nodes like the others.
NamedFieldToNodes(t, v, i, c, order) ==
  LET f  == t.fields[i]
      at == FieldName(f, c)
      r  == FieldToNodes(at, f, v.fields[i], v.structure, c, order)
  IN  IF at = "-" THEN Made(<< >>)
      ELSE [r EXCEPT !.nodes = WithComments(v.structure, @, c)]

\* What marshalMapToNodes adds for one key
KeyToNode(t, v, k, c, order) == ValueToNode(k, t.elem, At(v)[k], NoDetails, NoStructure, c, order)

\* marshalValueToNodes; Type() of what a nil interface holds panics.
ValueToNodes(t, v, c, order) ==
  CASE t.kind = "map"    -> LET keys == Arranged(DOMAIN At(v), order)
                            IN  Together([i \in DOMAIN keys |-> KeyToNode(t, v, keys[i], c, order)])
    [] t.kind = "struct" -> LET fields == Named(t)
                            IN  Together([i \in DOMAIN fields |->
                                            NamedFieldToNodes(t, v, fields[i], c, order)])
    [] t.kind = "interface" -> IF v = Nil THEN Crashed
                               ELSE ValueToNodes(Dynamic(v), v, c, order)
    [] OTHER -> Failed
=============================================================================
