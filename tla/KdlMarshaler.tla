------------------------------ MODULE KdlMarshaler ------------------------------
(***************************************************************************)
(* A document goes into a Go value and out again: UnmarshalWithOptions,    *)
(* one top-level node at a time, and then MarshalWithOptions, one field or *)
(* key at a time.  The order of properties and of map keys is any of       *)
(* Orders, chosen anew at every step, as the runtime does.                 *)
(***************************************************************************)
EXTENDS KdlMarshal

CONSTANTS
  Suites,   \* sets of jobs [type, doc, opts, dest]: what is unmarshaled, with
            \* what options, into what
  Orders,   \* rankings of the names
  Usual     \* one of them

ASSUME UsualAssumption == Usual \in Orders

VARIABLES
  job,
  phase,   \* "unmarshal", "unmarshaled", "marshal", "marshaled", "error" or "panic"
  todo,    \* the nodes to store, then the fields or keys to marshal
  dest,    \* what v points to
  made     \* the nodes of the new document

vars == <<job, phase, todo, dest, made>>

Init ==
  /\ \E suite \in Suites : job \in suite
  /\ phase = "unmarshal" /\ todo = job.doc /\ dest = job.dest /\ made = << >>

-----------------------------------------------------------------------------
(* Unmarshal *)

\* Mutant of After: dest is overwritten also by a call that failed.
AfterResetting(r, next) ==
  /\ phase' = IF r.out = "ok" THEN next ELSE r.out
  /\ dest' = r.v
  /\ UNCHANGED <<job, made>>

\* What a call returned decides what is next.  On an error the code also leaves
\* in dest what the failing node stored before it (unmarshal.go:1357-1389);
\* here dest keeps what the nodes before it stored.
After(r, next) ==
  /\ phase' = IF r.out = "ok" THEN next ELSE r.out
  /\ dest' = IF r.out = "ok" THEN r.v ELSE dest
  /\ UNCHANGED <<job, made>>

StoreInStruct ==
  /\ phase = "unmarshal" /\ todo # << >> /\ job.type.kind = "struct"
  /\ \E order \in Orders :
       After(NodeToStructField(job.opts, Head(todo), job.type, dest, TRUE, order), "unmarshal")
  /\ todo' = Tail(todo)

\* createMapIfNil is done once; a nil map is an empty one here.
StoreInMap ==
  /\ phase = "unmarshal" /\ todo # << >> /\ job.type.kind = "map"
  /\ \E order \in Orders :
       After(SetKeyToNode(job.opts, Head(todo), job.type, At(dest), Head(todo).name,
                          NoStructure, order), "unmarshal")
  /\ todo' = Tail(todo)

Unmarshaled ==
  /\ phase = "unmarshal" /\ todo = << >>
  /\ phase' = "unmarshaled"
  /\ UNCHANGED <<job, todo, dest, made>>

-----------------------------------------------------------------------------
(* Marshal *)

Marshal ==
  /\ phase = "unmarshaled"
  /\ phase' = "marshal" /\ made' = << >>
  /\ \E order \in Orders :
       todo' = IF job.type.kind = "struct" THEN Named(job.type)
               ELSE Arranged(DOMAIN At(dest), order)
  /\ UNCHANGED <<job, dest>>

Adds(r) ==
  /\ phase' = IF r.out = "ok" THEN "marshal" ELSE r.out
  /\ made' = made \o r.nodes
  /\ todo' = Tail(todo)
  /\ UNCHANGED <<job, dest>>

MarshalField ==
  /\ phase = "marshal" /\ todo # << >> /\ job.type.kind = "struct"
  /\ \E order \in Orders :
       Adds(NamedFieldToNodes(job.type, dest, Head(todo), job.opts.case, order))

MarshalKey ==
  /\ phase = "marshal" /\ todo # << >> /\ job.type.kind = "map"
  /\ \E order \in Orders : Adds(KeyToNode(job.type, dest, Head(todo), job.opts.case, order))

Marshaled ==
  /\ phase = "marshal" /\ todo = << >>
  /\ phase' = "marshaled"
  /\ UNCHANGED <<job, todo, dest, made>>

Next == StoreInStruct \/ StoreInMap \/ Unmarshaled \/ Marshal \/ MarshalField \/ MarshalKey \/ Marshaled

Spec == Init /\ [][Next]_vars

-----------------------------------------------------------------------------
(* Properties *)

\* The field a top-level node belongs to, whether it collects such nodes
\* (",multiple"), and the type of what one of them is stored in
HasField(n) == FieldsNamed(job.type, Normalised(n.name, job.opts.case), job.opts.case) # {}
FieldOf(n)  == job.type.fields[FieldAt(job.type, Normalised(n.name, job.opts.case), job.opts.case)]
Collects(n) == job.type.kind = "struct" /\ HasField(n) /\ Has(FieldOf(n), "multiple")
TargetOf(n) == CASE job.type.kind = "map" -> job.type.elem
                 [] job.type.kind = "struct" /\ ~HasField(n) -> Interface
                 [] OTHER -> IF Collects(n) THEN FieldOf(n).type.elem ELSE FieldOf(n).type

Strict == [job.opts EXCEPT !.nodes = FALSE, !.args = FALSE, !.props = FALSE, !.children = FALSE]

Stored(nodes, o, into) ==
  IF job.type.kind = "struct" THEN NodesToStruct(o, nodes, job.type, into, TRUE, Usual)
  ELSE NodesToMap(o, nodes, job.type, into, TRUE, NoStructure, Usual)

\* The texts in a value (and, of "key=value" in one, the value), in nodes
RECURSIVE TextsIn(_), TextsOf(_), Settled(_)
TextsIn(v) ==
  CASE v.is = "nil"    -> {}
    [] v.is = "atom"   -> {v.text} \cup {AfterEquals(x) : x \in {y \in {v.text} : EqualsAt(y) # {}}}
    [] v.is = "list"   -> UNION {TextsIn(e) : e \in Range(v.elems)}
    [] v.is = "map"    -> DOMAIN v.at \cup UNION {TextsIn(v.at[k]) : k \in DOMAIN v.at}
    [] v.is = "struct" -> UNION {TextsIn(e) : e \in Range(v.fields)}
TextsOf(nodes) ==
  UNION {UNION {TextsIn(a) : a \in Range(n.args) \cup Range(n.props)} \cup TextsOf(n.kids) :
         n \in Range(nodes)}

\* A value up to what a document cannot hold or leaves open: nil and empty are
\* alike, the properties among the elements of a list have no order, and
\* comments are not compared.
LooksLikeProperty(e) ==
  IF e.is = "atom" THEN EqualsAt(e.text) # {} ELSE e.is = "list" /\ Len(e.elems) = 2
Settled(v) ==
  CASE v \in {Nil, List(<< >>), Map(Empty)} -> Nil
    [] v.is = "atom"   -> v
    [] v.is = "list" /\ v.elems # << >> ->
         LET plain == SelectSeq(v.elems, LAMBDA e : ~LooksLikeProperty(e))
         IN  [is |-> "list", args |-> [i \in DOMAIN plain |-> Settled(plain[i])],
              props |-> {e \in Range(v.elems) : LooksLikeProperty(e)}]
    [] v.is = "map" /\ v.at # Empty -> Map([k \in DOMAIN v.at |-> Settled(v.at[k])])
    [] v.is = "struct" -> Record([i \in DOMAIN v.fields |-> Settled(v.fields[i])], NoStructure)

\* No two things stored in one place: nodes with one name, unless a list
\* grows by each; a property and a child; properties that differ in case only
NoRepeats ==
  /\ job.dest = Zero(job.type)
  /\ \A i, j \in DOMAIN job.doc :
       job.doc[i].name = job.doc[j].name =>
         i = j \/ (Collects(job.doc[i]) /\ IsList(FieldOf(job.doc[i]).type))
  /\ \A n \in Range(job.doc) :
       /\ \A i, j \in DOMAIN n.kids : n.kids[i].name = n.kids[j].name => i = j
       /\ DOMAIN n.props \cap {k.name : k \in Range(n.kids)} = {}
       /\ \A k, m \in DOMAIN n.props : Lower(k) = Lower(m) => k = m

\* Type invariant: the destination keeps its kind, or is as it was given.
TypeOK ==
  /\ phase \in {"unmarshal", "unmarshaled", "marshal", "marshaled", "error", "panic"}
  /\ dest = job.dest \/ dest.is = job.type.kind

\* What a node stored in a value of type t keeps.  A list has no place for
\* children (unmarshal.go:892-935 does not look at node.Children); a type with
\* UnmarshalText takes the one argument of a node and looks at nothing else
\* (unmarshal.go:302-304).
Kept(n, t) ==
  CASE IsList(t)                             -> [n EXCEPT !.kids = << >>]
    [] t.kind = "text" /\ Len(n.args) = 1    -> [Bare(n.name) EXCEPT !.args = n.args]
    [] OTHER                                 -> n

\* What a strict unmarshal accepts it stores, but for what Kept leaves out of
\* a top-level node: every argument, property and child is somewhere in the
\* value, whatever field, key or capture it went to.  (Kept applies to
\* children as well, but those of the runs go into neither lists nor texts.)
NothingIsDropped ==
  phase = "unmarshaled" /\ job.opts = Strict /\ NoRepeats =>
    \A n \in Range(job.doc) : TextsOf(<<Kept(n, TargetOf(n))>>) \subseteq TextsIn(dest)

\* Children of a node stored in a struct without a ",children" field, unhandled
\* ones allowed: childrenFieldInfo[0] is read all the same (unmarshal.go:749-755).
ChildrenUnhandled(n) ==
  /\ TargetOf(n).kind = "struct" /\ WithAttr(TargetOf(n), "children") = << >>
  /\ n.kids # << >> /\ job.opts.children

\* The types of the fields of a struct type that have an attribute
Tagged(t, attr) == {t.fields[i].type : i \in Range(WithAttr(t, attr))}

\* The nodes that make a call panic: stored in an array, as target, ",multiple"
\* or ",args"; with fewer arguments than fields tagged ",arg"; with unhandled
\* children allowed; without a key for a ",multiple" map; with children for a
\* ",children" map of MarshalTexts, which cannot be written.
MayPanic(n) ==
  \/ TargetOf(n).kind = "array" \/ (Collects(n) /\ FieldOf(n).type.kind = "array")
  \/ Collects(n) /\ FieldOf(n).type.kind = "map" /\ n.args = << >>
  \/ ChildrenUnhandled(n)
  \/ /\ TargetOf(n).kind = "struct"
     /\ \/ n.args # << >> /\ Len(n.args) < Len(WithAttr(TargetOf(n), "arg"))
        \/ n.args # << >> /\ \E t \in Tagged(TargetOf(n), "args") : t.kind = "array"
        \/ n.kids # << >> /\ MapTo(Text) \in Tagged(TargetOf(n), "children")

\* The types that make one panic whatever the document: a map of MarshalTexts,
\* and a struct with a ",children" field of interface type.  Reading children
\* into that panics (unmarshal.go:769-774), and so does writing the nil it
\* therefore holds (marshal.go:941).
PanicsAlways ==
  \/ job.type = MapTo(Text)
  \/ /\ job.type.kind = "struct"
     /\ \E f \in Range(job.type.fields) :
          f.type.kind = "struct" /\ Interface \in Tagged(f.type, "children")

\* Every panic of the two calls, for the types of the runs, is one of these or
\* of something stored twice (that is ~NoRepeats), where the docs speak of an
\* overwrite (docs/unmarshal.md:470-472) and setting what MapIndex or an
\* interface holds panics.
PanicsOnlyHere ==
  phase = "panic" => ~NoRepeats \/ PanicsAlways \/ \E n \in Range(job.doc) : MayPanic(n)

\* What was unmarshaled and marshaled again is read back as the same value, up
\* to Settled.  Left out: arrays and fields named "-", which cannot be read or
\* are not written, and a key of a map in a ",multiple" map that has no
\* entries, for which there is no node.
LeavesAnEmptyMap(n) ==
  Collects(n) /\ TargetOf(n).kind = "map" /\ n = [Bare(n.name) EXCEPT !.args = n.args]
HoldsArray(t) ==
  \/ t.kind = "array"
  \/ t.kind = "struct" /\ \E a \in Tagged(t, "args") : a.kind = "array"
RoundTrip ==
  /\ phase = "marshaled" /\ NoRepeats
  /\ job.type.kind = "struct" =>
       \A f \in Range(job.type.fields) : ~HoldsArray(f.type) /\ FieldName(f, FALSE) # "-"
  /\ ~\E n \in Range(job.doc) : LeavesAnEmptyMap(n)
  => LET r == Stored(made, Strict, Zero(job.type))
     IN  r.out = "ok" /\ Settled(r.v) = Settled(dest)

\* Nodes that come back with another key than their comment is kept under
\* (KeyOf: with children, the arguments and properties are part of it).  A list
\* or a scalar drops the children; in a map or an interface a child that is no
\* more than one argument becomes a property.
IsLeaf(n) == Len(n.args) <= 1 /\ n.props = Empty /\ n.kids = << >>
ChangesKey(n) ==
  LET alone  == n.args = << >> /\ n.props = Empty
      leaves == {kid \in Range(n.kids) : IsLeaf(kid)}
  IN  CASE TargetOf(n).kind \in {"map", "interface"} ->
             leaves # {} /\ (~alone \/ leaves # Range(n.kids))
        [] OTHER -> n.kids # << >> /\ ~alone

HoldsBranches(n) ==
  /\ TargetOf(n).kind = "map" /\ n.args = << >> /\ n.props = Empty
  /\ \A kid \in Range(n.kids) : ~IsLeaf(kid) /\ kid.kids = << >>

\* The comment before a node comes back with it, for a struct with a
\* ",structure" field, unless the node made has another key; that of a node
\* stored in a struct may not (the node made has all the fields, and they are
\* part of the key).  The comment of a child in a map comes back if the node has
\* nothing but children that become children again (HoldsBranches), and there
\* was a comment before (the first one makes the ",structure" value).
CommentsComeBack ==
  phase = "marshaled" /\ NoRepeats /\ job.type.kind = "struct" /\ KeepsStructure(job.type) =>
    \A i \in DOMAIN job.doc :
      LET n == job.doc[i] IN
      HasField(n) /\ TargetOf(n).kind # "struct" /\ ~ChangesKey(n) =>
        \E x \in Range(made) :
          /\ x.name = FieldName(FieldOf(n), job.opts.case)
          /\ n.comment # NoComment => x.comment = n.comment
          /\ HoldsBranches(n) /\ (\E j \in 1 .. i : job.doc[j].comment # NoComment)
             => \A kid \in Range(n.kids) :
                  \E y \in Range(x.kids) : y.name = kid.name /\ y.comment = kid.comment

\* The Allow options accept more and change nothing else: what is accepted
\* without them is accepted with them, and stored as the same value.  The
\* exception: with AllowUnhandledChildren the children of a node stored in a
\* struct panic, where they would fill its fields without (ChildrenUnhandled).
\* The other panics of what is accepted are Marshal's.
LenienceChangesNothing ==
  LET r == Stored(job.doc, Strict, job.dest)
  IN  /\ phase = "unmarshaled" /\ NoRepeats /\ r.out = "ok" => Settled(r.v) = Settled(dest)
      /\ phase = "error" => r.out # "ok"
      /\ phase = "panic" /\ r.out = "ok" =>
           \/ \E n \in Range(job.doc) : ChildrenUnhandled(n)
           \/ Stored(job.doc, job.opts, job.dest).out = "ok"

\* The order in which Go ranges over the properties decides neither whether a
\* document is accepted nor what is stored, unless two differ in case only.
OrderDoesNotMatter ==
  LET r == Stored(job.doc, job.opts, job.dest)
  IN  /\ phase = "unmarshaled" /\ NoRepeats => r.out = "ok" /\ Settled(r.v) = Settled(dest)
      /\ phase = "error" => r.out # "ok"
=============================================================================
