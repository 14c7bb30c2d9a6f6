-------------------------------- MODULE GoValues --------------------------------
(***************************************************************************)
(* What the marshaler works on: Go types, the values they hold, and the    *)
(* type index (internal/marshaler/typeindex.go).                           *)
(*                                                                         *)
(* Abstractions.  A string stands for every scalar (the conversions of     *)
(* internal/coerce are not modelled) and "text" for every type with        *)
(* MarshalText and UnmarshalText; pointers are followed, embedded structs  *)
(* flattened, map keys are strings, and "format" tags left out.            *)
(***************************************************************************)
EXTENDS Integers, Sequences, FiniteSets, SequencesExt

CONSTANT Lower(_)   \* strings.ToLower

\* The map m with x at k
Put(m, k, x) == [j \in DOMAIN m \cup {k} |-> IF j = k THEN x ELSE m[j]]

Empty == [x \in {} |-> x]   \* the map without keys

-----------------------------------------------------------------------------
(* Types *)

String    == [kind |-> "string"]
Text      == [kind |-> "text"]
Interface == [kind |-> "interface"]
Slice(t)  == [kind |-> "slice", elem |-> t]
Array(t)  == [kind |-> "array", elem |-> t]
MapTo(t)  == [kind |-> "map", elem |-> t]
Struct(f) == [kind |-> "struct", fields |-> f]

\* A field: its Go name, the name and the attributes of its kdl tag, its type
Field(go, tag, attrs, t) == [go |-> go, tag |-> tag, attrs |-> attrs, type |-> t]

IsList(t)   == t.kind \in {"slice", "array"}
IsScalar(t) == t.kind \in {"string", "text"}

-----------------------------------------------------------------------------
(* Values *)

Nil        == [is |-> "nil"]
Atom(text) == [is |-> "atom", text |-> text]
List(e)    == [is |-> "list", elems |-> e]
Map(m)     == [is |-> "map", at |-> m]

\* The comments a ",structure" field holds: of the nodes by key, and of the
\* children of a node stored in a map by the keys of both
NoStructure == [comments |-> Empty, children |-> Empty, present |-> FALSE]
NewStructure == [NoStructure EXCEPT !.present = TRUE]

Record(f, s) == [is |-> "struct", fields |-> f, structure |-> s]

RECURSIVE Zero(_)
Zero(t) == CASE IsScalar(t)        -> Atom("")
             [] t.kind = "array"   -> List(<<Zero(t.elem)>>)
             [] t.kind = "struct"  -> Record(FoldLeft(LAMBDA z, f : Append(z, Zero(f.type)), << >>, t.fields),
                                             NoStructure)
             [] OTHER              -> Nil

\* The type of what an interface holds
Dynamic(v) == CASE v.is = "atom" -> String
                [] v.is = "list" -> Slice(Interface)
                [] v.is = "map"  -> MapTo(Interface)

Elements(v) == IF v = Nil THEN << >> ELSE v.elems
At(v)       == IF v = Nil THEN Empty ELSE v.at

\* A []string element that holds a property, and what strings.Cut makes of it
Joined(k, text) == k \o "=" \o text

-----------------------------------------------------------------------------
(* Documents *)

Node(name, args, props, kids, comment) ==
  [name |-> name, args |-> args, props |-> props, kids |-> kids, comment |-> comment]

NoComment == ""

Bare(name) == Node(name, << >>, Empty, << >>, NoComment)

\* Mutant of KeyOf: the arguments and properties are always part of the key.
KeyOfEverything(name, n) == <<name, n.args, n.props>>

\* structStructure.getKey: the name alone does for a node without children, or
\* with nothing else
KeyOf(name, n) ==
  IF n.kids = << >> \/ (n.args = << >> /\ n.props = Empty) THEN <<name>>
  ELSE <<name, n.args, n.props>>

Remember(s, name, n) ==
  IF n.comment = NoComment THEN s
  ELSE [s EXCEPT !.comments = Put(@, KeyOf(name, n), n.comment)]

Remembered(s, name, n) ==
  LET k == KeyOf(name, n)
  IN  IF k \in DOMAIN s.comments THEN s.comments[k] ELSE NoComment

RememberChild(s, mapnode, kid) ==
  IF ~s.present \/ kid.comment = NoComment THEN s
  ELSE LET k   == KeyOf(mapnode.name, mapnode)
           old == IF k \in DOMAIN s.children THEN s.children[k] ELSE Empty
       IN  [s EXCEPT !.children = Put(@, k, Put(old, KeyOf(kid.name, kid), kid.comment))]

RememberedChild(s, mapnode, kid) ==
  LET k == KeyOf(mapnode.name, mapnode)
      c == KeyOf(kid.name, kid)
  IN  IF k \in DOMAIN s.children /\ c \in DOMAIN s.children[k] THEN s.children[k][c]
      ELSE NoComment

-----------------------------------------------------------------------------
(* The type index *)

Normalised(name, caseSensitive) == IF caseSensitive THEN name ELSE Lower(name)

\* fieldTagOrName: a tag is lowered even where case matters.
FieldName(f, caseSensitive) ==
  IF f.tag # "" THEN Lower(f.tag) ELSE Normalised(f.go, caseSensitive)

Has(f, attr) == attr \in f.attrs

IsCapture(f) == f.attrs \cap {"arg", "args", "props", "children"} # {}

\* StructAttrs, StructFieldNameList (as indices), StructureStructField
WithAttr(t, attr) == SelectSeq([i \in DOMAIN t.fields |-> i], LAMBDA i : Has(t.fields[i], attr))
Named(t)          == SelectSeq([i \in DOMAIN t.fields |-> i],
                               LAMBDA i : ~Has(t.fields[i], "structure"))
KeepsStructure(t) == \E i \in DOMAIN t.fields : Has(t.fields[i], "structure")

\* StructFields: of the fields with one name the last one
FieldsNamed(t, name, caseSensitive) ==
  {i \in Range(Named(t)) : FieldName(t.fields[i], caseSensitive) = name}
FieldAt(t, name, caseSensitive) ==
  LET F == FieldsNamed(t, name, caseSensitive) IN CHOOSE i \in F : \A j \in F : j <= i
=============================================================================
