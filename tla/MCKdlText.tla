-------------------------------- MODULE MCKdlText --------------------------------
(***************************************************************************)
(* Documents of one node with each value, name and key; small trees with   *)
(* comments, which a writer may fail to write at any point.  Texts put     *)
(* together from pieces: two of all of them, at the beginning and after a  *)
(* name, and three or four of the most telling in a child block; and four  *)
(* lines with comments, at the beginning and in a block.                   *)
(***************************************************************************)
EXTENDS KdlText

-----------------------------------------------------------------------------
(* Documents *)

A == <<"a">>
Integer(m)  == [Value EXCEPT !.kind = "int", !.m = m]
Str(s)      == TextValue("string", s)
Typed(v)    == [v EXCEPT !.type = <<"t">>]
As(v, flag) == [v EXCEPT !.flag = flag]

Exact ==
  {Integer(m) : m \in {0, 7, -10, 255, -256}}
  \cup {[Value EXCEPT !.kind = "bigint", !.m = m] : m \in {256, -300}}
Floats ==
  {[Value EXCEPT !.kind = "float", !.m = m, !.e = e] :
     m \in {1, -25}, e \in {-11, -2, 0, 3, 9}}
  \cup {[Value EXCEPT !.kind = "bigfloat", !.m = 3, !.e = e] : e \in {20, -20}}
  \cup {[Value EXCEPT !.kind = kind] : kind \in {"float", "bigfloat"}}
Words ==
  { <<"a">>, << >>, <<"t", "r", "u", "e">>, <<"n", "u", "l", "l">>, <<"-", "1">>,
    <<"-">>, <<"_", "a">>, <<"r", "#", "a">>, <<"r", "a">>, <<"a", ":", "b">>,
    <<"a", " ", "b">>, <<"\"">>, <<"\\">>, <<"\\", "\"">>, <<"\n">>, <<"<1>">>,
    <<"<7f>">>, <<Bad>>, <<"a", Bad>>, <<"<e9>">>, <<"1", "a">>, <<"/", "/">>, <<".", "5">>, <<"'">> }

Numbers ==
  {As(v, flag) : v \in Exact, flag \in {"none", "binary", "octal", "hexadecimal"}}
  \cup Floats
  \cup { [Value EXCEPT !.kind = "suffixed", !.text = <<"1", "0">>, !.suffix = <<"m">>],
         [Value EXCEPT !.kind = "suffixed", !.suffix = <<"1", "h", "2", "m">>] }
Others == { Value, TextValue("bool", <<"t", "r", "u", "e">>), As(Str(<<"1", "k">>), "bareSuffixed") }
Strings == {As(Str(s), flag) : s \in Words, flag \in {"none", "quoted", "raw"}}

\* One node with every value, name and key
Single ==
  {<<PlainNode(A, <<v>>)>> : v \in Numbers \cup Others \cup Strings}
  \cup {<<PlainNode(A, <<Typed(v)>>)>> : v \in Numbers \cup Others}
  \cup {<<[PlainNode(A, << >>) EXCEPT !.props = <<[key |-> s, val |-> Integer(7)]>>]>> : s \in Words}
  \cup {<<PlainNode(s, args)>> : s \in Words, args \in {<< >>, <<Integer(7)>>}}

Note == <<"/", "/", "b">>
Before == {<< >>, Note, Note \o <<"\n", "\n">> \o Note}
After  == {<< >>, Note}

Leaves ==
  { [PlainNode(A, args) EXCEPT !.before = before, !.after = after] :
      args \in {<< >>, <<Integer(7)>>, <<Str(A)>>}, before \in Before, after \in After }

Parent(args, children) == [PlainNode(A, args) EXCEPT !.children = children]

\* Two blank lines in a row in a comment, one and two at the beginning of it
Noted(before) == [PlainNode(A, << >>) EXCEPT !.before = before]
Gaps == {<<Noted(Note \o <<"\n", "\n", "\n">> \o Note)>>}
        \cup UNION {{<<Noted(b), Noted(b)>>, <<Parent(<< >>, <<Noted(b), Noted(b)>>)>>} :
                    b \in {<<"\n">> \o Note, <<"\n", "\n">> \o Note}}

Deep ==
  << Parent(<< >>, <<Parent(<< >>, <<[PlainNode(A, <<Integer(7)>>) EXCEPT !.type = <<"t">>]>>)>>),
     [PlainNode(A, <<Typed(Integer(7))>>) EXCEPT
        !.props = << [key |-> A, val |-> Typed(Str(A))], [key |-> <<"b">>, val |-> Value] >>] >>

Trees ==
  {<<leaf, PlainNode(A, << >>)>> : leaf \in Leaves}
  \cup {<<[Parent(<<Integer(7)>>, <<leaf, PlainNode(A, << >>)>>) EXCEPT !.after = after]>> :
          leaf \in Leaves, after \in After}
  \cup {Deep} \cup Gaps

Default == [indent |-> <<"\t">>, ignoreFlags |-> FALSE, addSemicolons |-> FALSE,
            addEquals |-> FALSE, addColons |-> FALSE]
AllOptionSets ==
  { Default, [Default EXCEPT !.indent = << >>], [Default EXCEPT !.ignoreFlags = TRUE],
    [Default EXCEPT !.addSemicolons = TRUE], [Default EXCEPT !.addEquals = TRUE],
    [Default EXCEPT !.addColons = TRUE] }

\* A write fails once, or every write from one on
MaxWrites == 30
Faults == {{k} : k \in 1 .. MaxWrites} \cup {k .. MaxWrites : k \in 1 .. MaxWrites}

MCCases ==
  [doc : Single \cup Trees, options : AllOptionSets, fault : {{}}]
  \cup [doc : Trees, options : AllOptionSets, fault : Faults]

\* The nodes of these documents, and the children of their children
WithChildren(ns) == ns \cup UNION {Range(n.children) : n \in ns}
MCNodes == WithChildren(WithChildren(UNION {Range(d) : d \in Single \cup Trees}))

-----------------------------------------------------------------------------
(* Texts *)

Pieces ==
  { <<"a">>, <<"r">>, <<"-">>, <<"+">>, <<"0">>, <<"1">>, <<"0", "x", "1">>, <<"1", "e">>,
    <<".", "5">>, <<"\"">>, <<"\"", "a", "\"">>, <<"r", "#", "\"">>, <<"\"", "#">>,
    <<"\\">>, <<" ">>, <<"\n">>, <<"\r">>, <<"/">>, <<"/", "*">>, <<"*", "/">>,
    <<"/", "/">>, <<"/", "-">>, <<"{">>, <<"}">>, <<"(">>, <<")">>, <<"=">>, <<";">>,
    <<"t", "r", "u", "e">>, <<"_">>, <<"k">>, <<":">>, <<"#">>, <<"'">>, <<Bad>>, <<"[">> }

Few ==
  { <<"a">>, <<"-">>, <<"1">>, <<"1", "e">>, <<"\"">>, <<"\\">>, <<" ">>, <<"\n">>,
    <<"/", "/">>, <<"/", "-">>, <<"{">>, <<"}">>, <<"=">>, <<"k">>, <<";">> }

Core == {<<"b">>, <<"/", "-">>, <<" ">>, <<"\n">>, <<"{">>, <<"}">>, <<"\\">>, <<"/", "/">>, <<";">>}

\* Where a comment may stand, and what may come between it and its node
Turns ==
  { <<"/", "/", "\n">>, <<"\n">>, <<"b", "\n">>, <<"b", " ", "{">>, <<"}">>, <<"/", "-">> }

AllFlags == {"NGINXSyntax", "YAMLTOMLAssignments", "MultiplierSuffixes"}
TextOptions == {{}} \cup {{f} : f \in AllFlags} \cup {{"NGINXSyntax", "MultiplierSuffixes"}}

MCTexts ==
  {a \o b : a, b \in Pieces}
  \cup {<<"a", " ">> \o a \o b : a, b \in Pieces}
  \cup {<<"a", " ", "{">> \o a \o b \o c : a, b, c \in Few}
  \cup {<<"a", " ", "{">> \o a \o b \o c \o d : a, b, c, d \in Core}
  \cup {p \o a \o b \o c \o d : p \in {<< >>, <<"a", " ", "{">>}, a, b, c, d \in Turns}

\* What the texts are read with, and what the documents are
MCOptions ==
  TextOptions \cup {{"ParseComments"} \cup Understood(o) : o \in AllOptionSets}
=============================================================================
