----------------------------- MODULE MCKdlMarshaler -----------------------------
EXTENDS KdlMarshaler

MCLower(s) == IF s = "X" THEN "x" ELSE s

MCStrict == [nodes |-> FALSE, args |-> FALSE, props |-> FALSE, children |-> FALSE, case |-> FALSE]
Lenient == [nodes |-> TRUE, args |-> TRUE, props |-> TRUE, children |-> TRUE, case |-> FALSE]
CaseSensitive == [MCStrict EXCEPT !.case = TRUE]

Ranked == <<"0", "1", "2", "3", "c", "i", "k", "l", "m", "n", "p", "q", "s", "t", "x", "y",
            "X", "-",
            "a1", "a2", "a3", "a4", "b1", "b2", "b3", "b4">>
MCUsual  == [n \in Range(Ranked) |-> CHOOSE i \in DOMAIN Ranked : Ranked[i] = n]
MCOrders == {MCUsual, [n \in Range(Ranked) |-> -MCUsual[n]]}

Person == Struct(<<Field("First", "", {"arg"}, String),
                   Field("Rest", "", {"args"}, Slice(String)),
                   Field("Props", "", {"props"}, MapTo(Interface)),
                   Field("Kids", "", {"children"}, MapTo(Interface))>>)
Pair == Struct(<<Field("X", "x", {}, String), Field("I", "i", {}, Interface),
                 Field("M", "m", {"childvalues"}, MapTo(String)),
                 Field("S", "", {"structure"}, Interface)>>)
Config == Struct(<<Field("X", "", {}, String), Field("I", "i", {}, Interface),
                   Field("L", "l", {}, Slice(String)), Field("M", "m", {}, MapTo(Interface)),
                   Field("P", "p", {}, Person), Field("N", "n", {}, Pair),
                   Field("S", "", {"structure"}, Interface)>>)
Many == Struct(<<Field("P", "p", {"multiple"}, Slice(Pair)),
                 Field("Q", "q", {"multiple"}, MapTo(MapTo(String))),
                 Field("T", "t", {"omitempty"}, Text)>>)

\* Structs with a field of a type that panics
Odds == {Struct(<<Field("C", "", {"children"}, t)>>) : t \in {Interface, MapTo(Text)}}
        \cup {Struct(<<Field("A", "", {"args"}, Array(String))>>)}

Two == Struct(<<Field("First", "", {"arg"}, String), Field("Last", "", {"arg"}, Text)>>)

\* Shapes of a node named n, its texts beginning with p
Of(n, p, args, props, kids) ==
  Node(n, SubSeq(<<Atom(p \o "1"), Atom(p \o "2")>>, 1, args),
       FoldSet(LAMBDA k, m : m @@ (k :> Atom(p \o k)), << >>, props),
       kids, NoComment)
Leaf(p)   == Of("x", p, 1, {}, << >>)
Branch(p) == Of("m", p, 0, {"k"}, << >>)
Kids(p)   == {<< >>, <<Leaf(p)>>, <<Branch(p)>>}
Args(p)   == {0, 1, 2}
AllOf(names, p) == {Of(n, p, a, r, k) : n \in names, a \in 0 .. 2, r \in {{}, {"k"}, {"i", "k"}}, k \in Kids(p)}
Mixed(names, p) == {Of(n, p, 0, {}, <<Leaf(p), Branch(p)>>) : n \in names}
Few(names, p) == {Of(n, p, a, r, k) : n \in names, a \in {0, 2}, r \in {{}, {"k"}}, k \in {<< >>}}
                 \cup {Of(n, p, 1, {}, << >>) : n \in names}
                 \cup {Of(n, p, 0, {}, <<Branch(p)>>) : n \in names}
\* nodes with a comment each
Remarked1(nodes) == [i \in DOMAIN nodes |-> [nodes[i] EXCEPT !.comment = "c3"]]
Remarked(nodes, text) == {[n EXCEPT !.comment = text] : n \in nodes}

Job(t, d, o) == [type |-> t, doc |-> d, opts |-> o, dest |-> Zero(t)]

Singles == {Job(Config, <<n>>, o) : n \in AllOf({"X", "i", "l", "m", "p", "n", "c"}, "a"),
                                    o \in {MCStrict, Lenient, CaseSensitive}}
Doubles == {Job(Config, <<a, b>>, MCStrict) : a \in Few({"x", "i", "l", "m", "n"}, "a"),
                                            b \in Few({"x", "i", "l", "m", "n"}, "b")}
Repeats == {Job(Many, <<a, b>>, o) : a \in AllOf({"p", "t"}, "a") \cup Few({"q"}, "a"),
                                     b \in Few({"p", "q", "t"}, "b"), o \in {MCStrict, Lenient}}
Maps == {Job(MapTo(t), <<a, b>>, o) :
           t \in {Interface, String, Text, Pair, Slice(String), MapTo(String)},
           a \in Few({"x", "m"}, "a"), b \in Few({"x"}, "b"), o \in {MCStrict}}
        \cup {Job(MapTo(Text), <<n>>, MCStrict) : n \in AllOf({"x"}, "a")}
Odd == {Job(Struct(<<f>>), <<n>>, o) :
          f \in {Field("P", "p", {}, Two), Field("P", "p", {}, Array(String)), Field("P", "-", {}, String),
                 Field("P", "p", {"multiple"}, Array(String))}
                \cup {Field("P", "p", {}, t) : t \in Odds},
          n \in AllOf({"p", "-"}, "a"), o \in {MCStrict, Lenient}}
Comments == {Job(Config, <<a, b>>, MCStrict) : 
               a \in Remarked(Few({"l", "m", "n"}, "a"), "c1"),
               b \in Remarked(Few({"x", "i", "m", "n", "l"}, "b"), "c2")
                     \cup {[n EXCEPT !.kids[1].comment = "c3"] : n \in {x \in Few({"m", "n", "i"}, "b") : x.kids # << >>}}}
            \cup {Job(Config, <<n>>, MCStrict) :
                    n \in Remarked(AllOf({"m", "i", "l"}, "a") \cup Mixed({"m", "i", "n"}, "a"), "c1")}
            \cup {Job(Config, <<[n EXCEPT !.comment = "c1", !.kids = Remarked1(@)]>>, MCStrict) :
                    n \in {x \in AllOf({"m", "i"}, "a") \cup Mixed({"m"}, "a") : x.kids # << >>}}

Spellings == {Job(Config, <<Of("n", "a", 0, {"x", "X"}, << >>)>>, MCStrict)}
Filled == {[Job(Config, <<n>>, MCStrict) EXCEPT
              !.dest.fields = [@ EXCEPT ![2] = Atom("old"), ![3] = List(<<Atom("old")>>),
                                        ![4] = Map([k \in {"k"} |-> Atom("old")])]] :
             n \in Few({"x", "i", "l", "m"}, "a")}

MCSuites == {Singles, Doubles, Repeats, Maps, Odd, Comments, Spellings, Filled}
=============================================================================
