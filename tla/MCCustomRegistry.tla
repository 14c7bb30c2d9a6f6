---------------------------- MODULE MCCustomRegistry ----------------------------
(***************************************************************************)
(* Two goroutines and two types that share a name.  An operation works on  *)
(* one thing, at any position of either side, or on two whose entries in   *)
(* the index meet.                                                         *)
(***************************************************************************)
EXTENDS CustomRegistry, TLC

CONSTANTS p1, p2, a, b

MCNameOf == a :> "pkg.T" @@ b :> "pkg.T"

Thing(side, t, ptr, at, held) ==
  [side |-> side, type |-> t, ptr |-> ptr, at |-> at, held |-> held]

One == {<<Thing(s, a, ptr, at, FALSE)>> : s \in Sides, ptr \in BOOLEAN, at \in Positions}

\* Two types with one name, and something an interface holds, whose name is
\* indexed for another field.
Two == {<<Thing(s, a, FALSE, "unary node", FALSE), Thing(s, t, FALSE, "unary node", held)>> :
          s \in Sides, t \in Types, held \in BOOLEAN}

MCPrograms == One \cup Two \cup {<<Thing(s, a, FALSE, "node", TRUE)>> : s \in Sides}
Symmetry == Permutations(Procs)
=============================================================================
