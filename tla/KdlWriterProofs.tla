---------------------------- MODULE KdlWriterProofs ----------------------------
(***************************************************************************)
(* What holds of writing a document, for every document and every writer,  *)
(* whichever of its calls fail.                                            *)
(***************************************************************************)
EXTENDS KdlWriter, KdlReaderProofs

-----------------------------------------------------------------------------
(* Functions that are defined along a sequence *)

\* What is so at a position if it is so at all earlier ones is so at each.
LEMMA FromTheStart ==
  ASSUME NEW n \in Nat, NEW T, \A i \in 0 .. n : (\A j \in 0 .. i - 1 : j \in T) => i \in T
  PROVE  \A i \in 0 .. n : i \in T
<1> DEFINE U == { i \in 0 .. n : i \notin T }
<1>1. SUFFICES ASSUME U # {}
               PROVE  FALSE
  OBVIOUS
<1>2. U \in SUBSET Nat
  OBVIOUS
<1>3. Min(U) \in U /\ \A m \in U : Min(U) <= m
  BY <1>1, <1>2, Smallest
<1> DEFINE k == Min(U)
<1>4. k \in 0 .. n /\ k \notin T
  BY <1>3
<1>5. ASSUME NEW j \in 0 .. k - 1
      PROVE  j \in T
  <2>1. j \in 0 .. n /\ ~(k <= j)
    BY <1>4
  <2>2. QED
    BY <1>3, <2>1
<1> HIDE DEF k
<1>6. QED
  BY <1>4, <1>5

\* Of two characters' positions one is the last: sets of positions have a largest.
LEMMA Largest ==
  ASSUME NEW n \in Nat, NEW T \in SUBSET (0 .. n), T # {}
  PROVE  Max(T) \in T /\ \A m \in T : m <= Max(T)
<1> DEFINE U == { m \in 0 .. n : n - m \in T }
<1>1. U \in SUBSET Nat /\ U # {}
  <2>1. PICK m \in T : TRUE
    OBVIOUS
  <2>2. n - m \in 0 .. n /\ n - (n - m) = m
    OBVIOUS
  <2>3. QED
    BY <2>1, <2>2
<1>2. Min(U) \in U /\ \A m \in U : Min(U) <= m
  BY <1>1, Smallest
<1> DEFINE k == n - Min(U)
<1>3. k \in T /\ Min(U) \in 0 .. n
  BY <1>2
<1>4. ASSUME NEW m \in T
      PROVE  m <= k
  <2>1. n - m \in U
    <3>1. n - m \in 0 .. n /\ n - (n - m) = m
      OBVIOUS
    <3>2. QED
      BY <3>1
  <2>2. Min(U) <= n - m
    BY <1>2, <2>1
  <2>3. QED
    BY <1>3, <2>2
<1> HIDE DEF k
<1>5. \A m \in T : k >= m
  BY <1>3, <1>4
<1>6. \E x \in T : \A m \in T : x >= m
  BY <1>3, <1>5
<1>7. Max(T) \in T /\ \A m \in T : Max(T) >= m
  BY <1>6 DEF Max
<1>8. QED
  BY <1>7

FlattenAt(ss, f, i) == IF i = 1 THEN ss[i] ELSE f[i - 1] \o ss[i]

LEMMA FlattenExists ==
  ASSUME NEW ss, NEW n \in Nat
  PROVE  \E f : f = [i \in 1 .. n |-> FlattenAt(ss, f, i)]
<1> DEFINE Known(m) == \E f : f = [i \in 1 .. m |-> FlattenAt(ss, f, i)]
           T == { m \in 0 .. n : Known(m) }
<1>1. ASSUME NEW m \in 0 .. n, \A j \in 0 .. m - 1 : j \in T
      PROVE  Known(m)
  <2>1. PICK f : m > 0 => f = [i \in 1 .. m - 1 |-> FlattenAt(ss, f, i)]
    <3>1. CASE m > 0
      <4>1. m - 1 \in 0 .. m - 1
        BY <3>1
      <4>2. QED
        BY <1>1, <4>1
    <3>2. CASE ~(m > 0)
      BY <3>2
    <3>3. QED
      BY <3>1, <3>2
  <2> DEFINE h == [i \in 1 .. m |-> IF i = m THEN FlattenAt(ss, f, i) ELSE f[i]]
  <2>2. ASSUME NEW i \in 1 .. m
        PROVE  h[i] = FlattenAt(ss, h, i)
    <3>1. h[i] = FlattenAt(ss, f, i)
      <4>1. CASE i = m
        BY <4>1
      <4>2. CASE i # m
        <5>1. m > 0 /\ i \in 1 .. m - 1
          BY <4>2
        <5>2. f[i] = FlattenAt(ss, f, i)
          BY <2>1, <5>1
        <5>3. QED
          BY <4>2, <5>2
      <4>3. QED
        BY <4>1, <4>2
    <3>2. i # 1 => h[i - 1] = f[i - 1]
      <4>1. i # 1 => i - 1 \in 1 .. m /\ i - 1 # m
        OBVIOUS
      <4>2. QED
        BY <4>1
    <3> HIDE DEF h
    <3>3. QED
      BY <3>1, <3>2 DEF FlattenAt
  <2>3. h = [i \in 1 .. m |-> FlattenAt(ss, h, i)]
    BY <2>2
  <2>4. QED
    BY <2>3
<1> HIDE DEF Known
<1>2. \A m \in 0 .. n : (\A j \in 0 .. m - 1 : j \in T) => m \in T
  BY <1>1
<1> HIDE DEF T
<1>3. \A m \in 0 .. n : m \in T
  BY <1>2, FromTheStart
<1>4. Known(n)
  BY <1>3 DEF T
<1>5. QED
  BY <1>4 DEF Known

\* The parts of FlattenSeq, one after the other
Flat(ss) == CHOOSE f : f = [i \in 1 .. Len(ss) |-> FlattenAt(ss, f, i)]

LEMMA FlattenIs ==
  ASSUME NEW S, NEW ss \in Seq(S)
  PROVE  /\ Len(ss) \in Nat
         /\ ss = << >> => FlattenSeq(ss) = << >>
         /\ ss # << >> => FlattenSeq(ss) = Flat(ss)[Len(ss)]
         /\ \A i \in 1 .. Len(ss) : Flat(ss)[i] = IF i = 1 THEN ss[i] ELSE Flat(ss)[i - 1] \o ss[i]
<1>1. Len(ss) \in Nat /\ (Len(ss) = 0 <=> ss = << >>)
  BY LenProperties, EmptySeq
<1>2. FlattenSeq(ss) = IF Len(ss) = 0 THEN ss ELSE Flat(ss)[Len(ss)]
  BY DEF FlattenSeq, Flat, FlattenAt
<1>3. Flat(ss) = [i \in 1 .. Len(ss) |-> FlattenAt(ss, Flat(ss), i)]
  BY <1>1, FlattenExists DEF Flat
<1> DEFINE F == Flat(ss)
<1>4. F = [i \in 1 .. Len(ss) |-> FlattenAt(ss, F, i)]
  BY <1>3
<1> HIDE DEF F
<1>5. \A i \in 1 .. Len(ss) : F[i] = FlattenAt(ss, F, i)
  BY <1>4
<1>6. QED
  BY <1>1, <1>2, <1>5 DEF FlattenAt, F

LEMMA FlattenType ==
  ASSUME NEW S, NEW ss \in Seq(Seq(S))
  PROVE  FlattenSeq(ss) \in Seq(S)
<1> DEFINE n == Len(ss)
           T == { i \in 0 .. n : i = 0 \/ Flat(ss)[i] \in Seq(S) }
<1>1. n \in Nat /\ \A i \in 1 .. n : ss[i] \in Seq(S)
  BY LenProperties, ElementOfSeq
<1>2. \A i \in 1 .. n : Flat(ss)[i] = IF i = 1 THEN ss[i] ELSE Flat(ss)[i - 1] \o ss[i]
  BY FlattenIs
<1>3. ASSUME NEW i \in 0 .. n, \A j \in 0 .. i - 1 : j \in T
      PROVE  i \in T
  <2>1. CASE i = 0 \/ i = 1
    BY <1>1, <1>2, <2>1
  <2>2. CASE i # 0 /\ i # 1
    <3>1. i - 1 \in 0 .. i - 1 /\ i - 1 # 0 /\ i \in 1 .. n
      BY <1>1, <2>2
    <3>2. Flat(ss)[i - 1] \in Seq(S) /\ ss[i] \in Seq(S)
      BY <1>1, <1>3, <3>1
    <3>3. Flat(ss)[i] = Flat(ss)[i - 1] \o ss[i]
      BY <1>2, <2>2, <3>1
    <3> DEFINE a == Flat(ss)[i - 1]
               b == ss[i]
    <3> HIDE DEF a, b
    <3>4. a \o b \in Seq(S)
      BY <3>2, ConcatProperties DEF a, b
    <3>5. QED
      BY <3>3, <3>4 DEF a, b
  <2>3. QED
    BY <2>1, <2>2
<1>4. \A i \in 0 .. n : (\A j \in 0 .. i - 1 : j \in T) => i \in T
  BY <1>3
<1> HIDE DEF T
<1>5. \A i \in 0 .. n : i \in T
  BY <1>1, <1>4, FromTheStart
<1>6. CASE ss = << >>
  <2>1. FlattenSeq(ss) = << >>
    BY <1>6, FlattenIs
  <2>2. << >> \in Seq(S)
    OBVIOUS
  <2>3. QED
    BY <2>1, <2>2
<1>7. CASE ss # << >>
  <2>1. n # 0
    BY <1>7, EmptySeq
  <2>2. n \in T
    BY <1>1, <1>5
  <2>3. QED
    BY <1>7, <2>1, <2>2, FlattenIs DEF T
<1>8. QED
  BY <1>6, <1>7

-----------------------------------------------------------------------------
(* The lines of a comment *)

LEMMA TrimType ==
  ASSUME NEW s \in AnyText, NEW set
  PROVE  Trim(s, set) \in AnyText
<1> DEFINE kept == {i \in DOMAIN s : s[i] \notin set}
<1>1. Len(s) \in Nat /\ DOMAIN s = 1 .. Len(s)
  BY LenProperties DEF AnyText
<1>2. CASE kept = {}
  <2>1. << >> \in AnyText
    BY DEF AnyText
  <2>2. QED
    BY <1>2, <2>1 DEF Trim
<1>3. CASE kept # {}
  <2>1. Min(kept) \in kept /\ \A n \in kept : Min(kept) <= n
    <3>1. kept \in SUBSET Nat
      BY <1>1
    <3> HIDE DEF kept
    <3>2. QED
      BY <1>3, <3>1, Smallest
  <2>2. Max(kept) \in kept
    <3>1. kept \in SUBSET (0 .. Len(s))
      BY <1>1
    <3> HIDE DEF kept
    <3>2. QED
      BY <1>1, <1>3, <3>1, Largest
  <2>3. Min(kept) \in 1 .. Len(s) /\ Max(kept) \in Min(kept) .. Len(s)
    BY <1>1, <2>1, <2>2
  <2>4. SubSeq(s, Min(kept), Max(kept)) \in AnyText
    BY <2>3, PartOfText
  <2>5. QED
    BY <1>3, <2>4 DEF Trim
<1>4. QED
  BY <1>2, <1>3

LineChars == (Char \cup {Bad}) \ {"\n"}

\* The lines from a position on, where from has those of the later positions.
LinesAt(s, from, i) ==
  LET end == RunEnd(s, i, LineChars)
  IN  <<Trim(SubSeq(s, i, end - 1), LineSpace)>>
      \o IF end > Len(s) THEN << >> ELSE from[end + 1]

LEMMA LinesLookAhead ==
  ASSUME NEW s \in AnyText, NEW i \in 1 .. Len(s) + 1, NEW g, NEW h,
         \A j \in i + 1 .. Len(s) + 1 : g[j] = h[j]
  PROVE  LinesAt(s, g, i) = LinesAt(s, h, i)
<1> DEFINE end == RunEnd(s, i, LineChars)
<1>1. end \in i .. Len(s) + 1 /\ Len(s) \in Nat
  BY RunEnds, TextEnds, NotCharacters DEF LineChars
<1>2. ~(end > Len(s)) => g[end + 1] = h[end + 1]
  BY <1>1
<1> HIDE DEF end
<1>3. QED
  BY <1>2 DEF LinesAt, end

LEMMA LinesExist ==
  ASSUME NEW s \in AnyText
  PROVE  \E g : g = [i \in 1 .. Len(s) + 1 |-> LinesAt(s, g, i)]
<1> DEFINE N == Len(s) + 1
           Known(i) == \E g : g = [j \in i .. N |-> LinesAt(s, g, j)]
           T == { i \in 1 .. N : Known(i) }
<1>1. Len(s) \in Nat /\ N \in Nat /\ 1 \in 1 .. N
  BY TextEnds
<1>2. ASSUME NEW i \in 1 .. N, \A j \in i + 1 .. N : j \in T
      PROVE  Known(i)
  <2>1. PICK g : i < N => g = [j \in i + 1 .. N |-> LinesAt(s, g, j)]
    <3>1. CASE i < N
      <4>1. i + 1 \in i + 1 .. N
        BY <1>1, <3>1
      <4>2. QED
        BY <1>2, <4>1
    <3>2. CASE ~(i < N)
      BY <3>2
    <3>3. QED
      BY <3>1, <3>2
  <2> DEFINE h == [j \in i .. N |-> IF j = i THEN LinesAt(s, g, i) ELSE g[j]]
  <2>2. ASSUME NEW j \in i .. N
        PROVE  h[j] = LinesAt(s, h, j)
    <3>1. j \in 1 .. Len(s) + 1 /\ \A k \in j + 1 .. Len(s) + 1 : h[k] = g[k]
      BY <1>1
    <3>2. h[j] = LinesAt(s, g, j)
      <4>1. CASE j = i
        BY <4>1
      <4>2. CASE j # i
        <5>1. i < N /\ j \in i + 1 .. N
          BY <1>1, <4>2
        <5>2. g[j] = LinesAt(s, g, j)
          BY <2>1, <5>1
        <5>3. QED
          BY <4>2, <5>2
      <4>3. QED
        BY <4>1, <4>2
    <3> HIDE DEF h
    <3>3. QED
      BY <3>1, <3>2, LinesLookAhead
  <2>3. h = [j \in i .. N |-> LinesAt(s, h, j)]
    BY <2>2
  <2>4. QED
    BY <2>3
<1> HIDE DEF Known
<1>3. \A i \in 1 .. N : i \in T
  <2>1. \A i \in 1 .. N : (\A j \in i + 1 .. N : j \in T) => i \in T
    BY <1>2
  <2> HIDE DEF T, N
  <2>2. QED
    BY <1>1, <2>1, FromTheEnd
<1>4. QED
  BY <1>1, <1>3 DEF Known

LEMMA LinesType ==
  ASSUME NEW note \in AnyText
  PROVE  \E X : Lines(note) \in Seq(X)
<1> DEFINE s == Trim(note, {" ", "\t"})
           N == Len(s) + 1
           L == CHOOSE g : g = [i \in 1 .. N |-> LinesAt(s, g, i)]
           X == { Trim(SubSeq(s, i, k), LineSpace) : i \in Nat, k \in Int }
           T == { i \in 1 .. N : L[i] \in Seq(X) }
<1>1. s \in AnyText /\ Len(s) \in Nat /\ N \in Nat /\ 1 \in 1 .. N
  <2>1. s \in AnyText
    BY TrimType
  <2> HIDE DEF s
  <2>2. Len(s) \in Nat
    BY <2>1, TextEnds
  <2>3. QED
    BY <2>1, <2>2
<1>2. Lines(note) = L[1]
  BY DEF Lines, LinesAt, LineChars
<1> HIDE DEF s
<1>3. L = [i \in 1 .. N |-> LinesAt(s, L, i)]
  BY <1>1, LinesExist
<1> HIDE DEF L
<1>4. ASSUME NEW i \in 1 .. N, \A j \in i + 1 .. N : j \in T
      PROVE  i \in T
  <2> DEFINE end  == RunEnd(s, i, LineChars)
             line == Trim(SubSeq(s, i, end - 1), LineSpace)
             rest == IF end > Len(s) THEN << >> ELSE L[end + 1]
  <2>1. end \in i .. N
    BY <1>1, RunEnds, NotCharacters DEF LineChars
  <2>2. L[i] = <<line>> \o rest
    BY <1>3 DEF LinesAt
  <2> HIDE DEF end
  <2>3. line \in X
    BY <1>1, <2>1
  <2>4. rest \in Seq(X)
    <3>1. << >> \in Seq(X)
      OBVIOUS
    <3>2. ~(end > Len(s)) => end + 1 \in i + 1 .. N
      BY <1>1, <2>1
    <3>3. QED
      BY <1>4, <3>1, <3>2
  <2> HIDE DEF line, rest, X
  <2>5. <<line>> \in Seq(X)
    BY <2>3
  <2>6. QED
    BY <2>2, <2>4, <2>5, ConcatProperties
<1> HIDE DEF T, N, X
<1>5. \A i \in 1 .. N : i \in T
  BY <1>1, <1>4, FromTheEnd
<1>6. QED
  BY <1>1, <1>2, <1>5 DEF T

-----------------------------------------------------------------------------
(* Writing pieces *)

IsWriter(v) ==
  /\ v = [out |-> v.out, calls |-> v.calls, fault |-> v.fault, err |-> v.err, lost |-> v.lost]
  /\ v.calls \in Nat /\ v.err \in BOOLEAN /\ v.lost \in BOOLEAN
  /\ v.lost => v.calls > 0

\* err says of the last call of Write whether it failed.
Checked(v) == v.err <=> v.calls \in v.fault

\* What is lost is known.
Noticed(v) == v.lost => v.err

LEMMA WriteOnce ==
  ASSUME NEW v, IsWriter(v), NEW string
  PROVE  /\ IsWriter(Write(v, string))
         /\ Checked(Write(v, string))
         /\ ~v.err /\ Noticed(v) => Noticed(Write(v, string))
<1> DEFINE fails == v.calls + 1 \in v.fault
           u == Write(v, string)
<1>1. u = [out |-> IF fails THEN v.out ELSE v.out \o string, calls |-> v.calls + 1,
           fault |-> v.fault, err |-> fails, lost |-> v.lost \/ fails]
  <2> DEFINE o == IF fails THEN v.out ELSE v.out \o string
  <2>1. u = [v EXCEPT !.out = o, !.calls = v.calls + 1, !.err = fails, !.lost = v.lost \/ fails]
    BY DEF Write
  <2> HIDE DEF u, o, fails
  <2>2. QED
    BY <2>1 DEF IsWriter, o
<1> HIDE DEF u, fails
<1>2. fails \in BOOLEAN
  BY DEF fails
<1>3. /\ u.calls = v.calls + 1 /\ u.fault = v.fault /\ u.err = fails /\ u.lost = (v.lost \/ fails)
      /\ u = [out |-> u.out, calls |-> u.calls, fault |-> u.fault, err |-> u.err, lost |-> u.lost]
  BY <1>1
<1>4. IsWriter(u)
  <2>1. v.calls \in Nat /\ v.lost \in BOOLEAN
    BY DEF IsWriter
  <2>2. u.calls \in Nat /\ u.calls > 0 /\ u.err \in BOOLEAN /\ u.lost \in BOOLEAN
    BY <1>2, <1>3, <2>1
  <2>3. QED
    BY <1>3, <2>2 DEF IsWriter
<1>5. Checked(u)
  BY <1>3 DEF Checked, fails
<1>6. ~v.err /\ Noticed(v) => Noticed(u)
  BY <1>3 DEF Noticed
<1>7. QED
  BY <1>4, <1>5, <1>6 DEF u

PieceAt(v, pieces, after, k) ==
  IF k = 0 THEN v
  ELSE IF after[k - 1].err /\ ~pieces[k].always THEN after[k - 1]
  ELSE Write(after[k - 1], pieces[k].text)

LEMMA PiecesExist ==
  ASSUME NEW v, NEW pieces, NEW n \in Nat
  PROVE  \E f : f = [k \in 0 .. n |-> PieceAt(v, pieces, f, k)]
<1> DEFINE Known(m) == \E f : f = [k \in 0 .. m |-> PieceAt(v, pieces, f, k)]
           T == { m \in 0 .. n : Known(m) }
<1>1. ASSUME NEW m \in 0 .. n, \A j \in 0 .. m - 1 : j \in T
      PROVE  Known(m)
  <2>1. PICK f : m > 0 => f = [k \in 0 .. m - 1 |-> PieceAt(v, pieces, f, k)]
    <3>1. CASE m > 0
      <4>1. m - 1 \in 0 .. m - 1
        BY <3>1
      <4>2. QED
        BY <1>1, <4>1
    <3>2. CASE ~(m > 0)
      BY <3>2
    <3>3. QED
      BY <3>1, <3>2
  <2> DEFINE h == [k \in 0 .. m |-> IF k = m THEN PieceAt(v, pieces, f, k) ELSE f[k]]
  <2>2. ASSUME NEW k \in 0 .. m
        PROVE  h[k] = PieceAt(v, pieces, h, k)
    <3>1. h[k] = PieceAt(v, pieces, f, k)
      <4>1. CASE k = m
        BY <4>1
      <4>2. CASE k # m
        <5>1. m > 0 /\ k \in 0 .. m - 1
          BY <4>2
        <5>2. f[k] = PieceAt(v, pieces, f, k)
          BY <2>1, <5>1
        <5>3. QED
          BY <4>2, <5>2
      <4>3. QED
        BY <4>1, <4>2
    <3>2. k # 0 => h[k - 1] = f[k - 1]
      <4>1. k # 0 => k - 1 \in 0 .. m /\ k - 1 # m
        OBVIOUS
      <4>2. QED
        BY <4>1
    <3> HIDE DEF h
    <3>3. QED
      BY <3>1, <3>2 DEF PieceAt
  <2>3. h = [k \in 0 .. m |-> PieceAt(v, pieces, h, k)]
    BY <2>2
  <2>4. QED
    BY <2>3
<1> HIDE DEF Known
<1>2. \A m \in 0 .. n : (\A j \in 0 .. m - 1 : j \in T) => m \in T
  BY <1>1
<1> HIDE DEF T
<1>3. \A m \in 0 .. n : m \in T
  BY <1>2, FromTheStart
<1>4. Known(n)
  BY <1>3 DEF T
<1>5. QED
  BY <1>4 DEF Known

\* Whatever pieces are written, if there are any the last call of Write is known
\* to have failed or not; and if each looks for an error before it none is lost.
LEMMA PiecesAreWritten ==
  ASSUME NEW v, IsWriter(v), NEW S, NEW pieces \in Seq(S)
  PROVE  LET u == WritePieces(v, pieces)
         IN  /\ IsWriter(u)
             /\ Checked(v) \/ (~v.err /\ pieces # << >>) => Checked(u)
             /\ Noticed(v) /\ (\A p \in S : ~p.always) => Noticed(u)
<1> DEFINE n == Len(pieces)
           A == CHOOSE f : f = [k \in 0 .. n |-> PieceAt(v, pieces, f, k)]
           Good(k) == /\ IsWriter(A[k])
                      /\ Checked(v) \/ (~v.err /\ k > 0) => Checked(A[k])
                      /\ k = 0 => A[k] = v
                      /\ Noticed(v) /\ (\A p \in S : ~p.always) => Noticed(A[k])
           T == { k \in 0 .. n : Good(k) }
<1>1. n \in Nat /\ (\A k \in 1 .. n : pieces[k] \in S) /\ (n = 0 <=> pieces = << >>)
  BY LenProperties, ElementOfSeq, EmptySeq
<1>2. WritePieces(v, pieces) = A[n]
  BY DEF WritePieces, PieceAt
<1>3. A = [k \in 0 .. n |-> PieceAt(v, pieces, A, k)]
  <2>1. n \in Nat
    BY <1>1
  <2> HIDE DEF n
  <2>2. \E f : f = [k \in 0 .. n |-> PieceAt(v, pieces, f, k)]
    BY <2>1, PiecesExist
  <2>3. QED
    BY <2>2, Zenon
<1> HIDE DEF A, n
<1>4. ASSUME NEW k \in 0 .. n, \A j \in 0 .. k - 1 : j \in T
      PROVE  Good(k)
  <2>1. A[k] = PieceAt(v, pieces, A, k)
    BY <1>3
  <2>2. CASE k = 0
    BY <2>1, <2>2 DEF PieceAt
  <2>3. CASE k # 0
    <3>1. k - 1 \in 0 .. k - 1 /\ k \in 1 .. n /\ k > 0 /\ (k - 1 > 0 \/ k - 1 = 0)
      BY <1>1, <2>3
    <3> DEFINE b == A[k - 1]
    <3>2. /\ IsWriter(b)
          /\ Checked(v) \/ (~v.err /\ k - 1 > 0) => Checked(b)
          /\ k - 1 = 0 => b = v
          /\ Noticed(v) /\ (\A p \in S : ~p.always) => Noticed(b)
      BY <1>4, <3>1
    <3> HIDE DEF b
    <3>3. CASE b.err /\ ~pieces[k].always
      <4>1. A[k] = b
        BY <2>1, <2>3, <3>3 DEF PieceAt, b
      <4>2. k - 1 = 0 => v.err
        BY <3>2, <3>3
      <4>3. Checked(v) \/ (~v.err /\ k > 0) => Checked(b)
        BY <3>1, <3>2, <4>2
      <4>4. QED
        BY <2>3, <3>2, <4>1, <4>3
    <3>4. CASE ~(b.err /\ ~pieces[k].always)
      <4>1. A[k] = Write(b, pieces[k].text)
        BY <2>1, <2>3, <3>4 DEF PieceAt, b
      <4>2. IsWriter(A[k]) /\ Checked(A[k]) /\ (~b.err /\ Noticed(b) => Noticed(A[k]))
        BY <3>2, <4>1, WriteOnce
      <4>3. (\A p \in S : ~p.always) => ~b.err
        BY <1>1, <3>1, <3>4
      <4>4. QED
        BY <2>3, <3>2, <4>2, <4>3
    <3>5. QED
      BY <3>3, <3>4
  <2>4. QED
    BY <2>2, <2>3
<1> HIDE DEF Good
<1>5. \A k \in 0 .. n : (\A j \in 0 .. k - 1 : j \in T) => k \in T
  BY <1>4
<1> HIDE DEF T
<1>6. \A k \in 0 .. n : k \in T
  BY <1>1, <1>5, FromTheStart
<1>7. Good(n)
  BY <1>1, <1>6 DEF T
<1>8. QED
  BY <1>1, <1>2, <1>7 DEF Good

-----------------------------------------------------------------------------
(* The pieces of a node: what they are written as does not matter here.    *)

PiecesOf(B, p) == \E X : p \in Seq([text : X, always : B])

LEMMA NoPieces ==
  ASSUME NEW B
  PROVE  PiecesOf(B, << >>)
<1>1. << >> \in Seq([text : {}, always : B])
  OBVIOUS
<1>2. QED
  BY <1>1 DEF PiecesOf

LEMMA OnePiece ==
  ASSUME NEW B, NEW string
  PROVE  /\ FALSE \in B => PiecesOf(B, <<Piece(string)>>)
         /\ TRUE \in B => PiecesOf(B, <<Always(string)>>)
<1> DEFINE S == [text : {string}, always : B]
<1>1. ASSUME NEW e \in S
      PROVE  <<e>> \in Seq(S)
  OBVIOUS
<1>2. (FALSE \in B => Piece(string) \in S) /\ (TRUE \in B => Always(string) \in S)
  BY DEF Piece, Always
<1> HIDE DEF S
<1>3. (FALSE \in B => <<Piece(string)>> \in Seq(S)) /\ (TRUE \in B => <<Always(string)>> \in Seq(S))
  BY <1>1, <1>2
<1>4. QED
  BY <1>3 DEF PiecesOf, S

LEMMA MorePieces ==
  ASSUME NEW B, NEW p, NEW q, PiecesOf(B, p), PiecesOf(B, q)
  PROVE  PiecesOf(B, p \o q) /\ (p # << >> \/ q # << >> => p \o q # << >>)
<1>1. PICK X : p \in Seq([text : X, always : B])
  BY DEF PiecesOf
<1>2. PICK Y : q \in Seq([text : Y, always : B])
  BY DEF PiecesOf
<1> DEFINE S == [text : X \cup Y, always : B]
<1>3. [text : X, always : B] \subseteq S /\ [text : Y, always : B] \subseteq S
  OBVIOUS
<1> HIDE DEF S
<1>4. p \in Seq(S) /\ q \in Seq(S)
  BY <1>1, <1>2, <1>3, SeqMonotonic
<1>5. p \o q \in Seq(S) /\ Len(p \o q) = Len(p) + Len(q)
  BY <1>4, ConcatProperties
<1>6. p # << >> \/ q # << >> => p \o q # << >>
  <2>1. /\ Len(p) \in Nat /\ Len(q) \in Nat
        /\ (Len(p) = 0 <=> p = << >>) /\ (Len(q) = 0 <=> q = << >>)
        /\ (Len(p \o q) = 0 <=> p \o q = << >>)
    BY <1>4, <1>5, LenProperties, EmptySeq
  <2>2. QED
    BY <1>5, <2>1
<1>7. QED
  BY <1>5, <1>6 DEF PiecesOf, S

LEMMA LinePieces ==
  ASSUME NEW X, NEW lines \in Seq(X), NEW indent, NEW B, TRUE \in B
  PROVE  LET S == [text : X \cup {indent, <<"\n">>}, always : B]
         IN  \A k \in DOMAIN lines :
               /\ <<Always(indent), Always(lines[k]), Always(<<"\n">>)>> \in Seq(S)
               /\ <<Always(<<"\n">>)>> \in Seq(S) /\ << >> \in Seq(S)
<1> DEFINE S == [text : X \cup {indent, <<"\n">>}, always : B]
<1>1. \A k \in DOMAIN lines : lines[k] \in X
  BY LenProperties, ElementOfSeq
<1>2. ASSUME NEW a \in S, NEW b \in S, NEW c \in S
      PROVE  <<a, b, c>> \in Seq(S) /\ <<c>> \in Seq(S) /\ << >> \in Seq(S)
  OBVIOUS
<1>3. /\ Always(indent) \in S /\ Always(<<"\n">>) \in S
      /\ \A k \in DOMAIN lines : Always(lines[k]) \in S
  BY <1>1 DEF Always
<1> HIDE DEF S
<1>4. QED
  BY <1>2, <1>3 DEF S

LEMMA CommentPieces ==
  ASSUME NEW string \in AnyText, NEW indent, NEW B, TRUE \in B
  PROVE  PiecesOf(B, BeforePieces(string, indent)) /\ PiecesOf(B, AfterPieces(string, indent))
<1> DEFINE lines == Lines(string)
<1>1. PICK X : lines \in Seq(X)
  BY LinesType
<1> HIDE DEF lines
<1> DEFINE S == [text : X \cup {indent, <<"\n">>}, always : B]
<1>2. Len(lines) \in Nat /\ DOMAIN lines = 1 .. Len(lines)
  BY <1>1, LenProperties
<1>3. ASSUME NEW k \in DOMAIN lines
      PROVE  /\ <<Always(indent), Always(lines[k]), Always(<<"\n">>)>> \in Seq(S)
             /\ <<Always(<<"\n">>)>> \in Seq(S) /\ << >> \in Seq(S)
  BY <1>1, LinePieces
<1>4. ASSUME NEW f, \A k \in DOMAIN lines : f[k] \in Seq(S), f = [k \in DOMAIN lines |-> f[k]]
      PROVE  FlattenSeq(f) \in Seq(S)
  <2>1. f \in Seq(Seq(S))
    <3>1. f \in [1 .. Len(lines) -> Seq(S)]
      BY <1>2, <1>4
    <3> HIDE DEF S
    <3>2. QED
      BY <1>2, <3>1, IsASeq
  <2>2. QED
    BY <2>1, FlattenType
<1> HIDE DEF S
<1>5. FlattenSeq([k \in DOMAIN lines |-> <<Always(indent), Always(lines[k]), Always(<<"\n">>)>>])
        \in Seq(S)
  <2> DEFINE f == [k \in DOMAIN lines |-> <<Always(indent), Always(lines[k]), Always(<<"\n">>)>>]
  <2>1. (\A k \in DOMAIN lines : f[k] \in Seq(S)) /\ f = [k \in DOMAIN lines |-> f[k]]
    BY <1>3
  <2> HIDE DEF f
  <2>2. FlattenSeq(f) \in Seq(S)
    BY <1>4, <2>1
  <2>3. QED
    BY <2>2 DEF f
<1>6. PiecesOf(B, AfterPieces(string, indent))
  BY <1>5 DEF AfterPieces, PiecesOf, S, lines
<1>7. PiecesOf(B, BeforePieces(string, indent))
  <2> DEFINE blank(k) == k \in DOMAIN lines /\ lines[k] = << >>
             piecesOf(k) ==
               CASE ~blank(k) -> <<Always(indent), Always(lines[k]), Always(<<"\n">>)>>
                 [] blank(k) /\ ~blank(k - 1) -> <<Always(<<"\n">>)>>
                 [] OTHER -> << >>
             f == [k \in DOMAIN lines |-> piecesOf(k)]
  <2>1. ASSUME NEW k \in DOMAIN lines
        PROVE  piecesOf(k) \in Seq(S)
    <3>1. piecesOf(k) \in {<<Always(indent), Always(lines[k]), Always(<<"\n">>)>>,
                           <<Always(<<"\n">>)>>, << >>}
      OBVIOUS
    <3> HIDE DEF piecesOf
    <3>2. QED
      BY <1>3, <3>1
  <2>2. (\A k \in DOMAIN lines : f[k] \in Seq(S)) /\ f = [k \in DOMAIN lines |-> f[k]]
    BY <2>1
  <2>3. BeforePieces(string, indent) = IF string = << >> THEN << >> ELSE FlattenSeq(f)
    BY DEF BeforePieces, lines
  <2> HIDE DEF f
  <2>4. FlattenSeq(f) \in Seq(S)
    BY <1>4, <2>2
  <2>5. PiecesOf(B, FlattenSeq(f))
    BY <2>4 DEF PiecesOf, S
  <2>6. QED
    BY <2>3, <2>5, NoPieces
<1>8. QED
  BY <1>6, <1>7

LEMMA ArgumentsArePieces ==
  ASSUME NEW V, NEW args \in Seq(V), NEW o, NEW B, FALSE \in B
  PROVE  PiecesOf(B, ArgumentPieces(args, o))
<1> DEFINE r == Rendering(o)
           X == {<<" ">>} \cup {ValueText(args[i], r) : i \in DOMAIN args}
           S == [text : X, always : B]
           f == [i \in DOMAIN args |-> <<Piece(<<" ">>), Piece(ValueText(args[i], r))>>]
<1>1. Len(args) \in Nat /\ DOMAIN args = 1 .. Len(args)
  BY LenProperties
<1> HIDE DEF r
<1>2. ASSUME NEW i \in DOMAIN args
      PROVE  f[i] \in Seq(S)
  <2> DEFINE a == Piece(<<" ">>)
             b == Piece(ValueText(args[i], r))
  <2>1. a \in S /\ b \in S
    BY DEF Piece
  <2>2. f[i] = <<a, b>>
    OBVIOUS
  <2> HIDE DEF a, b, S, f
  <2>3. <<a, b>> \in Seq(S)
    BY <2>1
  <2>4. QED
    BY <2>2, <2>3
<1>3. f \in [1 .. Len(args) -> Seq(S)]
  <2>1. f = [i \in 1 .. Len(args) |-> f[i]]
    BY <1>1
  <2> HIDE DEF f, S
  <2>2. QED
    BY <1>1, <1>2, <2>1
<1>4. ArgumentPieces(args, o) = FlattenSeq(f)
  BY DEF ArgumentPieces, r
<1> HIDE DEF f, S
<1>5. f \in Seq(Seq(S))
  BY <1>1, <1>3, IsASeq
<1>6. FlattenSeq(f) \in Seq(S)
  BY <1>5, FlattenType
<1>7. QED
  BY <1>4, <1>6 DEF PiecesOf, S

LEMMA HeadIsPieces ==
  ASSUME NEW n \in Nodes, NEW o, NEW depth \in Nat, NEW B, FALSE \in B,
         TRUE \in B \/ (depth = 0 /\ n.before = << >> /\ ~o.addEquals /\ ~o.addColons)
  PROVE  LET p == HeadPieces(n, o, depth) IN PiecesOf(B, p) /\ p # << >>
<1> DEFINE a == BeforePieces(n.before, Indent(o, depth))
           b == IF depth > 0 THEN <<Always(Indent(o, depth))>> ELSE << >>
           c == IF n.type # << >> THEN <<Piece(<<"(">>), Piece(n.type), Piece(<<")">>)>> ELSE << >>
           d == <<Piece(ValueText(TextValue("string", n.name), Renderings.NodeNameString))>>
           e == AssignmentPieces(n, o)
           f == ArgumentPieces(n.args, o)
           g == IF n.props # << >> THEN <<Piece(PropertiesText(n.props, o))>> ELSE << >>
<1>1. n.before \in AnyText /\ n.args \in Seq(Values)
  BY NodesAssumption DEF String, AnyText
<1>2. PiecesOf(B, a)
  <2>1. CASE TRUE \in B
    BY <1>1, <2>1, CommentPieces
  <2>2. CASE n.before = << >>
    BY <2>2, NoPieces DEF BeforePieces
  <2>3. QED
    BY <2>1, <2>2
<1>3. PiecesOf(B, b)
  <2>1. CASE depth > 0
    <3>1. TRUE \in B
      <4>1. depth # 0
        BY <2>1
      <4>2. QED
        BY <4>1, Zenon
    <3>2. QED
      BY <2>1, <3>1, OnePiece
  <2>2. CASE ~(depth > 0)
    BY <2>2, NoPieces
  <2>3. QED
    BY <2>1, <2>2
<1>4. PiecesOf(B, c)
  <2> DEFINE S == [text : {<<"(">>, n.type, <<")">>}, always : B]
  <2>1. ASSUME NEW p \in S, NEW q \in S, NEW r \in S
        PROVE  <<p, q, r>> \in Seq(S)
    OBVIOUS
  <2>2. Piece(<<"(">>) \in S /\ Piece(n.type) \in S /\ Piece(<<")">>) \in S
    BY DEF Piece
  <2> HIDE DEF S
  <2>3. <<Piece(<<"(">>), Piece(n.type), Piece(<<")">>)>> \in Seq(S)
    BY <2>1, <2>2
  <2>4. PiecesOf(B, <<Piece(<<"(">>), Piece(n.type), Piece(<<")">>)>>)
    BY <2>3 DEF PiecesOf, S
  <2>5. QED
    BY <2>4, NoPieces
<1>5. PiecesOf(B, d) /\ d # << >>
  <2>1. PiecesOf(B, d)
    BY OnePiece
  <2>2. QED
    BY <2>1
<1>6. PiecesOf(B, e)
  <2>1. e = << >> \/ (o.addEquals /\ e = <<Always(<<" ", "=">>)>>)
                  \/ (o.addColons /\ e = <<Always(<<":">>)>>)
    BY DEF AssignmentPieces
  <2> HIDE DEF e
  <2>2. QED
    BY <2>1, NoPieces, OnePiece
<1>7. PiecesOf(B, f)
  BY <1>1, ArgumentsArePieces
<1>8. PiecesOf(B, g)
  BY NoPieces, OnePiece
<1>9. HeadPieces(n, o, depth) = a \o b \o c \o d \o e \o f \o g
  BY DEF HeadPieces
<1> HIDE DEF a, b, c, d, e, f, g
<1>10. PiecesOf(B, a \o b \o c \o d) /\ a \o b \o c \o d # << >>
  <2>1. PiecesOf(B, a \o b)
    BY <1>2, <1>3, MorePieces
  <2> DEFINE ab == a \o b
  <2> HIDE DEF ab
  <2>2. PiecesOf(B, ab \o c)
    BY <1>4, <2>1, MorePieces DEF ab
  <2> DEFINE abc == ab \o c
  <2> HIDE DEF abc
  <2>3. PiecesOf(B, abc \o d) /\ abc \o d # << >>
    BY <1>5, <2>2, MorePieces DEF abc
  <2>4. QED
    BY <2>3 DEF abc, ab
<1> DEFINE abcd == a \o b \o c \o d
<1> HIDE DEF abcd
<1>11. PiecesOf(B, abcd \o e) /\ abcd \o e # << >>
  BY <1>6, <1>10, MorePieces DEF abcd
<1> DEFINE abcde == abcd \o e
<1> HIDE DEF abcde
<1>12. PiecesOf(B, abcde \o f) /\ abcde \o f # << >>
  BY <1>7, <1>11, MorePieces DEF abcde
<1> DEFINE abcdef == abcde \o f
<1> HIDE DEF abcdef
<1>13. PiecesOf(B, abcdef \o g) /\ abcdef \o g # << >>
  BY <1>8, <1>12, MorePieces DEF abcdef
<1>14. QED
  BY <1>9, <1>13 DEF abcdef, abcde, abcd

\* What the pieces are written to, in the words of the invariant
LEMMA WritingPieces ==
  ASSUME NEW v, IsWriter(v), NEW B \in SUBSET BOOLEAN, NEW p, PiecesOf(B, p)
  PROVE  LET u == WritePieces(v, p)
         IN  /\ IsWriter(u)
             /\ Checked(v) \/ (~v.err /\ p # << >>) => Checked(u)
             /\ TRUE \notin B /\ Noticed(v) => Noticed(u)
<1>1. PICK X : p \in Seq([text : X, always : B])
  BY DEF PiecesOf
<1>2. TRUE \notin B => \A q \in [text : X, always : B] : ~q.always
  OBVIOUS
<1>3. QED
  BY <1>1, <1>2, PiecesAreWritten

-----------------------------------------------------------------------------
(* The invariant.  While the loop over the document runs, the last call of *)
(* Write did not fail.  In a flat document without comments and relaxed    *)
(* assignments, none did.                                                  *)

WriterTyped ==
  /\ options \in GenerateOptions /\ doc \in Seq(Nodes) /\ IsWriter(w)
  /\ todo \in Seq(Seq(Nodes)) /\ Len(todo) > 0
  /\ \A k \in 1 .. Len(todo) - 1 : todo[k] # << >>
  /\ outcome \in {"none", "nil", "error"}

Flawless == ~CanForget => Len(todo) = 1 /\ Noticed(w) /\ todo[1] \in Seq(Range(doc))

WriterInv ==
  /\ WriterTyped
  /\ outcome # "error" => ~w.err
  /\ outcome = "nil" => Len(todo) = 1
  /\ Len(todo) = 1 /\ outcome # "error" => w.calls = 0 \/ w.calls \notin w.fault
  /\ Flawless

LEMMA InitWriterInv == WriterInit => WriterInv
<1> SUFFICES ASSUME WriterInit PROVE WriterInv
  OBVIOUS
<1>1. PICK c \in Cases : /\ doc = c.doc /\ todo = <<c.doc>>
                         /\ options = c.options /\ w = NewWriter(c.fault)
  BY DEF WriterInit
<1>2. doc \in Seq(Nodes) /\ options \in GenerateOptions
  BY <1>1, CasesAssumption
<1>3. IsWriter(w) /\ Noticed(w) /\ w.calls = 0 /\ ~w.err
  BY <1>1 DEF NewWriter, IsWriter, Noticed
<1>4. todo \in Seq(Seq(Nodes)) /\ Len(todo) = 1 /\ todo[1] = doc
  <2>1. ASSUME NEW S, NEW d \in S
        PROVE  <<d>> \in Seq(S) /\ Len(<<d>>) = 1 /\ <<d>>[1] = d
    OBVIOUS
  <2>2. QED
    BY <1>1, <1>2, <2>1
<1>5. doc \in Seq(Range(doc))
  BY <1>2, SeqOfRange
<1>6. outcome = "none"
  BY DEF WriterInit
<1>7. WriterTyped
  BY <1>2, <1>3, <1>4, <1>6 DEF WriterTyped
<1>8. Flawless
  BY <1>3, <1>4, <1>5 DEF Flawless
<1>9. QED
  BY <1>3, <1>4, <1>6, <1>7, <1>8 DEF WriterInv

-----------------------------------------------------------------------------
(* The steps *)

\* What a call of WriteToOptions leaves behind, of which the last write is known
ReturnsWith(v) ==
  IsWriter(v) /\ Checked(v) /\ (~CanForget => Noticed(v))

LEMMA ReturnStep ==
  ASSUME WriterTyped, outcome = "none", NEW lists \in Seq(Seq(Nodes)), Len(lists) > 0,
         \A k \in 1 .. Len(lists) : lists[k] # << >>,
         ~CanForget => Len(lists) = 1 /\ lists[1] \in Seq(Range(doc)),
         NEW v, ReturnsWith(v), NodeReturns(v, lists), UNCHANGED <<doc, options>>
  PROVE  WriterInv'
<1> DEFINE n == Len(lists)
<1>1. /\ n \in Nat /\ n > 0 /\ n \in 1 .. n
      /\ \A k \in 1 .. n : lists[k] \in Seq(Nodes) /\ lists[k] # << >>
      /\ \A k \in 1 .. n - 1 : lists[k] # << >>
  <2>1. n \in Nat
    BY LenProperties
  <2>2. \A k \in 1 .. n - 1 : k \in 1 .. n
    BY <2>1
  <2>3. QED
    BY <2>1, <2>2, ElementOfSeq
<1>2. IsWriter(v) /\ (v.err <=> v.calls \in v.fault) /\ (~CanForget => Noticed(v))
  BY DEF ReturnsWith, Checked
<1>3. options' \in GenerateOptions /\ doc' \in Seq(Nodes) /\ CanForget' = CanForget /\ doc' = doc
  BY DEF WriterTyped, CanForget
<1>4. ASSUME NEW last \in Seq(Nodes), todo' = [lists EXCEPT ![n] = last]
      PROVE  /\ todo' \in Seq(Seq(Nodes)) /\ Len(todo') = n /\ todo'[n] = last
             /\ \A k \in 1 .. n - 1 : todo'[k] # << >>
  <2>1. todo' \in Seq(Seq(Nodes)) /\ Len(todo') = n
    BY <1>1, <1>4, ExceptSeq
  <2>2. todo'[n] = last /\ \A k \in 1 .. n - 1 : todo'[k] = lists[k]
    BY <1>1, <1>4, LenProperties
  <2>3. QED
    BY <1>1, <2>1, <2>2
<1>5. CASE ~v.err /\ w' = v /\ todo' = [lists EXCEPT ![n] = Tail(@)] /\ UNCHANGED outcome
  <2> DEFINE last == Tail(lists[n])
  <2>1. last \in Seq(Nodes) /\ \A R : lists[n] \in Seq(R) => last \in Seq(R)
    BY <1>1, HeadTailProperties
  <2>2. todo' = [lists EXCEPT ![n] = last]
    BY <1>5
  <2> HIDE DEF last
  <2>3. /\ todo' \in Seq(Seq(Nodes)) /\ Len(todo') = n /\ todo'[n] = last
        /\ \A k \in 1 .. n - 1 : todo'[k] # << >>
    BY <1>4, <2>1, <2>2
  <2>4. WriterTyped'
    BY <1>1, <1>2, <1>3, <1>5, <2>3 DEF WriterTyped, IsWriter
  <2>5. Flawless'
    BY <1>1, <1>2, <1>3, <1>5, <2>1, <2>3 DEF Flawless, Noticed
  <2>6. QED
    BY <1>2, <1>5, <2>4, <2>5 DEF WriterInv
<1>6. CASE v.err /\ n = 1 /\ w' = v /\ todo' = lists /\ outcome' = "error"
  <2>1. todo' \in Seq(Seq(Nodes)) /\ Len(todo') > 0 /\ \A k \in 1 .. Len(todo') - 1 : todo'[k] # << >>
    BY <1>1, <1>6
  <2>2. IsWriter(w') /\ outcome' = "error"
    BY <1>2, <1>6
  <2>3. WriterTyped'
    BY <1>3, <2>1, <2>2 DEF WriterTyped, IsWriter
  <2>4. Flawless'
    BY <1>1, <1>2, <1>3, <1>6 DEF Flawless, Noticed
  <2>5. QED
    BY <1>6, <2>3, <2>4 DEF WriterInv
<1>7. CASE /\ v.err /\ n > 1 /\ w' = [v EXCEPT !.err = FALSE]
           /\ todo' = [lists EXCEPT ![n] = << >>] /\ UNCHANGED outcome
  <2>1. << >> \in Seq(Nodes)
    OBVIOUS
  <2>2. /\ todo' \in Seq(Seq(Nodes)) /\ Len(todo') = n
        /\ \A k \in 1 .. n - 1 : todo'[k] # << >>
    BY <1>4, <1>7, <2>1
  <2>3. IsWriter(w') /\ ~w'.err
    <3>1. w' = [v EXCEPT !.err = FALSE]
      BY <1>7
    <3>2. w' = [out |-> v.out, calls |-> v.calls, fault |-> v.fault, err |-> FALSE, lost |-> v.lost]
      BY <1>2, <3>1 DEF IsWriter
    <3>3. QED
      BY <1>2, <3>2 DEF IsWriter
  <2>4. WriterTyped'
    BY <1>1, <1>3, <1>7, <2>2, <2>3 DEF WriterTyped, IsWriter
  <2>5. CanForget /\ n # 1
    BY <1>7
  <2>6. Flawless'
    BY <1>3, <2>5 DEF Flawless
  <2>7. QED
    BY <1>7, <2>2, <2>3, <2>4, <2>5, <2>6 DEF WriterInv
<1>8. QED
  BY <1>5, <1>6, <1>7 DEF NodeReturns

\* Where nothing can be forgotten, a node of the document is plain.
LEMMA PlainNodes ==
  ASSUME ~CanForget, NEW n \in Range(doc)
  PROVE  /\ n.children = << >> /\ n.before = << >> /\ n.after = << >>
         /\ ~options.addEquals /\ ~options.addColons
  BY DEF CanForget, Range

LEMMA LastWriteStep ==
  ASSUME NEW v, IsWriter(v), Checked(v), NEW n \in Nodes, NEW depth,
         ~CanForget => Noticed(v) /\ n.after = << >>
  PROVE  ReturnsWith(WriteEnd(v, n, depth))
<1>1. CASE v.err
  BY <1>1 DEF WriteEnd, ReturnsWith
<1>2. CASE ~v.err /\ n.after # << >>
  <2> DEFINE p == AfterPieces(n.after, Indent(options, depth))
             u == WritePieces(v, p)
  <2>1. n.after \in AnyText
    BY NodesAssumption DEF String, AnyText
  <2>2. PiecesOf(BOOLEAN, p)
    BY <2>1, CommentPieces
  <2> HIDE DEF p
  <2>3. IsWriter(u) /\ Checked(u)
    BY <2>2, WritingPieces
  <2>4. WriteEnd(v, n, depth) = u
    BY <1>2 DEF WriteEnd, p
  <2> HIDE DEF u
  <2>5. QED
    BY <1>2, <2>3, <2>4 DEF ReturnsWith
<1>3. CASE ~v.err /\ n.after = << >>
  <2>1. WriteEnd(v, n, depth) = Write(v, <<"\n">>)
    BY <1>3 DEF WriteEnd
  <2>2. QED
    BY <1>3, <2>1, WriteOnce DEF ReturnsWith
<1>4. QED
  BY <1>1, <1>2, <1>3

\* The node whose turn it is, and what is known once its head is written
LEMMA HeadStep ==
  ASSUME WriterInv, outcome = "none", Last(todo) # << >>
  PROVE  LET n    == Head(Last(todo))
             head == WritePieces(w, HeadPieces(n, options, Depth))
         IN  /\ n \in Nodes
             /\ ~CanForget => /\ Len(todo) = 1 /\ todo[1] \in Seq(Range(doc))
                              /\ n.children = << >> /\ n.after = << >>
             /\ ReturnsWith(head)
             /\ \A k \in 1 .. Len(todo) : todo[k] # << >>
<1> DEFINE n == Head(Last(todo))
           p == HeadPieces(n, options, Depth)
           head == WritePieces(w, p)
           B == IF CanForget THEN BOOLEAN ELSE {FALSE}
<1>1. todo \in Seq(Seq(Nodes)) /\ Len(todo) \in Nat /\ Len(todo) > 0 /\ Last(todo) = todo[Len(todo)]
  BY LenProperties DEF WriterInv, WriterTyped, Last
<1>2. Last(todo) \in Seq(Nodes)
  BY <1>1, ElementOfSeq
<1>3. n \in Nodes
  BY <1>2, HeadTailProperties
<1>4. ~CanForget => Len(todo) = 1 /\ todo[1] \in Seq(Range(doc)) /\ Noticed(w)
  BY DEF WriterInv, Flawless
<1>5. ~CanForget => n \in Range(doc)
  <2>1. ~CanForget => Last(todo) \in Seq(Range(doc))
    BY <1>1, <1>4
  <2>2. QED
    BY <2>1, HeadTailProperties
<1> HIDE DEF n
<1>6. ~CanForget => /\ n.children = << >> /\ n.before = << >> /\ n.after = << >>
                    /\ ~options.addEquals /\ ~options.addColons
  BY <1>5, PlainNodes
<1>7. Depth \in Nat /\ (Len(todo) = 1 => Depth = 0)
  BY <1>1 DEF Depth
<1>8. PiecesOf(B, p) /\ p # << >>
  <2>1. CASE CanForget
    <3>1. FALSE \in B /\ TRUE \in B
      BY <2>1
    <3> HIDE DEF B
    <3>2. QED
      BY <1>3, <1>7, <3>1, HeadIsPieces
  <2>2. CASE ~CanForget
    <3>1. FALSE \in B
      BY <2>2
    <3>2. Depth = 0 /\ n.before = << >> /\ ~options.addEquals /\ ~options.addColons
      BY <1>4, <1>6, <1>7, <2>2
    <3> HIDE DEF B
    <3>3. QED
      BY <1>3, <1>7, <3>1, <3>2, HeadIsPieces
  <2>3. QED
    BY <2>1, <2>2
<1>9. IsWriter(w) /\ ~w.err
  BY DEF WriterInv, WriterTyped
<1>10. B \in SUBSET BOOLEAN /\ (~CanForget => TRUE \notin B)
  OBVIOUS
<1> HIDE DEF p, B
<1>11. IsWriter(head) /\ Checked(head) /\ (TRUE \notin B /\ Noticed(w) => Noticed(head))
  BY <1>8, <1>9, <1>10, WritingPieces
<1>12. ReturnsWith(head)
  BY <1>4, <1>10, <1>11 DEF ReturnsWith
<1>13. \A k \in 1 .. Len(todo) : todo[k] # << >>
  <2>1. \A k \in 1 .. Len(todo) : k = Len(todo) \/ k \in 1 .. Len(todo) - 1
    BY <1>1
  <2>2. QED
    BY <1>1, <2>1 DEF WriterInv, WriterTyped
<1>14. QED
  BY <1>3, <1>4, <1>6, <1>12, <1>13 DEF head, p, n

LEMMA LeafStep ==
  ASSUME WriterInv, WriteLeaf
  PROVE  WriterInv'
<1> DEFINE n    == Head(Last(todo))
           head == WritePieces(w, HeadPieces(n, options, Depth))
           body == IF options.addSemicolons /\ ~head.err THEN Write(head, <<";">>) ELSE head
<1>1. outcome = "none" /\ Last(todo) # << >> /\ UNCHANGED <<doc, options>>
  BY DEF WriteLeaf
<1>2. NodeReturns(WriteEnd(body, n, Depth), todo)
  BY DEF WriteLeaf
<1>3. /\ n \in Nodes /\ ReturnsWith(head)
      /\ ~CanForget => Len(todo) = 1 /\ todo[1] \in Seq(Range(doc)) /\ n.after = << >>
      /\ \A k \in 1 .. Len(todo) : todo[k] # << >>
  BY <1>1, HeadStep
<1> HIDE DEF n, head
<1>4. IsWriter(body) /\ Checked(body) /\ (~CanForget => Noticed(body))
  BY <1>3, WriteOnce DEF ReturnsWith
<1> HIDE DEF body
<1>5. ReturnsWith(WriteEnd(body, n, Depth))
  BY <1>3, <1>4, LastWriteStep
<1>6. WriterTyped /\ todo \in Seq(Seq(Nodes)) /\ Len(todo) > 0
  BY DEF WriterInv, WriterTyped
<1>7. QED
  BY <1>1, <1>2, <1>3, <1>5, <1>6, ReturnStep

LEMMA EnterStep ==
  ASSUME WriterInv, EnterChildren
  PROVE  WriterInv'
<1> DEFINE n      == Head(Last(todo))
           head   == WritePieces(w, HeadPieces(n, options, Depth))
           opened == IF head.err THEN head ELSE Write(head, <<" ", "{", "\n">>)
<1>1. outcome = "none" /\ Last(todo) # << >> /\ UNCHANGED <<doc, options>>
  BY DEF EnterChildren
<1>2. /\ n.children # << >>
      /\ \/ opened.err /\ NodeReturns(opened, todo)
         \/ ~opened.err /\ w' = opened /\ todo' = Append(todo, n.children) /\ UNCHANGED outcome
  BY DEF EnterChildren
<1>3. /\ n \in Nodes /\ ReturnsWith(head) /\ CanForget
      /\ \A k \in 1 .. Len(todo) : todo[k] # << >>
  BY <1>1, <1>2, HeadStep
<1> HIDE DEF n, head
<1>4. ReturnsWith(opened)
  BY <1>3, WriteOnce DEF ReturnsWith
<1> HIDE DEF opened
<1>5. WriterTyped /\ todo \in Seq(Seq(Nodes)) /\ Len(todo) > 0 /\ Len(todo) \in Nat
  BY LenProperties DEF WriterInv, WriterTyped
<1>6. CASE opened.err /\ NodeReturns(opened, todo)
  BY <1>1, <1>3, <1>4, <1>5, <1>6, ReturnStep
<1>7. CASE ~opened.err /\ w' = opened /\ todo' = Append(todo, n.children) /\ UNCHANGED outcome
  <2>1. n.children \in Seq(Nodes)
    BY <1>3, NodesAssumption
  <2>2. /\ todo' \in Seq(Seq(Nodes)) /\ Len(todo') = Len(todo) + 1
        /\ \A k \in 1 .. Len(todo) : todo'[k] = todo[k]
    BY <1>5, <1>7, <2>1, AppendProperties
  <2>3. WriterTyped'
    BY <1>1, <1>3, <1>4, <1>5, <1>7, <2>2 DEF WriterTyped, ReturnsWith, IsWriter
  <2>4. CanForget' /\ Len(todo') # 1 /\ outcome' = "none" /\ ~w'.err
    BY <1>1, <1>3, <1>5, <1>7, <2>2 DEF CanForget
  <2>5. QED
    BY <2>3, <2>4 DEF WriterInv, Flawless
<1>8. QED
  BY <1>2, <1>6, <1>7

LEMMA LeaveStep ==
  ASSUME WriterInv, LeaveChildren
  PROVE  WriterInv'
<1> DEFINE lists == Front(todo)
           n     == Head(Last(lists))
           depth == Len(lists) - 1
           p == (IF depth > 0 THEN <<Piece(Indent(options, depth))>> ELSE << >>) \o <<Piece(<<"}">>)>>
           closed == WritePieces(w, p)
<1>1. outcome = "none" /\ Len(todo) > 1 /\ UNCHANGED <<doc, options>>
  BY DEF LeaveChildren
<1>2. NodeReturns(WriteEnd(closed, n, depth), lists)
  BY DEF LeaveChildren
<1>3. todo \in Seq(Seq(Nodes)) /\ Len(todo) \in Nat /\ WriterTyped /\ IsWriter(w) /\ ~w.err /\ CanForget
  <2>1. todo \in Seq(Seq(Nodes)) /\ WriterTyped /\ IsWriter(w)
    BY DEF WriterInv, WriterTyped
  <2>2. Len(todo) \in Nat /\ Len(todo) # 1
    <3> DEFINE m == Len(todo)
    <3>1. m \in Nat
      BY <2>1, LenProperties
    <3>2. m > 1
      BY <1>1
    <3> HIDE DEF m
    <3>3. m # 1
      BY ONLY <3>1, <3>2
    <3>4. QED
      BY <3>1, <3>3 DEF m
  <2>3. (outcome # "error" => ~w.err) /\ (~CanForget => Len(todo) = 1)
    BY DEF WriterInv, Flawless
  <2>4. QED
    BY <1>1, <2>1, <2>2, <2>3
<1>4. /\ lists \in Seq(Seq(Nodes)) /\ Len(lists) = Len(todo) - 1
      /\ \A k \in 1 .. Len(lists) : lists[k] = todo[k]
  <2>1. lists = SubSeq(todo, 1, Len(todo) - 1)
    BY DEF Front
  <2> HIDE DEF lists
  <2>2. \A i \in 1 .. Len(todo) - 1 : todo[i] \in Seq(Nodes)
    BY <1>3, ElementOfSeq
  <2>3. /\ lists \in Seq(Seq(Nodes))
        /\ Len(lists) = IF 1 <= Len(todo) - 1 THEN Len(todo) - 1 - 1 + 1 ELSE 0
        /\ \A i \in 1 .. Len(todo) - 1 - 1 + 1 : lists[i] = todo[1 + i - 1]
    BY <1>3, <2>1, <2>2, SubSeqProperties
  <2>4. Len(lists) = Len(todo) - 1 /\ Len(todo) - 1 - 1 + 1 = Len(todo) - 1
    BY <1>1, <1>3, <2>3
  <2>5. \A k \in 1 .. Len(lists) : lists[k] = todo[k]
    <3>1. \A k \in 1 .. Len(lists) : lists[k] = todo[1 + k - 1] /\ 1 + k - 1 = k
      BY <1>3, <2>3, <2>4
    <3>2. QED
      BY <3>1
  <2>6. QED
    BY <2>3, <2>4, <2>5
<1> HIDE DEF lists
<1>5. Len(lists) > 0 /\ \A k \in 1 .. Len(lists) : lists[k] # << >>
  BY <1>1, <1>3, <1>4 DEF WriterTyped
<1>6. n \in Nodes
  <2>1. Last(lists) \in Seq(Nodes) /\ Last(lists) # << >>
    BY <1>3, <1>4, <1>5, ElementOfSeq DEF Last
  <2>2. QED
    BY <2>1, HeadTailProperties
<1> HIDE DEF n, depth
<1>7. PiecesOf(BOOLEAN, p) /\ p # << >>
  <2> DEFINE a == IF depth > 0 THEN <<Piece(Indent(options, depth))>> ELSE << >>
             b == <<Piece(<<"}">>)>>
  <2>1. PiecesOf(BOOLEAN, a)
    BY NoPieces, OnePiece
  <2>2. PiecesOf(BOOLEAN, b) /\ b # << >>
    BY OnePiece
  <2>3. p = a \o b
    OBVIOUS
  <2> HIDE DEF a, b, p
  <2>4. QED
    BY <2>1, <2>2, <2>3, MorePieces
<1> HIDE DEF p
<1>8. IsWriter(closed) /\ Checked(closed)
  BY <1>3, <1>7, WritingPieces
<1> HIDE DEF closed
<1>9. ReturnsWith(WriteEnd(closed, n, depth))
  BY <1>3, <1>6, <1>8, LastWriteStep
<1>10. QED
  BY <1>1, <1>2, <1>3, <1>4, <1>5, <1>9, ReturnStep

LEMMA GenerateEndStep ==
  ASSUME WriterInv, GenerateEnd
  PROVE  WriterInv'
<1>1. /\ outcome = "none" /\ todo = <<<< >>>> /\ outcome' = "nil"
      /\ doc' = doc /\ options' = options /\ w' = w /\ todo' = todo
  BY DEF GenerateEnd
<1>2. Len(todo) = 1
  BY <1>1
<1>3. WriterTyped'
  BY <1>1 DEF WriterInv, WriterTyped, IsWriter
<1>4. Flawless'
  BY <1>1 DEF WriterInv, Flawless, CanForget, Noticed
<1>5. QED
  BY <1>1, <1>2, <1>3, <1>4 DEF WriterInv

LEMMA StutterWriterInv ==
  ASSUME WriterInv, UNCHANGED writerVars
  PROVE  WriterInv'
<1>1. doc' = doc /\ options' = options /\ w' = w /\ todo' = todo /\ outcome' = outcome
  BY DEF writerVars
<1>2. WriterTyped' /\ Flawless'
  BY <1>1 DEF WriterInv, WriterTyped, IsWriter, Flawless, CanForget, Noticed
<1>3. QED
  BY <1>1, <1>2 DEF WriterInv

LEMMA WriterInvariance == WriterSpec => []WriterInv
<1>1. WriterInv /\ [Generate]_writerVars => WriterInv'
  <2> SUFFICES ASSUME WriterInv, Generate \/ UNCHANGED writerVars
               PROVE  WriterInv'
    OBVIOUS
  <2>1. QED
    BY LeafStep, EnterStep, LeaveStep, GenerateEndStep, StutterWriterInv DEF Generate
<1>2. QED
  BY <1>1, InitWriterInv, PTL DEF WriterSpec

-----------------------------------------------------------------------------
(* The theorems *)

\* Generate reports that text is missing, for every document and whichever calls
\* of Write fail: what it reports is whether the last call failed, so a writer
\* that fails for good is always noticed; and in a flat document without comments
\* and relaxed assignments every failure is.
THEOREM OnlyPassingFaultsGoUnnoticed == WriterSpec => []LossIsReported
<1>1. WriterInv => LossIsReported
  BY DEF WriterInv, WriterTyped, IsWriter, Flawless, Noticed, LossIsReported
<1>2. QED
  BY <1>1, WriterInvariance, PTL

-----------------------------------------------------------------------------
(* Where the parts of a sequence stand in it *)

Upto(ss, k) == IF k = 0 THEN << >> ELSE Flat(ss)[k]

LEMMA PartsAreSequences ==
  ASSUME NEW S, NEW ss \in Seq(Seq(S))
  PROVE  /\ Len(ss) \in Nat /\ FlattenSeq(ss) = Upto(ss, Len(ss))
         /\ \A k \in 1 .. Len(ss) : /\ Upto(ss, k) = Upto(ss, k - 1) \o ss[k]
                                    /\ ss[k] \in Seq(S)
         /\ \A k \in 0 .. Len(ss) : Upto(ss, k) \in Seq(S)
<1> DEFINE n == Len(ss)
           T == { k \in 0 .. n : Upto(ss, k) \in Seq(S) }
<1>1. n \in Nat /\ (n = 0 <=> ss = << >>) /\ \A k \in 1 .. n : ss[k] \in Seq(S)
  BY LenProperties, ElementOfSeq, EmptySeq
<1>2. ASSUME NEW k \in 1 .. n
      PROVE  Upto(ss, k) = Upto(ss, k - 1) \o ss[k]
  <2>1. k # 0 /\ (k - 1 = 0 <=> k = 1)
    BY <1>1
  <2>2. Flat(ss)[k] = IF k = 1 THEN ss[k] ELSE Flat(ss)[k - 1] \o ss[k]
    BY FlattenIs
  <2>3. CASE k = 1
    <3>1. << >> \o ss[k] = ss[k]
      BY <1>1, ConcatEmptySeq
    <3>2. QED
      BY <2>1, <2>2, <2>3, <3>1 DEF Upto
  <2>4. CASE k # 1
    BY <2>1, <2>2, <2>4 DEF Upto
  <2>5. QED
    BY <2>3, <2>4
<1>3. FlattenSeq(ss) = Upto(ss, n)
  <2>1. (ss = << >> => FlattenSeq(ss) = << >>) /\ (ss # << >> => FlattenSeq(ss) = Flat(ss)[n])
    BY FlattenIs
  <2>2. QED
    BY <1>1, <2>1 DEF Upto
<1>4. ASSUME NEW k \in 0 .. n, \A j \in 0 .. k - 1 : j \in T
      PROVE  k \in T
  <2>1. CASE k = 0
    <3>1. Upto(ss, k) = << >>
      BY <2>1 DEF Upto
    <3>2. << >> \in Seq(S)
      OBVIOUS
    <3>3. QED
      BY <3>1, <3>2
  <2>2. CASE k # 0
    <3>1. k - 1 \in 0 .. k - 1 /\ k \in 1 .. n
      BY <1>1, <2>2
    <3>2. Upto(ss, k - 1) \in Seq(S) /\ ss[k] \in Seq(S) /\ Upto(ss, k) = Upto(ss, k - 1) \o ss[k]
      BY <1>1, <1>2, <1>4, <3>1
    <3>3. Upto(ss, k) \in Seq(S)
      BY <3>2, ConcatProperties
    <3>4. QED
      BY <3>3
  <2>3. QED
    BY <2>1, <2>2
<1>5. \A k \in 0 .. n : (\A j \in 0 .. k - 1 : j \in T) => k \in T
  BY <1>4
<1> HIDE DEF T
<1>6. \A k \in 0 .. n : k \in T
  BY <1>1, <1>5, FromTheStart
<1>7. QED
  BY <1>1, <1>2, <1>3, <1>6 DEF T

LEMMA PartsStayInPlace ==
  ASSUME NEW S, NEW ss \in Seq(Seq(S)), NEW k \in 0 .. Len(ss)
  PROVE  \A m \in 0 .. Len(ss) : k <= m =>
           /\ Len(Upto(ss, k)) \in Nat /\ Len(Upto(ss, m)) \in Nat
           /\ Len(Upto(ss, k)) <= Len(Upto(ss, m))
           /\ \A j \in 1 .. Len(Upto(ss, k)) : Upto(ss, m)[j] = Upto(ss, k)[j]
<1> DEFINE n == Len(ss)
           a == Upto(ss, k)
           Good(m) == k <= m => /\ Len(a) \in Nat /\ Len(Upto(ss, m)) \in Nat
                                /\ Len(a) <= Len(Upto(ss, m))
                                /\ \A j \in 1 .. Len(a) : Upto(ss, m)[j] = a[j]
           T == { m \in 0 .. n : Good(m) }
<1>1. n \in Nat /\ a \in Seq(S) /\ Len(a) \in Nat
  BY PartsAreSequences, LenProperties
<1>2. ASSUME NEW m \in 0 .. n, \A j \in 0 .. m - 1 : j \in T
      PROVE  Good(m)
  <2>1. CASE m < k
    BY <1>1, <2>1
  <2>2. CASE m = k
    BY <1>1, <2>2
  <2>3. CASE m > k
    <3>1. m - 1 \in 0 .. m - 1 /\ m \in 1 .. n /\ m - 1 \in 0 .. n /\ k <= m - 1
      BY <1>1, <2>3
    <3> DEFINE b == Upto(ss, m - 1)
               c == ss[m]
    <3>2. b \in Seq(S) /\ c \in Seq(S) /\ Upto(ss, m) = b \o c
      BY <3>1, PartsAreSequences
    <3>3. Len(a) <= Len(b) /\ \A j \in 1 .. Len(a) : b[j] = a[j]
      BY <1>2, <3>1
    <3> HIDE DEF a, b, c
    <3>4. /\ Len(b) \in Nat /\ Len(c) \in Nat /\ Len(b \o c) = Len(b) + Len(c)
          /\ \A j \in 1 .. Len(b) + Len(c) : (b \o c)[j] = IF j <= Len(b) THEN b[j] ELSE c[j - Len(b)]
      BY <3>2, ConcatProperties, LenProperties
    <3>5. \A j \in 1 .. Len(a) : j \in 1 .. Len(b) + Len(c) /\ j <= Len(b)
      BY <1>1, <3>3, <3>4
    <3>6. QED
      BY <1>1, <3>2, <3>3, <3>4, <3>5
  <2>4. QED
    BY <1>1, <2>1, <2>2, <2>3
<1> HIDE DEF Good
<1>3. \A m \in 0 .. n : (\A j \in 0 .. m - 1 : j \in T) => m \in T
  BY <1>2
<1> HIDE DEF T
<1>4. \A m \in 0 .. n : m \in T
  BY <1>1, <1>3, FromTheStart
<1>5. QED
  BY <1>4 DEF T, Good

\* Part k stands after the first k - 1 parts.
LEMMA WhereAPartStands ==
  ASSUME NEW S, NEW ss \in Seq(Seq(S)), NEW k \in 1 .. Len(ss)
  PROVE  LET o == Len(Upto(ss, k - 1))
             f == FlattenSeq(ss)
         IN  /\ o \in Nat /\ Len(f) \in Nat /\ Len(ss[k]) \in Nat
             /\ Len(Upto(ss, k)) = o + Len(ss[k])
             /\ o + Len(ss[k]) <= Len(f)
             /\ \A j \in 1 .. Len(ss[k]) : f[o + j] = ss[k][j]
<1> DEFINE n == Len(ss)
           a == Upto(ss, k - 1)
           b == ss[k]
           f == FlattenSeq(ss)
<1>1. n \in Nat /\ k - 1 \in 0 .. n /\ k \in 0 .. n /\ n \in 0 .. n /\ k <= n
  BY PartsAreSequences
<1>2. a \in Seq(S) /\ b \in Seq(S) /\ Upto(ss, k) = a \o b /\ f = Upto(ss, n)
  BY <1>1, PartsAreSequences
<1>3. /\ Len(f) \in Nat /\ Len(Upto(ss, k)) <= Len(f)
      /\ \A j \in 1 .. Len(Upto(ss, k)) : f[j] = Upto(ss, k)[j]
  BY <1>1, <1>2, PartsStayInPlace
<1> HIDE DEF a, b, f
<1>4. /\ Len(a) \in Nat /\ Len(b) \in Nat /\ Len(a \o b) = Len(a) + Len(b)
      /\ \A j \in 1 .. Len(a) + Len(b) : (a \o b)[j] = IF j <= Len(a) THEN a[j] ELSE b[j - Len(a)]
  BY <1>2, ConcatProperties, LenProperties
<1>5. ASSUME NEW j \in 1 .. Len(b)
      PROVE  f[Len(a) + j] = b[j]
  <2>1. Len(a) + j \in 1 .. Len(a) + Len(b) /\ ~(Len(a) + j <= Len(a)) /\ Len(a) + j - Len(a) = j
    BY <1>4
  <2>2. f[Len(a) + j] = (a \o b)[Len(a) + j]
    BY <1>2, <1>3, <1>4, <2>1
  <2>3. (a \o b)[Len(a) + j] = IF Len(a) + j <= Len(a) THEN a[Len(a) + j] ELSE b[Len(a) + j - Len(a)]
    BY <1>4, <2>1
  <2>4. QED
    BY <2>1, <2>2, <2>3
<1>6. QED
  BY <1>2, <1>3, <1>4, <1>5 DEF a, b, f

-----------------------------------------------------------------------------
(* What a quoted string is unquoted to *)

\* The characters whose escape, if they have one, is not by number
Quotable == Char \ {"<0>", "<1>", "<7f>"}

\* What an escaped character stands for
Meaning(x) == IF x \in Range(Escapes) THEN CHOOSE c \in DOMAIN Escapes : Escapes[c] = x ELSE x

LEMMA EscapedIs ==
  ASSUME NEW c \in Quotable
  PROVE  /\ Escaped(c) \in Seq(Char)
         /\ \/ Escaped(c) = <<c>> /\ c \notin {"\"", "\\", Bad}
            \/ \E x \in Char \ ({"u"} \cup NotASCII) :
                 Escaped(c) = <<"\\", x>> /\ Meaning(x) = c /\ (x = "\"" => c = "\"")
<1>1. /\ Range(Escapes) = {"n", "r", "t", "b", "f"}
      /\ DOMAIN Escapes = {"\n", "\r", "\t", "<8>", "\f"}
      /\ Escapes["\n"] = "n" /\ Escapes["\r"] = "r" /\ Escapes["\t"] = "t"
      /\ Escapes["<8>"] = "b" /\ Escapes["\f"] = "f"
  BY DEF Escapes, Range
<1>2. c \in Char /\ c \notin {"<0>", "<1>", "<7f>", Bad} /\ "\\" \in Char
  BY NotCharacters DEF Quotable, Char, Marks
<1>3. ASSUME NEW x \in Char
      PROVE  <<"\\", x>> \in Seq(Char) /\ <<x>> \in Seq(Char)
  BY <1>2
<1>4. CASE c \in {"\"", "\\"}
  <2>1. Escaped(c) = <<"\\", c>>
    BY <1>4 DEF Escaped, Escapes, Bad
  <2>2. c \in Char \ ({"u"} \cup NotASCII) /\ c \notin Range(Escapes)
    BY <1>1, <1>2, <1>4 DEF NotASCII
  <2>3. Meaning(c) = c
    BY <2>2 DEF Meaning
  <2>4. QED
    BY <1>2, <1>3, <2>1, <2>2, <2>3
<1>5. CASE c \in DOMAIN Escapes
  <2> DEFINE x == Escapes[c]
  <2>1. Escaped(c) = <<"\\", x>>
    BY <1>1, <1>5 DEF Escaped, Bad
  <2>2. x \in Range(Escapes) /\ x \in Char \ ({"u"} \cup NotASCII) /\ x # "\""
    BY <1>1, <1>5 DEF NotASCII, Char, Letters
  <2>3. \A d \in DOMAIN Escapes : Escapes[d] = x => d = c
    BY <1>1, <1>5
  <2>4. Meaning(x) = c
    <3> HIDE DEF x
    <3>1. (CHOOSE d \in DOMAIN Escapes : Escapes[d] = x) = c
      BY <1>5, <2>3 DEF x
    <3>2. QED
      BY <2>2, <3>1 DEF Meaning
  <2> HIDE DEF x
  <2>5. QED
    BY <1>3, <2>1, <2>2, <2>4
<1>6. CASE c \notin {"\"", "\\"} \cup DOMAIN Escapes
  <2>1. Escaped(c) = <<c>>
    BY <1>1, <1>2, <1>6 DEF Escaped
  <2>2. QED
    BY <1>2, <1>3, <1>6, <2>1
<1>7. QED
  BY <1>4, <1>5, <1>6

\* One step of AppendUnquotedString, where from has what comes of the rest
UnescapedAt(t, from, i) ==
  IF i > Len(t) THEN Valued(<< >>)
  ELSE IF t[i] = Bad THEN Preceded(Replacement, from[i + 1])
  ELSE IF t[i] # "\\" THEN Preceded(<<t[i]>>, from[i + 1])
  ELSE IF i = Len(t) THEN Invalid
  ELSE CASE t[i + 1] \in Range(Escapes) ->
              Preceded(<<CHOOSE c \in DOMAIN Escapes : Escapes[c] = t[i + 1]>>, from[i + 2])
         [] t[i + 1] = "u" -> LET u == UnicodeEscape(t, i + 1)
                              IN  IF u.end = 0 THEN Invalid ELSE Preceded(<<u.rune>>, from[u.end])
         [] t[i + 1] \in NotASCII -> Preceded(<<Bad>> \o Replacement, from[i + 2])
         [] OTHER -> Preceded(<<t[i + 1]>>, from[i + 2])

LEMMA UnicodeEscapeEnds ==
  ASSUME NEW t \in AnyText, NEW i \in 1 .. Len(t)
  PROVE  UnicodeEscape(t, i).end \in {0} \cup i + 1 .. Len(t) + 1
<1> DEFINE closes == {k \in i + 2 .. Len(t) : t[k] = "}"}
           digits == SubSeq(t, i + 2, Min(closes) - 1)
           none   == i + 3 > Len(t) \/ At(t, i + 1) # "{" \/ closes = {}
           large  == Len(digits) > 6 \/ NumberOf(digits, 16) > 1114111
           e      == Min(closes) + 1
           r      == Rune(NumberOf(digits, 16))
<1>1. Len(t) \in Nat
  BY TextEnds
<1>2. UnicodeEscape(t, i) = IF none THEN [end |-> 0, rune |-> Bad]
                            ELSE IF large THEN [end |-> 0, rune |-> Bad] ELSE [end |-> e, rune |-> r]
  BY SMT DEF UnicodeEscape
<1>3. ~none => e \in i + 1 .. Len(t) + 1
  <2> DEFINE n == Len(t)
  <2>1. \A k \in closes : k \in i + 2 .. n
    OBVIOUS
  <2>2. n \in Nat /\ i \in 1 .. n
    BY <1>1
  <2>3. ~none => closes # {}
    OBVIOUS
  <2> HIDE DEF closes, none, n
  <2>4. closes \in SUBSET Nat /\ \A k \in closes : k + 1 \in i + 1 .. n + 1
    BY <2>1, <2>2
  <2>5. closes # {} => Min(closes) \in closes
    BY <2>4, Smallest
  <2>6. QED
    BY <2>3, <2>4, <2>5 DEF e, n
<1> HIDE DEF closes, digits, none, large, e, r
<1>4. QED
  BY <1>2, <1>3

LEMMA UnescapedLooksAhead ==
  ASSUME NEW t \in AnyText, NEW i \in 1 .. Len(t) + 2, NEW g, NEW h,
         \A j \in i + 1 .. Len(t) + 2 : g[j] = h[j]
  PROVE  UnescapedAt(t, g, i) = UnescapedAt(t, h, i)
<1>1. Len(t) \in Nat
  BY TextEnds
<1>2. CASE i > Len(t)
  BY <1>2 DEF UnescapedAt
<1>3. CASE ~(i > Len(t))
  <2>1. g[i + 1] = h[i + 1] /\ g[i + 2] = h[i + 2]
    BY <1>1, <1>3
  <2> DEFINE end == UnicodeEscape(t, i + 1).end
  <2>2. i # Len(t) => end = 0 \/ g[end] = h[end]
    <3>1. i # Len(t) => i + 1 \in 1 .. Len(t)
      BY <1>1, <1>3
    <3>2. i # Len(t) => end \in {0} \cup i + 2 .. Len(t) + 1
      BY <3>1, UnicodeEscapeEnds
    <3> HIDE DEF end
    <3>3. QED
      BY <1>1, <3>2
  <2> HIDE DEF end
  <2>3. QED
    BY <1>3, <2>1, <2>2 DEF UnescapedAt, end
<1>4. QED
  BY <1>2, <1>3

LEMMA UnescapedExists ==
  ASSUME NEW t \in AnyText
  PROVE  \E g : g = [i \in 1 .. Len(t) + 2 |-> UnescapedAt(t, g, i)]
<1> DEFINE N == Len(t) + 2
           Known(i) == \E g : g = [j \in i .. N |-> UnescapedAt(t, g, j)]
           T == { i \in 1 .. N : Known(i) }
<1>1. Len(t) \in Nat /\ N \in Nat /\ 1 \in 1 .. N
  BY TextEnds
<1>2. ASSUME NEW i \in 1 .. N, \A j \in i + 1 .. N : j \in T
      PROVE  Known(i)
  <2>1. PICK g : i < N => g = [j \in i + 1 .. N |-> UnescapedAt(t, g, j)]
    <3>1. CASE i < N
      <4>1. i + 1 \in i + 1 .. N
        BY <1>1, <3>1
      <4>2. QED
        BY <1>2, <4>1
    <3>2. CASE ~(i < N)
      BY <3>2
    <3>3. QED
      BY <3>1, <3>2
  <2> DEFINE h == [j \in i .. N |-> IF j = i THEN UnescapedAt(t, g, i) ELSE g[j]]
  <2>2. ASSUME NEW j \in i .. N
        PROVE  h[j] = UnescapedAt(t, h, j)
    <3>1. j \in 1 .. Len(t) + 2 /\ \A k \in j + 1 .. Len(t) + 2 : h[k] = g[k]
      BY <1>1
    <3>2. h[j] = UnescapedAt(t, g, j)
      <4>1. CASE j = i
        BY <4>1
      <4>2. CASE j # i
        <5>1. i < N /\ j \in i + 1 .. N
          BY <1>1, <4>2
        <5>2. g[j] = UnescapedAt(t, g, j)
          BY <2>1, <5>1
        <5>3. QED
          BY <4>2, <5>2
      <4>3. QED
        BY <4>1, <4>2
    <3> HIDE DEF h
    <3>3. QED
      BY <3>1, <3>2, UnescapedLooksAhead
  <2>3. h = [j \in i .. N |-> UnescapedAt(t, h, j)]
    BY <2>2
  <2>4. QED
    BY <2>3
<1> HIDE DEF Known
<1>3. \A i \in 1 .. N : i \in T
  <2>1. \A i \in 1 .. N : (\A j \in i + 1 .. N : j \in T) => i \in T
    BY <1>2
  <2> HIDE DEF T, N
  <2>2. QED
    BY <1>1, <2>1, FromTheEnd
<1>4. QED
  BY <1>1, <1>3 DEF Known

\* The escapes of a string, one sequence for each of its characters
EscapesOf(s) == [i \in DOMAIN s |-> Escaped(s[i])]

LEMMA EscapesType ==
  ASSUME NEW s \in Seq(Quotable)
  PROVE  /\ EscapesOf(s) \in Seq(Seq(Char)) /\ Len(EscapesOf(s)) = Len(s) /\ Len(s) \in Nat
         /\ FlattenSeq(EscapesOf(s)) \in Seq(Char) /\ FlattenSeq(EscapesOf(s)) \in AnyText
         /\ \A k \in 1 .. Len(s) : s[k] \in Quotable /\ EscapesOf(s)[k] = Escaped(s[k])
<1> DEFINE ss == EscapesOf(s)
<1>1. Len(s) \in Nat /\ DOMAIN s = 1 .. Len(s) /\ \A k \in 1 .. Len(s) : s[k] \in Quotable
  BY LenProperties, ElementOfSeq
<1>2. \A k \in 1 .. Len(s) : Escaped(s[k]) \in Seq(Char)
  BY <1>1, EscapedIs
<1>3. ss = [k \in 1 .. Len(s) |-> Escaped(s[k])]
  BY <1>1 DEF EscapesOf
<1> HIDE DEF ss
<1>4. ss \in [1 .. Len(s) -> Seq(Char)] /\ \A k \in 1 .. Len(s) : ss[k] = Escaped(s[k])
  BY <1>2, <1>3
<1>5. ss \in Seq(Seq(Char))
  BY <1>1, <1>4, IsASeq
<1>6. Len(ss) = Len(s)
  BY <1>1, <1>4, <1>5, LenProperties
<1>7. FlattenSeq(ss) \in Seq(Char)
  BY <1>5, FlattenType
<1>8. FlattenSeq(ss) \in AnyText
  BY <1>7, SeqMonotonic DEF AnyText
<1>9. QED
  BY <1>1, <1>4, <1>5, <1>6, <1>7, <1>8 DEF ss

\* Each escape is undone.
LEMMA EscapesAreUndone ==
  ASSUME NEW s \in Seq(Quotable)
  PROVE  Unescaped(FlattenSeq(EscapesOf(s))) = Valued(s)
<1> DEFINE ss == EscapesOf(s)
           n  == Len(s)
           t  == FlattenSeq(ss)
           G  == CHOOSE g : g = [i \in 1 .. Len(t) + 2 |-> UnescapedAt(t, g, i)]
           O(k) == Len(Upto(ss, k))
           Good(k) == G[O(k - 1) + 1] = Valued(SubSeq(s, k, n))
           T == { k \in 1 .. n + 1 : Good(k) }
<1>1. /\ ss \in Seq(Seq(Char)) /\ Len(ss) = n /\ n \in Nat /\ t \in AnyText
      /\ \A k \in 1 .. n : s[k] \in Quotable /\ ss[k] = Escaped(s[k])
  BY EscapesType
<1>2. Unescaped(t) = G[1]
  BY DEF Unescaped, UnescapedAt
<1> HIDE DEF ss
<1>3. t = Upto(ss, n) /\ Len(t) \in Nat /\ \A k \in 0 .. n : O(k) \in Nat
  <2>1. t = Upto(ss, n)
    BY <1>1, PartsAreSequences
  <2>2. \A k \in 0 .. n : Upto(ss, k) \in Seq(Char)
    BY <1>1, PartsAreSequences
  <2> HIDE DEF t
  <2>3. QED
    BY <1>1, <2>1, <2>2, TextEnds, LenProperties
<1>4. \A k \in 1 .. n : /\ O(k) = O(k - 1) + Len(ss[k]) /\ O(k) <= Len(t)
                        /\ \A j \in 1 .. Len(ss[k]) : t[O(k - 1) + j] = ss[k][j]
  <2>1. ASSUME NEW k \in 1 .. Len(ss)
        PROVE  /\ Len(Upto(ss, k)) = Len(Upto(ss, k - 1)) + Len(ss[k])
               /\ Len(Upto(ss, k - 1)) + Len(ss[k]) <= Len(t)
               /\ \A j \in 1 .. Len(ss[k]) : t[Len(Upto(ss, k - 1)) + j] = ss[k][j]
    BY <1>1, WhereAPartStands
  <2> HIDE DEF t
  <2>2. QED
    BY <1>1, <2>1
<1> HIDE DEF t
<1>5. G = [i \in 1 .. Len(t) + 2 |-> UnescapedAt(t, G, i)]
  BY <1>1, UnescapedExists
<1> HIDE DEF G, O
<1>6. ASSUME NEW k \in 1 .. n + 1, \A j \in k + 1 .. n + 1 : j \in T
      PROVE  Good(k)
  <2> DEFINE i == O(k - 1) + 1
  <2>1. CASE k = n + 1
    <3>1. O(k - 1) = Len(t)
      BY <1>1, <1>3, <2>1 DEF O
    <3>2. i \in 1 .. Len(t) + 2 /\ i > Len(t)
      BY <1>3, <3>1
    <3>3. G[i] = Valued(<< >>)
      BY <1>5, <3>2 DEF UnescapedAt
    <3>4. SubSeq(s, k, n) = << >>
      BY <1>1, <2>1, SubSeqEmpty
    <3>5. QED
      BY <3>3, <3>4
  <2>2. CASE k # n + 1
    <3>1. k \in 1 .. n /\ k - 1 \in 0 .. n /\ k + 1 \in k + 1 .. n + 1 /\ k + 1 - 1 = k
      BY <1>1, <2>2
    <3> DEFINE c == s[k]
               e == ss[k]
               rest == SubSeq(s, k + 1, n)
    <3>2. c \in Quotable /\ e = Escaped(c)
      BY <1>1, <3>1
    <3>3. G[O(k) + 1] = Valued(rest)
      BY <1>6, <3>1
    <3>4. SubSeq(s, k, n) = <<c>> \o rest
      BY <1>1, <3>1, SubSeqRecursiveFirst
    <3>5. /\ O(k - 1) \in Nat /\ O(k) = O(k - 1) + Len(e) /\ O(k) <= Len(t)
          /\ \A j \in 1 .. Len(e) : t[O(k - 1) + j] = e[j]
      BY <1>3, <1>4, <3>1
    <3> HIDE DEF c, e, rest
    <3>6. Preceded(<<c>>, Valued(rest)) = Valued(<<c>> \o rest)
      BY DEF Preceded, Valued
    <3>7. CASE e = <<c>> /\ c \notin {"\"", "\\", Bad}
      <4>1. Len(e) = 1 /\ e[1] = c
        BY <3>7
      <4>2. t[i] = c /\ O(k) = i /\ i \in 1 .. Len(t) + 2 /\ ~(i > Len(t))
        BY <1>3, <3>5, <4>1
      <4>3. G[i] = Preceded(<<c>>, G[i + 1])
        BY <1>5, <3>7, <4>2 DEF UnescapedAt
      <4>4. QED
        BY <3>3, <3>4, <3>6, <4>2, <4>3
    <3>8. CASE \E x \in Char \ ({"u"} \cup NotASCII) : e = <<"\\", x>> /\ Meaning(x) = c
      <4>1. PICK x \in Char \ ({"u"} \cup NotASCII) : e = <<"\\", x>> /\ Meaning(x) = c
        BY <3>8
      <4>2. Len(e) = 2 /\ e[1] = "\\" /\ e[2] = x
        BY <4>1
      <4>3. /\ t[i] = "\\" /\ t[i + 1] = x /\ O(k) + 1 = i + 2
            /\ i \in 1 .. Len(t) + 2 /\ ~(i > Len(t)) /\ i # Len(t)
        <5>1. O(k - 1) + 2 = i + 1 /\ O(k) = i + 1
          BY <3>5, <4>2
        <5>2. t[O(k - 1) + 1] = "\\" /\ t[O(k - 1) + 2] = x
          BY <3>5, <4>2
        <5>3. Len(t) \in Nat /\ O(k - 1) \in Nat /\ O(k) <= Len(t)
          BY <1>3, <3>5
        <5> DEFINE o == O(k - 1)
                   p == O(k)
                   m == Len(t)
        <5>4. o \in Nat /\ m \in Nat /\ p <= m /\ p = o + 2
          <6>1. o + 2 = i + 1 /\ p = i + 1
            BY <5>1
          <6> HIDE DEF o, p, i
          <6>2. o + 2 = p
            BY ONLY <6>1
          <6>3. QED
            BY <5>3, <6>2 DEF o, p
        <5> HIDE DEF o, p, m
        <5>5. /\ o + 2 = o + 1 + 1 /\ p + 1 = o + 1 + 2 /\ o + 1 \in 1 .. m + 2
              /\ ~(o + 1 > m) /\ o + 1 # m
          BY ONLY <5>4
        <5>6. t[o + 1] = "\\" /\ t[o + 1 + 1] = x
          BY <5>2, <5>5 DEF o
        <5>7. QED
          BY <5>5, <5>6 DEF o, p, m
      <4>4. G[i] = UnescapedAt(t, G, i)
        BY <1>5, <4>3
      <4>5. UnescapedAt(t, G, i) = Preceded(<<Meaning(x)>>, G[i + 2])
        <5>1. "\\" # Bad /\ x # "u" /\ x \notin NotASCII
          BY DEF Bad
        <5> DEFINE b == O(k - 1) + 1
        <5>2. ~(b > Len(t)) /\ b # Len(t) /\ t[b] = "\\" /\ t[b + 1] = x
          BY <4>3
        <5> HIDE DEF b
        <5>3. UnescapedAt(t, G, b) = Preceded(<<Meaning(t[b + 1])>>, G[b + 2])
          <6>1. CASE t[b + 1] \in Range(Escapes)
            BY <5>1, <5>2, <6>1 DEF UnescapedAt, Meaning
          <6>2. CASE t[b + 1] \notin Range(Escapes)
            BY <5>1, <5>2, <6>2 DEF UnescapedAt, Meaning
          <6>3. QED
            BY <6>1, <6>2
        <5>4. QED
          BY <5>2, <5>3 DEF b
      <4>6. QED
        BY <3>3, <3>4, <3>6, <4>1, <4>3, <4>4, <4>5
    <3>9. QED
      BY <3>2, <3>7, <3>8, EscapedIs
  <2>3. QED
    BY <2>1, <2>2
<1> HIDE DEF Good
<1>7. \A k \in 1 .. n + 1 : (\A j \in k + 1 .. n + 1 : j \in T) => k \in T
  BY <1>6
<1>8. \A k \in 1 .. n + 1 : k \in T
  <2> DEFINE N == n + 1
  <2>1. N \in Nat
    BY <1>1
  <2> HIDE DEF T, N
  <2>2. \A k \in 1 .. N : (\A j \in k + 1 .. N : j \in T) => k \in T
    BY <1>7 DEF N
  <2>3. \A k \in 1 .. N : k \in T
    BY <2>1, <2>2, FromTheEnd
  <2>4. QED
    BY <2>3 DEF N
<1>9. Good(1)
  BY <1>1, <1>8
<1>10. O(1 - 1) + 1 = 1 /\ SubSeq(s, 1, n) = s
  <2>1. O(0) = 0
    BY DEF O, Upto
  <2>2. QED
    BY <1>1, <2>1, SubSeqFull
<1>11. G[1] = Valued(s)
  BY <1>9, <1>10 DEF Good
<1>12. QED
  BY <1>2, <1>11 DEF t, ss

\* The mark that opens and closes a quoted string
Quote == "\""

\* A quote, the escapes, a quote
LEMMA QuotedStringIs ==
  ASSUME NEW s \in Seq(Quotable)
  PROVE  LET f == FlattenSeq(EscapesOf(s))
             q == QuotedString(s)
         IN  /\ f \in AnyText /\ f \in Seq(Char) /\ q \in AnyText /\ Len(f) \in Nat
             /\ Len(q) = Len(f) + 2
             /\ q[1] = Quote /\ q[Len(f) + 2] = Quote
             /\ \A j \in 1 .. Len(f) : q[j + 1] = f[j]
<1> DEFINE f == FlattenSeq(EscapesOf(s))
           quote == <<Quote>>
           q == QuotedString(s)
<1>1. f \in Seq(Char) /\ f \in AnyText /\ Len(f) \in Nat
  BY EscapesType, LenProperties
<1>2. q = quote \o f \o quote
  BY DEF QuotedString, EscapesOf, Quote
<1>3. quote \in AnyText /\ Len(quote) = 1 /\ quote[1] = Quote
  <2>1. Quote \in Char \cup {Bad}
    BY DEF Char, Marks, Quote
  <2>2. QED
    BY <2>1 DEF AnyText
<1> HIDE DEF f, quote, q
<1>4. /\ quote \o f \in AnyText /\ Len(quote \o f) = 1 + Len(f)
      /\ (quote \o f)[1] = quote[1] /\ \A j \in 1 .. Len(f) : (quote \o f)[j + 1] = f[j]
  <2>1. /\ quote \o f \in AnyText /\ Len(quote \o f) = Len(quote) + Len(f)
        /\ \A j \in 1 .. Len(quote) + Len(f) : (quote \o f)[j] = IF j <= Len(quote) THEN quote[j] ELSE f[j - Len(quote)]
    BY <1>1, <1>3, ConcatProperties DEF AnyText
  <2>2. 1 \in 1 .. Len(quote) + Len(f) /\ 1 <= Len(quote)
    BY <1>1, <1>3
  <2>3. \A j \in 1 .. Len(f) : j + 1 \in 1 .. Len(quote) + Len(f) /\ ~(j + 1 <= Len(quote)) /\ j + 1 - Len(quote) = j
    BY <1>1, <1>3
  <2>4. QED
    BY <1>3, <2>1, <2>2, <2>3
<1> DEFINE v == quote \o f
<1> HIDE DEF v
<1>5. /\ q \in AnyText /\ Len(q) = Len(v) + 1
      /\ q[Len(v) + 1] = quote[1] /\ \A j \in 1 .. Len(v) : q[j] = v[j]
  <2>1. q = v \o quote /\ v \in AnyText /\ Len(v) \in Nat
    BY <1>1, <1>2, <1>4 DEF v
  <2>2. /\ v \o quote \in AnyText /\ Len(v \o quote) = Len(v) + Len(quote)
        /\ \A j \in 1 .. Len(v) + Len(quote) : (v \o quote)[j] = IF j <= Len(v) THEN v[j] ELSE quote[j - Len(v)]
    BY <1>3, <2>1, ConcatProperties DEF AnyText
  <2>3. /\ Len(v) + 1 \in 1 .. Len(v) + Len(quote) /\ ~(Len(v) + 1 <= Len(v)) /\ Len(v) + 1 - Len(v) = 1
        /\ \A j \in 1 .. Len(v) : j \in 1 .. Len(v) + Len(quote) /\ j <= Len(v)
    BY <1>3, <2>1
  <2>4. QED
    BY <1>3, <2>1, <2>2, <2>3
<1>6. /\ Len(v) = Len(f) + 1 /\ v[1] = quote[1] /\ 1 \in 1 .. Len(v)
      /\ \A j \in 1 .. Len(f) : j + 1 \in 1 .. Len(v) /\ v[j + 1] = f[j]
  BY <1>1, <1>4 DEF v
<1>7. Len(v) + 1 = Len(f) + 2
  BY <1>1, <1>6
<1>8. QED
  BY <1>1, <1>3, <1>5, <1>6, <1>7 DEF f, q

LEMMA QuotedIsUnquoted ==
  ASSUME NEW s \in Seq(Quotable)
  PROVE  UnquoteString(QuotedString(s)) = Valued(s)
<1> DEFINE f == FlattenSeq(EscapesOf(s))
           q == QuotedString(s)
           n == Len(f)
<1>1. /\ f \in AnyText /\ q \in AnyText /\ n \in Nat /\ Len(q) = n + 2
      /\ q[1] = Quote /\ q[n + 2] = Quote /\ \A j \in 1 .. n : q[j + 1] = f[j]
  BY QuotedStringIs
<1>2. Unescaped(f) = Valued(s)
  BY EscapesAreUndone
<1> HIDE DEF f, q
<1>3. SubSeq(q, 2, n + 1) = f
  <2>1. 2 \in 1 .. Len(q) + 1 /\ n + 1 \in 1 .. Len(q) /\ n + 1 - 2 + 1 = n
    BY <1>1
  <2>2. CASE n = 0
    <3>1. f = << >>
      BY <1>1, <2>2, EmptySeq DEF AnyText
    <3>2. SubSeq(q, 2, n + 1) = << >>
      BY <1>1, <2>2, SubSeqEmpty
    <3>3. QED
      BY <3>1, <3>2
  <2>3. CASE n # 0
    <3>1. n + 1 \in 2 .. Len(q)
      BY <1>1, <2>3
    <3>2. /\ SubSeq(q, 2, n + 1) \in AnyText /\ Len(SubSeq(q, 2, n + 1)) = n
          /\ \A j \in 1 .. n : SubSeq(q, 2, n + 1)[j] = q[2 + j - 1]
      BY <1>1, <3>1, SubSeqProperties DEF AnyText
    <3>3. \A j \in 1 .. n : 2 + j - 1 = j + 1
      BY <1>1
    <3>4. QED
      BY <1>1, <3>2, <3>3, SeqEqual DEF AnyText
  <2>4. QED
    BY <2>2, <2>3
<1>4. q # << >> /\ Last(q) = Quote /\ ~(Len(q) < 2) /\ Len(q) - 1 = n + 1
  BY <1>1 DEF Last
<1>5. UnquoteString(q) = Unescaped(SubSeq(q, 2, n + 1))
  BY <1>1, <1>4 DEF UnquoteString, Quote
<1>6. QED
  BY <1>2, <1>3, <1>5 DEF q

-----------------------------------------------------------------------------
(* Where the scanner sees a quoted string end *)

Backslash == "\\"

\* l is the last position before j, from i on, that has no backslash.
LastPlain(u, i, j, l) ==
  /\ l \in i .. j - 1 /\ u[l] # Backslash
  /\ \A m \in l + 1 .. j - 1 : u[m] = Backslash

\* An even number of characters from there on is an odd number of backslashes.
EvenFrom(u, i, j) == \E l \in i .. j - 1 : LastPlain(u, i, j, l) /\ \E h \in Int : j - l = 2 * h
OddFrom(u, i, j)  == \E l \in i .. j - 1 : LastPlain(u, i, j, l) /\ \E h \in Int : j - l = 2 * h + 1

\* The escaped of readQuotedStringQ
EscapedAt(u, i, j) == (j - Max({k \in i .. j - 1 : u[k] # "\\"})) % 2 = 0

LEMMA Parity == \A h \in Int : (2 * h) % 2 = 0 /\ (2 * h + 1) % 2 = 1
  OBVIOUS

LEMMA LastPlainIs ==
  ASSUME NEW u, NEW i \in Nat, NEW j \in Nat, NEW l \in i .. j - 1, LastPlain(u, i, j, l)
  PROVE  EscapedAt(u, i, j) <=> (j - l) % 2 = 0
<1> DEFINE T == {k \in i .. j - 1 : u[k] # "\\"}
<1>1. T = {k \in i .. j - 1 : u[k] # Backslash}
  BY DEF Backslash
<1>2. l \in T /\ \A k \in T : k \in i .. j - 1 /\ u[k] # Backslash
  BY <1>1 DEF LastPlain
<1>3. EscapedAt(u, i, j) <=> (j - Max(T)) % 2 = 0
  BY DEF EscapedAt
<1> HIDE DEF T
<1>4. T \in SUBSET (0 .. j) /\ T # {}
  BY <1>2
<1>5. Max(T) \in T /\ \A k \in T : k <= Max(T)
  BY <1>4, Largest
<1>6. Max(T) = l
  <2>1. Max(T) \in i .. j - 1 /\ l <= Max(T) /\ u[Max(T)] # Backslash
    BY <1>2, <1>5
  <2>2. ~(Max(T) \in l + 1 .. j - 1)
    BY <2>1 DEF LastPlain
  <2>3. QED
    BY <2>1, <2>2
<1>7. QED
  BY <1>3, <1>6

LEMMA Escaping ==
  ASSUME NEW u, NEW i \in Nat, NEW j \in Nat
  PROVE  (EvenFrom(u, i, j) => EscapedAt(u, i, j)) /\ (OddFrom(u, i, j) => ~EscapedAt(u, i, j))
<1>1. ASSUME EvenFrom(u, i, j)
      PROVE  EscapedAt(u, i, j)
  <2>1. PICK l \in i .. j - 1 : LastPlain(u, i, j, l) /\ \E h \in Int : j - l = 2 * h
    BY <1>1 DEF EvenFrom
  <2>2. (j - l) % 2 = 0
    BY <2>1, Parity
  <2>3. QED
    BY <2>1, <2>2, LastPlainIs
<1>2. ASSUME OddFrom(u, i, j)
      PROVE  ~EscapedAt(u, i, j)
  <2>1. PICK l \in i .. j - 1 : LastPlain(u, i, j, l) /\ \E h \in Int : j - l = 2 * h + 1
    BY <1>2 DEF OddFrom
  <2>2. (j - l) % 2 = 1
    BY <2>1, Parity
  <2>3. QED
    BY <2>1, <2>2, LastPlainIs
<1>3. QED
  BY <1>1, <1>2

\* A plain character starts the count afresh; two backslashes change nothing.
LEMMA OddAfter ==
  ASSUME NEW u, NEW i \in Nat, NEW j \in Nat, i < j, OddFrom(u, i, j)
  PROVE  /\ u[j] # Backslash => OddFrom(u, i, j + 1)
         /\ u[j] = Backslash => EvenFrom(u, i, j + 1) /\ OddFrom(u, i, j + 2)
<1>1. \A k \in i + 1 .. j + 2 : u[k - 1] # Backslash => OddFrom(u, i, k)
  <2>1. ASSUME NEW k \in i + 1 .. j + 2, u[k - 1] # Backslash
        PROVE  OddFrom(u, i, k)
    <3>1. k - 1 \in i .. k - 1 /\ LastPlain(u, i, k, k - 1)
      BY <2>1 DEF LastPlain
    <3>2. k - (k - 1) = 2 * 0 + 1
      BY <2>1
    <3>3. QED
      BY <3>1, <3>2 DEF OddFrom
  <2>2. QED
    BY <2>1
<1>2. u[j] # Backslash => OddFrom(u, i, j + 1)
  <2>1. j + 1 \in i + 1 .. j + 2 /\ j + 1 - 1 = j
    OBVIOUS
  <2>2. QED
    BY <1>1, <2>1
<1>3. ASSUME u[j] = Backslash
      PROVE  EvenFrom(u, i, j + 1) /\ OddFrom(u, i, j + 2)
  <2>1. PICK l \in i .. j - 1 : LastPlain(u, i, j, l) /\ \E h \in Int : j - l = 2 * h + 1
    BY DEF OddFrom
  <2>2. PICK h \in Int : j - l = 2 * h + 1
    BY <2>1
  <2>3. EvenFrom(u, i, j + 1)
    <3>1. l \in i .. j + 1 - 1 /\ LastPlain(u, i, j + 1, l)
      <4>1. \A m \in l + 1 .. j + 1 - 1 : m \in l + 1 .. j - 1 \/ m = j
        OBVIOUS
      <4>2. QED
        BY <1>3, <2>1, <4>1 DEF LastPlain
    <3>2. h + 1 \in Int /\ j + 1 - l = 2 * (h + 1)
      BY <2>2
    <3>3. \E g \in Int : j + 1 - l = 2 * g
      BY <3>2
    <3>4. QED
      BY ONLY <3>1, <3>3 DEF EvenFrom
  <2>4. OddFrom(u, i, j + 2)
    <3>1. CASE u[j + 1] # Backslash
      <4>1. j + 2 \in i + 1 .. j + 2 /\ j + 2 - 1 = j + 1
        OBVIOUS
      <4>2. QED
        BY <1>1, <3>1, <4>1
    <3>2. CASE u[j + 1] = Backslash
      <4>1. l \in i .. j + 2 - 1 /\ LastPlain(u, i, j + 2, l)
        <5>1. \A m \in l + 1 .. j + 2 - 1 : m \in l + 1 .. j - 1 \/ m = j \/ m = j + 1
          OBVIOUS
        <5>2. QED
          BY <1>3, <2>1, <3>2, <5>1 DEF LastPlain
      <4>2. h + 1 \in Int /\ j + 2 - l = 2 * (h + 1) + 1
        BY <2>2
      <4>3. \E g \in Int : j + 2 - l = 2 * g + 1
        BY <4>2
      <4>4. QED
        BY ONLY <4>1, <4>3 DEF OddFrom
    <3>3. QED
      BY <3>1, <3>2
  <2>5. QED
    BY <2>3, <2>4
<1>4. QED
  BY <1>2, <1>3

\* The text q stands in u from position i on.
StandsAt(q, u, i) ==
  /\ i \in 1 .. Len(u) /\ i + Len(q) - 1 <= Len(u)
  /\ \A j \in 1 .. Len(q) : u[i + j - 1] = q[j]

\* After each character of the string the count of backslashes is even again,
\* and every quote before is escaped.
LEMMA EscapesAreSkipped ==
  ASSUME NEW s \in Seq(Quotable), NEW u, NEW i \in Nat, u[i] = Quote,
         \A j \in 1 .. Len(FlattenSeq(EscapesOf(s))) : u[i + j] = FlattenSeq(EscapesOf(s))[j]
  PROVE  LET end == i + 1 + Len(FlattenSeq(EscapesOf(s)))
         IN  /\ OddFrom(u, i, end)
             /\ \A j \in i + 1 .. end - 1 : u[j] = Quote => EvenFrom(u, i, j)
<1> DEFINE ss == EscapesOf(s)
           n  == Len(s)
           f  == FlattenSeq(ss)
           O(k) == Len(Upto(ss, k))
           Good(k) == /\ OddFrom(u, i, i + 1 + O(k))
                      /\ \A j \in i + 1 .. i + O(k) : u[j] = Quote => EvenFrom(u, i, j)
           T == { k \in 0 .. n : Good(k) }
<1>1. /\ ss \in Seq(Seq(Char)) /\ Len(ss) = n /\ n \in Nat /\ Len(f) \in Nat
      /\ \A k \in 1 .. n : s[k] \in Quotable /\ ss[k] = Escaped(s[k])
  BY EscapesType, LenProperties
<1>2. \A j \in 1 .. Len(f) : u[i + j] = f[j]
  OBVIOUS
<1>3. Quote # Backslash
  BY DEF Quote, Backslash
<1> HIDE DEF ss
<1>4. /\ \A k \in 0 .. n : O(k) \in Nat
      /\ \A k \in 1 .. n : /\ O(k) = O(k - 1) + Len(ss[k]) /\ O(k) <= Len(f)
                           /\ \A j \in 1 .. Len(ss[k]) : f[O(k - 1) + j] = ss[k][j]
      /\ O(n) = Len(f) /\ O(0) = 0
  <2>1. ASSUME NEW k \in 1 .. Len(ss)
        PROVE  /\ Len(Upto(ss, k)) = Len(Upto(ss, k - 1)) + Len(ss[k])
               /\ Len(Upto(ss, k - 1)) + Len(ss[k]) <= Len(f)
               /\ \A j \in 1 .. Len(ss[k]) : f[Len(Upto(ss, k - 1)) + j] = ss[k][j]
    BY <1>1, WhereAPartStands, ZenonT(60)
  <2>2. \A k \in 0 .. n : Upto(ss, k) \in Seq(Char)
    BY <1>1, PartsAreSequences
  <2>3. f = Upto(ss, n)
    BY <1>1, PartsAreSequences
  <2>4. O(0) = 0
    BY DEF Upto
  <2> HIDE DEF f
  <2>5. QED
    BY <1>1, <2>1, <2>2, <2>3, <2>4, LenProperties
<1> HIDE DEF f, O
<1>5. ASSUME NEW k \in 0 .. n, \A j \in 0 .. k - 1 : j \in T
      PROVE  Good(k)
  <2>1. CASE k = 0
    <3>1. i \in i .. i + 1 - 1 /\ LastPlain(u, i, i + 1, i)
      BY <1>3 DEF LastPlain
    <3>2. \E h \in Int : i + 1 - i = 2 * h + 1
      <4>1. i + 1 - i = 2 * 0 + 1
        OBVIOUS
      <4>2. QED
        BY <4>1
    <3>3. OddFrom(u, i, i + 1)
      BY ONLY <3>1, <3>2 DEF OddFrom
    <3>4. O(k) = 0 /\ i + 1 + O(k) = i + 1 /\ i + 1 .. i + O(k) = {}
      BY <1>4, <2>1
    <3>5. QED
      BY <3>3, <3>4
  <2>2. CASE k # 0
    <3> DEFINE a == O(k - 1)
               p == i + 1 + a
               c == s[k]
               e == ss[k]
    <3>1. k \in 1 .. n /\ k - 1 \in 0 .. n /\ k - 1 \in 0 .. k - 1
      BY <1>1, <2>2
    <3>2. Good(k - 1) /\ a \in Nat /\ c \in Quotable /\ e = Escaped(c)
      BY <1>1, <1>4, <1>5, <3>1
    <3>3. /\ O(k) = a + Len(e) /\ O(k) <= Len(f)
          /\ \A j \in 1 .. Len(e) : f[a + j] = e[j]
      BY <1>4, <3>1
    <3> HIDE DEF a, c, e
    <3>4. OddFrom(u, i, p) /\ (\A j \in i + 1 .. i + a : u[j] = Quote => EvenFrom(u, i, j))
      BY <3>2 DEF a
    <3>5. p \in Nat /\ i < p
      BY <3>2
    <3>6. CASE e = <<c>> /\ c \notin {"\"", "\\", Bad}
      <4>1. c # Quote /\ c # Backslash
        BY <3>6 DEF Quote, Backslash
      <4>2. Len(e) = 1 /\ e[1] = c
        BY ONLY <3>6
      <4>3. O(k) = a + 1 /\ a + 1 \in 1 .. Len(f) /\ f[a + 1] = c
        BY <1>1, <3>2, <3>3, <4>2
      <4>4. u[p] = c
        <5>1. i + (a + 1) = p
          BY <3>2
        <5>2. u[i + (a + 1)] = c
          BY <1>2, <4>3
        <5>3. QED
          BY <5>1, <5>2
      <4>5. OddFrom(u, i, p + 1)
        BY <3>4, <3>5, <4>1, <4>4, OddAfter
      <4>6. i + 1 + O(k) = p + 1 /\ \A j \in i + 1 .. i + O(k) : j \in i + 1 .. i + a \/ j = p
        BY <3>2, <4>3
      <4> HIDE DEF p
      <4>7. QED
        BY <3>4, <4>1, <4>4, <4>5, <4>6
    <3>7. CASE \E x \in Char : e = <<"\\", x>>
      <4>1. PICK x \in Char : e = <<Backslash, x>>
        BY <3>7 DEF Backslash
      <4>2. Len(e) = 2 /\ e[1] = Backslash /\ e[2] = x
        BY <4>1
      <4>3. O(k) = a + 2 /\ a + 1 \in 1 .. Len(f) /\ f[a + 1] = Backslash
        BY <1>1, <3>2, <3>3, <4>2
      <4>4. u[p] = Backslash
        <5>1. i + (a + 1) = p
          BY <3>2
        <5>2. u[i + (a + 1)] = Backslash
          BY <1>2, <4>3
        <5>3. QED
          BY <5>1, <5>2
      <4>5. EvenFrom(u, i, p + 1) /\ OddFrom(u, i, p + 2)
        BY <3>4, <3>5, <4>4, OddAfter
      <4>6. i + 1 + O(k) = p + 2 /\ \A j \in i + 1 .. i + O(k) : j \in i + 1 .. i + a \/ j = p \/ j = p + 1
        BY <3>2, <4>3
      <4> HIDE DEF p
      <4>7. QED
        BY <1>3, <3>4, <4>4, <4>5, <4>6
    <3>8. QED
      BY <3>2, <3>6, <3>7, EscapedIs
  <2>3. QED
    BY <2>1, <2>2
<1> HIDE DEF Good
<1>6. \A k \in 0 .. n : (\A j \in 0 .. k - 1 : j \in T) => k \in T
  BY <1>5
<1> HIDE DEF T
<1>7. \A k \in 0 .. n : k \in T
  BY <1>1, <1>6, FromTheStart
<1>8. Good(n)
  BY <1>1, <1>7 DEF T
<1>9. i + 1 + Len(f) - 1 = i + Len(f)
  BY <1>1
<1>10. QED
  BY <1>4, <1>8, <1>9 DEF Good, f, ss

\* The scanner stops at the closing quote.
LEMMA QuotedStringIsScanned ==
  ASSUME NEW s \in Seq(Quotable), NEW u \in AnyText, NEW i \in Nat,
         StandsAt(QuotedString(s), u, i), At(u, i + Len(QuotedString(s))) # Bad
  PROVE  ReadQuotedString(u, i, "\"") = i + Len(QuotedString(s))
<1> DEFINE q == QuotedString(s)
           f == FlattenSeq(EscapesOf(s))
           n == Len(f)
           z == i + n + 1
           closes == {j \in i + 1 .. Len(u) : u[j] = Quote /\ ~EscapedAt(u, i, j)}
           end    == IF closes = {} THEN Len(u) + 1 ELSE Min(closes) + 1
<1>1. /\ f \in Seq(Char) /\ n \in Nat /\ Len(q) = n + 2
      /\ q[1] = Quote /\ q[n + 2] = Quote /\ \A j \in 1 .. n : q[j + 1] = f[j]
  BY QuotedStringIs
<1>2. Len(u) \in Nat /\ i \in 1 .. Len(u) /\ i + Len(q) - 1 <= Len(u)
      /\ \A j \in 1 .. Len(q) : u[i + j - 1] = q[j]
  BY TextEnds DEF StandsAt
<1> HIDE DEF q, f
<1>3. u[i] = Quote /\ u[z] = Quote /\ z \in i + 1 .. Len(u) /\ i + Len(q) = z + 1
  <2>1. 1 \in 1 .. Len(q) /\ i + 1 - 1 = i /\ n + 2 \in 1 .. Len(q) /\ i + (n + 2) - 1 = z
    BY <1>1, <1>2
  <2>2. u[i + 1 - 1] = q[1] /\ u[i + (n + 2) - 1] = q[n + 2]
    BY <1>2, <2>1
  <2>3. z \in i + 1 .. Len(u) /\ i + Len(q) = z + 1
    BY <1>1, <1>2
  <2>4. QED
    BY <1>1, <2>1, <2>2, <2>3
<1>4. \A j \in 1 .. n : u[i + j] = f[j]
  <2>1. ASSUME NEW j \in 1 .. n
        PROVE  u[i + j] = f[j]
    <3>1. j + 1 \in 1 .. Len(q) /\ i + (j + 1) - 1 = i + j
      BY <1>1, <1>2
    <3>2. u[i + (j + 1) - 1] = q[j + 1]
      BY <1>2, <3>1
    <3>3. QED
      BY <1>1, <3>1, <3>2
  <2>2. QED
    BY <2>1
<1>5. OddFrom(u, i, z) /\ \A j \in i + 1 .. z - 1 : u[j] = Quote => EvenFrom(u, i, j)
  <2>1. /\ OddFrom(u, i, i + 1 + n)
        /\ \A j \in i + 1 .. i + 1 + n - 1 : u[j] = Quote => EvenFrom(u, i, j)
    BY <1>3, <1>4, EscapesAreSkipped DEF f
  <2>2. i + 1 + n = z
    BY <1>1, <1>2
  <2>3. QED
    BY <2>1, <2>2
<1> HIDE DEF z
<1>6. z \in closes /\ \A j \in closes : ~(j \in i + 1 .. z - 1)
  <2>1. ~EscapedAt(u, i, z)
    BY <1>2, <1>3, <1>5, Escaping
  <2>2. \A j \in i + 1 .. z - 1 : u[j] = Quote => EscapedAt(u, i, j)
    BY <1>2, <1>5, Escaping
  <2>3. QED
    BY <1>3, <2>1, <2>2
<1>7. closes \in SUBSET Nat /\ \A j \in closes : j \in i + 1 .. Len(u)
  BY <1>2
<1> HIDE DEF closes
<1>8. Min(closes) = z
  <2>1. Min(closes) \in closes /\ Min(closes) <= z
    BY <1>6, <1>7, Smallest
  <2> DEFINE m == Min(closes)
  <2>2. m \in i + 1 .. Len(u) /\ ~(m \in i + 1 .. z - 1) /\ m <= z
    BY <1>6, <1>7, <2>1
  <2> HIDE DEF m
  <2>3. m = z
    BY <1>2, <1>3, <2>2
  <2>4. QED
    BY <2>3 DEF m
<1>9. end = z + 1 /\ ~(end - i < 2)
  <2>1. closes # {}
    BY <1>6
  <2>2. ~(z + 1 - i < 2)
    BY <1>2, <1>3
  <2>3. end = z + 1
    BY <1>8, <2>1
  <2> HIDE DEF end
  <2>4. QED
    BY <1>2, <1>3, <2>2, <2>3
<1>10. ~Has(u, i, end, Bad)
  <2>1. ASSUME NEW k \in i .. z + 1
        PROVE  At(u, k) # Bad
    <3>1. CASE k = z + 1
      BY <1>3, <3>1 DEF q
    <3>2. CASE k = z \/ k = i
      <4>1. Quote # Bad
        BY DEF Quote, Bad
      <4>2. At(u, k) = u[k]
        BY <1>2, <1>3, <3>2, TextEnds
      <4>3. QED
        BY <1>3, <3>2, <4>1, <4>2
    <3>3. CASE k \in i + 1 .. z - 1
      <4>1. k - i \in 1 .. n /\ i + (k - i) = k /\ k \in 1 .. Len(u)
        BY <1>1, <1>2, <1>3, <3>3 DEF z
      <4>2. u[k] = f[k - i] /\ f[k - i] \in Char
        BY <1>1, <1>4, <4>1, ElementOfSeq
      <4>3. At(u, k) = u[k]
        BY <4>1, TextEnds
      <4>4. QED
        BY <4>2, <4>3, NotCharacters
    <3>4. k = z + 1 \/ k = z \/ k = i \/ k \in i + 1 .. z - 1
      BY <1>2, <1>3
    <3>5. QED
      BY <3>1, <3>2, <3>3, <3>4
  <2>2. QED
    BY <1>9, <2>1 DEF Has
<1> HIDE DEF end
<1>11. ReadQuotedString(u, i, "\"") = end
  BY <1>9, <1>10 DEF ReadQuotedString, end, closes, EscapedAt, Quote
<1>12. QED
  BY <1>3, <1>9, <1>11 DEF q

LEMMA StandingText ==
  ASSUME NEW q \in AnyText, q # << >>, NEW u \in AnyText, NEW i \in Nat, StandsAt(q, u, i)
  PROVE  /\ i \in 1 .. Len(u) /\ i + Len(q) \in i + 1 .. Len(u) + 1
         /\ At(u, i) = q[1] /\ SubSeq(u, i, i + Len(q) - 1) = q
<1> DEFINE n == i + Len(q) - 1
<1>1. /\ Len(q) \in Nat \ {0} /\ Len(u) \in Nat /\ i \in 1 .. Len(u) /\ n <= Len(u)
      /\ \A j \in 1 .. Len(q) : u[i + j - 1] = q[j]
  BY TextEnds, EmptySeq DEF StandsAt, AnyText
<1>2. /\ n \in Int /\ i <= n /\ n - i + 1 = Len(q) /\ i + 1 - 1 = i /\ 1 \in 1 .. Len(q)
      /\ i + Len(q) \in i + 1 .. Len(u) + 1
  BY <1>1
<1>3. \A j \in i .. n : u[j] \in Char \cup {Bad}
  <2>1. \A j \in i .. n : j \in 1 .. Len(u)
    BY <1>1
  <2>2. QED
    BY <2>1, ElementOfSeq DEF AnyText
<1> HIDE DEF n
<1>4. /\ SubSeq(u, i, n) \in AnyText /\ Len(SubSeq(u, i, n)) = Len(q)
      /\ \A j \in 1 .. Len(q) : SubSeq(u, i, n)[j] = u[i + j - 1]
  BY <1>2, <1>3, SubSeqProperties DEF AnyText
<1>5. SubSeq(u, i, n) = q
  BY <1>1, <1>4, SeqEqual DEF AnyText
<1>6. At(u, i) = q[1]
  <2>1. At(u, i) = u[i]
    BY <1>1, TextEnds
  <2>2. u[i] = q[1]
    <3>1. u[i + 1 - 1] = q[1]
      BY <1>1, <1>2
    <3>2. i + 1 - 1 = i
      BY <1>2
    <3>3. QED
      BY ONLY <3>1, <3>2
  <2>3. QED
    BY ONLY <2>1, <2>2
<1>7. QED
  BY <1>1, <1>2, <1>5, <1>6 DEF n

LEMMA QuoteIsItself ==
  /\ Quote \in Char
  /\ Quote \notin {TheEnd, Bad} \cup WhiteSpace \cup Newlines \cup Signs \cup Digits
  /\ Quote \notin {"/", "r", "#", ":", "'"} \cup DOMAIN Marked
  BY DEF Quote, Char, Marks, TheEnd, Bad, WhiteSpace, Newlines, Signs, Digits, Marked

\* What readIdentifier takes for no name is not what begins a string.
LEMMA RefusedAre ==
  ASSUME NEW rf \in SUBSET RelaxedFlags
  PROVE  /\ "r" \notin Refused[rf] /\ Quote \notin Refused[rf]
         /\ Refused[rf] \subseteq {"{", "}", "<", ">", ";", "[", "]", "=", ","} \cup Controls
                                  \cup LineSpace \cup {"\\", "(", ")", ".", "_", "?", "/"}
<1> DEFINE dotted == {"\\", "(", ")", ".", "_", "?", "/"}
           extra  == IF "NGINXSyntax" \in rf THEN {} ELSE dotted
           some   == {"{", "}", "<", ">", ";", "[", "]", "=", ","}
           all    == some \cup Controls \cup LineSpace \cup dotted
<1>1. Quote \notin some \cup Controls \cup LineSpace
  BY DEF Quote, Controls, LineSpace, WhiteSpace, Newlines
<1>2. "r" \notin some \cup Controls \cup LineSpace
  BY DEF Controls, LineSpace, WhiteSpace, Newlines
<1>3. Quote \notin dotted
  BY DEF Quote
<1>4. "r" \notin dotted
  OBVIOUS
<1>5. Refused[rf] = some \cup Controls \cup LineSpace \cup extra
  BY DEF Refused
<1>6. extra \subseteq dotted
  OBVIOUS
<1> HIDE DEF extra, some, dotted
<1>7. "r" \notin Refused[rf] /\ Quote \notin Refused[rf] /\ Refused[rf] \subseteq all
  BY <1>1, <1>2, <1>3, <1>4, <1>5, <1>6
<1>8. QED
  BY <1>7 DEF some, dotted

\* What may begin a name or a string, unless the relaxed flags have another use for it
LEMMA ReadsAnIdentifier ==
  ASSUME NEW u, NEW i, NEW rf,
         At(u, i) \notin {TheEnd, Bad} \cup WhiteSpace \cup Newlines \cup Signs \cup Digits,
         At(u, i) \notin {"/"} \cup DOMAIN Marked,
         At(u, i) = "#" => "NGINXSyntax" \notin rf,
         At(u, i) = ":" => "YAMLTOMLAssignments" \notin rf
  PROVE  ReadNext(u, i, rf) = ReadIdentifier(u, i, rf)
<1> DEFINE c       == At(u, i)
           newline == Lexeme("Newline", IF c = "\r" /\ At(u, i + 1) = "\n" THEN i + 2 ELSE i + 1)
           remark  == Lexeme("SingleLineComment", ReadSingleLineComment(u, i))
           space   == Lexeme("Whitespace", ReadWhitespace(u, i))
           mark    == Lexeme(Marked[c], i + 1)
           nginx   == "NGINXSyntax" \in rf
           yaml    == "YAMLTOMLAssignments" \in rf
<1>1. Punctuation(rf) \subseteq DOMAIN Marked
  BY DEF Punctuation, Marked
<1>2. ReadNext(u, i, rf) =
        CASE c = TheEnd -> AtEof
          [] c = Bad -> Failed
          [] c \in WhiteSpace -> space
          [] c \in Newlines -> newline
          [] c = "/" -> ReadSlash(u, i, rf)
          [] c \in Punctuation(rf) -> mark
          [] c \in Signs \cup {"0"} -> ReadAfterLook(u, i, rf)
          [] c \in Digits \ {"0"} -> ReadDecimal(u, i, rf)
          [] c = "#" /\ nginx -> remark
          [] c = ":" /\ yaml -> ReadColon(i)
          [] OTHER -> ReadIdentifier(u, i, rf)
  BY ZenonT(60) DEF ReadNext
<1>3. "0" \in Digits
  BY DEF Digits
<1>4. /\ c \notin {TheEnd, Bad} \cup WhiteSpace \cup Newlines \cup Signs \cup Digits
      /\ c \notin {"/"} \cup DOMAIN Marked /\ ~(c = "#" /\ nginx) /\ ~(c = ":" /\ yaml)
  OBVIOUS
<1> HIDE DEF c, newline, remark, space, mark, nginx, yaml
<1>5. QED
  BY <1>1, <1>2, <1>3, <1>4

LEMMA IdentifierIs ==
  ASSUME NEW u, NEW i, NEW rf \in SUBSET RelaxedFlags
  PROVE  LET c   == At(u, i)
             raw == c = "r" /\ At(u, i + 1) \in {"#", Quote}
         IN  /\ raw => ReadIdentifier(u, i, rf) = Lexeme("RawString", ReadRawString(u, i))
             /\ c = Quote =>
                  ReadIdentifier(u, i, rf) = Lexeme("QuotedString", ReadQuotedString(u, i, "\""))
             /\ ~raw /\ c # Quote /\ (c = "'" => "NGINXSyntax" \notin rf) /\ c \notin Refused[rf] =>
                  ReadIdentifier(u, i, rf) = ReadBareIdentifier(u, i, rf)
<1> DEFINE c      == At(u, i)
           raw    == c = "r" /\ At(u, i + 1) \in {"#", Quote}
           single == c = "'" /\ "NGINXSyntax" \in rf
           string == Lexeme("RawString", ReadRawString(u, i))
           quoted == Lexeme("QuotedString", ReadQuotedString(u, i, "\""))
           other  == Lexeme("QuotedString", ReadQuotedString(u, i, "'"))
           word   == ReadBareIdentifier(u, i, rf)
<1>1. ReadIdentifier(u, i, rf) =
        CASE raw -> string
          [] c = Quote -> quoted
          [] single -> other
          [] c \in Refused[rf] -> Failed
          [] OTHER -> word
  BY ZenonT(60) DEF ReadIdentifier, Quote
<1>2. /\ c = Quote => ~single /\ c \notin Refused[rf]
      /\ raw => c # Quote /\ ~single /\ c \notin Refused[rf]
  <2>1. Quote # "r" /\ Quote # "'" /\ "r" # "'"
    BY QuoteIsItself
  <2>2. QED
    BY <2>1, RefusedAre
<1> HIDE DEF c, raw, single, string, quoted, other, word
<1>3. /\ raw => ReadIdentifier(u, i, rf) = string
      /\ c = Quote => ReadIdentifier(u, i, rf) = quoted
      /\ ~raw /\ c # Quote /\ ~single /\ c \notin Refused[rf] => ReadIdentifier(u, i, rf) = word
  BY <1>1, <1>2
<1>4. QED
  BY <1>3 DEF c, raw, single, string, quoted, other, word

LEMMA ReadsAQuote ==
  ASSUME NEW u, NEW i, NEW rf \in SUBSET RelaxedFlags, At(u, i) = Quote
  PROVE  ReadNext(u, i, rf) = Lexeme("QuotedString", ReadQuotedString(u, i, "\""))
<1>1. ReadNext(u, i, rf) = ReadIdentifier(u, i, rf)
  BY QuoteIsItself, ReadsAnIdentifier
<1>2. ReadIdentifier(u, i, rf) = Lexeme("QuotedString", ReadQuotedString(u, i, "\""))
  BY IdentifierIs
<1>3. QED
  BY <1>1, <1>2

\* A string that AppendQuotedString has quoted is one token where it stands,
\* whatever is before and after it and whatever the relaxed flags are, and the
\* value of the token is the string, with the flag that says how it was written.
THEOREM QuotedStringsReadBack ==
  ASSUME NEW s \in Seq(Quotable), NEW u \in AnyText, NEW i \in Nat,
         NEW rf \in SUBSET RelaxedFlags,
         StandsAt(QuotedString(s), u, i), At(u, i + Len(QuotedString(s))) # Bad
  PROVE  LET l == ReadNext(u, i, rf)
         IN  /\ l = [id |-> "QuotedString", end |-> i + Len(QuotedString(s))]
             /\ ValueFromToken(l.id, Text(u, i, l))
                  = [TextValue("string", s) EXCEPT !.flag = "quoted"]
<1> DEFINE q == QuotedString(s)
           e == i + Len(q)
           l == ReadNext(u, i, rf)
<1>1. q \in AnyText /\ q # << >> /\ q[1] = Quote
  <2>1. q \in AnyText /\ Len(q) # 0 /\ q[1] = Quote
    BY QuotedStringIs
  <2> HIDE DEF q
  <2>2. QED
    BY <2>1, EmptySeq
<1>2. ReadQuotedString(u, i, "\"") = e
  BY QuotedStringIsScanned
<1>3. UnquoteString(q) = Valued(s)
  BY QuotedIsUnquoted
<1> HIDE DEF q
<1>4. /\ i \in 1 .. Len(u) /\ e \in i + 1 .. Len(u) + 1
      /\ At(u, i) = q[1] /\ SubSeq(u, i, e - 1) = q
  BY <1>1, StandingText DEF q
<1>5. e # None
  BY <1>4 DEF None
<1>6. l = [id |-> "QuotedString", end |-> e]
  <2>1. l = Lexeme("QuotedString", ReadQuotedString(u, i, "\""))
    BY <1>1, <1>4, ReadsAQuote
  <2> HIDE DEF l
  <2>2. QED
    BY <1>2, <1>5, <2>1 DEF Lexeme
<1> HIDE DEF l
<1>7. Text(u, i, l) = q /\ l.id = "QuotedString"
  BY <1>4, <1>6 DEF Text
<1>8. ValueFromToken("QuotedString", q) = Flagged(TextValue("string", s), "quoted")
  BY <1>3 DEF ValueFromToken, Valued
<1>9. Flagged(TextValue("string", s), "quoted") = [TextValue("string", s) EXCEPT !.flag = "quoted"]
  <2>1. TextValue("string", s) # NotAValue
    <3>1. TextValue("string", s).kind = "string" /\ NotAValue.kind = "error"
      BY DEF TextValue, NotAValue, Value
    <3>2. QED
      BY <3>1
  <2>2. QED
    BY <2>1 DEF Flagged
<1>10. QED
  BY <1>6, <1>7, <1>8, <1>9 DEF l, q

-----------------------------------------------------------------------------
(* Raw strings *)

LEMMA Joined ==
  ASSUME NEW S, NEW a \in Seq(S), NEW b \in Seq(S)
  PROVE  /\ a \o b \in Seq(S) /\ Len(a) \in Nat /\ Len(b) \in Nat /\ Len(a \o b) = Len(a) + Len(b)
         /\ \A j \in 1 .. Len(a) : (a \o b)[j] = a[j]
         /\ \A j \in 1 .. Len(b) : (a \o b)[Len(a) + j] = b[j]
<1>1. /\ a \o b \in Seq(S) /\ Len(a) \in Nat /\ Len(b) \in Nat /\ Len(a \o b) = Len(a) + Len(b)
      /\ \A j \in 1 .. Len(a) + Len(b) : (a \o b)[j] = IF j <= Len(a) THEN a[j] ELSE b[j - Len(a)]
  BY ConcatProperties, LenProperties
<1>2. \A j \in 1 .. Len(a) : j \in 1 .. Len(a) + Len(b) /\ j <= Len(a)
  BY <1>1
<1>3. \A j \in 1 .. Len(b) : /\ Len(a) + j \in 1 .. Len(a) + Len(b)
                             /\ ~(Len(a) + j <= Len(a)) /\ Len(a) + j - Len(a) = j
  BY <1>1
<1>4. QED
  BY <1>1, <1>2, <1>3

LEMMA SameText ==
  ASSUME NEW S, NEW t \in Seq(S), NEW u \in Seq(S), NEW j \in Nat \ {0}, t # << >>,
         j + Len(t) - 1 <= Len(u)
  PROVE  SubSeq(u, j, j + Len(t) - 1) = t <=> \A k \in 1 .. Len(t) : u[j + k - 1] = t[k]
<1> DEFINE n == j + Len(t) - 1
           v == SubSeq(u, j, n)
<1>1. Len(t) \in Nat \ {0} /\ Len(u) \in Nat
  BY LenProperties, EmptySeq
<1>2. n \in Int /\ n - j + 1 = Len(t) /\ j <= n /\ n <= Len(u)
  BY <1>1
<1>3. \A k \in j .. n : u[k] \in S
  <2>1. \A k \in j .. n : k \in 1 .. Len(u)
    BY <1>1, <1>2
  <2>2. QED
    BY <2>1, ElementOfSeq
<1> HIDE DEF n
<1>4. v \in Seq(S) /\ Len(v) = Len(t) /\ \A k \in 1 .. Len(t) : v[k] = u[j + k - 1]
  BY <1>2, <1>3, SubSeqProperties
<1> HIDE DEF v
<1>5. v = t <=> \A k \in 1 .. Len(t) : v[k] = t[k]
  BY <1>4, SeqEqual
<1>6. QED
  BY <1>4, <1>5 DEF v, n

\* The mark that ends a raw string with n hashes
Mark(n) == <<Quote>> \o Hashes(n)

LEMMA HashesAre ==
  ASSUME NEW n \in Nat
  PROVE  /\ Hashes(n) \in Seq(Char) /\ Len(Hashes(n)) = n
         /\ \A j \in 1 .. n : Hashes(n)[j] = "#"
         /\ Mark(n) \in Seq(Char) /\ Len(Mark(n)) = n + 1 /\ Mark(n)[1] = Quote
         /\ \A j \in 1 .. n : Mark(n)[j + 1] = "#"
<1> DEFINE h == Hashes(n)
           quote == <<Quote>>
<1>1. "#" \in Char /\ Quote \in Char
  BY QuoteIsItself DEF Char, Marks
<1>2. h \in [1 .. n -> Char] /\ \A j \in 1 .. n : h[j] = "#"
  BY <1>1 DEF Hashes
<1>3. h \in Seq(Char) /\ Len(h) = n
  <2> HIDE DEF h
  <2>1. h \in Seq(Char)
    BY <1>2, IsASeq
  <2>2. Len(h) = n
    BY <1>2, <2>1, LenProperties
  <2>3. QED
    BY <2>1, <2>2
<1>4. quote \in Seq(Char) /\ Len(quote) = 1 /\ quote[1] = Quote
  BY <1>1
<1> HIDE DEF h, quote
<1>5. /\ quote \o h \in Seq(Char) /\ Len(quote \o h) = Len(quote) + Len(h)
      /\ \A j \in 1 .. Len(quote) : (quote \o h)[j] = quote[j]
      /\ \A j \in 1 .. Len(h) : (quote \o h)[Len(quote) + j] = h[j]
  <2>1. quote \in Seq(Char) /\ h \in Seq(Char)
    BY <1>3, <1>4
  <2>2. QED
    BY ONLY <2>1, Joined
<1>6. 1 \in 1 .. Len(quote) /\ \A j \in 1 .. n : Len(quote) + j = j + 1
  BY <1>4
<1>7. Mark(n) = quote \o h
  BY DEF Mark, quote, h
<1>8. Len(quote) + Len(h) = n + 1
  BY <1>3, <1>4
<1>9. QED
  BY <1>2, <1>3, <1>4, <1>5, <1>6, <1>7, <1>8 DEF h

\* How many hashes RawString takes, and that they are enough
LEMMA EnoughHashes ==
  ASSUME NEW s \in Seq(Char)
  PROVE  \E n \in Nat :
           /\ ~Within(s, Mark(n))
           /\ RawString(s) = <<"r">> \o Hashes(n) \o <<Quote>> \o s \o <<Quote>> \o Hashes(n)
<1> DEFINE T == {k \in 0 .. Len(s) + 1 : ~Within(s, Mark(k))}
           n == Min(T)
<1>1. Len(s) \in Nat
  BY LenProperties
<1>2. Len(s) + 1 \in T
  <2> DEFINE k == Len(s) + 1
  <2>1. k \in Nat /\ k \in 0 .. Len(s) + 1
    BY <1>1
  <2>2. Len(Mark(k)) = k + 1
    BY <2>1, HashesAre
  <2>3. 1 .. Len(s) - (k + 1) + 1 = {}
    BY <1>1
  <2>4. ~Within(s, Mark(k))
    BY <2>2, <2>3 DEF Within
  <2>5. QED
    BY <2>1, <2>4
<1>3. T \in SUBSET Nat
  BY <1>1
<1> HIDE DEF T
<1>4. n \in T
  BY <1>2, <1>3, Smallest
<1>5. n \in Nat /\ ~Within(s, Mark(n))
  BY <1>3, <1>4 DEF T
<1>6. RawString(s) = <<"r">> \o Hashes(n) \o <<Quote>> \o s \o <<Quote>> \o Hashes(n)
  BY ZenonT(60) DEF RawString, T, Mark, Hashes, Quote
<1> HIDE DEF n
<1>7. QED
  BY <1>5, <1>6

\* What is where in a raw string
RawShape(q, s, n) ==
  LET z == n + Len(s) + 3
  IN  /\ q \in Seq(Char) /\ Len(q) = z + n
      /\ q[1] = "r" /\ (\A j \in 1 .. n : q[j + 1] = "#") /\ q[n + 2] = Quote
      /\ \A j \in 1 .. Len(s) : q[n + 2 + j] = s[j]
      /\ q[z] = Quote /\ \A j \in 1 .. n : q[z + j] = "#"

LEMMA RawStringIs ==
  ASSUME NEW s \in Seq(Char), NEW n \in Nat
  PROVE  RawShape(<<"r">> \o Hashes(n) \o <<Quote>> \o s \o <<Quote>> \o Hashes(n), s, n)
<1> DEFINE r  == <<"r">>
           quote == <<Quote>>
           h  == Hashes(n)
           q2 == r \o h
           q3 == q2 \o quote
           q4 == q3 \o s
           q5 == q4 \o quote
           q6 == q5 \o h
           m  == Len(s)
<1>1. /\ h \in Seq(Char) /\ Len(h) = n /\ (\A j \in 1 .. n : h[j] = "#")
      /\ s \in Seq(Char) /\ m \in Nat
  BY HashesAre, LenProperties
<1>2. r \in Seq(Char) /\ Len(r) = 1 /\ r[1] = "r" /\ quote \in Seq(Char) /\ Len(quote) = 1 /\ quote[1] = Quote
  <2>1. "r" \in Char /\ Quote \in Char
    BY QuoteIsItself DEF Char, Letters
  <2>2. QED
    BY <2>1
<1> HIDE DEF r, quote, h, m
<1>3. /\ q2 \in Seq(Char) /\ Len(q2) = n + 1 /\ q2[1] = "r" /\ \A j \in 1 .. n : q2[j + 1] = "#"
  <2>1. r \in Seq(Char) /\ h \in Seq(Char)
    BY <1>1, <1>2
  <2>2. /\ r \o h \in Seq(Char) /\ Len(r \o h) = Len(r) + Len(h)
        /\ (\A j \in 1 .. Len(r) : (r \o h)[j] = r[j]) /\ \A j \in 1 .. Len(h) : (r \o h)[Len(r) + j] = h[j]
    BY ONLY <2>1, Joined
  <2>3. 1 \in 1 .. Len(r) /\ Len(r) + Len(h) = n + 1 /\ \A j \in 1 .. n : Len(r) + j = j + 1
    BY <1>1, <1>2
  <2>4. QED
    BY <1>1, <1>2, <2>2, <2>3
<1> HIDE DEF q2
<1>4. /\ q3 \in Seq(Char) /\ Len(q3) = n + 2 /\ (\A j \in 1 .. n + 1 : q3[j] = q2[j]) /\ q3[n + 2] = Quote
  <2>1. q2 \in Seq(Char) /\ quote \in Seq(Char)
    BY <1>2, <1>3
  <2>2. /\ q2 \o quote \in Seq(Char) /\ Len(q2 \o quote) = Len(q2) + Len(quote)
        /\ (\A j \in 1 .. Len(q2) : (q2 \o quote)[j] = q2[j]) /\ \A j \in 1 .. Len(quote) : (q2 \o quote)[Len(q2) + j] = quote[j]
    BY ONLY <2>1, Joined
  <2>3. 1 \in 1 .. Len(quote) /\ Len(q2) + Len(quote) = n + 2 /\ Len(q2) + 1 = n + 2
    BY <1>2, <1>3
  <2>4. QED
    BY <1>2, <1>3, <2>2, <2>3
<1> HIDE DEF q3
<1>5. /\ q4 \in Seq(Char) /\ Len(q4) = n + 2 + m /\ (\A j \in 1 .. n + 2 : q4[j] = q3[j])
      /\ \A j \in 1 .. m : q4[n + 2 + j] = s[j]
  <2>1. q3 \in Seq(Char) /\ s \in Seq(Char)
    BY <1>1, <1>4
  <2>2. /\ q3 \o s \in Seq(Char) /\ Len(q3 \o s) = Len(q3) + Len(s)
        /\ (\A j \in 1 .. Len(q3) : (q3 \o s)[j] = q3[j]) /\ \A j \in 1 .. Len(s) : (q3 \o s)[Len(q3) + j] = s[j]
    BY ONLY <2>1, Joined
  <2>3. QED
    BY <1>4, <2>2 DEF m
<1> HIDE DEF q4
<1>6. /\ q5 \in Seq(Char) /\ Len(q5) = n + m + 3 /\ (\A j \in 1 .. n + 2 + m : q5[j] = q4[j])
      /\ q5[n + m + 3] = Quote
  <2>1. q4 \in Seq(Char) /\ quote \in Seq(Char)
    BY <1>2, <1>5
  <2>2. /\ q4 \o quote \in Seq(Char) /\ Len(q4 \o quote) = Len(q4) + Len(quote)
        /\ (\A j \in 1 .. Len(q4) : (q4 \o quote)[j] = q4[j]) /\ \A j \in 1 .. Len(quote) : (q4 \o quote)[Len(q4) + j] = quote[j]
    BY ONLY <2>1, Joined
  <2>3. 1 \in 1 .. Len(quote) /\ Len(q4) + Len(quote) = n + m + 3 /\ Len(q4) + 1 = n + m + 3
    BY <1>1, <1>2, <1>5
  <2>4. QED
    BY <1>2, <1>5, <2>2, <2>3
<1> HIDE DEF q5
<1>7. /\ q6 \in Seq(Char) /\ Len(q6) = n + m + 3 + n /\ (\A j \in 1 .. n + m + 3 : q6[j] = q5[j])
      /\ \A j \in 1 .. n : q6[n + m + 3 + j] = "#"
  <2>1. q5 \in Seq(Char) /\ h \in Seq(Char)
    BY <1>1, <1>6
  <2>2. /\ q5 \o h \in Seq(Char) /\ Len(q5 \o h) = Len(q5) + Len(h)
        /\ (\A j \in 1 .. Len(q5) : (q5 \o h)[j] = q5[j]) /\ \A j \in 1 .. Len(h) : (q5 \o h)[Len(q5) + j] = h[j]
    BY ONLY <2>1, Joined
  <2>3. QED
    BY <1>1, <1>6, <2>2
<1> HIDE DEF q6
<1>8. q6[1] = "r" /\ \A j \in 1 .. n : q6[j + 1] = "#"
  <2>1. \A j \in 1 .. n + 1 : j \in 1 .. n + 2 /\ j \in 1 .. n + 2 + m /\ j \in 1 .. n + m + 3
    BY <1>1
  <2>2. \A j \in 1 .. n + 1 : q6[j] = q2[j]
    BY <1>4, <1>5, <1>6, <1>7, <2>1
  <2>3. 1 \in 1 .. n + 1 /\ \A j \in 1 .. n : j + 1 \in 1 .. n + 1
    OBVIOUS
  <2>4. QED
    BY <1>3, <2>2, <2>3
<1>9. q6[n + 2] = Quote /\ \A j \in 1 .. m : q6[n + 2 + j] = s[j]
  <2>1. /\ n + 2 \in 1 .. n + 2 /\ n + 2 \in 1 .. n + 2 + m /\ n + 2 \in 1 .. n + m + 3
        /\ \A j \in 1 .. m : n + 2 + j \in 1 .. n + 2 + m /\ n + 2 + j \in 1 .. n + m + 3
    BY <1>1
  <2>2. QED
    BY <1>4, <1>5, <1>6, <1>7, <2>1
<1>10. q6[n + m + 3] = Quote
  <2>1. n + m + 3 \in 1 .. n + m + 3
    BY <1>1
  <2>2. QED
    BY <1>6, <1>7, <2>1
<1>11. RawShape(q6, s, n)
  BY <1>7, <1>8, <1>9, <1>10 DEF RawShape, m
<1>12. QED
  BY <1>11 DEF q6, q5, q4, q3, q2, r, quote, h

LEMMA RawIsUnquoted ==
  ASSUME NEW s \in Seq(Char), NEW n \in Nat, NEW q, RawShape(q, s, n)
  PROVE  UnquoteRaw(q) = s
<1> DEFINE z == n + Len(s) + 3
           T == {i \in DOMAIN q : q[i] = Quote}
           v == SubSeq(q, n + 3, z - 1)
<1>1. /\ Len(s) \in Nat /\ q \in Seq(Char) /\ Len(q) = z + n /\ DOMAIN q = 1 .. z + n
      /\ q[1] = "r" /\ (\A j \in 1 .. n : q[j + 1] = "#") /\ q[n + 2] = Quote
      /\ \A j \in 1 .. Len(s) : q[n + 2 + j] = s[j]
  BY LenProperties DEF RawShape
<1>2. "r" # Quote /\ "#" # Quote
  BY QuoteIsItself
<1>3. n + 2 \in T /\ \A i \in T : i \in Nat /\ n + 2 <= i
  <2>1. n + 2 \in T
    BY <1>1
  <2>2. ASSUME NEW i \in T
        PROVE  i \in Nat /\ n + 2 <= i
    <3>1. i \in 1 .. z + n /\ q[i] = Quote
      BY <1>1
    <3>2. i = 1 \/ i - 1 \in 1 .. n \/ n + 2 <= i
      BY <3>1
    <3>3. i - 1 \in 1 .. n => q[i - 1 + 1] = "#" /\ i - 1 + 1 = i
      BY <1>1, <3>1
    <3>4. QED
      BY <1>1, <1>2, <3>1, <3>2, <3>3
  <2>3. QED
    BY <2>1, <2>2
<1>4. UnquoteRaw(q) = SubSeq(q, Min(T) + 1, Len(q) - Min(T) + 1)
  BY ZenonT(60) DEF UnquoteRaw, Quote
<1> HIDE DEF T
<1>5. Min(T) = n + 2
  <2>1. T \in SUBSET Nat /\ T # {}
    BY <1>3
  <2>2. Min(T) \in T /\ Min(T) <= n + 2
    BY <1>3, <2>1, Smallest
  <2> DEFINE k == Min(T)
  <2>3. k \in Nat /\ n + 2 <= k /\ k <= n + 2
    BY <1>3, <2>2
  <2> HIDE DEF k
  <2>4. k = n + 2
    BY <2>3
  <2>5. QED
    BY <2>4 DEF k
<1>6. UnquoteRaw(q) = v
  <2>1. n + 2 + 1 = n + 3 /\ z + n - (n + 2) + 1 = z - 1
    BY <1>1
  <2>2. QED
    BY <1>1, <1>4, <1>5, <2>1
<1>7. v = s
  <2>1. n + 3 \in Int /\ z - 1 \in Int /\ z - 1 - (n + 3) + 1 = Len(s)
        /\ (n + 3 <= z - 1 <=> Len(s) # 0)
    BY <1>1
  <2>2. \A k \in n + 3 .. z - 1 : q[k] \in Char
    <3>1. \A k \in n + 3 .. z - 1 : k \in 1 .. Len(q)
      BY <1>1
    <3>2. QED
      BY <1>1, <3>1, ElementOfSeq
  <2> HIDE DEF z
  <2>3. /\ v \in Seq(Char) /\ Len(v) = (IF n + 3 <= z - 1 THEN Len(s) ELSE 0)
        /\ \A j \in 1 .. Len(s) : v[j] = q[n + 3 + j - 1]
    BY <2>1, <2>2, SubSeqProperties
  <2>4. Len(v) = Len(s) /\ \A j \in 1 .. Len(s) : n + 3 + j - 1 = n + 2 + j
    BY <1>1, <2>1, <2>3
  <2> HIDE DEF v
  <2>5. QED
    BY <1>1, <2>3, <2>4, SeqEqual
<1>8. QED
  BY <1>6, <1>7

\* The scanner stops at the first quote with enough hashes, which is the last.
LEMMA RawStringIsScanned ==
  ASSUME NEW s \in Seq(Char), NEW n \in Nat, NEW q, RawShape(q, s, n), ~Within(s, Mark(n)),
         NEW u \in AnyText, NEW i \in Nat, StandsAt(q, u, i)
  PROVE  ReadRawString(u, i) = i + Len(q)
<1> DEFINE m    == Len(s)
           z    == n + m + 3
           open == i + n + 1
           x    == i + n + m + 2
           mark == Mark(n)
           closes == {j \in open + 1 .. Len(u) - Len(mark) + 1 : SubSeq(u, j, j + Len(mark) - 1) = mark}
           end  == Min(closes) + Len(mark)
<1>1. /\ m \in Nat /\ q \in Seq(Char) /\ Len(q) = z + n
      /\ (\A j \in 1 .. n : q[j + 1] = "#") /\ q[n + 2] = Quote
      /\ (\A j \in 1 .. m : q[n + 2 + j] = s[j])
      /\ q[z] = Quote /\ \A j \in 1 .. n : q[z + j] = "#"
  BY LenProperties DEF RawShape
<1>2. Len(u) \in Nat /\ i \in 1 .. Len(u) /\ i + (z + n) - 1 <= Len(u)
      /\ \A j \in 1 .. z + n : u[i + j - 1] = q[j]
  BY <1>1, TextEnds DEF StandsAt
<1>3. /\ mark \in Seq(Char) /\ mark \in AnyText /\ mark # << >> /\ Len(mark) = n + 1
      /\ mark[1] = Quote /\ \A j \in 1 .. n : mark[j + 1] = "#"
  <2>1. mark \in AnyText
    BY HashesAre, SeqMonotonic DEF AnyText
  <2>2. mark # << >>
    <3>1. mark \in Seq(Char) /\ Len(mark) # 0
      BY HashesAre
    <3> HIDE DEF mark
    <3>2. QED
      BY <3>1, EmptySeq
  <2>3. QED
    BY <2>1, <2>2, HashesAre
<1>4. "#" # Quote
  BY QuoteIsItself
<1> HIDE DEF mark, m
\* What stands where
<1>5. /\ u[open] = Quote /\ u[x] = Quote
      /\ (\A j \in 1 .. n : u[i + j] = "#" /\ u[x + j] = "#")
      /\ \A j \in 1 .. m : u[open + j] = s[j]
  <2>1. /\ n + 2 \in 1 .. z + n /\ i + (n + 2) - 1 = open
        /\ z \in 1 .. z + n /\ i + z - 1 = x
    BY <1>1, <1>2
  <2>2. \A j \in 1 .. n : /\ j + 1 \in 1 .. z + n /\ i + (j + 1) - 1 = i + j
                          /\ z + j \in 1 .. z + n /\ i + (z + j) - 1 = x + j
    BY <1>1, <1>2
  <2>3. \A j \in 1 .. m : n + 2 + j \in 1 .. z + n /\ i + (n + 2 + j) - 1 = open + j
    BY <1>1, <1>2
  <2>4. u[open] = Quote /\ u[x] = Quote
    <3>1. u[i + (n + 2) - 1] = q[n + 2] /\ u[i + z - 1] = q[z]
      BY <1>2, <2>1
    <3> HIDE DEF open, x, z
    <3>2. QED
      BY <1>1, <2>1, <3>1
  <2>5. ASSUME NEW j \in 1 .. n
        PROVE  u[i + j] = "#" /\ u[x + j] = "#"
    <3>1. u[i + (j + 1) - 1] = q[j + 1] /\ u[i + (z + j) - 1] = q[z + j]
      BY <1>2, <2>2
    <3> HIDE DEF x, z
    <3>2. QED
      BY <1>1, <2>2, <3>1
  <2>6. ASSUME NEW j \in 1 .. m
        PROVE  u[open + j] = s[j]
    <3>1. u[i + (n + 2 + j) - 1] = q[n + 2 + j]
      BY <1>2, <2>3
    <3> HIDE DEF open, z
    <3>2. QED
      BY <1>1, <2>3, <3>1
  <2>7. QED
    BY <2>4, <2>5, <2>6
<1>6. /\ open \in i + 1 .. Len(u) + 1 /\ open \in 1 .. Len(u) /\ i + 1 \in 1 .. Len(u) + 1
      /\ x \in open + 1 .. Len(u) - (n + 1) + 1 /\ x \in 1 .. Len(u) /\ x + n + 1 = i + Len(q)
      /\ \A j \in 1 .. n : i + j \in 1 .. Len(u) /\ x + j \in 1 .. Len(u)
  BY <1>1, <1>2
<1>7. RunEnd(u, i + 1, {"#"}) = open
  <2>1. At(u, open) = Quote
    BY <1>5, <1>6, TextEnds
  <2>2. ASSUME NEW j \in i + 1 .. open - 1
        PROVE  At(u, j) = "#"
    <3>1. j - i \in 1 .. n /\ i + (j - i) = j
      BY <1>2
    <3>2. u[j] = "#" /\ j \in 1 .. Len(u)
      BY <1>5, <1>6, <3>1
    <3>3. QED
      BY <3>2, TextEnds
  <2> DEFINE from == i + 1
             set  == {"#"}
  <2>3. /\ from \in 1 .. Len(u) + 1 /\ open \in from .. Len(u) + 1 /\ At(u, open) \notin set
        /\ \A j \in from .. open - 1 : At(u, j) \in set
    <3> HIDE DEF open
    <3>1. QED
      BY <1>4, <1>6, <2>1, <2>2
  <2> HIDE DEF open, from, set
  <2>4. RunEnd(u, from, set) = open
    BY ONLY u \in AnyText, <2>3, RunIs
  <2>5. QED
    BY <2>4 DEF from, set
<1>8. At(u, open) = Quote
  BY <1>5, <1>6, TextEnds
<1>9. \A j \in closes : /\ j \in open + 1 .. Len(u) - (n + 1) + 1
                        /\ \A k \in 1 .. n + 1 : u[j + k - 1] = mark[k]
  <2>1. ASSUME NEW j \in open + 1 .. Len(u) - (n + 1) + 1, SubSeq(u, j, j + Len(mark) - 1) = mark
        PROVE  \A k \in 1 .. n + 1 : u[j + k - 1] = mark[k]
    <3>1. j \in Nat \ {0} /\ j + Len(mark) - 1 <= Len(u)
      BY <1>2, <1>3
    <3> HIDE DEF open
    <3>2. QED
      BY <1>3, <2>1, <3>1, SameText DEF AnyText
  <2> HIDE DEF open
  <2>2. QED
    BY <1>3, <2>1
<1>10. x \in closes
  <2>1. x \in Nat \ {0} /\ x + Len(mark) - 1 <= Len(u) /\ x + 1 - 1 = x
    BY <1>1, <1>2, <1>3
  <2>2. ASSUME NEW k \in 1 .. n + 1
        PROVE  u[x + k - 1] = mark[k]
    <3>1. CASE k = 1
      BY <1>3, <1>5, <2>1, <3>1
    <3>2. CASE k # 1
      <4>1. k - 1 \in 1 .. n /\ x + (k - 1) = x + k - 1 /\ k - 1 + 1 = k
        BY <1>1, <1>2, <3>2
      <4>2. u[x + (k - 1)] = "#" /\ mark[k - 1 + 1] = "#"
        BY <1>3, <1>5, <4>1
      <4>3. QED
        BY <4>1, <4>2
    <3>3. QED
      BY <3>1, <3>2
  <2> HIDE DEF x
  <2>3. SubSeq(u, x, x + Len(mark) - 1) = mark
    BY <1>3, <2>1, <2>2, SameText DEF AnyText
  <2> HIDE DEF open
  <2>4. QED
    BY <1>3, <1>6, <2>3
<1>11. ASSUME NEW j \in closes
       PROVE  ~(j < x)
  <2>1. SUFFICES ASSUME j < x
                 PROVE  FALSE
    OBVIOUS
  <2>2. j \in open + 1 .. x - 1 /\ \A k \in 1 .. n + 1 : u[j + k - 1] = mark[k]
    <3>1. j \in open + 1 .. Len(u) - (n + 1) + 1 /\ \A k \in 1 .. n + 1 : u[j + k - 1] = mark[k]
      BY <1>9
    <3>2. j \in open + 1 .. x - 1
      BY <1>1, <1>2, <2>1, <3>1
    <3>3. QED
      BY <3>1, <3>2
  <2>3. CASE j + n >= x
    <3>1. x - j \in 1 .. n /\ x - j + 1 \in 1 .. n + 1 /\ j + (x - j + 1) - 1 = x
      BY <1>1, <1>2, <2>2, <2>3
    <3>2. u[j + (x - j + 1) - 1] = mark[x - j + 1] /\ mark[x - j + 1] = "#"
      BY <1>3, <2>2, <3>1
    <3>3. QED
      BY <1>4, <1>5, <3>1, <3>2
  <2>4. CASE ~(j + n >= x)
    <3> DEFINE a == j - open
    <3>1. /\ a \in 1 .. m - (n + 1) + 1 /\ a \in Nat \ {0} /\ a + (n + 1) - 1 <= m
          /\ \A k \in 1 .. n + 1 : a + k - 1 \in 1 .. m /\ open + (a + k - 1) = j + k - 1
      BY <1>1, <1>2, <2>2, <2>4
    <3> HIDE DEF a
    <3>2. \A k \in 1 .. n + 1 : s[a + k - 1] = mark[k]
      BY <1>5, <2>2, <3>1
    <3>3. a + Len(mark) - 1 <= Len(s) /\ a \in 1 .. Len(s) - Len(mark) + 1
      BY <1>3, <3>1 DEF m
    <3>4. SubSeq(s, a, a + Len(mark) - 1) = mark
      BY <1>3, <3>1, <3>2, <3>3, SameText
    <3>5. Within(s, mark)
      BY <3>3, <3>4 DEF Within
    <3>6. QED
      BY <3>5 DEF mark
  <2>5. QED
    BY <2>3, <2>4
<1>12. closes # {} /\ Min(closes) = x
  <2>1. closes \in SUBSET Nat /\ closes # {} /\ \A j \in closes : j \in Nat /\ ~(j < x)
    <3>1. \A j \in closes : j \in Nat
      <4>1. \A j \in open + 1 .. Len(u) - (n + 1) + 1 : j \in Nat
        BY <1>2
      <4> HIDE DEF closes, open
      <4>2. QED
        BY <1>9, <4>1
    <3> HIDE DEF closes, x
    <3>2. QED
      BY <1>10, <1>11, <3>1
  <2>2. x \in Nat
    BY <1>1, <1>2
  <2> HIDE DEF closes, x
  <2>3. Min(closes) \in closes /\ Min(closes) <= x
    BY <1>10, <2>1, Smallest
  <2> DEFINE k == Min(closes)
  <2>4. k \in Nat /\ ~(k < x) /\ k <= x
    BY <2>1, <2>3
  <2> HIDE DEF k
  <2>5. k = x
    BY <2>2, <2>4
  <2>6. QED
    BY <2>1, <2>5 DEF k
<1>13. end = i + Len(q)
  <2>1. x + (n + 1) = i + Len(q)
    BY <1>1, <1>2
  <2> HIDE DEF closes, x
  <2>2. QED
    BY <1>3, <1>12, <2>1
<1>14. ~Has(u, i, end - 1, Bad)
  <2>1. ASSUME NEW k \in i .. i + (z + n) - 1
        PROVE  At(u, k) # Bad
    <3>1. k - i + 1 \in 1 .. z + n /\ i + (k - i + 1) - 1 = k /\ k \in 1 .. Len(u)
      BY <1>1, <1>2
    <3> DEFINE j == k - i + 1
    <3>2. u[i + j - 1] = q[j] /\ q[j] \in Char
      <4> HIDE DEF j, z
      <4>1. QED
        BY <1>1, <1>2, <3>1, ElementOfSeq DEF j
    <3> HIDE DEF j
    <3>3. u[k] \in Char
      BY <3>1, <3>2 DEF j
    <3>4. QED
      BY <3>1, <3>3, TextEnds, NotCharacters
  <2>2. end - 1 = i + (z + n) - 1
    <3> HIDE DEF end, z
    <3>1. QED
      BY <1>1, <1>13
  <2> HIDE DEF end, z
  <2>3. QED
    BY <2>1, <2>2 DEF Has
<1>15. open - i - 1 = n
  BY <1>2
<1> HIDE DEF end, open
<1>16. ReadRawString(u, i) = end
  <2> DEFINE o    == RunEnd(u, i + 1, {"#"})
             mk   == Mark(o - i - 1)
             cl   == {j \in o + 1 .. Len(u) - Len(mk) + 1 : SubSeq(u, j, j + Len(mk) - 1) = mk}
             ed   == Min(cl) + Len(mk)
  <2>1. ReadRawString(u, i) = IF At(u, o) # Quote \/ cl = {} THEN None
                              ELSE IF Has(u, i, ed - 1, Bad) THEN None ELSE ed
    BY ZenonT(60) DEF ReadRawString, Mark, Quote
  <2>2. o = open /\ mk = mark
    BY <1>7, <1>15 DEF mark
  <2> HIDE DEF o, mk
  <2>3. cl = closes
    BY <2>2
  <2> HIDE DEF cl, closes
  <2>4. ed = end
    BY <2>2, <2>3 DEF end
  <2> HIDE DEF ed
  <2>5. QED
    BY <1>8, <1>12, <1>14, <2>1, <2>2, <2>3, <2>4
<1>17. QED
  BY <1>13, <1>16

LEMMA ReadsARawString ==
  ASSUME NEW u, NEW i, NEW rf \in SUBSET RelaxedFlags,
         At(u, i) = "r", At(u, i + 1) \in {"#", Quote}
  PROVE  ReadNext(u, i, rf) = Lexeme("RawString", ReadRawString(u, i))
<1>1. /\ "r" \notin {TheEnd, Bad} \cup WhiteSpace \cup Newlines \cup Signs \cup Digits
      /\ "r" \notin {"/"} \cup DOMAIN Marked /\ "r" # "#" /\ "r" # ":"
  BY DEF TheEnd, Bad, WhiteSpace, Newlines, Signs, Digits, Marked
<1>2. ReadNext(u, i, rf) = ReadIdentifier(u, i, rf)
  BY <1>1, ReadsAnIdentifier
<1>3. ReadIdentifier(u, i, rf) = Lexeme("RawString", ReadRawString(u, i))
  BY IdentifierIs
<1>4. QED
  BY <1>2, <1>3

\* What AppendRawString has written is one token too, which ends at its last
\* hash whatever comes next, and no hash or quote in the string ends it early.
THEOREM RawStringsReadBack ==
  ASSUME NEW s \in Seq(Char), NEW u \in AnyText, NEW i \in Nat, NEW rf \in SUBSET RelaxedFlags,
         StandsAt(RawString(s), u, i)
  PROVE  LET l == ReadNext(u, i, rf)
         IN  /\ l = [id |-> "RawString", end |-> i + Len(RawString(s))]
             /\ ValueFromToken(l.id, Text(u, i, l))
                  = [TextValue("string", s) EXCEPT !.flag = "raw"]
<1> DEFINE q == RawString(s)
           e == i + Len(q)
           l == ReadNext(u, i, rf)
<1>1. PICK n \in Nat : RawShape(q, s, n) /\ ~Within(s, Mark(n))
  <2>1. PICK n \in Nat :
          /\ ~Within(s, Mark(n))
          /\ q = <<"r">> \o Hashes(n) \o <<Quote>> \o s \o <<Quote>> \o Hashes(n)
    BY EnoughHashes
  <2>2. RawShape(q, s, n)
    BY <2>1, RawStringIs
  <2>3. QED
    BY <2>1, <2>2
<1> HIDE DEF q
<1>2. /\ q \in Seq(Char) /\ Len(q) = n + Len(s) + 3 + n /\ Len(s) \in Nat
      /\ q[1] = "r" /\ q[n + 2] = Quote /\ (\A j \in 1 .. n : q[j + 1] = "#")
  BY <1>1, LenProperties DEF RawShape
<1>3. q \in AnyText /\ q # << >>
  <2>1. q \in AnyText
    BY <1>2, SeqMonotonic DEF AnyText
  <2>2. Len(q) # 0
    BY <1>2
  <2>3. QED
    BY <1>2, <2>1, <2>2, EmptySeq
<1>4. ReadRawString(u, i) = e
  BY <1>1, RawStringIsScanned DEF q
<1>5. UnquoteRaw(q) = s
  BY <1>1, RawIsUnquoted
<1>6. /\ i \in 1 .. Len(u) /\ e \in i + 1 .. Len(u) + 1
      /\ At(u, i) = q[1] /\ SubSeq(u, i, e - 1) = q
  BY <1>3, StandingText DEF q
<1>7. At(u, i + 1) \in {"#", Quote}
  <2>1. q[2] \in {"#", Quote}
    <3>1. CASE n = 0
      BY <1>2, <3>1
    <3>2. CASE n # 0
      <4>1. 1 \in 1 .. n /\ 1 + 1 = 2
        BY <3>2
      <4>2. q[1 + 1] = "#"
        BY ONLY <1>2, <4>1
      <4>3. QED
        BY <4>1, <4>2
    <3>3. QED
      BY <3>1, <3>2
  <2>2. 2 \in 1 .. Len(q) /\ i + 2 - 1 = i + 1 /\ i + 1 \in 1 .. Len(u)
    BY <1>2, <1>6
  <2>3. u[i + 2 - 1] = q[2]
    BY <2>2 DEF StandsAt, q
  <2>4. At(u, i + 1) = u[i + 1]
    BY <2>2, TextEnds
  <2>5. QED
    BY <2>1, <2>2, <2>3, <2>4
<1>8. e # None
  BY <1>6 DEF None
<1>9. l = [id |-> "RawString", end |-> e]
  <2>1. l = Lexeme("RawString", ReadRawString(u, i))
    BY <1>2, <1>6, <1>7, ReadsARawString
  <2> HIDE DEF l
  <2>2. QED
    BY <1>4, <1>8, <2>1 DEF Lexeme
<1> HIDE DEF l
<1>10. Text(u, i, l) = q /\ l.id = "RawString"
  BY <1>6, <1>9 DEF Text
<1>11. ValueFromToken("RawString", q) = [TextValue("string", s) EXCEPT !.flag = "raw"]
  <2>1. TextValue("string", s) # NotAValue
    <3>1. TextValue("string", s).kind = "string" /\ NotAValue.kind = "error"
      BY DEF TextValue, NotAValue, Value
    <3>2. QED
      BY <3>1
  <2>2. ValueFromToken("RawString", q) = Flagged(TextValue("string", s), "raw")
    BY <1>5 DEF ValueFromToken
  <2>3. QED
    BY <2>1, <2>2 DEF Flagged
<1>12. QED
  BY <1>9, <1>10, <1>11 DEF l, q

-----------------------------------------------------------------------------
(* Words *)

\* Where NGINX's syntax is not read, a word has no character with another use.
LEMMA WordChars ==
  ASSUME NEW rf \in SUBSET RelaxedFlags, "NGINXSyntax" \notin rf
  PROVE  LET plain == BareIdentifierChars[{}]
         IN  /\ plain \subseteq Char /\ plain \subseteq BareIdentifierChars[rf] \cup {":"}
             /\ "YAMLTOMLAssignments" \notin rf => plain = BareIdentifierChars[rf]
             /\ Digits \subseteq BareIdentifierChars[rf] /\ "#" \in BareIdentifierChars[rf]
             /\ plain \cap (WhiteSpace \cup Newlines \cup LineSpace \cup Controls \cup DOMAIN Marked) = {}
             /\ plain \cap {"{", "}", "<", ">", ";", "[", "]", "=", ",", "\\", "(", ")", "/", Quote} = {}
<1> DEFINE some  == {"{", "}", "<", ">", ";", "[", "]", "=", ","}
           yaml  == IF "YAMLTOMLAssignments" \in rf THEN {":"} ELSE {}
           plain == Char \ (LineSpace \cup Controls \cup some \cup Enclosing)
<1>1. BareIdentifierChars[{}] = plain
  <2>1. {} \in SUBSET RelaxedFlags
    OBVIOUS
  <2> HIDE DEF some
  <2>2. BareIdentifierChars[{}] = Char \ (LineSpace \cup Controls \cup some \cup Enclosing \cup {})
    BY <2>1 DEF BareIdentifierChars, some
  <2>3. QED
    BY <2>2
<1>2. BareIdentifierChars[rf] = Char \ (LineSpace \cup Controls \cup some \cup Enclosing \cup yaml)
  BY DEF BareIdentifierChars
<1>3. yaml \subseteq {":"} /\ ("YAMLTOMLAssignments" \notin rf => yaml = {})
  OBVIOUS
<1>4. /\ Digits \subseteq Char /\ Digits \cap (LineSpace \cup Controls \cup some \cup {":"}) = {}
      /\ "#" \in Char /\ "#" \notin LineSpace \cup Controls \cup some \cup {":"}
  BY DEF Digits, Char, Marks, LineSpace, WhiteSpace, Newlines, Controls
<1>5. Digits \cap Enclosing = {} /\ "#" \notin Enclosing
  BY DEF Digits, Enclosing
<1>6. DOMAIN Marked = {"{", "}", "=", ";", "(", ")", "\\"}
  BY DEF Marked
<1>7. Enclosing = {"(", ")", "/", "\\", Quote}
  BY DEF Enclosing, Quote
<1>8. LineSpace = WhiteSpace \cup Newlines
  BY DEF LineSpace
<1> HIDE DEF yaml
<1>9. /\ plain \cap (WhiteSpace \cup Newlines \cup LineSpace \cup Controls \cup DOMAIN Marked) = {}
      /\ plain \cap {"{", "}", "<", ">", ";", "[", "]", "=", ",", "\\", "(", ")", "/", Quote} = {}
  BY <1>6, <1>7, <1>8
<1>10. QED
  <2> HIDE DEF some
  <2>1. /\ plain \subseteq Char /\ plain \subseteq BareIdentifierChars[rf] \cup {":"}
        /\ "YAMLTOMLAssignments" \notin rf => plain = BareIdentifierChars[rf]
        /\ Digits \subseteq BareIdentifierChars[rf] /\ "#" \in BareIdentifierChars[rf]
    BY <1>2, <1>3, <1>4, <1>5
  <2> HIDE DEF plain
  <2>2. QED
    BY <1>1, <1>9, <2>1

\* After a sign that no digit follows
LEMMA ReadsASign ==
  ASSUME NEW u, NEW i \in Nat, NEW rf, At(u, i) \in Signs, u[i] = At(u, i),
         At(u, i + 1) \notin {TheEnd, Bad} \cup Digits
  PROVE  ReadNext(u, i, rf) = ReadIdentifier(u, i, rf)
<1> DEFINE c       == At(u, i)
           next    == At(u, i + 1)
           newline == Lexeme("Newline", IF c = "\r" /\ At(u, i + 1) = "\n" THEN i + 2 ELSE i + 1)
           remark  == Lexeme("SingleLineComment", ReadSingleLineComment(u, i))
           space   == Lexeme("Whitespace", ReadWhitespace(u, i))
           mark    == Lexeme(Marked[c], i + 1)
<1>1. Punctuation(rf) \subseteq DOMAIN Marked
  BY DEF Punctuation, Marked
<1>2. ReadNext(u, i, rf) =
        CASE c = TheEnd -> AtEof
          [] c = Bad -> Failed
          [] c \in WhiteSpace -> space
          [] c \in Newlines -> newline
          [] c = "/" -> ReadSlash(u, i, rf)
          [] c \in Punctuation(rf) -> mark
          [] c \in Signs \cup {"0"} -> ReadAfterLook(u, i, rf)
          [] c \in Digits \ {"0"} -> ReadDecimal(u, i, rf)
          [] c = "#" /\ "NGINXSyntax" \in rf -> remark
          [] c = ":" /\ "YAMLTOMLAssignments" \in rf -> ReadColon(i)
          [] OTHER -> ReadIdentifier(u, i, rf)
  BY ZenonT(60) DEF ReadNext
<1>3. /\ Signs \cap ({TheEnd, Bad, "/", "#", ":", "0"} \cup Digits) = {}
      /\ Signs \cap (WhiteSpace \cup Newlines) = {} /\ Signs \cap DOMAIN Marked = {}
  BY DEF Signs, TheEnd, Bad, WhiteSpace, Newlines, Digits, Marked
<1>4. ReadAfterLook(u, i, rf) =
        CASE next = TheEnd -> AtEof
          [] next = Bad -> Failed
          [] u[i] = "0" /\ next \in {"x", "o", "b"} -> ReadNumericBase(u, i)
          [] u[i] \in Signs /\ next \notin Digits -> ReadIdentifier(u, i, rf)
          [] OTHER -> ReadDecimal(u, i, rf)
  BY ZenonT(60) DEF ReadAfterLook
<1>5. c \in Signs /\ u[i] = c /\ next \notin {TheEnd, Bad} \cup Digits
  OBVIOUS
<1> HIDE DEF c, next, newline, remark, space, mark
<1>6. ReadNext(u, i, rf) = ReadAfterLook(u, i, rf)
  BY <1>1, <1>2, <1>3, <1>5
<1>7. ReadAfterLook(u, i, rf) = ReadIdentifier(u, i, rf)
  BY <1>3, <1>4, <1>5
<1>8. QED
  BY <1>6, <1>7

\* What a word may begin with and not be scanned as one: Misread without the
\* keywords
Misscanned(s, rf) ==
  \/ s[1] \in {".", "_", "?"}
  \/ Len(s) > 1 /\ s[1] \in Signs /\ s[2] \in Digits
  \/ Len(s) > 1 /\ s[1] = "r" /\ s[2] = "#"
  \/ ":" \in Range(s) /\ "YAMLTOMLAssignments" \in rf

\* A word that is written bare is one token, a word or a keyword.
LEMMA WordsAreScanned ==
  ASSUME NEW s \in Seq(Char), IsBareIdentifier(s, {}),
         NEW rf \in SUBSET RelaxedFlags, "NGINXSyntax" \notin rf, ~Misscanned(s, rf),
         NEW u \in AnyText, NEW i \in Nat, StandsAt(s, u, i),
         At(u, i + Len(s)) \notin BareIdentifierChars[rf] \cup {Bad},
         Len(s) = 1 /\ s[1] = "r" => At(u, i + Len(s)) # Quote,
         Len(s) = 1 /\ s[1] \in Signs => At(u, i + Len(s)) # TheEnd
  PROVE  LET l == ReadNext(u, i, rf)
         IN  l = [id |-> Keyword(s), end |-> i + Len(s)] /\ Text(u, i, l) = s
<1> DEFINE plain == BareIdentifierChars[{}]
           chars == BareIdentifierChars[rf]
           z     == i + Len(s)
           c     == s[1]
           next  == At(u, i + 1)
           l     == ReadNext(u, i, rf)
<1>1. /\ s # << >> /\ Len(s) \in Nat \ {0} /\ s \in AnyText
      /\ c \in plain /\ c \notin Digits
      /\ \A k \in 1 .. Len(s) : s[k] \in plain /\ s[k] \in Char
  <2>1. {} \in SUBSET RelaxedFlags
    OBVIOUS
  <2>3. BareIdentifierStartChars[{}] = plain \ Digits
    BY <2>1 DEF BareIdentifierStartChars
  <2>4. s # << >> /\ Len(s) \in Nat \ {0} /\ DOMAIN s = 1 .. Len(s)
    <3>1. s # << >>
      BY DEF IsBareIdentifier
    <3>2. QED
      BY <3>1, LenProperties, EmptySeq
  <2>2. c \in BareIdentifierStartChars[{}] /\ Range(s) \subseteq plain
    <3>1. Bad \notin Range(s) /\ c # Bad
      BY <2>4, NotCharacters, ElementOfSeq DEF Range
    <3>2. QED
      BY <3>1 DEF IsBareIdentifier
  <2>5. \A k \in 1 .. Len(s) : s[k] \in Range(s)
    BY <2>4 DEF Range
  <2>6. s \in AnyText
    BY SeqMonotonic DEF AnyText
  <2>7. \A k \in 1 .. Len(s) : s[k] \in Char
    BY ElementOfSeq
  <2> HIDE DEF plain
  <2>8. QED
    BY <2>2, <2>3, <2>4, <2>5, <2>6, <2>7
<1>2. /\ c \notin {".", "_", "?"}
      /\ Len(s) > 1 => ~(c \in Signs /\ s[2] \in Digits) /\ ~(c = "r" /\ s[2] = "#")
      /\ "YAMLTOMLAssignments" \in rf => ":" \notin Range(s)
  BY DEF Misscanned
<1>3. /\ i \in 1 .. Len(u) /\ z \in i + 1 .. Len(u) + 1 /\ Len(u) \in Nat
      /\ At(u, i) = c /\ SubSeq(u, i, z - 1) = s
  BY <1>1, StandingText, TextEnds
<1>4. \A k \in 1 .. Len(s) : i + k - 1 \in 1 .. Len(u) /\ At(u, i + k - 1) = s[k]
  <2>1. ASSUME NEW k \in 1 .. Len(s)
        PROVE  i + k - 1 \in 1 .. Len(u) /\ At(u, i + k - 1) = s[k]
    <3>1. i + k - 1 \in 1 .. Len(u)
      BY <1>1, <1>3
    <3>2. u[i + k - 1] = s[k]
      BY DEF StandsAt
    <3>3. QED
      BY <3>1, <3>2, TextEnds
  <2>2. QED
    BY <2>1
<1>5. /\ plain \subseteq Char /\ plain \subseteq chars \cup {":"}
      /\ ("YAMLTOMLAssignments" \notin rf => plain = chars)
      /\ Digits \subseteq chars /\ "#" \in chars
      /\ plain \cap (WhiteSpace \cup Newlines \cup LineSpace \cup Controls \cup DOMAIN Marked) = {}
      /\ plain \cap {"{", "}", "<", ">", ";", "[", "]", "=", ",", "\\", "(", ")", "/", Quote} = {}
  BY WordChars
<1> HIDE DEF plain, chars
\* All of the word's characters are of a word under these flags too.
<1>6. \A k \in 1 .. Len(s) : s[k] \in chars
  <2>1. "YAMLTOMLAssignments" \in rf => \A k \in 1 .. Len(s) : s[k] # ":"
    <3>1. DOMAIN s = 1 .. Len(s)
      BY LenProperties
    <3>2. QED
      BY <1>2, <3>1 DEF Range
  <2>2. QED
    BY <1>1, <1>5, <2>1
<1>7. /\ c \notin {TheEnd, Bad} \cup WhiteSpace \cup Newlines \cup Digits
      /\ c \notin {"/"} \cup DOMAIN Marked /\ c # Quote /\ c \notin Refused[rf]
      /\ c = ":" => "YAMLTOMLAssignments" \notin rf
  <2>1. c \notin {TheEnd, Bad}
    BY <1>1, <1>5, NotCharacters
  <2>2. c = ":" => "YAMLTOMLAssignments" \notin rf
    <3>1. c \in Range(s)
      <4>1. 1 \in DOMAIN s
        BY <1>1, LenProperties
      <4>2. QED
        BY <4>1 DEF Range
    <3>2. QED
      BY <1>2, <3>1
  <2>3. c \notin Refused[rf]
    BY <1>1, <1>2, <1>5, RefusedAre
  <2>4. QED
    BY <1>1, <1>5, <2>1, <2>2, <2>3
\* What follows the first character
<1>8. /\ c \in Signs => next \notin {TheEnd, Bad} \cup Digits
      /\ c = "r" => next \notin {"#", Quote}
  <2>1. CASE Len(s) = 1
    <3>1. z = i + 1
      BY <2>1
    <3>2. next = At(u, i + Len(s))
      BY <3>1
    <3>3. QED
      BY <1>5, <2>1, <3>2 DEF chars
  <2>2. CASE Len(s) # 1
    <3>1. 2 \in 1 .. Len(s) /\ Len(s) > 1 /\ i + 2 - 1 = i + 1
      <4>1. \A n \in Nat \ {0} : n # 1 => 2 \in 1 .. n /\ n > 1
        OBVIOUS
      <4>2. i + 2 - 1 = i + 1
        OBVIOUS
      <4>3. QED
        BY <1>1, <2>2, <4>1, <4>2
    <3>2. next = s[2] /\ s[2] \in plain /\ s[2] \in Char
      BY <1>1, <1>4, <3>1
    <3>3. s[2] \notin {TheEnd, Bad} /\ s[2] # Quote
      BY <1>5, <3>2, NotCharacters
    <3>4. QED
      BY <1>2, <3>1, <3>2, <3>3
  <2>3. QED
    BY <2>1, <2>2
<1>9. l = ReadIdentifier(u, i, rf)
  <2>1. CASE c \in Signs
    <3>1. u[i] = At(u, i)
      BY <1>3, TextEnds
    <3>2. QED
      BY <1>3, <1>8, <2>1, <3>1, ReadsASign
  <2>2. CASE c \notin Signs
    BY <1>3, <1>7, <2>2, ReadsAnIdentifier
  <2>3. QED
    BY <2>1, <2>2
<1>10. l = ReadBareIdentifier(u, i, rf)
  <2>1. /\ ~(At(u, i) = "r" /\ At(u, i + 1) \in {"#", Quote})
        /\ At(u, i) # Quote /\ At(u, i) \notin Refused[rf]
    BY <1>3, <1>7, <1>8
  <2>2. ReadIdentifier(u, i, rf) = ReadBareIdentifier(u, i, rf)
    BY <2>1, IdentifierIs
  <2>3. QED
    BY <1>9, <2>2
<1>11. ReadWhile(u, i, chars, 1) = z
  <2>1. At(u, z) \notin chars /\ At(u, z) # Bad
    BY DEF chars
  <2>2. \A j \in i .. z - 1 : At(u, j) \in chars
    <3>1. ASSUME NEW j \in i .. z - 1
          PROVE  At(u, j) \in chars
      <4>1. j - i + 1 \in 1 .. Len(s) /\ i + (j - i + 1) - 1 = j
        BY <1>1, <1>3
      <4>2. At(u, i + (j - i + 1) - 1) = s[j - i + 1]
        BY <1>4, <4>1
      <4>3. QED
        BY <1>6, <4>1, <4>2
    <3>2. QED
      BY <3>1
  <2>3. i \in 1 .. Len(u) + 1 /\ z \in i .. Len(u) + 1 /\ z # i /\ ~(z - i < 1)
    BY <1>3
  <2> HIDE DEF z
  <2>4. RunEnd(u, i, chars) = z
    BY <2>1, <2>2, <2>3, RunIs
  <2>5. QED
    BY <2>1, <2>3, <2>4 DEF ReadWhile
<1>12. l = [id |-> Keyword(s), end |-> z]
  <2> DEFINE starts == IF At(u, i) \in Signs
                       THEN At(u, i + 1) \notin Digits \cup {TheEnd, Bad}
                       ELSE At(u, i) \in BareIdentifierStartChars[rf]
             end    == ReadWhile(u, i, BareIdentifierChars[rf], 1)
  <2>1. ReadBareIdentifier(u, i, rf) =
          IF ~starts \/ end = None THEN Failed ELSE Lexeme(Keyword(SubSeq(u, i, end - 1)), end)
    BY DEF ReadBareIdentifier
  <2>2. end = z /\ z # None
    BY <1>3, <1>11 DEF chars, None
  <2>3. starts
    <3>1. c \in BareIdentifierStartChars[rf]
      <4>1. 1 \in 1 .. Len(s)
        BY <1>1
      <4>2. c \in BareIdentifierChars[rf]
        BY <1>6, <4>1 DEF chars
      <4>3. QED
        BY <1>1, <4>2 DEF BareIdentifierStartChars
    <3>2. QED
      BY <1>3, <1>8, <3>1
  <2> HIDE DEF starts, end, z, l
  <2>4. ReadBareIdentifier(u, i, rf) = Lexeme(Keyword(s), z)
    BY <1>2, <1>3, <2>1, <2>2, <2>3
  <2>5. QED
    BY <1>10, <2>2, <2>4 DEF Lexeme
<1> HIDE DEF l
<1>13. Text(u, i, l) = s
  BY <1>3, <1>12 DEF Text
<1>14. QED
  BY <1>12, <1>13 DEF l, z

\* A word that is written bare is one token, a word, if the text goes on with
\* what is not part of one, and its value is the word, except for the words of
\* Misread: what IsBareIdentifier calls bare and what the scanner does differ
\* in these alone.
THEOREM WordsReadBack ==
  ASSUME NEW s \in Seq(Char), IsBareIdentifier(s, {}),
         NEW rf \in SUBSET RelaxedFlags, "NGINXSyntax" \notin rf, ~Misread(s, rf),
         NEW u \in AnyText, NEW i \in Nat, StandsAt(s, u, i),
         At(u, i + Len(s)) \notin BareIdentifierChars[rf] \cup {Bad},
         Len(s) = 1 /\ s[1] = "r" => At(u, i + Len(s)) # Quote,
         Len(s) = 1 /\ s[1] \in Signs => At(u, i + Len(s)) # TheEnd
  PROVE  LET l == ReadNext(u, i, rf)
         IN  /\ l = [id |-> "BareIdentifier", end |-> i + Len(s)]
             /\ ValueFromToken(l.id, Text(u, i, l)) = TextValue("string", s)
<1> DEFINE l == ReadNext(u, i, rf)
<1>1. Keyword(s) = "BareIdentifier" /\ ~Misscanned(s, rf)
  BY DEF Misread, Misscanned
<1>2. l = [id |-> "BareIdentifier", end |-> i + Len(s)] /\ Text(u, i, l) = s
  BY <1>1, WordsAreScanned
<1>3. ValueFromToken("BareIdentifier", s) = TextValue("string", s)
  BY DEF ValueFromToken
<1> HIDE DEF l
<1>4. l.id = "BareIdentifier"
  BY <1>2
<1>5. QED
  BY <1>2, <1>3, <1>4 DEF l

-----------------------------------------------------------------------------
(* Names, keys and string values, as the writer writes them *)

LEMMA QuotableStrings ==
  ASSUME NEW s \in String, ~Unquotable(s)
  PROVE  s \in Seq(Quotable) /\ s \in Seq(Char)
<1>1. Len(s) \in Nat /\ DOMAIN s = 1 .. Len(s) /\ \A k \in 1 .. Len(s) : s[k] \in Char \cup {Bad}
  BY LenProperties, ElementOfSeq DEF String
<1>2. \A k \in 1 .. Len(s) : s[k] \in Range(s)
  BY <1>1 DEF Range
<1>3. Range(s) \cap {"<0>", "<1>", "<7f>", Bad} = {}
  BY DEF Unquotable
<1>4. \A k \in 1 .. Len(s) : s[k] \in Quotable
  BY <1>1, <1>2, <1>3 DEF Quotable
<1>5. s \in [1 .. Len(s) -> Quotable]
  <2>1. s \in Seq(Char \cup {Bad})
    BY DEF String
  <2>2. s = [k \in 1 .. Len(s) |-> s[k]]
    BY <1>1, <2>1
  <2>3. QED
    BY <1>4, <2>2
<1>6. s \in Seq(Quotable)
  BY <1>1, <1>5, IsASeq
<1>7. s \in Seq(Char)
  BY <1>6, SeqMonotonic DEF Quotable
<1>8. QED
  BY <1>6, <1>7

\* What the writer writes after a name: a space, the end of a line, a semicolon
\* or an assignment, for which the reader must be told of colons
Following(rf) ==
  {" ", "\n", ";", "="} \cup IF "YAMLTOMLAssignments" \in rf THEN {":"} ELSE {}

LEMMA FollowingIsNotAWord ==
  ASSUME NEW rf \in SUBSET RelaxedFlags, NEW c \in Following(rf)
  PROVE  c \notin BareIdentifierChars[rf] \cup {Bad, TheEnd, Quote}
<1> DEFINE yaml  == IF "YAMLTOMLAssignments" \in rf THEN {":"} ELSE {}
           some  == {"{", "}", "<", ">", ";", "[", "]", "=", ","}
           nginx == IF "NGINXSyntax" \in rf THEN {} ELSE Enclosing
<1>1. BareIdentifierChars[rf] = Char \ (LineSpace \cup Controls \cup some \cup nginx \cup yaml)
  BY DEF BareIdentifierChars
<1>2. {" ", "\n"} \subseteq LineSpace
  BY DEF LineSpace, WhiteSpace, Newlines
<1>3. c \in LineSpace \cup some \cup yaml
  BY <1>2 DEF Following
<1>4. c \notin {Bad, TheEnd}
  BY DEF Following, Bad, TheEnd
<1>5. c # Quote
  <2>1. {" ", "\n", ";", "=", ":"} \cap {Quote} = {}
    BY DEF Quote
  <2>2. QED
    BY <2>1 DEF Following
<1> HIDE DEF yaml, some, nginx
<1>6. QED
  BY <1>1, <1>3, <1>4, <1>5

\* A node's name or a property's key comes back as it was, bare or quoted,
\* unless it is one of the strings that TextReadsBack makes an exception of.
THEOREM NamesReadBack ==
  ASSUME NEW s \in String,
         NEW rf \in SUBSET RelaxedFlags, "NGINXSyntax" \notin rf,
         ~Misread(s, rf), IsBareIdentifier(s, {}) \/ ~Unquotable(s),
         NEW q \in {KeyText(s), ValueText(TextValue("string", s), Renderings.NodeNameString)},
         NEW u \in AnyText, NEW i \in Nat, StandsAt(q, u, i),
         At(u, i + Len(q)) \in Following(rf)
  PROVE  LET l == ReadNext(u, i, rf)
             v == ValueFromToken(l.id, Text(u, i, l))
         IN  l.end = i + Len(q) /\ v.kind = "string" /\ v.text = s
<1> DEFINE l == ReadNext(u, i, rf)
           v == ValueFromToken(l.id, Text(u, i, l))
           t == TextValue("string", s)
<1>1. t.kind = "string" /\ t.text = s /\ t.flag = "none" /\ t.type = << >>
  BY DEF TextValue, Value
<1>2. q = IF IsBareIdentifier(s, {}) THEN s ELSE QuotedString(s)
  <2>1. KeyText(s) = IF IsBareIdentifier(s, {}) THEN s ELSE QuotedString(s)
    BY DEF KeyText
  <2>2. ValueText(t, Renderings.NodeNameString) = IF IsBareIdentifier(s, {}) THEN s ELSE QuotedString(s)
    <3> DEFINE opt == {"simpleString"}
    <3>1. Renderings.NodeNameString = opt
      BY DEF Renderings
    <3>2. "useNumericFlags" \notin opt /\ "noBare" \notin opt /\ "noQuotes" \notin opt
          /\ "strictStringFlags" \notin opt /\ "simpleString" \in opt
      OBVIOUS
    <3> HIDE DEF opt, t
    <3>3. StringText(t, opt) = IF IsBareIdentifier(s, {}) THEN s ELSE QuotedString(s)
      BY <1>1, <3>2 DEF StringText
    <3>4. BareText(t, opt) = StringText(t, opt)
      BY <1>1 DEF BareText
    <3>5. ValueText(t, opt) = << >> \o BareText(t, opt)
      BY <1>1 DEF ValueText
    <3>6. BareText(t, opt) \in AnyText
      <4>1. CASE IsBareIdentifier(s, {})
        BY <3>3, <3>4, <4>1 DEF String, AnyText
      <4>2. CASE ~IsBareIdentifier(s, {})
        BY <3>3, <3>4, <4>2, QuotableStrings, QuotedStringIs
      <4>3. QED
        BY <4>1, <4>2
    <3>7. << >> \o BareText(t, opt) = BareText(t, opt)
      BY <3>6, ConcatEmptySeq DEF AnyText
    <3>8. QED
      BY <3>1, <3>3, <3>4, <3>5, <3>7
  <2>3. QED
    BY <2>1, <2>2
<1>3. At(u, i + Len(q)) \notin BareIdentifierChars[rf] \cup {Bad, TheEnd, Quote}
  BY FollowingIsNotAWord
<1>4. CASE IsBareIdentifier(s, {})
  <2>1. s \in Seq(Char)
    <3>1. {} \in SUBSET RelaxedFlags /\ BareIdentifierChars[{}] \subseteq Char
      BY IdentifierSets
    <3>2. Range(s) \subseteq Char
      <4>1. Bad \notin Range(s)
        BY <1>4 DEF Misread
      <4>2. QED
        BY <1>4, <3>1, <4>1 DEF IsBareIdentifier
    <3>3. Len(s) \in Nat /\ DOMAIN s = 1 .. Len(s) /\ s \in Seq(Char \cup {Bad})
      BY LenProperties DEF String
    <3>4. s = [k \in 1 .. Len(s) |-> s[k]] /\ \A k \in 1 .. Len(s) : s[k] \in Char
      BY <3>2, <3>3 DEF Range
    <3>5. s \in [1 .. Len(s) -> Char]
      BY <3>4
    <3>6. QED
      BY <3>3, <3>5, IsASeq
  <2>2. q = s
    BY <1>2, <1>4
  <2>3. l = [id |-> "BareIdentifier", end |-> i + Len(s)] /\ v = t
    BY <1>3, <1>4, <2>1, <2>2, WordsReadBack
  <2> HIDE DEF l, v, t
  <2>4. QED
    BY <1>1, <2>2, <2>3 DEF l, v
<1>5. CASE ~IsBareIdentifier(s, {})
  <2>1. q = QuotedString(s) /\ s \in Seq(Quotable)
    BY <1>2, <1>5, QuotableStrings
  <2> DEFINE x == [t EXCEPT !.flag = "quoted"]
  <2>2. l = [id |-> "QuotedString", end |-> i + Len(q)] /\ v = x
    BY <1>3, <2>1, QuotedStringsReadBack
  <2>3. x.kind = "string" /\ x.text = s
    BY DEF TextValue, Value
  <2> HIDE DEF l, v, t, x
  <2>4. l.end = i + Len(q) /\ v.kind = "string" /\ v.text = s
    BY <2>2, <2>3
  <2>5. QED
    BY <2>4 DEF l, v
<1>6. QED
  BY <1>4, <1>5

\* A string value comes back as it was, with or without its flags observed, if
\* it can be quoted and does not stand for a number.
THEOREM StringValuesReadBack ==
  ASSUME NEW d \in Values, d.kind = "string", d.type = << >>, d.flag # "bareSuffixed",
         ~Unquotable(d.text), NEW o,
         NEW rf \in SUBSET RelaxedFlags, NEW u \in AnyText, NEW i \in Nat,
         StandsAt(ValueText(d, Rendering(o)), u, i),
         At(u, i + Len(ValueText(d, Rendering(o)))) # Bad
  PROVE  LET l == ReadNext(u, i, rf)
             v == ValueFromToken(l.id, Text(u, i, l))
         IN  /\ l.end = i + Len(ValueText(d, Rendering(o)))
             /\ v.kind = "string" /\ v.text = d.text
<1> DEFINE s == d.text
           l == ReadNext(u, i, rf)
           v == ValueFromToken(l.id, Text(u, i, l))
           t == TextValue("string", s)
           r == Rendering(o)
<1>1. s \in Seq(Quotable) /\ QuotedString(s) \in AnyText
  <2>1. s \in String
    BY DEF Values
  <2>2. QED
    BY <2>1, QuotableStrings, QuotedStringIs
<1>2. ValueText(d, r) = QuotedString(s)
  <2>1. "noBare" \in r
    BY DEF Rendering, Renderings
  <2>2. "strictStringFlags" \notin r
    BY DEF Rendering, Renderings
  <2> HIDE DEF r
  <2>3. StringText(d, r) = QuotedString(s)
    BY <2>1, <2>2 DEF StringText
  <2>4. BareText(d, r) = StringText(d, r)
    BY DEF BareText
  <2>5. ValueText(d, r) = << >> \o BareText(d, r)
    BY DEF ValueText
  <2>6. << >> \o QuotedString(s) = QuotedString(s)
    BY <1>1, ConcatEmptySeq DEF AnyText
  <2>7. QED
    BY <2>3, <2>4, <2>5, <2>6
<1> HIDE DEF r
<1> DEFINE x == [t EXCEPT !.flag = "quoted"]
<1>3. l = [id |-> "QuotedString", end |-> i + Len(QuotedString(s))] /\ v = x
  BY <1>1, <1>2, QuotedStringsReadBack DEF r
<1>4. x.kind = "string" /\ x.text = s
  BY DEF TextValue, Value
<1> HIDE DEF l, v, t, x
<1>5. l.end = i + Len(ValueText(d, r)) /\ v.kind = "string" /\ v.text = s
  BY <1>2, <1>3, <1>4
<1>6. QED
  BY <1>5 DEF l, v, r


-----------------------------------------------------------------------------
(* Numerals *)

NumeralBases == {2, 8, 10, 16}
DigitsIn(base) == { Numerals[k] : k \in 1 .. base }

LEMMA DivMod ==
  ASSUME NEW base \in NumeralBases, NEW m \in Nat
  PROVE  /\ m \div base \in Nat /\ m % base \in 0 .. base - 1
         /\ m = (m \div base) * base + (m % base)
         /\ m >= base => m \div base < m
<1>1. CASE base = 2
  BY <1>1
<1>2. CASE base = 8
  BY <1>2
<1>3. CASE base = 10
  BY <1>3
<1>4. CASE base = 16
  BY <1>4
<1>5. QED
  BY <1>1, <1>2, <1>3, <1>4 DEF NumeralBases

\* A digit says its place in Numerals.
LEMMA DigitIs ==
  ASSUME NEW k \in 1 .. 16
  PROVE  HexDigit(Numerals[k]) = k - 1 /\ Numerals[k] \in Range(Numerals) /\ Numerals[k] \in Char
<1>1. /\ DOMAIN Numerals = 1 .. 16
      /\ \A i, j \in 1 .. 16 : Numerals[i] = Numerals[j] => i = j
  BY DEF Numerals
<1>2. Numerals[k] \in Range(Numerals)
  BY <1>1 DEF Range
<1>3. \A i \in DOMAIN Numerals : Numerals[i] = Numerals[k] => i = k
  BY <1>1
<1>4. (CHOOSE i \in DOMAIN Numerals : Numerals[i] = Numerals[k]) = k
  BY <1>1, <1>3
<1> DEFINE c == Numerals[k]
<1>5. HexDigit(c) = (CHOOSE i \in DOMAIN Numerals : Numerals[i] = c) - 1
  <2>1. Range(Numerals) \cap Range(Capitals) = {}
    BY DEF Range, Numerals, Capitals
  <2>2. c \in Range(Numerals) /\ c \notin Range(Capitals)
    BY <1>2, <2>1
  <2> HIDE DEF c
  <2>3. QED
    BY <2>2 DEF HexDigit
<1>6. Range(Numerals) \subseteq Char
  BY <1>1 DEF Range, Numerals, Char, Digits, Letters
<1>7. QED
  BY <1>2, <1>4, <1>5, <1>6

SaidAt(digits, base, f, k) == IF k = 0 THEN 0 ELSE f[k - 1] * base + HexDigit(digits[k])

LEMMA SaidExists ==
  ASSUME NEW digits, NEW base, NEW n \in Nat
  PROVE  \E f : f = [k \in 0 .. n |-> SaidAt(digits, base, f, k)]
<1> DEFINE Known(m) == \E f : f = [k \in 0 .. m |-> SaidAt(digits, base, f, k)]
           T == { m \in 0 .. n : Known(m) }
<1>1. ASSUME NEW m \in 0 .. n, \A j \in 0 .. m - 1 : j \in T
      PROVE  Known(m)
  <2>1. PICK f : m > 0 => f = [k \in 0 .. m - 1 |-> SaidAt(digits, base, f, k)]
    <3>1. CASE m > 0
      <4>1. m - 1 \in 0 .. m - 1
        BY <3>1
      <4>2. QED
        BY <1>1, <4>1
    <3>2. CASE ~(m > 0)
      BY <3>2
    <3>3. QED
      BY <3>1, <3>2
  <2> DEFINE h == [k \in 0 .. m |-> IF k = m THEN SaidAt(digits, base, f, k) ELSE f[k]]
  <2>2. ASSUME NEW k \in 0 .. m
        PROVE  h[k] = SaidAt(digits, base, h, k)
    <3>1. h[k] = SaidAt(digits, base, f, k)
      <4>1. CASE k = m
        BY <4>1
      <4>2. CASE k # m
        <5>1. m > 0 /\ k \in 0 .. m - 1
          BY <4>2
        <5>2. f[k] = SaidAt(digits, base, f, k)
          BY <2>1, <5>1
        <5>3. QED
          BY <4>2, <5>2
      <4>3. QED
        BY <4>1, <4>2
    <3>2. k # 0 => h[k - 1] = f[k - 1]
      <4>1. k # 0 => k - 1 \in 0 .. m /\ k - 1 # m
        OBVIOUS
      <4>2. QED
        BY <4>1
    <3> HIDE DEF h
    <3>3. QED
      BY <3>1, <3>2 DEF SaidAt
  <2>3. h = [k \in 0 .. m |-> SaidAt(digits, base, h, k)]
    BY <2>2
  <2>4. QED
    BY <2>3
<1> HIDE DEF Known
<1>2. \A m \in 0 .. n : (\A j \in 0 .. m - 1 : j \in T) => m \in T
  BY <1>1
<1> HIDE DEF T
<1>3. \A m \in 0 .. n : m \in T
  BY <1>2, FromTheStart
<1>4. Known(n)
  BY <1>3 DEF T
<1>5. QED
  BY <1>4 DEF Known

\* What the digits up to each say
Said(digits, base) == CHOOSE f : f = [k \in 0 .. Len(digits) |-> SaidAt(digits, base, f, k)]

LEMMA SaidIs ==
  ASSUME NEW S, NEW digits \in Seq(S), NEW base
  PROVE  /\ NumberOf(digits, base) = Said(digits, base)[Len(digits)]
         /\ Said(digits, base)[0] = 0
         /\ \A k \in 1 .. Len(digits) :
              Said(digits, base)[k] = Said(digits, base)[k - 1] * base + HexDigit(digits[k])
<1> DEFINE F == Said(digits, base)
<1>1. Len(digits) \in Nat
  BY LenProperties
<1>2. F = [k \in 0 .. Len(digits) |-> SaidAt(digits, base, F, k)]
  BY <1>1, SaidExists DEF Said
<1>3. NumberOf(digits, base) = F[Len(digits)]
  BY DEF NumberOf, Said, SaidAt
<1> HIDE DEF F
<1>4. \A k \in 0 .. Len(digits) : F[k] = SaidAt(digits, base, F, k)
  BY <1>2
<1>5. F[0] = 0
  BY <1>1, <1>4 DEF SaidAt
<1>6. \A k \in 1 .. Len(digits) : F[k] = F[k - 1] * base + HexDigit(digits[k])
  BY <1>1, <1>4 DEF SaidAt
<1>7. QED
  BY <1>3, <1>5, <1>6 DEF F

\* One more digit
LEMMA NumberGrows ==
  ASSUME NEW S, NEW digits \in Seq(S), NEW c \in S, NEW base
  PROVE  /\ NumberOf(Append(digits, c), base) = NumberOf(digits, base) * base + HexDigit(c)
         /\ NumberOf(<< >>, base) = 0
<1> DEFINE more == Append(digits, c)
           n == Len(digits)
           F == Said(digits, base)
           G == Said(more, base)
           T == { k \in 0 .. n : F[k] = G[k] }
<1>1. /\ n \in Nat /\ more \in Seq(S) /\ Len(more) = n + 1 /\ more[n + 1] = c
      /\ \A k \in 1 .. n : more[k] = digits[k]
  BY AppendProperties, LenProperties
<1>2. /\ NumberOf(digits, base) = F[n] /\ F[0] = 0
      /\ \A k \in 1 .. n : F[k] = F[k - 1] * base + HexDigit(digits[k])
  BY SaidIs
<1>3. /\ NumberOf(more, base) = G[n + 1] /\ G[0] = 0
      /\ \A k \in 1 .. n + 1 : G[k] = G[k - 1] * base + HexDigit(more[k])
  <2> HIDE DEF more
  <2>1. /\ NumberOf(more, base) = Said(more, base)[Len(more)] /\ Said(more, base)[0] = 0
        /\ \A k \in 1 .. Len(more) :
             Said(more, base)[k] = Said(more, base)[k - 1] * base + HexDigit(more[k])
    BY <1>1, SaidIs
  <2>2. QED
    BY <1>1, <2>1
<1> HIDE DEF more, n, F, G
<1>4. ASSUME NEW k \in 0 .. n, \A j \in 0 .. k - 1 : j \in T
      PROVE  k \in T
  <2>1. CASE k = 0
    BY <1>2, <1>3, <2>1
  <2>2. CASE k # 0
    <3>1. k \in 1 .. n /\ k \in 1 .. n + 1 /\ k - 1 \in 0 .. k - 1
      BY <1>1, <2>2
    <3>2. F[k - 1] = G[k - 1] /\ more[k] = digits[k]
      BY <1>1, <1>4, <3>1
    <3>3. F[k] = G[k]
      BY <1>2, <1>3, <3>1, <3>2
    <3>4. QED
      BY <3>3
  <2>3. QED
    BY <2>1, <2>2
<1>5. \A k \in 0 .. n : (\A j \in 0 .. k - 1 : j \in T) => k \in T
  BY <1>4
<1> HIDE DEF T
<1>6. \A k \in 0 .. n : k \in T
  BY <1>1, <1>5, FromTheStart
<1>7. F[n] = G[n]
  BY <1>1, <1>6 DEF T
<1>8. G[n + 1] = G[n] * base + HexDigit(c)
  <2>1. n + 1 \in 1 .. n + 1 /\ n + 1 - 1 = n
    BY <1>1
  <2>2. QED
    BY <1>1, <1>3, <2>1
<1>9. NumberOf(<< >>, base) = 0
  <2>1. << >> \in Seq(S) /\ Len(<< >>) = 0
    OBVIOUS
  <2>2. QED
    BY <2>1, SaidIs
<1>10. QED
  BY <1>2, <1>3, <1>7, <1>8, <1>9 DEF more

NumeralAt(base, f, n) ==
  IF n < base THEN <<Numerals[n + 1]>> ELSE Append(f[n \div base], Numerals[(n % base) + 1])

LEMMA NumeralExists ==
  ASSUME NEW base \in NumeralBases, NEW n \in Nat
  PROVE  \E f : f = [m \in 0 .. n |-> NumeralAt(base, f, m)]
<1> DEFINE Known(m) == \E f : f = [k \in 0 .. m |-> NumeralAt(base, f, k)]
           T == { m \in 0 .. n : Known(m) }
<1>1. ASSUME NEW m \in 0 .. n, \A j \in 0 .. m - 1 : j \in T
      PROVE  Known(m)
  <2>1. PICK f : m > 0 => f = [k \in 0 .. m - 1 |-> NumeralAt(base, f, k)]
    <3>1. CASE m > 0
      <4>1. m - 1 \in 0 .. m - 1
        BY <3>1
      <4>2. QED
        BY <1>1, <4>1
    <3>2. CASE ~(m > 0)
      BY <3>2
    <3>3. QED
      BY <3>1, <3>2
  <2> DEFINE h == [k \in 0 .. m |-> IF k = m THEN NumeralAt(base, f, k) ELSE f[k]]
  <2>2. ASSUME NEW k \in 0 .. m
        PROVE  h[k] = NumeralAt(base, h, k)
    <3>1. h[k] = NumeralAt(base, f, k)
      <4>1. CASE k = m
        BY <4>1
      <4>2. CASE k # m
        <5>1. m > 0 /\ k \in 0 .. m - 1
          BY <4>2
        <5>2. f[k] = NumeralAt(base, f, k)
          BY <2>1, <5>1
        <5>3. QED
          BY <4>2, <5>2
      <4>3. QED
        BY <4>1, <4>2
    <3>2. ~(k < base) => h[k \div base] = f[k \div base]
      <4> DEFINE d == k \div base
      <4>1. base \in Nat /\ k \in Nat
        BY DEF NumeralBases
      <4>2. d \in Nat /\ (k >= base => d < k)
        BY <4>1, DivMod
      <4> HIDE DEF d
      <4>3. ~(k < base) => d \in 0 .. m /\ d # m
        BY <4>1, <4>2
      <4>4. ~(k < base) => h[d] = f[d]
        BY <4>3
      <4>5. QED
        BY <4>4 DEF d
    <3> HIDE DEF h
    <3>3. QED
      BY <3>1, <3>2 DEF NumeralAt
  <2>3. h = [k \in 0 .. m |-> NumeralAt(base, h, k)]
    BY <2>2
  <2>4. QED
    BY <2>3
<1> HIDE DEF Known
<1>2. \A m \in 0 .. n : (\A j \in 0 .. m - 1 : j \in T) => m \in T
  BY <1>1
<1> HIDE DEF T
<1>3. \A m \in 0 .. n : m \in T
  BY <1>2, FromTheStart
<1>4. Known(n)
  BY <1>3 DEF T
<1>5. QED
  BY <1>4 DEF Known

\* The numerals of the numbers up to n
Numerality(n, base) == CHOOSE f : f = [m \in 0 .. n |-> NumeralAt(base, f, m)]

LEMMA NumeralsAgree ==
  ASSUME NEW base \in NumeralBases, NEW n \in Nat, NEW k \in 0 .. n
  PROVE  /\ Numeral(n, base) = Numerality(n, base)[n]
         /\ Numerality(n, base)[k] = Numeral(k, base)
         /\ Numerality(n, base)[k] = NumeralAt(base, Numerality(n, base), k)
<1> DEFINE F == Numerality(n, base)
           G == Numerality(k, base)
           T == { m \in 0 .. k : F[m] = G[m] }
<1>1. F = [m \in 0 .. n |-> NumeralAt(base, F, m)]
  BY NumeralExists DEF Numerality
<1>2. k \in Nat
  OBVIOUS
<1>3. G = [m \in 0 .. k |-> NumeralAt(base, G, m)]
  BY <1>2, NumeralExists DEF Numerality
<1>4. Numeral(n, base) = F[n] /\ Numeral(k, base) = G[k]
  BY DEF Numeral, Numerality, NumeralAt
<1> HIDE DEF F, G
<1>5. /\ \A m \in 0 .. n : F[m] = NumeralAt(base, F, m)
      /\ \A m \in 0 .. k : G[m] = NumeralAt(base, G, m)
  BY <1>1, <1>3
<1>6. ASSUME NEW m \in 0 .. k, \A j \in 0 .. m - 1 : j \in T
      PROVE  m \in T
  <2> DEFINE d == m \div base
  <2>1. base \in Nat /\ m \in Nat /\ m \in 0 .. n
    BY DEF NumeralBases
  <2>2. d \in Nat /\ (m >= base => d < m)
    BY <2>1, DivMod
  <2>3. F[m] = NumeralAt(base, F, m) /\ G[m] = NumeralAt(base, G, m)
    BY <1>5, <2>1
  <2>4. ~(m < base) => F[d] = G[d]
    <3> HIDE DEF d
    <3>1. ~(m < base) => d \in 0 .. m - 1
      BY <2>1, <2>2
    <3>2. QED
      BY <1>6, <3>1
  <2>5. F[m] = G[m]
    BY <2>3, <2>4 DEF NumeralAt
  <2>6. QED
    BY <2>5
<1>7. \A m \in 0 .. k : (\A j \in 0 .. m - 1 : j \in T) => m \in T
  BY <1>6
<1> HIDE DEF T
<1>8. \A m \in 0 .. k : m \in T
  BY <1>2, <1>7, FromTheStart
<1>9. F[k] = G[k]
  BY <1>2, <1>8 DEF T
<1>10. QED
  BY <1>4, <1>5, <1>9 DEF F

\* A numeral has digits of its base only, and they say the number.
LEMMA NumeralIs ==
  ASSUME NEW base \in NumeralBases, NEW n \in Nat
  PROVE  /\ Numeral(n, base) \in Seq(DigitsIn(base)) /\ Numeral(n, base) # << >>
         /\ NumberOf(Numeral(n, base), base) = n
<1> DEFINE D == DigitsIn(base)
           F == Numerality(n, base)
           Good(s, m) == s \in Seq(D) /\ s # << >> /\ NumberOf(s, base) = m
           T == { m \in 0 .. n : Good(F[m], m) }
<1>1. /\ base \in 2 .. 16
      /\ \A m \in 0 .. n : F[m] = NumeralAt(base, F, m)
  <2>1. \A m \in 0 .. n : F[m] = NumeralAt(base, F, m)
    BY NumeralsAgree
  <2>2. QED
    BY <2>1 DEF NumeralBases
<1>2. ASSUME NEW k \in 0 .. base - 1
      PROVE  Numerals[k + 1] \in D /\ HexDigit(Numerals[k + 1]) = k
  <2>1. k + 1 \in 1 .. base /\ k + 1 \in 1 .. 16 /\ k + 1 - 1 = k
    BY <1>1
  <2>2. QED
    BY <2>1, DigitIs DEF DigitsIn
<1>3. ASSUME NEW m \in 0 .. n, \A j \in 0 .. m - 1 : j \in T
      PROVE  m \in T
  <2> HIDE DEF F, D
  <2>1. F[m] = NumeralAt(base, F, m)
    BY <1>1
  <2>2. CASE m < base
    <3> DEFINE c == Numerals[m + 1]
    <3>1. c \in D /\ HexDigit(c) = m
      BY <1>1, <1>2, <2>2
    <3>2. F[m] = <<c>>
      BY <2>1, <2>2 DEF NumeralAt
    <3> HIDE DEF c
    <3>3. << >> \in Seq(D) /\ Append(<< >>, c) = <<c>> /\ <<c>> \in Seq(D) /\ <<c>> # << >>
      BY <3>1
    <3>4. NumberOf(Append(<< >>, c), base) = NumberOf(<< >>, base) * base + HexDigit(c)
          /\ NumberOf(<< >>, base) = 0
      BY <3>1, <3>3, NumberGrows
    <3>5. NumberOf(<<c>>, base) = m
      BY <1>1, <3>1, <3>3, <3>4
    <3>6. QED
      BY <3>2, <3>3, <3>5
  <2>3. CASE ~(m < base)
    <3> DEFINE d == m \div base
               r == m % base
               c == Numerals[r + 1]
    <3>1. d \in Nat /\ r \in 0 .. base - 1 /\ m = d * base + r /\ d < m
      BY <1>1, <2>3, DivMod
    <3>2. c \in D /\ HexDigit(c) = r
      BY <1>2, <3>1
    <3>3. F[m] = Append(F[d], c)
      BY <2>1, <2>3 DEF NumeralAt
    <3> HIDE DEF d, r, c
    <3>4. d \in 0 .. m - 1
      BY <3>1
    <3> DEFINE s == F[d]
    <3>5. s \in Seq(D) /\ NumberOf(s, base) = d
      BY <1>3, <3>4
    <3>6. NumberOf(Append(s, c), base) = NumberOf(s, base) * base + HexDigit(c)
      <4> HIDE DEF s
      <4>1. QED
        BY <3>2, <3>5, NumberGrows
    <3>7. NumberOf(F[m], base) = m
      BY <3>1, <3>2, <3>3, <3>5, <3>6
    <3>8. F[m] \in Seq(D) /\ F[m] # << >>
      <4> HIDE DEF s
      <4>1. Append(s, c) \in Seq(D) /\ Append(s, c) # << >>
        BY <3>2, <3>5, AppendProperties
      <4>2. QED
        BY <3>3, <4>1 DEF s
    <3>9. QED
      BY <3>7, <3>8
  <2>4. QED
    BY <2>2, <2>3
<1> HIDE DEF Good, F
<1>4. \A m \in 0 .. n : (\A j \in 0 .. m - 1 : j \in T) => m \in T
  BY <1>3
<1> HIDE DEF T
<1>5. n \in T
  BY <1>4, FromTheStart
<1>6. Good(F[n], n)
  BY <1>5 DEF T
<1>7. Numeral(n, base) = F[n]
  BY NumeralsAgree DEF F
<1>8. QED
  BY <1>6, <1>7 DEF Good

-----------------------------------------------------------------------------
(* What parseNumber makes of a numeral *)

LEMMA NothingToTakeOut ==
  ASSUME NEW S, NEW s \in Seq(S), NEW c, c \notin S
  PROVE  Without(s, c) = s
<1> DEFINE n  == Len(s)
           ss == [k \in DOMAIN s |-> IF s[k] = c THEN << >> ELSE <<s[k]>>]
           f  == FlattenSeq(ss)
           T  == { k \in 0 .. n : Len(Upto(ss, k)) = k }
<1>1. n \in Nat /\ DOMAIN s = 1 .. n /\ \A k \in 1 .. n : s[k] \in S
  BY LenProperties, ElementOfSeq
<1>2. \A k \in 1 .. n : ss[k] = <<s[k]>>
  BY <1>1
<1>3. ss \in Seq(Seq(S)) /\ Len(ss) = n
  <2>1. ss = [k \in 1 .. n |-> ss[k]] /\ \A k \in 1 .. n : ss[k] \in Seq(S)
    <3>1. \A x \in S : <<x>> \in Seq(S)
      OBVIOUS
    <3>2. \A k \in 1 .. n : ss[k] \in Seq(S)
      BY <1>1, <1>2, <3>1
    <3>3. QED
      BY <1>1, <3>2
  <2> HIDE DEF ss, n
  <2>2. ss \in [1 .. n -> Seq(S)]
    BY <2>1
  <2>3. QED
    BY <1>1, <2>2, SeqDef, LenProperties
<1>4. Without(s, c) = f
  BY DEF Without
<1> HIDE DEF ss, n
<1>5. ASSUME NEW k \in 1 .. n
      PROVE  /\ Len(ss[k]) = 1 /\ ss[k][1] = s[k]
             /\ Len(Upto(ss, k)) = Len(Upto(ss, k - 1)) + 1
             /\ Len(Upto(ss, k - 1)) \in Nat
             /\ f[Len(Upto(ss, k - 1)) + 1] = s[k]
  <2>1. Len(ss[k]) = 1 /\ ss[k][1] = s[k]
    <3>1. ss[k] = <<s[k]>>
      BY <1>2
    <3>2. Len(<<s[k]>>) = 1 /\ <<s[k]>>[1] = s[k]
      OBVIOUS
    <3>3. QED
      BY <3>1, <3>2
  <2>2. k \in 1 .. Len(ss)
    BY <1>3
  <2>3. /\ Len(Upto(ss, k - 1)) \in Nat
        /\ Len(Upto(ss, k)) = Len(Upto(ss, k - 1)) + Len(ss[k])
        /\ \A j \in 1 .. Len(ss[k]) : f[Len(Upto(ss, k - 1)) + j] = ss[k][j]
    BY <1>3, <2>2, WhereAPartStands
  <2>4. 1 \in 1 .. Len(ss[k])
    BY <2>1
  <2>5. QED
    BY <2>1, <2>3, <2>4
<1>6. ASSUME NEW k \in 0 .. n, \A j \in 0 .. k - 1 : j \in T
      PROVE  k \in T
  <2>1. CASE k = 0
    BY <2>1 DEF Upto
  <2>2. CASE k # 0
    <3>1. k \in 1 .. n /\ k - 1 \in 0 .. k - 1
      BY <1>1, <2>2
    <3>2. Len(Upto(ss, k)) = k
      BY <1>5, <1>6, <3>1
    <3>3. QED
      BY <3>2
  <2>3. QED
    BY <2>1, <2>2
<1>7. \A k \in 0 .. n : (\A j \in 0 .. k - 1 : j \in T) => k \in T
  BY <1>6
<1>8. \A k \in 0 .. n : Len(Upto(ss, k)) = k
  <2>1. \A k \in 0 .. n : k \in T
    <3> HIDE DEF T
    <3>1. QED
      BY <1>1, <1>7, FromTheStart
  <2>2. QED
    BY <2>1
<1>9. f \in Seq(S) /\ Len(f) = n
  <2>1. f \in Seq(S) /\ f = Upto(ss, n)
    BY <1>3, FlattenType, PartsAreSequences
  <2>2. QED
    BY <1>1, <1>8, <2>1
<1>10. \A k \in 1 .. n : f[k] = s[k]
  <2>1. ASSUME NEW k \in 1 .. n
        PROVE  f[k] = s[k]
    <3>1. k - 1 \in 0 .. n /\ k - 1 + 1 = k
      BY <1>1
    <3>2. Len(Upto(ss, k - 1)) = k - 1
      BY <1>8, <3>1
    <3>3. QED
      BY <1>5, <3>1, <3>2
  <2>2. QED
    BY <2>1
<1> HIDE DEF f
<1>11. f = s
  BY <1>9, <1>10, SeqEqual DEF n
<1>12. QED
  BY <1>4, <1>11

LEMMA DigitSets ==
  /\ DigitsIn(10) = Digits
  /\ DigitsIn(16) \subseteq DigitsOf("x") /\ DigitsIn(8) \subseteq DigitsOf("o")
  /\ DigitsIn(2) \subseteq DigitsOf("b")
<1>1. \A k \in 1 .. 16 : k = 1 \/ k = 2 \/ k = 3 \/ k = 4 \/ k = 5 \/ k = 6 \/ k = 7 \/ k = 8
                         \/ k = 9 \/ k = 10 \/ k = 11 \/ k = 12 \/ k = 13 \/ k = 14 \/ k = 15 \/ k = 16
  OBVIOUS
<1>2. /\ Numerals[1] = "0" /\ Numerals[2] = "1" /\ Numerals[3] = "2" /\ Numerals[4] = "3"
      /\ Numerals[5] = "4" /\ Numerals[6] = "5" /\ Numerals[7] = "6" /\ Numerals[8] = "7"
      /\ Numerals[9] = "8" /\ Numerals[10] = "9" /\ Numerals[11] = "a" /\ Numerals[12] = "b"
      /\ Numerals[13] = "c" /\ Numerals[14] = "d" /\ Numerals[15] = "e" /\ Numerals[16] = "f"
  BY DEF Numerals
<1>3. DigitsIn(10) \subseteq Digits
  <2>1. ASSUME NEW k \in 1 .. 10 PROVE Numerals[k] \in Digits
    <3>1. k = 1 \/ k = 2 \/ k = 3 \/ k = 4 \/ k = 5 \/ k = 6 \/ k = 7 \/ k = 8 \/ k = 9 \/ k = 10
      OBVIOUS
    <3>2. QED
      BY <1>2, <3>1 DEF Digits
  <2>2. QED
    BY <2>1 DEF DigitsIn
<1>4. Digits \subseteq DigitsIn(10)
  <2>1. /\ Numerals[1] \in DigitsIn(10) /\ Numerals[2] \in DigitsIn(10) /\ Numerals[3] \in DigitsIn(10)
        /\ Numerals[4] \in DigitsIn(10) /\ Numerals[5] \in DigitsIn(10) /\ Numerals[6] \in DigitsIn(10)
        /\ Numerals[7] \in DigitsIn(10) /\ Numerals[8] \in DigitsIn(10) /\ Numerals[9] \in DigitsIn(10)
        /\ Numerals[10] \in DigitsIn(10)
    BY DEF DigitsIn
  <2>2. QED
    BY <1>2, <2>1 DEF Digits
<1>5. DigitsIn(16) \subseteq DigitsOf("x")
  <2>1. ASSUME NEW k \in 1 .. 16 PROVE Numerals[k] \in DigitsOf("x")
    BY <1>1, <1>2 DEF DigitsOf, Digits
  <2>2. QED
    BY <2>1 DEF DigitsIn
<1>6. DigitsIn(8) \subseteq DigitsOf("o")
  <2>1. ASSUME NEW k \in 1 .. 8 PROVE Numerals[k] \in DigitsOf("o")
    <3>1. k = 1 \/ k = 2 \/ k = 3 \/ k = 4 \/ k = 5 \/ k = 6 \/ k = 7 \/ k = 8
      OBVIOUS
    <3>2. QED
      BY <1>2, <3>1 DEF DigitsOf, Digits
  <2>2. QED
    BY <2>1 DEF DigitsIn
<1>7. DigitsIn(2) \subseteq DigitsOf("b")
  <2>1. ASSUME NEW k \in 1 .. 2 PROVE Numerals[k] \in DigitsOf("b")
    <3>1. k = 1 \/ k = 2
      OBVIOUS
    <3>2. QED
      BY <1>2, <3>1 DEF DigitsOf, Digits
  <2>2. QED
    BY <2>1 DEF DigitsIn
<1>8. QED
  BY <1>3, <1>4, <1>5, <1>6, <1>7

\* The digits of a base and those of other things
LEMMA DigitsAre ==
  ASSUME NEW base \in NumeralBases
  PROVE  /\ DigitsIn(base) \subseteq Char
         /\ DigitsIn(base) \cap (Signs \cup {"_", "+", "-", ".", Bad, TheEnd}) = {}
         /\ \A c \in DigitsIn(base) : c \in Range(Numerals) /\ HexDigit(c) < base
<1>1. base \in 2 .. 16
  BY DEF NumeralBases
<1>2. ASSUME NEW k \in 1 .. base
      PROVE  Numerals[k] \in Char \cap Range(Numerals) /\ HexDigit(Numerals[k]) < base
  <2>1. k \in 1 .. 16 /\ k - 1 < base
    BY <1>1
  <2>2. QED
    BY <2>1, DigitIs
<1>3. DigitsIn(base) \subseteq Char /\ \A c \in DigitsIn(base) : c \in Range(Numerals) /\ HexDigit(c) < base
  BY <1>2 DEF DigitsIn
<1>4. DigitsIn(base) \cap (Signs \cup {"_", "+", "-", ".", Bad, TheEnd}) = {}
  <2>1. \A k \in 1 .. base : k \in 1 .. 16
    BY <1>1
  <2>2. DigitsIn(base) \subseteq DigitsIn(16)
    BY <2>1 DEF DigitsIn
  <2>3. DigitsOf("x") \cap (Signs \cup {"_", "+", "-", ".", Bad, TheEnd}) = {}
    BY DEF DigitsOf, Digits, Signs, Bad, TheEnd
  <2>4. QED
    BY <2>2, <2>3, DigitSets
<1>5. QED
  BY <1>3, <1>4

\* b is the text of m in a base: a numeral, after a sign if m is negative.
Numbers(b, m, base) ==
  \E n \in Nat : \/ m = n /\ b = Numeral(n, base)
                 \/ m = -n /\ b = <<"-">> \o Numeral(n, base)

LEMMA NumeralIsInteger ==
  ASSUME NEW base \in NumeralBases, NEW m \in Int, NEW b, Numbers(b, m, base)
  PROVE  /\ b \in Seq(DigitsIn(base) \cup {"-"}) /\ IsInteger(b, base)
         /\ SignOf(b) * NumberOf(Unsigned(b), base) = m
         /\ \E t \in Seq(DigitsIn(base)) : t # << >> /\ (b = t \/ b = <<"-">> \o t)
<1> DEFINE D == DigitsIn(base)
           X == D \cup {"-"}
<1>1. PICK n \in Nat : \/ m = n /\ b = Numeral(n, base)
                       \/ m = -n /\ b = <<"-">> \o Numeral(n, base)
  BY DEF Numbers
<1> DEFINE t == Numeral(n, base)
<1>2. t \in Seq(D) /\ t # << >> /\ NumberOf(t, base) = n
  BY NumeralIs
<1>3. /\ D \cap Signs = {} /\ \A c \in D : c \in Range(Numerals) /\ HexDigit(c) < base
      /\ "-" \notin D /\ "-" \in Signs
  BY DigitsAre DEF Signs
<1> DEFINE good == {c \in Range(Numerals) \cup Range(Capitals) : HexDigit(c) < base}
<1>4. \A v : IsInteger(v, base) <=> Unsigned(v) # << >> /\ Range(Unsigned(v)) \subseteq good
  BY DEF IsInteger
<1> HIDE DEF t, D
<1>5. Len(t) \in Nat \ {0} /\ DOMAIN t = 1 .. Len(t) /\ t[1] \in D /\ Range(t) \subseteq good
  <2>1. Len(t) \in Nat \ {0} /\ DOMAIN t = 1 .. Len(t) /\ \A k \in 1 .. Len(t) : t[k] \in D
    BY <1>2, LenProperties, ElementOfSeq, EmptySeq
  <2>2. \A k \in DOMAIN t : t[k] \in good
    BY <1>3, <2>1
  <2> HIDE DEF good
  <2>3. QED
    BY <2>1, <2>2 DEF Range
<1> HIDE DEF good
<1> DEFINE Goal == /\ b \in Seq(X) /\ IsInteger(b, base)
                   /\ SignOf(b) * NumberOf(Unsigned(b), base) = m
                   /\ \E v \in Seq(D) : v # << >> /\ (b = v \/ b = <<"-">> \o v)
<1>6. ASSUME m = n, b = t
      PROVE  Goal
  <2>1. Unsigned(t) = t /\ SignOf(t) = 1
    BY <1>3, <1>5, <1>2 DEF Unsigned, SignOf
  <2>2. IsInteger(t, base)
    BY <1>2, <1>4, <1>5, <2>1
  <2>3. t \in Seq(X)
    <3>1. \A k \in 1 .. Len(t) : t[k] \in X
      BY <1>2, ElementOfSeq
    <3>2. t \in [1 .. Len(t) -> X]
      BY <1>2, <1>5, <3>1, LenProperties
    <3>3. QED
      BY <1>5, <3>2, SeqDef
  <2>4. 1 * n = m
    BY <1>6
  <2>5. QED
    BY <1>2, <1>6, <2>1, <2>2, <2>3, <2>4
<1>7. ASSUME m = -n, b = <<"-">> \o t
      PROVE  Goal
  <2>1. t \in Seq(X) /\ <<"-">> \in Seq(X)
    <3>1. \A k \in 1 .. Len(t) : t[k] \in X
      BY <1>2, ElementOfSeq
    <3>2. t \in [1 .. Len(t) -> X]
      BY <1>2, <1>5, <3>1, LenProperties
    <3>3. t \in Seq(X)
      BY <1>5, <3>2, SeqDef
    <3>4. QED
      BY <3>3
  <2> HIDE DEF X
  <2>2. b \in Seq(X) /\ Len(b) = 1 + Len(t) /\ b[1] = "-" /\ \A j \in 1 .. Len(t) : b[1 + j] = t[j]
    <3> DEFINE a == <<"-">>
    <3>1. Len(a) = 1 /\ a[1] = "-" /\ 1 \in 1 .. Len(a)
      OBVIOUS
    <3> HIDE DEF a, X
    <3>2. /\ a \o t \in Seq(X) /\ Len(a \o t) = Len(a) + Len(t)
          /\ \A j \in 1 .. Len(a) : (a \o t)[j] = a[j]
          /\ \A j \in 1 .. Len(t) : (a \o t)[Len(a) + j] = t[j]
      BY <2>1, Joined DEF a
    <3>3. b = a \o t
      BY <1>7 DEF a
    <3>4. QED
      BY <3>1, <3>2, <3>3
  <2>3. b # << >> /\ Tail(b) = t
    <3>1. b # << >>
      BY <1>5, <2>2, EmptySeq
    <3>2. /\ Tail(b) \in Seq(X) /\ Len(Tail(b)) = Len(b) - 1
          /\ \A j \in 1 .. Len(Tail(b)) : Tail(b)[j] = b[j + 1]
      BY <2>2, <3>1, HeadTailProperties
    <3>3. Len(Tail(b)) = Len(t) /\ \A j \in 1 .. Len(t) : Tail(b)[j] = t[j]
      <4>1. Len(Tail(b)) = Len(t)
        BY <1>5, <2>2, <3>2
      <4>2. \A j \in 1 .. Len(t) : j + 1 = 1 + j
        BY <1>5
      <4>3. QED
        BY <2>2, <3>2, <4>1, <4>2
    <3>4. Tail(b) = t
      BY <2>1, <3>2, <3>3, SeqEqual
    <3>5. QED
      BY <3>1, <3>4
  <2>4. Unsigned(b) = t /\ SignOf(b) = -1
    BY <1>3, <2>2, <2>3 DEF Unsigned, SignOf
  <2>5. IsInteger(b, base)
    BY <1>2, <1>4, <1>5, <2>4
  <2>6. (-1) * n = m
    BY <1>7
  <2>7. QED
    BY <1>2, <1>7, <2>2, <2>4, <2>5, <2>6
<1>8. Goal
  <2> HIDE DEF Goal
  <2>1. QED
    BY <1>1, <1>6, <1>7 DEF t
<1>9. QED
  BY <1>8 DEF D

IsFit(m) == m <= MaxInt /\ m >= -MaxInt - 1

LEMMA NumeralIsParsed ==
  ASSUME NEW base \in NumeralBases, NEW m \in Int, NEW b, Numbers(b, m, base),
         base # 10 => m \in Nat /\ b = Numeral(m, base)
  PROVE  LET v == [Value EXCEPT !.kind = IF IsFit(m) THEN "int" ELSE "bigint", !.m = m]
         IN  /\ base = 10 => ParseNumber(b, base) = v
             /\ base # 10 => \A x \in Char : ParseNumber(<<"0", x>> \o b, base) = v
<1> DEFINE v == [Value EXCEPT !.kind = IF IsFit(m) THEN "int" ELSE "bigint", !.m = m]
           X == DigitsIn(base) \cup {"-"}
<1>1. b \in Seq(X) /\ IsInteger(b, base) /\ SignOf(b) * NumberOf(Unsigned(b), base) = m
  BY NumeralIsInteger
<1>2. ParseInt(b, base) = v
  BY <1>1 DEF ParseInt, IsFit
<1>3. "_" \notin X
  BY DigitsAre
<1>4. Without(b, "_") = b
  BY <1>1, <1>3, NothingToTakeOut
<1>5. ASSUME NEW data, (IF base = 10 THEN data ELSE SubSeq(data, 3, Len(data))) = b
      PROVE  ParseNumber(data, base) = v
  <2> DEFINE float == base = 10 /\ Range(b) \cap {".", "e", "E"} # {}
  <2>1. ~float
    <3>1. CASE base = 10
      <4>1. X \cap {".", "e", "E"} = {}
        BY <3>1, DigitSets DEF Digits
      <4>2. Range(b) \subseteq X
        <5>1. Len(b) \in Nat /\ DOMAIN b = 1 .. Len(b) /\ \A k \in 1 .. Len(b) : b[k] \in X
          BY <1>1, LenProperties, ElementOfSeq
        <5> HIDE DEF X
        <5>2. QED
          BY <5>1 DEF Range
      <4>3. QED
        BY <4>1, <4>2
    <3>2. CASE base # 10
      BY <3>2
    <3>3. QED
      BY <3>1, <3>2
  <2>2. ParseNumber(data, base) = CASE float /\ IsFloat(b) -> ParseFloat(b)
                                    [] ~float /\ IsInteger(b, base) -> ParseInt(b, base)
                                    [] OTHER -> NotAValue
    <3> DEFINE c == Without(IF base = 10 THEN data ELSE SubSeq(data, 3, Len(data)), "_")
               afloat == base = 10 /\ Range(c) \cap {".", "e", "E"} # {}
    <3>1. ParseNumber(data, base) = CASE afloat /\ IsFloat(c) -> ParseFloat(c)
                                      [] ~afloat /\ IsInteger(c, base) -> ParseInt(c, base)
                                      [] OTHER -> NotAValue
      BY ZenonT(60) DEF ParseNumber
    <3>2. c = b
      BY <1>4, <1>5
    <3> HIDE DEF c
    <3>3. QED
      BY <3>1, <3>2
  <2> HIDE DEF float, v
  <2>3. QED
    BY <1>1, <1>2, <2>1, <2>2
<1>6. CASE base = 10
  <2>1. ParseNumber(b, base) = v
    <3> HIDE DEF v
    <3>1. QED
      BY <1>5, <1>6
  <2>2. QED
    BY <1>6, <2>1
<1>7. CASE base # 10
  <2>1. ASSUME NEW x \in Char
        PROVE  ParseNumber(<<"0", x>> \o b, base) = v
    <3> DEFINE p == <<"0", x>>
               data == p \o b
    <3>1. b \in Seq(Char) /\ b # << >>
      <4>1. DigitsIn(base) \subseteq Char
        BY DigitsAre
      <4>2. b \in Seq(DigitsIn(base)) /\ b # << >>
        BY <1>7, NumeralIs
      <4>3. Len(b) \in Nat /\ b \in [1 .. Len(b) -> DigitsIn(base)]
        BY <4>2, LenProperties
      <4>4. b \in [1 .. Len(b) -> Char]
        BY <4>1, <4>3
      <4>5. b \in Seq(Char)
        BY <4>3, <4>4, SeqDef
      <4>6. QED
        BY <4>2, <4>5
    <3>2. p \in Seq(Char) /\ Len(p) = 2
      <4>1. "0" \in Char
        BY DEF Char, Digits
      <4>2. QED
        BY <4>1
    <3> HIDE DEF p, data
    <3>3. /\ p \o b \in Seq(Char) /\ Len(b) \in Nat /\ Len(p \o b) = 2 + Len(b)
          /\ \A j \in 1 .. Len(b) : (p \o b)[2 + j] = b[j]
      <4>1. /\ p \o b \in Seq(Char) /\ Len(b) \in Nat /\ Len(p \o b) = Len(p) + Len(b)
            /\ \A j \in 1 .. Len(b) : (p \o b)[Len(p) + j] = b[j]
        BY ONLY <3>1, <3>2, Joined
      <4>2. QED
        BY <3>2, <4>1
    <3>4. data \in Seq(Char) /\ Len(data) = 2 + Len(b) /\ \A j \in 1 .. Len(b) : data[3 + j - 1] = b[j]
      <4>1. \A j \in 1 .. Len(b) : 3 + j - 1 = 2 + j
        BY <3>3
      <4>2. QED
        BY <3>3, <4>1 DEF data
    <3>5. SubSeq(data, 3, Len(data)) = b
      <4>1. 3 \in Nat \ {0} /\ 3 + Len(b) - 1 <= Len(data) /\ Len(data) = 3 + Len(b) - 1
        BY <3>3, <3>4
      <4>2. SubSeq(data, 3, 3 + Len(b) - 1) = b
        BY <3>1, <3>4, <4>1, SameText
      <4>3. QED
        BY <4>1, <4>2
    <3>6. ParseNumber(data, base) = v
      <4> HIDE DEF v
      <4>1. QED
        BY <1>5, <1>7, <3>5
    <3>7. QED
      BY <3>6 DEF data, p
  <2>2. QED
    BY <1>7, <2>1
<1>8. QED
  BY <1>6, <1>7

-----------------------------------------------------------------------------
(* How numbers are scanned *)

\* Where digits stand, what is read are they.
LEMMA DigitsStand ==
  ASSUME NEW D, D \subseteq Char, NEW t, t \in Seq(D), t # << >>, NEW u \in AnyText, NEW k \in Nat,
         StandsAt(t, u, k)
  PROVE  LET z == k + Len(t)
         IN  /\ t \in AnyText /\ Len(u) \in Nat /\ Len(t) \in Nat \ {0} /\ z \in Nat
             /\ DOMAIN t = 1 .. Len(t) /\ \A j \in 1 .. Len(t) : t[j] \in D
             /\ k \in 1 .. Len(u) /\ z \in k + 1 .. Len(u) + 1 /\ SubSeq(u, k, z - 1) = t
             /\ At(u, k) \in D /\ \A j \in k .. z - 1 : At(u, j) \in D
<1> DEFINE z == k + Len(t)
           v == SubSeq(u, k, z - 1)
<1>1. t \in AnyText
  <2> DEFINE X == Char \cup {Bad}
  <2>1. D \subseteq X
    OBVIOUS
  <2> HIDE DEF X
  <2>2. t \in Seq(X)
    BY <2>1, SeqMonotonic
  <2>3. QED
    BY <2>2 DEF AnyText, X
<1>2. Len(u) \in Nat /\ Len(t) \in Nat \ {0} /\ z \in Nat
  <2>1. Len(t) \in Nat \ {0}
    BY EmptySeq, LenProperties
  <2>2. Len(u) \in Nat
    BY TextEnds
  <2>3. k \in Nat
    OBVIOUS
  <2>4. QED
    BY ONLY <2>1, <2>2, <2>3
<1>3. DOMAIN t = 1 .. Len(t) /\ \A j \in 1 .. Len(t) : t[j] \in D
  BY LenProperties, ElementOfSeq
<1>4. k \in 1 .. Len(u) /\ z \in k + 1 .. Len(u) + 1 /\ v = t /\ At(u, k) = t[1]
  <2>1. k \in Nat /\ u \in AnyText /\ t # << >> /\ StandsAt(t, u, k)
    OBVIOUS
  <2>2. QED
    BY ONLY <1>1, <2>1, StandingText
<1>5. \A j \in k .. z - 1 : At(u, j) \in D
  <2>1. ASSUME NEW j \in k .. z - 1
        PROVE  At(u, j) \in D
    <3> DEFINE n == Len(t)
               m == Len(u)
               b == j - k + 1
    <3>1. j \in Nat /\ j \in 1 .. m /\ b \in 1 .. n /\ k + b - 1 = j
      <4>1. z = k + n /\ m \in Nat /\ n \in Nat /\ k \in 1 .. m /\ z \in k + 1 .. m + 1
        BY <1>2, <1>4
      <4>2. j \in k .. z - 1
        OBVIOUS
      <4> HIDE DEF z, n, m
      <4>3. QED
        BY ONLY <4>1, <4>2
    <3>2. \A a \in 1 .. n : u[k + a - 1] = t[a]
      BY DEF StandsAt
    <3> HIDE DEF n, m, b
    <3>3. u[k + b - 1] = t[b]
      BY <3>1, <3>2
    <3>4. At(u, j) = u[j]
      BY <3>1, TextEnds DEF m
    <3>5. t[b] \in D
      BY <1>3, <3>1 DEF n
    <3>6. QED
      BY <3>1, <3>3, <3>4, <3>5
  <2>2. QED
    BY <2>1
<1>6. At(u, k) \in D
  <2>1. 1 \in 1 .. Len(t)
    BY ONLY <1>2
  <2> HIDE DEF z, v
  <2>2. QED
    BY <1>3, <1>4, <2>1
<1>7. QED
  BY <1>1, <1>2, <1>3, <1>4, <1>5, <1>6

\* Digits are scanned as an integer up to what is not part of one.
LEMMA DigitsAreScanned ==
  ASSUME NEW t \in Seq(Digits), t # << >>, NEW u \in AnyText, NEW k \in Nat, StandsAt(t, u, k),
         NEW rf, At(u, k + Len(t)) \notin Digits \cup {"_", Bad} \cup SuffixChars
  PROVE  ReadInteger(u, k, rf) = [id |-> "Decimal", end |-> k + Len(t)] /\ At(u, k) \in Digits
<1> DEFINE suffixes == "MultiplierSuffixes" \in rf
           letters  == IF suffixes THEN SuffixChars ELSE {}
           body     == Digits \cup {"_"} \cup letters
           z        == k + Len(t)
           v        == SubSeq(u, k, z - 1)
<1>1. Digits \subseteq Char
  BY DEF Char
<1>2. /\ Len(u) \in Nat /\ Len(t) \in Nat \ {0} /\ z \in Nat
      /\ DOMAIN t = 1 .. Len(t) /\ \A j \in 1 .. Len(t) : t[j] \in Digits
      /\ k \in 1 .. Len(u) /\ z \in k + 1 .. Len(u) + 1 /\ v = t
      /\ At(u, k) \in Digits /\ \A j \in k .. z - 1 : At(u, j) \in Digits
  BY <1>1, DigitsStand
<1>3. letters \subseteq SuffixChars /\ TheEnd \notin body
  BY NoSuffixAfter DEF TheEnd, Digits
<1>4. At(u, k) \notin Signs /\ At(u, k) # "_"
  BY <1>2 DEF Digits, Signs
<1>5. Range(v) \cap letters = {}
  <2>1. Range(t) \subseteq Digits
    BY <1>2 DEF Range
  <2>2. Digits \cap SuffixChars = {}
    BY DEF Digits, SuffixChars
  <2> HIDE DEF letters
  <2>3. Range(t) \cap letters = {}
    BY <1>3, <2>1, <2>2
  <2> HIDE DEF v
  <2>4. QED
    BY <1>2, <2>3
<1> HIDE DEF letters
<1>6. RunEnd(u, k, body) = z
  <2>1. At(u, z) \notin body
    BY <1>3
  <2>2. \A j \in k .. z - 1 : At(u, j) \in body
    BY <1>2
  <2>3. k \in 1 .. Len(u) + 1 /\ z \in k .. Len(u) + 1
    <3> DEFINE m == Len(u)
    <3>1. m \in Nat /\ k \in 1 .. m /\ z \in k + 1 .. m + 1
      BY <1>2
    <3> HIDE DEF m, z
    <3>2. k \in 1 .. m + 1 /\ z \in k .. m + 1
      BY ONLY <3>1
    <3>3. QED
      BY <3>2 DEF m
  <2> HIDE DEF body, z
  <2>4. QED
    BY <2>1, <2>2, <2>3, RunIs
<1>7. z # k /\ z # None /\ At(u, z) # Bad
  <2>1. At(u, z) # Bad
    OBVIOUS
  <2>2. z \in k + 1 .. Len(u) + 1
    BY <1>2
  <2> HIDE DEF z
  <2>3. k \in Nat
    OBVIOUS
  <2>4. z # k /\ z # 0
    BY ONLY <1>2, <2>2, <2>3
  <2>5. QED
    BY <2>1, <2>4 DEF None
<1> HIDE DEF z, v
<1>8. ReadInteger(u, k, rf) = Lexeme("Decimal", z)
  <2> DEFINE signed == suffixes /\ At(u, k) \in Signs
             some   == IF suffixes /\ ~signed THEN SuffixChars ELSE {}
             first  == IF signed THEN k + 1 ELSE k
             end    == RunEnd(u, first, Digits \cup {"_"} \cup some)
  <2>1. ReadInteger(u, k, rf) =
          IF end = k \/ At(u, end) = Bad \/ (~suffixes /\ At(u, k) = "_") THEN Failed
          ELSE Lexeme(IF Range(SubSeq(u, k, end - 1)) \cap some # {}
                      THEN "SuffixedDecimal" ELSE "Decimal", end)
    BY DEF ReadInteger
  <2>2. first = k /\ some = letters
    BY <1>4 DEF letters
  <2>3. end = z
    BY <1>6, <2>2
  <2> HIDE DEF end, first, some, suffixes
  <2>4. QED
    BY <1>4, <1>5, <1>7, <2>1, <2>2, <2>3 DEF v
<1>9. Lexeme("Decimal", z) = [id |-> "Decimal", end |-> z]
  BY <1>7 DEF Lexeme
<1>10. QED
  BY <1>2, <1>8, <1>9 DEF z

\* What ends a number: none of it goes on with one.
LEMMA SeparatorsAre ==
  /\ Separators \cap (Digits \cup {"_", Bad, TheEnd} \cup SuffixChars) = {}
  /\ Separators \cap {".", "e", "E", "x", "o", "b"} = {} /\ LineSpace \subseteq Separators
  /\ Separators \subseteq Char
  BY DEF Separators, LineSpace, WhiteSpace, Newlines, Digits, Bad, TheEnd, SuffixChars, Char, Marks

\* A number begins with a digit or a sign and goes to readDecimal, unless it is
\* a sign without a digit or a 0 before a base.
LEMMA ReadsANumber ==
  ASSUME NEW u, NEW i \in Nat, NEW rf, u[i] = At(u, i), At(u, i) \in Digits \cup Signs
  PROVE  LET next == At(u, i + 1)
         IN  /\ /\ next \notin {TheEnd, Bad}
                /\ u[i] = "0" => next \notin {"x", "o", "b"}
                /\ u[i] \in Signs => next \in Digits
                => ReadNext(u, i, rf) = ReadDecimal(u, i, rf)
             /\ u[i] = "0" /\ next \in {"x", "o", "b"} => ReadNext(u, i, rf) = ReadNumericBase(u, i)
<1> DEFINE c       == At(u, i)
           next    == At(u, i + 1)
           newline == Lexeme("Newline", IF c = "\r" /\ At(u, i + 1) = "\n" THEN i + 2 ELSE i + 1)
           remark  == Lexeme("SingleLineComment", ReadSingleLineComment(u, i))
           space   == Lexeme("Whitespace", ReadWhitespace(u, i))
           mark    == Lexeme(Marked[c], i + 1)
<1>1. Punctuation(rf) \subseteq DOMAIN Marked
  BY DEF Punctuation, Marked
<1>2. ReadNext(u, i, rf) =
        CASE c = TheEnd -> AtEof
          [] c = Bad -> Failed
          [] c \in WhiteSpace -> space
          [] c \in Newlines -> newline
          [] c = "/" -> ReadSlash(u, i, rf)
          [] c \in Punctuation(rf) -> mark
          [] c \in Signs \cup {"0"} -> ReadAfterLook(u, i, rf)
          [] c \in Digits \ {"0"} -> ReadDecimal(u, i, rf)
          [] c = "#" /\ "NGINXSyntax" \in rf -> remark
          [] c = ":" /\ "YAMLTOMLAssignments" \in rf -> ReadColon(i)
          [] OTHER -> ReadIdentifier(u, i, rf)
  BY ZenonT(60) DEF ReadNext
<1>3. /\ (Signs \cup Digits) \cap {TheEnd, Bad, "/", "#", ":"} = {}
      /\ (Signs \cup Digits) \cap (WhiteSpace \cup Newlines) = {}
      /\ (Signs \cup Digits) \cap DOMAIN Marked = {} /\ Signs \cap Digits = {} /\ "0" \in Digits
      /\ {"x", "o", "b"} \cap {TheEnd, Bad} = {}
  BY DEF Signs, TheEnd, Bad, WhiteSpace, Newlines, Digits, Marked
<1>4. ReadAfterLook(u, i, rf) =
        CASE next = TheEnd -> AtEof
          [] next = Bad -> Failed
          [] u[i] = "0" /\ next \in {"x", "o", "b"} -> ReadNumericBase(u, i)
          [] u[i] \in Signs /\ next \notin Digits -> ReadIdentifier(u, i, rf)
          [] OTHER -> ReadDecimal(u, i, rf)
  BY ZenonT(60) DEF ReadAfterLook
<1>5. c \in Signs \cup Digits /\ u[i] = c
  OBVIOUS
<1> HIDE DEF c, next, newline, remark, space, mark
<1>6. /\ c \in Signs \cup {"0"} => ReadNext(u, i, rf) = ReadAfterLook(u, i, rf)
      /\ c \in Digits \ {"0"} => ReadNext(u, i, rf) = ReadDecimal(u, i, rf)
  BY <1>1, <1>2, <1>3, <1>5
<1>7. c = "0" /\ next \in {"x", "o", "b"} => ReadAfterLook(u, i, rf) = ReadNumericBase(u, i)
  BY <1>3, <1>4, <1>5
<1>8. /\ next \notin {TheEnd, Bad}
      /\ c = "0" => next \notin {"x", "o", "b"}
      /\ c \in Signs => next \in Digits
      => ReadAfterLook(u, i, rf) = ReadDecimal(u, i, rf)
  BY <1>4, <1>5
<1>9. /\ /\ next \notin {TheEnd, Bad}
         /\ c = "0" => next \notin {"x", "o", "b"}
         /\ c \in Signs => next \in Digits
         => ReadNext(u, i, rf) = ReadDecimal(u, i, rf)
      /\ c = "0" /\ next \in {"x", "o", "b"} => ReadNext(u, i, rf) = ReadNumericBase(u, i)
  BY <1>3, <1>5, <1>6, <1>7, <1>8
<1>10. QED
  BY <1>5, <1>9 DEF next

\* t is what follows the first a characters of q.
EndsAfter(t, q, a) == Len(q) = a + Len(t) /\ \A j \in 1 .. Len(t) : q[a + j] = t[j]

\* What ends a text that stands somewhere stands there too; what begins it is read.
LEMMA StandsAfter ==
  ASSUME NEW q, NEW t \in AnyText, t # << >>, NEW a \in Nat, EndsAfter(t, q, a),
         NEW u \in AnyText, NEW i \in Nat, StandsAt(q, u, i)
  PROVE  /\ i + a \in Nat /\ i + a + Len(t) = i + Len(q) /\ StandsAt(t, u, i + a)
         /\ \A j \in 1 .. a : At(u, i + j - 1) = q[j] /\ u[i + j - 1] = q[j]
<1> DEFINE b == Len(t)
           n == Len(u)
           c == Len(q)
<1>1. c = a + b /\ \A j \in 1 .. b : q[a + j] = t[j]
  BY DEF EndsAfter
<1>2. n \in Nat /\ b \in Nat \ {0}
  BY TextEnds, EmptySeq DEF AnyText
<1>3. i \in 1 .. n /\ i + c - 1 <= n /\ \A j \in 1 .. c : u[i + j - 1] = q[j]
  BY DEF StandsAt
<1>4. i \in Nat /\ a \in Nat
  OBVIOUS
<1> HIDE DEF b, n, c
<1>5. /\ i + a \in 1 .. n /\ i + a + b - 1 <= n /\ i + a + b = i + c /\ i + a \in Nat
      /\ \A j \in 1 .. b : a + j \in 1 .. c /\ i + (a + j) - 1 = i + a + j - 1
      /\ \A j \in 1 .. a : j \in 1 .. c /\ i + j - 1 \in 1 .. n /\ i + j - 1 \in Nat
  BY ONLY <1>1, <1>2, <1>3, <1>4
<1>6. \A j \in 1 .. b : u[i + a + j - 1] = t[j]
  <2>1. ASSUME NEW j \in 1 .. b
        PROVE  u[i + a + j - 1] = t[j]
    <3>1. u[i + (a + j) - 1] = q[a + j]
      BY <1>3, <1>5
    <3>2. QED
      BY <1>1, <1>5, <3>1
  <2>2. QED
    BY <2>1
<1>7. \A j \in 1 .. a : At(u, i + j - 1) = q[j] /\ u[i + j - 1] = q[j]
  <2>1. ASSUME NEW j \in 1 .. a
        PROVE  At(u, i + j - 1) = q[j] /\ u[i + j - 1] = q[j]
    <3>1. u[i + j - 1] = q[j]
      BY <1>3, <1>5
    <3>2. At(u, i + j - 1) = u[i + j - 1]
      BY <1>5, TextEnds DEF n
    <3>3. QED
      BY <3>1, <3>2
  <2>2. QED
    BY <2>1
<1>8. StandsAt(t, u, i + a)
  BY <1>5, <1>6 DEF StandsAt, b, n
<1>9. QED
  BY <1>5, <1>7, <1>8 DEF b, c

\* An integer in base 10 is scanned up to what separates it from what follows.
LEMMA DecimalIsScanned ==
  ASSUME NEW t, t \in Seq(Digits), t # << >>, NEW q, q = t \/ q = <<"-">> \o t,
         NEW u \in AnyText, NEW i \in Nat, StandsAt(q, u, i), At(u, i + Len(q)) \in Separators,
         NEW rf
  PROVE  ReadNext(u, i, rf) = [id |-> "Decimal", end |-> i + Len(q)]
<1> DEFINE k == IF q = t THEN i ELSE i + 1
           z == i + Len(q)
           l == [id |-> "Decimal", end |-> z]
<1>1. /\ Digits \subseteq Char /\ "-" \in Char /\ "-" \in Signs /\ Digits \cap Signs = {}
      /\ Digits \cap {TheEnd, Bad, "x", "o", "b"} = {} /\ Signs \cap {TheEnd, Bad} = {}
      /\ "-" # "0"
  BY DEF Char, Marks, Signs, Digits, TheEnd, Bad
<1>2. t \in AnyText /\ <<"-">> \in AnyText /\ Len(<<"-">>) = 1 /\ <<"-">>[1] = "-"
  <2> DEFINE X == Char \cup {Bad}
  <2>1. Digits \subseteq X /\ "-" \in X
    BY <1>1
  <2> HIDE DEF X
  <2>2. t \in Seq(X) /\ <<"-">> \in Seq(X)
    BY <2>1, SeqMonotonic
  <2>3. QED
    BY <2>2 DEF AnyText, X
<1>3. /\ k \in Nat /\ k + Len(t) = z /\ StandsAt(t, u, k)
      /\ q # t => At(u, i) = "-" /\ u[i] = "-"
  <2>1. CASE q = t
    BY <2>1
  <2>2. CASE q # t
    <3> DEFINE p == <<"-">>
    <3>1. p \in AnyText /\ Len(p) = 1 /\ p[1] = "-" /\ t \in AnyText
      BY <1>2
    <3>2. q = p \o t /\ StandsAt(q, u, i) /\ k = i + 1
      BY <2>2
    <3> HIDE DEF p, k
    <3>3. EndsAfter(t, q, 1) /\ q[1] = "-"
      <4>1. /\ Len(p \o t) = Len(p) + Len(t)
            /\ \A j \in 1 .. Len(p) : (p \o t)[j] = p[j]
            /\ \A j \in 1 .. Len(t) : (p \o t)[Len(p) + j] = t[j]
        <5>1. p \in Seq(Char \cup {Bad}) /\ t \in Seq(Char \cup {Bad})
          BY <3>1 DEF AnyText
        <5>2. QED
          BY ONLY <5>1, Joined
      <4>2. QED
        BY ONLY <3>1, <3>2, <4>1 DEF EndsAfter
    <3> DEFINE a == 1
    <3>4. a \in Nat /\ a = 1 /\ t # << >> /\ EndsAfter(t, q, a) /\ u \in AnyText /\ i \in Nat
      BY <3>3
    <3> HIDE DEF a
    <3>5. /\ i + a \in Nat /\ i + a + Len(t) = i + Len(q) /\ StandsAt(t, u, i + a)
          /\ \A j \in 1 .. a : At(u, i + j - 1) = q[j] /\ u[i + j - 1] = q[j]
      <4>1. t \in AnyText /\ a \in Nat /\ t # << >> /\ EndsAfter(t, q, a) /\ StandsAt(q, u, i)
        BY <3>1, <3>2, <3>4
      <4>2. QED
        BY ONLY <4>1, StandsAfter
    <3>6. i + 1 - 1 = i /\ 1 \in 1 .. a
      BY <3>4
    <3>7. At(u, i) = "-" /\ u[i] = "-"
      BY <3>3, <3>5, <3>6
    <3>8. QED
      BY <2>2, <3>2, <3>4, <3>5, <3>7
  <2>3. QED
    BY <2>1, <2>2
<1>4. /\ At(u, z) \notin Digits \cup {"_", Bad, TheEnd, ".", "e", "E", "x", "o", "b"} \cup SuffixChars
      /\ At(u, z) \in Separators
  <2> HIDE DEF z
  <2>1. At(u, z) \in Separators
    BY DEF z
  <2>2. QED
    BY <2>1, SeparatorsAre
<1>5. ReadInteger(u, k, rf) = l /\ At(u, k) \in Digits
  <2>1. At(u, k + Len(t)) \notin Digits \cup {"_", Bad} \cup SuffixChars
    BY <1>3, <1>4
  <2> HIDE DEF k, z
  <2>2. ReadInteger(u, k, rf) = [id |-> "Decimal", end |-> k + Len(t)] /\ At(u, k) \in Digits
    BY <1>3, <2>1, DigitsAreScanned
  <2>3. QED
    BY <1>3, <2>2
<1>6. Len(t) \in Nat \ {0} /\ z \in Nat /\ z # None /\ Len(u) \in Nat /\ i \in 1 .. Len(u)
  <2>1. Len(t) \in Nat \ {0} /\ Len(u) \in Nat
    BY EmptySeq, LenProperties, TextEnds
  <2>2. k + Len(t) = z /\ k \in Nat
    BY <1>3
  <2> HIDE DEF z, k
  <2>3. z \in Nat /\ z # 0
    BY ONLY <2>1, <2>2
  <2>4. i \in 1 .. Len(u)
    BY DEF StandsAt
  <2>5. QED
    BY <2>1, <2>3, <2>4 DEF None
<1>7. At(u, i) = u[i] /\ At(u, i) \in Digits \cup Signs /\ (At(u, i) \in Signs <=> q # t)
  <2>1. At(u, i) = u[i]
    BY <1>6, TextEnds
  <2>2. CASE q = t
    BY <1>1, <1>5, <2>1, <2>2
  <2>3. CASE q # t
    BY <1>1, <1>3, <2>1, <2>3
  <2>4. QED
    BY <2>2, <2>3
<1> DEFINE next == At(u, i + 1)
<1>8. next \notin {TheEnd, Bad, "x", "o", "b"} /\ (q # t => next \in Digits)
  <2>1. CASE q # t
    BY <1>1, <1>5, <2>1
  <2>2. CASE q = t /\ Len(t) = 1
    <3>1. i + 1 = z
      BY <2>2
    <3>2. QED
      BY <1>4, <2>2, <3>1
  <2>3. CASE q = t /\ Len(t) # 1
    <3> DEFINE n == Len(t)
               m == Len(u)
    <3>1. i \in 1 .. m /\ i + n - 1 <= m /\ \A j \in 1 .. n : u[i + j - 1] = t[j]
      BY <2>3 DEF StandsAt
    <3>2. n \in Nat \ {0} /\ n # 1 /\ m \in Nat /\ i \in Nat
      BY <1>6, <2>3
    <3> HIDE DEF n, m
    <3>4. 2 \in 1 .. n /\ i + 2 - 1 = i + 1 /\ i + 1 \in 1 .. m /\ i + 1 \in Nat
      BY ONLY <3>1, <3>2
    <3>3. t[2] \in Digits
      BY <3>4, ElementOfSeq DEF n
    <3>5. u[i + 1] = t[2]
      BY <3>1, <3>4
    <3>6. next = u[i + 1]
      BY <3>4, TextEnds DEF m
    <3> HIDE DEF next
    <3>7. next \in Digits
      BY <3>3, <3>5, <3>6
    <3>8. QED
      BY <1>1, <2>3, <3>7
  <2>4. QED
    BY <2>1, <2>2, <2>3
<1>9. ReadNext(u, i, rf) = ReadDecimal(u, i, rf)
  BY <1>7, <1>8, ReadsANumber
<1>10. ReadSignedInteger(u, i, rf) = l
  <2> DEFINE c == At(u, i)
  <2>1. c \notin {TheEnd, Bad}
    BY <1>1, <1>7
  <2>2. ReadSignedInteger(u, i, rf) =
          CASE c = TheEnd -> AtEof
            [] c = Bad -> Failed
            [] c \in Signs -> ReadInteger(u, i + 1, rf)
            [] OTHER -> ReadInteger(u, i, rf)
    BY DEF ReadSignedInteger
  <2> HIDE DEF c
  <2>3. ReadSignedInteger(u, i, rf) = IF c \in Signs THEN ReadInteger(u, i + 1, rf) ELSE ReadInteger(u, i, rf)
    BY <2>1, <2>2
  <2>4. k = IF c \in Signs THEN i + 1 ELSE i
    BY <1>7 DEF c
  <2> HIDE DEF k, l
  <2>5. QED
    BY <1>5, <2>3, <2>4
<1>11. l.end = z /\ l.id = "Decimal"
  OBVIOUS
<1> HIDE DEF l, z
<1>12. ReadFraction(u, l, rf) = l
  BY <1>4, <1>11 DEF ReadFraction
<1>13. ReadExponent(u, l, rf) = l
  BY <1>4, <1>11 DEF ReadExponent
<1>14. ReadDecimal(u, i, rf) = l
  BY <1>4, <1>10, <1>11, <1>12, <1>13 DEF ReadDecimal
<1>15. QED
  BY <1>9, <1>14 DEF l, z

\* An integer in another base is scanned up to the space after it.
LEMMA BasedIsScanned ==
  ASSUME NEW x \in {"x", "o", "b"}, NEW t, t \in Seq(DigitsOf(x)), t # << >>,
         NEW q, q[1] = "0", q[2] = x, EndsAfter(t, q, 2),
         NEW u \in AnyText, NEW i \in Nat, StandsAt(q, u, i), At(u, i + Len(q)) \in LineSpace,
         NEW rf
  PROVE  ReadNext(u, i, rf) = [id |-> BaseId(x), end |-> i + Len(q)]
<1> DEFINE D == DigitsOf(x)
           k == i + 2
           z == i + Len(q)
           c == Len(t)
           n == Len(u)
<1>1. /\ D \subseteq Char /\ "_" \notin D /\ "0" \in Digits
      /\ (D \cup {"_"}) \cap (LineSpace \cup {TheEnd}) = {}
  <2> DEFINE some == {"a", "b", "c", "d", "e", "f", "A", "B", "C", "D", "E", "F"}
  <2>1. D \subseteq Digits \cup some \cup {"0", "1"}
    BY DEF DigitsOf
  <2>2. some \subseteq Letters
    BY DEF Letters
  <2>3. {"0", "1"} \subseteq Digits
    BY DEF Digits
  <2>4. Digits \subseteq Char /\ Letters \subseteq Char
    BY DEF Char
  <2>5. (Digits \cup some \cup {"_"}) \cap (LineSpace \cup {TheEnd}) = {}
    BY DEF Digits, LineSpace, WhiteSpace, Newlines, TheEnd
  <2>6. "_" \notin Digits \cup some
    BY DEF Digits
  <2> HIDE DEF D, some
  <2>7. QED
    BY <2>1, <2>2, <2>3, <2>4, <2>5, <2>6
<1>2. t \in AnyText
  <2> DEFINE X == Char \cup {Bad}
  <2>1. D \subseteq X
    BY <1>1
  <2> HIDE DEF X, D
  <2>2. t \in Seq(D)
    BY DEF D
  <2>3. t \in Seq(X)
    BY <2>1, <2>2, SeqMonotonic
  <2>4. QED
    BY <2>3 DEF AnyText, X
<1>3. /\ k \in Nat /\ k + c = z /\ StandsAt(t, u, k)
      /\ \A j \in 1 .. 2 : At(u, i + j - 1) = q[j] /\ u[i + j - 1] = q[j]
  <2> DEFINE a == 2
  <2>1. a \in Nat /\ a = 2
    OBVIOUS
  <2>2. t # << >> /\ EndsAfter(t, q, a) /\ u \in AnyText /\ i \in Nat /\ StandsAt(q, u, i)
    OBVIOUS
  <2> HIDE DEF a
  <2>3. /\ i + a \in Nat /\ i + a + Len(t) = i + Len(q) /\ StandsAt(t, u, i + a)
        /\ \A j \in 1 .. a : At(u, i + j - 1) = q[j] /\ u[i + j - 1] = q[j]
    <3>1. a \in Nat
      BY <2>1
    <3>2. QED
      BY ONLY <1>2, <2>2, <3>1, StandsAfter
  <2>4. QED
    BY <2>1, <2>3
<1>4. At(u, i) = "0" /\ u[i] = "0" /\ At(u, i + 1) = x /\ u[i + 1] = x
  <2>1. 1 \in 1 .. 2 /\ 2 \in 1 .. 2 /\ i + 1 - 1 = i /\ i + 2 - 1 = i + 1
    OBVIOUS
  <2>2. q[1] = "0" /\ q[2] = x
    OBVIOUS
  <2>3. \A j \in 1 .. 2 : At(u, i + j - 1) = q[j] /\ u[i + j - 1] = q[j]
    BY <1>3
  <2>4. /\ At(u, i + 1 - 1) = q[1] /\ u[i + 1 - 1] = q[1]
        /\ At(u, i + 2 - 1) = q[2] /\ u[i + 2 - 1] = q[2]
    BY <2>1, <2>3
  <2>5. QED
    BY <2>1, <2>2, <2>4
<1>5. ReadNext(u, i, rf) = ReadNumericBase(u, i)
  BY <1>1, <1>4, ReadsANumber
<1>6. /\ n \in Nat /\ z \in Nat /\ k \in 1 .. n /\ z \in k + 1 .. n + 1
      /\ At(u, k) \in D /\ \A j \in k .. z - 1 : At(u, j) \in D
  <2> HIDE DEF D, k, z
  <2>1. D \subseteq Char /\ t \in Seq(D) /\ t # << >> /\ StandsAt(t, u, k) /\ k \in Nat
    BY <1>1, <1>3 DEF D
  <2>2. /\ Len(u) \in Nat /\ k + Len(t) \in Nat
        /\ k \in 1 .. Len(u) /\ k + Len(t) \in k + 1 .. Len(u) + 1
        /\ At(u, k) \in D /\ \A j \in k .. k + Len(t) - 1 : At(u, j) \in D
    <3>1. u \in AnyText
      OBVIOUS
    <3>2. QED
      BY ONLY <2>1, <3>1, DigitsStand
  <2>3. k + Len(t) = z
    BY <1>3
  <2>4. QED
    BY ONLY <2>2, <2>3
<1>7. At(u, z) \in LineSpace
  OBVIOUS
<1> HIDE DEF D, k, z, n, c
<1>8. RunEnd(u, k, D \cup {"_"}) = z
  <2>1. At(u, z) \notin D \cup {"_"}
    BY <1>1, <1>7
  <2>2. k \in 1 .. n + 1 /\ z \in k .. n + 1
    BY ONLY <1>6
  <2>3. \A j \in k .. z - 1 : At(u, j) \in D \cup {"_"}
    BY <1>6
  <2>4. QED
    BY <2>1, <2>2, <2>3, RunIs DEF n
<1>9. z # k /\ z # None
  <2>1. z # k /\ z # 0
    BY ONLY <1>3, <1>6
  <2>2. QED
    BY <2>1 DEF None
<1>10. u[k] # "_"
  <2>1. At(u, k) = u[k]
    BY <1>6, TextEnds DEF n
  <2>2. QED
    BY <1>1, <1>6, <2>1
<1>11. ReadNumericBase(u, i) = Lexeme(BaseId(x), z)
  <2>1. ReadNumericBase(u, i) =
          LET base == u[i + 1]
              end  == RunEnd(u, i + 2, DigitsOf(base) \cup {"_"})
          IN  IF end = i + 2 \/ u[i + 2] = "_" \/ At(u, end) \notin LineSpace \cup {TheEnd}
              THEN Failed ELSE Lexeme(BaseId(base), end)
    BY DEF ReadNumericBase
  <2>2. ReadNumericBase(u, i) =
          IF RunEnd(u, k, D \cup {"_"}) = k \/ u[k] = "_"
             \/ At(u, RunEnd(u, k, D \cup {"_"})) \notin LineSpace \cup {TheEnd}
          THEN Failed ELSE Lexeme(BaseId(x), RunEnd(u, k, D \cup {"_"}))
    BY <1>4, <2>1 DEF k, D
  <2>3. QED
    BY <1>7, <1>8, <1>9, <1>10, <2>2
<1>12. QED
  BY <1>5, <1>9, <1>11 DEF Lexeme, z

\* The letter of a base, and the token that says it
LEMMA BaseLetters ==
  ASSUME NEW flag \in DOMAIN Bases
  PROVE  \E x \in {"x", "o", "b"} :
            /\ BasePrefix[flag] = <<"0", x>> /\ Bases[flag] \in NumeralBases \ {10}
            /\ DigitsIn(Bases[flag]) \subseteq DigitsOf(x)
            /\ \A q : ValueFromToken(BaseId(x), q) = Flagged(ParseNumber(q, Bases[flag]), flag)
<1>1. flag \in {"binary", "octal", "hexadecimal"}
  BY DEF Bases
<1>2. CASE flag = "binary"
  <2>1. Bases[flag] = 2 /\ BasePrefix[flag] = <<"0", "b">> /\ BaseId("b") = "Binary"
    BY <1>2 DEF Bases, BasePrefix, BaseId
  <2>2. \A q : ValueFromToken("Binary", q) = Flagged(ParseNumber(q, 2), "binary")
    BY DEF ValueFromToken
  <2>3. QED
    BY <1>2, <2>1, <2>2, DigitSets DEF NumeralBases
<1>3. CASE flag = "octal"
  <2>1. Bases[flag] = 8 /\ BasePrefix[flag] = <<"0", "o">> /\ BaseId("o") = "Octal"
    BY <1>3 DEF Bases, BasePrefix, BaseId
  <2>2. \A q : ValueFromToken("Octal", q) = Flagged(ParseNumber(q, 8), "octal")
    BY DEF ValueFromToken
  <2>3. QED
    BY <1>3, <2>1, <2>2, DigitSets DEF NumeralBases
<1>4. CASE flag = "hexadecimal"
  <2>1. Bases[flag] = 16 /\ BasePrefix[flag] = <<"0", "x">> /\ BaseId("x") = "Hexadecimal"
    BY <1>4 DEF Bases, BasePrefix, BaseId
  <2>2. \A q : ValueFromToken("Hexadecimal", q) = Flagged(ParseNumber(q, 16), "hexadecimal")
    BY DEF ValueFromToken
  <2>3. QED
    BY <1>4, <2>1, <2>2, DigitSets DEF NumeralBases
<1>5. QED
  BY <1>1, <1>2, <1>3, <1>4

\* An integer in base 10, read back
LEMMA DecimalReadsBack ==
  ASSUME NEW kind \in {"int", "bigint"}, NEW m \in Int, kind = "int" <=> IsFit(m),
         NEW q, Numbers(q, m, 10), NEW rf,
         NEW u \in AnyText, NEW i \in Nat, StandsAt(q, u, i), At(u, i + Len(q)) \in Separators
  PROVE  LET l == ReadNext(u, i, rf)
             v == ValueFromToken(l.id, Text(u, i, l))
         IN  l.end = i + Len(q) /\ v.kind = kind /\ v.m = m /\ v.flag = "none"
<1> DEFINE l == ReadNext(u, i, rf)
           v == [Value EXCEPT !.kind = kind, !.m = m]
<1>1. PICK t \in Seq(DigitsIn(10)) : t # << >> /\ (q = t \/ q = <<"-">> \o t)
  <2>1. 10 \in NumeralBases
    BY DEF NumeralBases
  <2>2. QED
    BY <2>1, NumeralIsInteger, ZenonT(60)
<1>2. t \in Seq(Digits) /\ t # << >>
  BY <1>1, DigitSets
<1>3. l = [id |-> "Decimal", end |-> i + Len(q)]
  BY <1>1, <1>2, DecimalIsScanned
<1>4. q \in AnyText /\ q # << >>
  <2> DEFINE X == Char \cup {Bad}
  <2>1. Digits \subseteq X /\ "-" \in X
    BY DEF Char, Marks
  <2> HIDE DEF X
  <2>2. t \in Seq(X) /\ <<"-">> \in Seq(X)
    BY <1>2, <2>1, SeqMonotonic
  <2>3. Len(t) \in Nat /\ Len(t) # 0
    BY <1>2, EmptySeq, LenProperties
  <2>4. CASE q = t
    BY <1>2, <2>2, <2>4 DEF AnyText, X
  <2>5. CASE q = <<"-">> \o t
    <3> DEFINE p == <<"-">>
    <3>1. p \in Seq(X)
      BY <2>2
    <3> HIDE DEF p
    <3>2. p \o t \in Seq(X) /\ Len(p) \in Nat /\ Len(p \o t) = Len(p) + Len(t)
      BY ONLY <2>2, <3>1, Joined
    <3>3. q = p \o t
      BY <2>5 DEF p
    <3>4. q \in Seq(X) /\ Len(q) = Len(p) + Len(t) /\ Len(p) \in Nat
      BY ONLY <3>2, <3>3
    <3>5. Len(q) # 0
      BY ONLY <2>3, <3>4
    <3>6. q # << >>
      BY <3>5
    <3>7. QED
      BY <3>4, <3>6 DEF AnyText, X
  <2>6. QED
    BY <1>1, <2>4, <2>5
<1>5. Text(u, i, l) = q
  <2>1. SubSeq(u, i, i + Len(q) - 1) = q
    BY <1>4, StandingText
  <2>2. QED
    BY <1>3, <2>1 DEF Text
<1>6. ParseNumber(q, 10) = v
  <2>1. ParseNumber(q, 10) = [Value EXCEPT !.kind = IF IsFit(m) THEN "int" ELSE "bigint", !.m = m]
    BY NumeralIsParsed DEF NumeralBases
  <2>2. kind = IF IsFit(m) THEN "int" ELSE "bigint"
    OBVIOUS
  <2>3. QED
    BY <2>1, <2>2
<1>7. v.kind = kind /\ v.m = m /\ v.flag = "none"
  BY DEF Value
<1> HIDE DEF v
<1>8. ValueFromToken("Decimal", q) = v
  BY <1>6 DEF ValueFromToken
<1> HIDE DEF l
<1>9. l.end = i + Len(q) /\ ValueFromToken(l.id, Text(u, i, l)) = v
  BY <1>3, <1>5, <1>8
<1>10. QED
  BY <1>7, <1>9 DEF l

\* An integer in another base, read back
BasedText(flag, m) == BasePrefix[flag] \o Numeral(m, Bases[flag])

LEMMA BasedReadsBack ==
  ASSUME NEW flag \in DOMAIN Bases, NEW m \in Nat, IsFit(m),
         NEW q, q = BasedText(flag, m), NEW rf,
         NEW u \in AnyText, NEW i \in Nat, StandsAt(q, u, i), At(u, i + Len(q)) \in LineSpace
  PROVE  LET l == ReadNext(u, i, rf)
             v == ValueFromToken(l.id, Text(u, i, l))
         IN  l.end = i + Len(q) /\ v.kind = "int" /\ v.m = m /\ v.flag = flag
<1> DEFINE l == ReadNext(u, i, rf)
           v == [Value EXCEPT !.kind = "int", !.m = m]
           value == [Value EXCEPT !.kind = "int", !.m = m, !.flag = flag]
           base == Bases[flag]
           t == Numeral(m, base)
<1>1. PICK x \in {"x", "o", "b"} :
            /\ BasePrefix[flag] = <<"0", x>> /\ base \in NumeralBases \ {10}
            /\ DigitsIn(base) \subseteq DigitsOf(x)
            /\ \A p : ValueFromToken(BaseId(x), p) = Flagged(ParseNumber(p, base), flag)
  BY BaseLetters
<1> HIDE DEF base
<1>2. t \in Seq(DigitsIn(base)) /\ t # << >> /\ m \in Int /\ Numbers(t, m, base)
  BY <1>1, NumeralIs DEF Numbers
<1>3. q = <<"0", x>> \o t
  BY <1>1 DEF base, BasedText
<1>4. x \in Char
  BY DEF Char, Letters
<1>5. ParseNumber(q, base) = v
  <2>1. ParseNumber(<<"0", x>> \o t, base) =
          [Value EXCEPT !.kind = IF IsFit(m) THEN "int" ELSE "bigint", !.m = m]
    BY <1>1, <1>2, <1>4, NumeralIsParsed
  <2> HIDE DEF t
  <2>2. QED
    BY <1>3, <2>1
<1> HIDE DEF t
<1>6. EndsAfter(t, q, 2) /\ q[1] = "0" /\ q[2] = x /\ q \in AnyText /\ q # << >>
  <2> DEFINE X == Char \cup {Bad}
             p == <<"0", x>>
  <2>1. "0" \in X /\ x \in X /\ DigitsIn(base) \subseteq X
    BY <1>1, <1>4, DigitsAre DEF Char, Digits
  <2> HIDE DEF X
  <2>2. p \in Seq(X) /\ Len(p) = 2 /\ p[1] = "0" /\ p[2] = x
    BY <2>1
  <2>3. t \in Seq(X)
    BY <1>2, <2>1, SeqMonotonic
  <2>4. q = p \o t
    BY <1>3
  <2> HIDE DEF p
  <2>5. /\ p \o t \in Seq(X) /\ Len(t) \in Nat /\ Len(p \o t) = Len(p) + Len(t)
        /\ \A j \in 1 .. Len(p) : (p \o t)[j] = p[j]
        /\ \A j \in 1 .. Len(t) : (p \o t)[Len(p) + j] = t[j]
    <3>1. p \in Seq(X) /\ t \in Seq(X)
      BY <2>2, <2>3
    <3>2. QED
      BY ONLY <3>1, Joined
  <2>6. /\ q \in Seq(X) /\ Len(t) \in Nat /\ Len(q) = 2 + Len(t)
        /\ \A j \in 1 .. 2 : q[j] = p[j]
        /\ \A j \in 1 .. Len(t) : q[2 + j] = t[j]
    BY ONLY <2>2, <2>4, <2>5
  <2>7. Len(q) # 0
    BY ONLY <2>6
  <2>8. q # << >>
    BY <2>7
  <2>9. 1 \in 1 .. 2 /\ 2 \in 1 .. 2
    OBVIOUS
  <2>10. q[1] = p[1] /\ q[2] = p[2]
    BY <2>6, <2>9
  <2>11. QED
    BY <2>2, <2>6, <2>8, <2>10 DEF EndsAfter, AnyText, X
<1>7. t \in Seq(DigitsOf(x)) /\ t # << >>
  BY <1>1, <1>2, SeqMonotonic
<1>8. l = [id |-> BaseId(x), end |-> i + Len(q)]
  <2>1. StandsAt(q, u, i) /\ At(u, i + Len(q)) \in LineSpace /\ u \in AnyText /\ i \in Nat
    OBVIOUS
  <2>2. QED
    BY ONLY <1>6, <1>7, <2>1, BasedIsScanned
<1>9. Text(u, i, l) = q
  <2>1. SubSeq(u, i, i + Len(q) - 1) = q
    BY <1>6, StandingText
  <2>2. QED
    BY <1>8, <2>1 DEF Text
<1>10. Flagged(v, flag) = value
  <2>1. v # NotAValue
    <3>1. v.kind = "int" /\ NotAValue.kind = "error"
      BY DEF Value, NotAValue
    <3>2. QED
      BY <3>1
  <2>2. [v EXCEPT !.flag = flag] = value
    BY DEF Value
  <2> HIDE DEF v, value
  <2>3. QED
    BY <2>1, <2>2 DEF Flagged
<1>11. value.kind = "int" /\ value.m = m /\ value.flag = flag
  BY DEF Value
<1> HIDE DEF v, value, l
<1>12. l.end = i + Len(q) /\ ValueFromToken(l.id, Text(u, i, l)) = value
  BY <1>1, <1>5, <1>8, <1>9, <1>10
<1>13. QED
  BY <1>11, <1>12 DEF l

\* An integer value comes back as it was from its text, as an int where it fits
\* and a bigint where it does not, with its base where the text has one.  What
\* follows must separate it from the next token: space, for an integer in
\* another base, which readNumericBase looks for.  Values that Value.string
\* writes in a base with a sign or without a prefix are not read back.
THEOREM IntegersReadBack ==
  ASSUME NEW d \in Values, d.kind \in {"int", "bigint"}, d.kind = "int" <=> IsFit(d.m),
         d.type = << >>, NEW o,
         Based(d, Rendering(o)) => d.kind = "int" /\ d.m >= 0,
         NEW rf, NEW u \in AnyText, NEW i \in Nat,
         StandsAt(ValueText(d, Rendering(o)), u, i),
         At(u, i + Len(ValueText(d, Rendering(o)))) \in
           IF Based(d, Rendering(o)) THEN LineSpace ELSE Separators
  PROVE  LET l == ReadNext(u, i, rf)
             v == ValueFromToken(l.id, Text(u, i, l))
         IN  /\ l.end = i + Len(ValueText(d, Rendering(o)))
             /\ v.kind = d.kind /\ v.m = d.m
             /\ v.flag = IF Based(d, Rendering(o)) THEN d.flag ELSE "none"
<1> DEFINE r == Rendering(o)
           q == ValueText(d, r)
           l == ReadNext(u, i, rf)
           v == ValueFromToken(l.id, Text(u, i, l))
           n == Positive(d)
           m == d.m
           flag == d.flag
<1> HIDE DEF r
<1>1. /\ m \in Int /\ n \in Nat /\ (m = n \/ (m = -n /\ m < 0)) /\ (m < 0 => m = -n) /\ (m >= 0 => m = n)
  <2>1. m \in Int
    BY DEF Values
  <2>2. n = IF m < 0 THEN -m ELSE m
    BY DEF Positive
  <2> HIDE DEF m, n
  <2>3. QED
    BY ONLY <2>1, <2>2
<1>2. q = << >> \o BareText(d, r)
  BY DEF ValueText
<1>3. BareText(d, r) = IF d.kind = "int" THEN IntText(d, r) ELSE BigIntText(d, r)
  BY DEF BareText
<1>4. CASE ~Based(d, r)
  <2> DEFINE t == Numeral(n, 10)
             b == Signed(d, t)
  <2>1. BareText(d, r) = b
    BY <1>3, <1>4 DEF IntText, BigIntText
  <2>2. Numbers(b, m, 10)
    <3>1. b = IF m < 0 THEN <<"-">> \o t ELSE t
      BY DEF Signed
    <3> HIDE DEF b, n, m
    <3>2. QED
      BY <1>1, <3>1 DEF Numbers
  <2>3. b \in Seq(DigitsIn(10) \cup {"-"})
    <3>1. 10 \in NumeralBases
      BY DEF NumeralBases
    <3> HIDE DEF b, m
    <3>2. QED
      BY <1>1, <2>2, <3>1, NumeralIsInteger
  <2>4. q = b
    <3> DEFINE X == DigitsIn(10) \cup {"-"}
    <3>1. b \in Seq(X)
      BY <2>3
    <3> HIDE DEF b, X, q
    <3>2. QED
      BY <1>2, <2>1, <3>1, ConcatEmptySeq
  <2>5. StandsAt(q, u, i) /\ At(u, i + Len(q)) \in Separators
    BY <1>4 DEF r
  <2> DEFINE kind == d.kind
  <2>6. kind \in {"int", "bigint"} /\ (kind = "int" <=> IsFit(m)) /\ u \in AnyText /\ i \in Nat
    OBVIOUS
  <2> HIDE DEF b, q, m, kind
  <2>7. l.end = i + Len(q) /\ v.kind = kind /\ v.m = m /\ v.flag = "none"
    <3>1. Numbers(q, m, 10)
      BY <2>2, <2>4
    <3>2. QED
      BY ONLY <1>1, <2>5, <2>6, <3>1, DecimalReadsBack DEF l, v
  <2>8. QED
    BY <1>4, <2>7 DEF r, l, v, q, m, kind
<1>5. CASE Based(d, r)
  <2> DEFINE t == Numeral(m, Bases[flag])
             b == BasePrefix[flag] \o t
  <2>1. flag \in DOMAIN Bases /\ d.kind = "int" /\ m >= 0
    BY <1>5 DEF Based, r
  <2>2. m = n /\ m \in Nat /\ IsFit(m)
    <3>1. IsFit(m)
      BY <2>1
    <3>2. m >= 0
      BY <2>1
    <3> HIDE DEF m, n
    <3>3. m = n /\ m \in Nat
      BY ONLY <1>1, <3>2
    <3>4. QED
      BY <3>1, <3>3
  <2>3. IntText(d, r) = b
    <3>1. IntText(d, r) = BasePrefix[d.flag] \o Signed(d, Numeral(Positive(d), Bases[d.flag]))
      BY <1>5 DEF IntText
    <3>2. Signed(d, Numeral(Positive(d), Bases[d.flag])) = Numeral(Positive(d), Bases[d.flag])
      <4>1. ~(d.m < 0)
        BY <2>2
      <4>2. QED
        BY <4>1 DEF Signed
    <3>3. Numeral(Positive(d), Bases[d.flag]) = t
      BY <2>2
    <3>4. QED
      BY <3>1, <3>2, <3>3
  <2>4. StandsAt(q, u, i) /\ At(u, i + Len(q)) \in LineSpace
    BY <1>5 DEF r
  <2>5. q = b
    <3>1. PICK x \in {"x", "o", "b"} :
             BasePrefix[flag] = <<"0", x>> /\ Bases[flag] \in NumeralBases
      BY <2>1, BaseLetters
    <3>2. t \in Seq(DigitsIn(Bases[flag])) /\ DigitsIn(Bases[flag]) \subseteq Char
      BY <2>2, <3>1, NumeralIs, DigitsAre
    <3> DEFINE X == Char \cup {"0", x}
               p == BasePrefix[flag]
    <3>3. DigitsIn(Bases[flag]) \subseteq X /\ p \in Seq(X)
      BY <3>1, <3>2
    <3> HIDE DEF X, t, p
    <3>4. t \in Seq(X)
      BY <3>2, <3>3, SeqMonotonic
    <3>5. p \o t \in Seq(X)
      BY <3>3, <3>4, Joined
    <3>6. b \in Seq(X)
      BY <3>5 DEF p
    <3> HIDE DEF b, q
    <3>7. << >> \o b = b
      BY <3>6, ConcatEmptySeq
    <3>8. QED
      BY <1>2, <1>3, <2>1, <2>3, <3>7
  <2> HIDE DEF m, q, flag
  <2>6. l.end = i + Len(q) /\ v.kind = "int" /\ v.m = m /\ v.flag = flag
    <3>1. q = BasedText(flag, m)
      BY <2>5 DEF BasedText
    <3>2. u \in AnyText /\ i \in Nat
      OBVIOUS
    <3>3. QED
      BY ONLY <2>1, <2>2, <2>4, <3>1, <3>2, BasedReadsBack DEF l, v
  <2> HIDE DEF l, v
  <2>7. QED
    BY <1>5, <2>1, <2>6 DEF r, l, v, q, m, flag
<1>6. QED
  BY <1>4, <1>5

-----------------------------------------------------------------------------
(* null, true and false *)

Keywords == {<<"n", "u", "l", "l">>, <<"t", "r", "u", "e">>, <<"f", "a", "l", "s", "e">>}

LEMMA KeywordsAreWords ==
  ASSUME NEW s \in Keywords, NEW rf
  PROVE  /\ s \in Seq(Char) /\ Len(s) \in {4, 5} /\ IsBareIdentifier(s, {}) /\ ~Misscanned(s, rf)
<1> DEFINE letters == {"n", "u", "l", "t", "r", "e", "f", "a", "s"}
           plain   == BareIdentifierChars[{}]
<1>1. letters \subseteq Char
  BY DEF Char, Letters
<1>2. /\ s \in Seq(letters) /\ Len(s) \in {4, 5} /\ s[1] \in letters /\ s[1] # "r"
  <2>1. /\ "n" \in letters /\ "u" \in letters /\ "l" \in letters /\ "t" \in letters /\ "r" \in letters
        /\ "e" \in letters /\ "f" \in letters /\ "a" \in letters /\ "s" \in letters
    OBVIOUS
  <2> HIDE DEF letters
  <2>2. CASE s = <<"n", "u", "l", "l">>
    BY <2>1, <2>2
  <2>3. CASE s = <<"t", "r", "u", "e">>
    BY <2>1, <2>3
  <2>4. CASE s = <<"f", "a", "l", "s", "e">>
    BY <2>1, <2>4
  <2>5. QED
    BY <2>2, <2>3, <2>4 DEF Keywords
<1>3. letters \subseteq plain
  <2>1. {} \in SUBSET RelaxedFlags
    OBVIOUS
  <2>2. letters \cap (LineSpace \cup Controls \cup Enclosing
                      \cup {"{", "}", "<", ">", ";", "[", "]", "=", ","}) = {}
    BY DEF LineSpace, WhiteSpace, Newlines, Controls, Enclosing
  <2>3. plain = Char \ (LineSpace \cup Controls \cup {"{", "}", "<", ">", ";", "[", "]", "=", ","}
                        \cup Enclosing)
    BY <2>1 DEF BareIdentifierChars
  <2> HIDE DEF letters, plain
  <2>4. QED
    BY <1>1, <2>2, <2>3
<1>4. letters \cap (Digits \cup Signs \cup {".", "_", "?", ":"}) = {}
  BY DEF Digits, Signs
<1>5. Range(s) \subseteq letters
  <2>1. DOMAIN s = 1 .. Len(s) /\ \A k \in 1 .. Len(s) : s[k] \in letters
    BY <1>2, LenProperties, ElementOfSeq
  <2> HIDE DEF letters
  <2>2. QED
    BY <2>1 DEF Range
<1> HIDE DEF letters
<1>6. s \in Seq(Char)
  BY <1>1, <1>2, SeqMonotonic
<1>7. IsBareIdentifier(s, {})
  <2>1. BareIdentifierStartChars[{}] = plain \ Digits
    BY DEF BareIdentifierStartChars
  <2>2. s # << >>
    BY DEF Keywords
  <2> HIDE DEF plain
  <2>3. QED
    BY <1>2, <1>3, <1>4, <1>5, <2>1, <2>2 DEF IsBareIdentifier, plain
<1>8. ~Misscanned(s, rf)
  BY <1>2, <1>4, <1>5 DEF Misscanned
<1>9. QED
  BY <1>2, <1>6, <1>7, <1>8

\* null, true and false come back as what they are.
THEOREM KeywordsReadBack ==
  ASSUME NEW d \in Values, d.kind \in {"null", "bool"}, d.type = << >>,
         d.kind = "bool" => d.text \in Keywords \ {<<"n", "u", "l", "l">>}, NEW o,
         NEW rf \in SUBSET RelaxedFlags, "NGINXSyntax" \notin rf,
         NEW u \in AnyText, NEW i \in Nat,
         StandsAt(ValueText(d, Rendering(o)), u, i),
         At(u, i + Len(ValueText(d, Rendering(o)))) \notin BareIdentifierChars[rf] \cup {Bad}
  PROVE  LET l == ReadNext(u, i, rf)
             v == ValueFromToken(l.id, Text(u, i, l))
         IN  /\ l.end = i + Len(ValueText(d, Rendering(o)))
             /\ v.kind = d.kind /\ (d.kind = "bool" => v.text = d.text)
<1> DEFINE r == Rendering(o)
           s == IF d.kind = "null" THEN <<"n", "u", "l", "l">> ELSE d.text
           q == ValueText(d, r)
           l == ReadNext(u, i, rf)
           v == ValueFromToken(l.id, Text(u, i, l))
<1> HIDE DEF r
<1>1. s \in Keywords /\ (d.kind = "null" <=> s = <<"n", "u", "l", "l">>)
  BY DEF Keywords
<1>2. s \in Seq(Char) /\ Len(s) \in {4, 5} /\ IsBareIdentifier(s, {}) /\ ~Misscanned(s, rf)
  BY <1>1, KeywordsAreWords
<1>3. q = s
  <2>1. BareText(d, r) = s
    BY DEF BareText
  <2>2. q = << >> \o BareText(d, r)
    BY DEF ValueText
  <2> HIDE DEF q, s
  <2>3. << >> \o s = s
    BY <1>2, ConcatEmptySeq
  <2>4. QED
    BY <2>1, <2>2, <2>3
<1>4. StandsAt(s, u, i) /\ At(u, i + Len(s)) \notin BareIdentifierChars[rf] \cup {Bad}
  BY <1>3 DEF r
<1>5. Len(s) # 1
  BY <1>2
<1>6. d.kind = "bool" => s = d.text
  OBVIOUS
<1> HIDE DEF s, q
<1>7. l = [id |-> Keyword(s), end |-> i + Len(s)] /\ Text(u, i, l) = s
  BY <1>2, <1>4, <1>5, WordsAreScanned
<1>8. Keyword(s) = IF d.kind = "null" THEN "Null" ELSE "Boolean"
  BY <1>1 DEF Keyword, Keywords
<1> DEFINE value == ValueFromToken(Keyword(s), s)
<1>9. value.kind = d.kind /\ (d.kind = "bool" => value.text = d.text)
  <2>1. CASE d.kind = "null"
    BY <1>8, <2>1 DEF ValueFromToken, Value
  <2>2. CASE d.kind = "bool"
    BY <1>6, <1>8, <2>2 DEF ValueFromToken, TextValue, Value
  <2>3. QED
    BY <2>1, <2>2
<1> HIDE DEF value, l
<1>10. l.end = i + Len(s) /\ v = value
  BY <1>7 DEF value
<1> HIDE DEF v
<1>11. l.end = i + Len(q) /\ v.kind = d.kind /\ (d.kind = "bool" => v.text = d.text)
  BY <1>3, <1>9, <1>10
<1>12. QED
  BY <1>11 DEF l, v, q, r
================================================================================
