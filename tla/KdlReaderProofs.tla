--------------------------- MODULE KdlReaderProofs ---------------------------
(***************************************************************************)
(* What holds of reading, from the characters of a text to its document,   *)
(* for every text: no round of the loop stands still, what is returned was *)
(* read to its end, and the parser, which is now fed by the scanner,       *)
(* keeps what KdlParserProofs shows of it.                                 *)
(***************************************************************************)
EXTENDS KdlReader, KdlParserRefinement, FiniteSetTheorems, WellFoundedInduction, TLAPS

-----------------------------------------------------------------------------
(* Positions *)

LEMMA Smallest ==
  ASSUME NEW T \in SUBSET Nat, T # {}
  PROVE  Min(T) \in T /\ \A n \in T : Min(T) <= n
<1> DEFINE U == { 0 .. n : n \in T }
<1>1. U \in SUBSET FiniteSubsetsOf(Nat) /\ U # {}
  <2>1. ASSUME NEW n \in Nat
        PROVE  0 .. n \in FiniteSubsetsOf(Nat)
    <3>1. IsFiniteSet(0 .. n) /\ 0 .. n \subseteq Nat
      BY FS_Interval
    <3>2. QED
      BY <3>1 DEF FiniteSubsetsOf
  <2>2. QED
    BY <2>1
<1>2. PICK x \in U : \A y \in U : <<y, x>> \notin StrictSubsetOrdering(Nat)
  BY <1>1, FS_StrictSubsetOrderingWellFounded, WFMin
<1>3. PICK n \in T : x = 0 .. n
  OBVIOUS
<1>4. ASSUME NEW m \in T
      PROVE  n <= m
  <2>1. CASE m < n
    <3>1. <<0 .. m, 0 .. n>> \in StrictSubsetOrdering(Nat)
      BY <2>1 DEF StrictSubsetOrdering
    <3>2. QED
      BY <3>1, <1>2, <1>3
  <2>2. QED
    BY <2>1
<1>5. QED
  BY <1>4 DEF Min

AnyText == Seq(Char \cup {Bad})

LEMMA NotCharacters == TheEnd \notin Char \cup {Bad} /\ Bad \notin Char
  BY DEF TheEnd, Bad, Char, Digits, Letters, Marks, LineSpace, WhiteSpace, Newlines, Controls

LEMMA TextEnds ==
  ASSUME NEW s \in AnyText, NEW i \in Nat
  PROVE  /\ Len(s) \in Nat
         /\ i \in 1 .. Len(s) => At(s, i) = s[i] /\ At(s, i) \in Char \cup {Bad}
         /\ i \in 1 .. Len(s) <=> At(s, i) # TheEnd
<1>1. Len(s) \in Nat /\ DOMAIN s = 1 .. Len(s) /\ \A k \in 1 .. Len(s) : s[k] \in Char \cup {Bad}
  BY LenProperties, ElementOfSeq DEF AnyText
<1>2. QED
  BY <1>1, NotCharacters DEF At

LEMMA PartOfText ==
  ASSUME NEW s \in AnyText, NEW m \in 1 .. Len(s), NEW n \in m .. Len(s)
  PROVE  /\ SubSeq(s, m, n) \in AnyText /\ SubSeq(s, m, n) # << >>
         /\ Len(SubSeq(s, m, n)) = n - m + 1
         /\ \A k \in 1 .. n - m + 1 : SubSeq(s, m, n)[k] = s[m + k - 1]
         /\ SubSeq(s, m, n)[1] = s[m] /\ SubSeq(s, m, n)[n - m + 1] = s[n]
<1> DEFINE u == SubSeq(s, m, n)
<1>1. Len(s) \in Nat
  BY TextEnds
<1>2. \A i \in m .. n : s[i] \in Char \cup {Bad}
  BY <1>1, ElementOfSeq DEF AnyText
<1>3. /\ u \in AnyText
      /\ Len(u) = IF m <= n THEN n - m + 1 ELSE 0
      /\ \A i \in 1 .. n - m + 1 : u[i] = s[m + i - 1]
  BY <1>1, <1>2, SubSeqProperties DEF AnyText
<1>4. /\ m <= n /\ 1 \in 1 .. n - m + 1 /\ n - m + 1 \in 1 .. n - m + 1
      /\ m + 1 - 1 = m /\ m + (n - m + 1) - 1 = n
  BY <1>1
<1> HIDE DEF u
<1>5. u[1] = s[m] /\ u[n - m + 1] = s[n]
  <2>1. u[1] = s[m + 1 - 1] /\ u[n - m + 1] = s[m + (n - m + 1) - 1]
    BY <1>3, <1>4
  <2>2. QED
    BY <1>4, <2>1
<1>6. Len(u) = n - m + 1 /\ Len(u) # 0
  BY <1>3, <1>4
<1>7. u # << >>
  BY <1>3, <1>6, EmptySeq DEF AnyText
<1>8. QED
  BY <1>3, <1>5, <1>6, <1>7 DEF u

LEMMA RunEnds ==
  ASSUME NEW s \in AnyText, NEW i \in 1 .. Len(s) + 1, NEW set, TheEnd \notin set
  PROVE  /\ RunEnd(s, i, set) \in i .. Len(s) + 1
         /\ At(s, RunEnd(s, i, set)) \notin set
         /\ RunEnd(s, i, set) = i <=> At(s, i) \notin set
<1> DEFINE T == {j \in i .. Len(s) + 1 : At(s, j) \notin set}
<1>1. Len(s) \in Nat /\ At(s, Len(s) + 1) = TheEnd
  BY TextEnds DEF AnyText
<1>2. T \in SUBSET Nat /\ Len(s) + 1 \in T
  BY <1>1
<1>3. Min(T) \in T /\ \A n \in T : Min(T) <= n
  BY <1>2, Smallest
<1>4. RunEnd(s, i, set) = Min(T)
  BY DEF RunEnd
<1>5. QED
  BY <1>1, <1>3, <1>4

\* A run goes on to the first character that is not in the set.
LEMMA RunIs ==
  ASSUME NEW s \in AnyText, NEW i \in 1 .. Len(s) + 1, NEW set, NEW end \in i .. Len(s) + 1,
         At(s, end) \notin set
  PROVE  RunEnd(s, i, set) = end <=> \A j \in i .. end - 1 : At(s, j) \in set
<1> DEFINE T == {j \in i .. Len(s) + 1 : At(s, j) \notin set}
           m == Min(T)
<1>1. Len(s) \in Nat
  BY TextEnds
<1>2. T \in SUBSET Nat /\ end \in T
  BY <1>1
<1>3. m \in T /\ (\A n \in T : m <= n) /\ RunEnd(s, i, set) = m
  BY <1>2, Smallest DEF RunEnd
<1> HIDE DEF m
<1>4. ASSUME m = end, NEW j \in i .. end - 1
      PROVE  At(s, j) \in set
  <2>1. j \in i .. Len(s) + 1 /\ ~(end <= j)
    BY <1>1
  <2>2. QED
    BY <1>3, <1>4, <2>1
<1>5. ASSUME \A j \in i .. end - 1 : At(s, j) \in set
      PROVE  m = end
  <2>1. m \in i .. Len(s) + 1 /\ At(s, m) \notin set /\ m <= end
    BY <1>2, <1>3
  <2>2. ~(m < end)
    BY <1>1, <1>5, <2>1
  <2>3. QED
    BY <1>1, <2>1, <2>2
<1>6. QED
  BY <1>3, <1>4, <1>5

-----------------------------------------------------------------------------
(* Recognisers: each fails, or ends after where it starts and in the text. *)

Ends(s, i) == {None} \cup i + 1 .. Len(s) + 1

LEMMA ReadWhileEnds ==
  ASSUME NEW s \in AnyText, NEW i \in 1 .. Len(s) + 1, NEW set, TheEnd \notin set, NEW min
  PROVE  ReadWhile(s, i, set, min) \in Ends(s, i)
<1>1. Len(s) \in Nat
  BY TextEnds
<1>2. RunEnd(s, i, set) \in i .. Len(s) + 1
  BY RunEnds
<1>3. QED
  BY <1>1, <1>2 DEF ReadWhile, Ends

LEMMA SingleLineCommentEnds ==
  ASSUME NEW s \in AnyText, NEW i \in 1 .. Len(s), s[i] \in Char \ Newlines
  PROVE  ReadSingleLineComment(s, i) \in Ends(s, i)
<1>1. Len(s) \in Nat /\ At(s, i) = s[i] /\ TheEnd \notin Char \ Newlines
  BY TextEnds, NotCharacters
<1>2. RunEnd(s, i, Char \ Newlines) \in i + 1 .. Len(s) + 1
  BY <1>1, RunEnds
<1>3. QED
  BY <1>1, <1>2 DEF ReadSingleLineComment, Ends

LEMMA RawStringEnds ==
  ASSUME NEW s \in AnyText, NEW i \in 1 .. Len(s)
  PROVE  ReadRawString(s, i) \in Ends(s, i)
<1> DEFINE open   == RunEnd(s, i + 1, {"#"})
           mark   == <<"\"">> \o Hashes(open - i - 1)
           closes == {j \in open + 1 .. Len(s) - Len(mark) + 1 :
                        SubSeq(s, j, j + Len(mark) - 1) = mark}
           end    == Min(closes) + Len(mark)
<1>1. Len(s) \in Nat /\ open \in i + 1 .. Len(s) + 1
  BY TextEnds, RunEnds DEF TheEnd
<1>2. Len(mark) \in Nat \ {0}
  <2>1. open - i - 1 \in Nat
    BY <1>1
  <2>2. Hashes(open - i - 1) \in Seq({"#", "\""}) /\ <<"\"">> \in Seq({"#", "\""})
    <3>1. Hashes(open - i - 1) \in [1 .. open - i - 1 -> {"#", "\""}]
      BY DEF Hashes
    <3>2. Hashes(open - i - 1) \in Seq({"#", "\""})
      BY <2>1, <3>1, SeqDef
    <3>3. <<"\"">> \in Seq({"#", "\""})
      OBVIOUS
    <3>4. QED
      BY <3>2, <3>3
  <2>3. Len(mark) = Len(<<"\"">>) + Len(Hashes(open - i - 1))
    BY <2>2, ConcatProperties
  <2>4. Len(Hashes(open - i - 1)) \in Nat /\ Len(<<"\"">>) = 1
    BY <2>2, LenProperties
  <2>5. QED
    BY <2>3, <2>4
<1> HIDE DEF open, mark
<1>3. CASE closes # {}
  <2>1. closes \in SUBSET Nat
    BY <1>1, <1>2
  <2>2. Min(closes) \in open + 1 .. Len(s) - Len(mark) + 1
    BY <2>1, <1>3, Smallest
  <2>3. end \in i + 1 .. Len(s) + 1
    BY <1>1, <1>2, <2>2
  <2>4. QED
    BY <2>3 DEF ReadRawString, open, mark, Ends
<1>4. CASE closes = {}
  BY <1>4 DEF ReadRawString, open, mark, Ends
<1>5. QED
  BY <1>3, <1>4

LEMMA QuotedStringEnds ==
  ASSUME NEW s \in AnyText, NEW i \in 1 .. Len(s), NEW q
  PROVE  ReadQuotedString(s, i, q) \in Ends(s, i)
<1> DEFINE escaped(j) == (j - Max({k \in i .. j - 1 : s[k] # "\\"})) % 2 = 0
           closes == {j \in i + 1 .. Len(s) : s[j] = q /\ ~escaped(j)}
           end    == IF closes = {} THEN Len(s) + 1 ELSE Min(closes) + 1
<1>1. Len(s) \in Nat
  BY TextEnds
<1>2. end \in i + 1 .. Len(s) + 1
  <2>1. CASE closes = {}
    BY <1>1, <2>1
  <2>2. CASE closes # {}
    <3>1. closes \in SUBSET Nat
      BY <1>1
    <3>2. Min(closes) \in i + 1 .. Len(s)
      BY <3>1, <2>2, Smallest
    <3>3. QED
      BY <1>1, <2>2, <3>2
  <2>3. QED
    BY <2>1, <2>2
<1> HIDE DEF end
<1>3. QED
  BY <1>2 DEF ReadQuotedString, end, Ends

\* One step of readMultiLineComment from position j, by what g says of the rest
CommentFrom(s, g, j) ==
  [ depth \in Int |->
      CASE At(s, j) \in {TheEnd, Bad} -> None
        [] At(s, j) = "*" /\ At(s, j + 1) = "/" ->
             IF depth = 1 THEN j + 2 ELSE g[j + 2][depth - 1]
        [] At(s, j) = "/" /\ At(s, j + 1) = "*" -> g[j + 2][depth + 1]
        [] OTHER -> g[j + 1][depth] ]

LEMMA CommentLooksAhead ==
  ASSUME NEW s \in AnyText, NEW j \in 1 .. Len(s) + 2, NEW g, NEW h,
         \A k \in j + 1 .. Len(s) + 2 : g[k] = h[k]
  PROVE  CommentFrom(s, g, j) = CommentFrom(s, h, j)
<1>1. Len(s) \in Nat
  BY TextEnds
<1>2. CASE j > Len(s)
  <2>1. At(s, j) = TheEnd
    BY <1>1, <1>2, TextEnds
  <2>2. QED
    BY <2>1 DEF CommentFrom, TheEnd, Bad
<1>3. CASE j <= Len(s)
  <2>1. g[j + 1] = h[j + 1] /\ g[j + 2] = h[j + 2]
    BY <1>1, <1>3
  <2>2. QED
    BY <2>1 DEF CommentFrom
<1>4. QED
  BY <1>1, <1>2, <1>3

LEMMA CommentWalkExists ==
  ASSUME NEW s \in AnyText, NEW i \in 1 .. Len(s)
  PROVE  \E g : g = [j \in i .. Len(s) + 2 |-> CommentFrom(s, g, j)]
<1> DEFINE N == Len(s) + 2
           Walk(m) == \E g : g = [j \in N - m .. N |-> CommentFrom(s, g, j)]
           T == { m \in 0 .. N - i : ~Walk(m) }
<1>1. Len(s) \in Nat /\ N \in Nat /\ N - i \in Nat
  BY TextEnds
<1>2. Walk(0)
  <2> DEFINE g == [j \in N .. N |-> CommentFrom(s, << >>, j)]
  <2>1. \A j \in N .. N : CommentFrom(s, << >>, j) = CommentFrom(s, g, j)
    <3> HIDE DEF g
    <3>1. N \in 1 .. Len(s) + 2 /\ N + 1 .. Len(s) + 2 = {}
      BY <1>1
    <3> HIDE DEF N
    <3>2. CommentFrom(s, << >>, N) = CommentFrom(s, g, N)
      BY <1>1, <3>1, CommentLooksAhead
    <3>3. QED
      BY <1>1, <3>2
  <2>2. g = [j \in N .. N |-> CommentFrom(s, g, j)]
    BY <2>1
  <2>3. N - 0 = N
    BY <1>1
  <2>4. QED
    BY <2>2, <2>3
<1>3. ASSUME NEW m \in 0 .. N - i, m # 0, Walk(m - 1)
      PROVE  Walk(m)
  <2>1. PICK g : g = [j \in N - (m - 1) .. N |-> CommentFrom(s, g, j)]
    BY <1>3
  <2> DEFINE h == [j \in N - m .. N |-> IF j = N - m THEN CommentFrom(s, g, j) ELSE g[j]]
  <2>2. ASSUME NEW j \in N - m .. N
        PROVE  h[j] = CommentFrom(s, h, j)
    <3>1. j \in 1 .. Len(s) + 2 /\ \A k \in j + 1 .. Len(s) + 2 : h[k] = g[k]
      BY <1>1
    <3>2. CommentFrom(s, h, j) = CommentFrom(s, g, j)
      <4> HIDE DEF h
      <4>1. QED
        BY <3>1, CommentLooksAhead
    <3>3. j # N - m => g[j] = CommentFrom(s, g, j)
      <4>1. j # N - m => j \in N - (m - 1) .. N
        BY <1>1
      <4>2. QED
        BY <2>1, <4>1
    <3>4. h[j] = CommentFrom(s, g, j)
      BY <3>3
    <3>5. QED
      BY <3>2, <3>4
  <2>3. h = [j \in N - m .. N |-> CommentFrom(s, h, j)]
    BY <2>2
  <2>4. QED
    BY <2>3
<1> HIDE DEF Walk
<1>4. T = {}
  <2>1. SUFFICES ASSUME T # {} PROVE FALSE
    OBVIOUS
  <2>2. T \in SUBSET Nat
    BY <1>1
  <2>3. Min(T) \in T /\ \A n \in T : Min(T) <= n
    BY <2>1, <2>2, Smallest
  <2>4. Min(T) # 0 /\ Min(T) - 1 \in 0 .. N - i /\ Min(T) - 1 \notin T
    BY <1>1, <1>2, <2>3
  <2>5. QED
    BY <1>3, <2>3, <2>4
<1>5. Walk(N - i)
  BY <1>1, <1>4
<1>6. N - (N - i) = i
  BY <1>1
<1>7. QED
  BY <1>5, <1>6 DEF Walk

LEMMA MultiLineCommentEnds ==
  ASSUME NEW s \in AnyText, NEW i \in 1 .. Len(s)
  PROVE  ReadMultiLineComment(s, i) \in Ends(s, i)
<1> DEFINE N == Len(s) + 2
           F == CHOOSE g : g = [j \in i .. Len(s) + 2 |-> CommentFrom(s, g, j)]
           T == { m \in 0 .. N - i : \E depth \in Int : F[N - m][depth] \notin Ends(s, N - m) }
<1>1. Len(s) \in Nat /\ N \in Nat /\ N - i \in Nat
  BY TextEnds
<1>2. F = [j \in i .. N |-> CommentFrom(s, F, j)]
  BY CommentWalkExists
<1>3. ReadMultiLineComment(s, i) = F[i][0]
  BY DEF ReadMultiLineComment, CommentFrom
<1> HIDE DEF F
<1>4. ASSUME NEW j \in i .. N, NEW depth \in Int,
             \A k \in j + 1 .. N : \A d \in Int : F[k][d] \in Ends(s, k)
      PROVE  F[j][depth] \in Ends(s, j)
  <2>1. F[j] = CommentFrom(s, F, j)
    BY <1>2
  <2>2. CASE j > Len(s)
    <3>1. At(s, j) = TheEnd
      BY <1>1, <2>2, TextEnds
    <3>2. F[j][depth] = None
      BY <2>1, <3>1 DEF CommentFrom, TheEnd, Bad
    <3>3. QED
      BY <3>2 DEF Ends
  <2>3. CASE j <= Len(s)
    <3>1. /\ j + 1 \in j + 1 .. N /\ j + 2 \in j + 1 .. N
          /\ Ends(s, j + 1) \subseteq Ends(s, j) /\ Ends(s, j + 2) \subseteq Ends(s, j)
      BY <1>1, <2>3 DEF Ends
    <3>2. At(s, j + 1) # TheEnd => j + 2 \in Ends(s, j)
      BY <1>1, <2>3, TextEnds DEF Ends
    <3>3. /\ F[j + 1][depth] \in Ends(s, j)
          /\ F[j + 2][depth - 1] \in Ends(s, j) /\ F[j + 2][depth + 1] \in Ends(s, j)
      BY <1>4, <3>1
    <3>4. \/ F[j][depth] \in {None, F[j + 1][depth], F[j + 2][depth - 1], F[j + 2][depth + 1]}
          \/ F[j][depth] = j + 2 /\ At(s, j + 1) = "/"
      BY <2>1 DEF CommentFrom, TheEnd, Bad
    <3>5. None \in Ends(s, j) /\ "/" # TheEnd
      BY DEF Ends, TheEnd
    <3>6. QED
      BY <3>2, <3>3, <3>4, <3>5
  <2>4. QED
    BY <1>1, <2>2, <2>3
<1>5. T = {}
  <2>1. SUFFICES ASSUME T # {} PROVE FALSE
    OBVIOUS
  <2>2. T \in SUBSET Nat
    BY <1>1
  <2>3. Min(T) \in T /\ \A n \in T : Min(T) <= n
    BY <2>1, <2>2, Smallest
  <2> DEFINE j == N - Min(T)
  <2>4. Min(T) \in 0 .. N - i /\ j \in i .. N /\ Min(T) = N - j
    <3>1. Min(T) \in 0 .. N - i
      BY <2>3
    <3> HIDE DEF T
    <3>2. QED
      BY <1>1, <3>1
  <2>5. ASSUME NEW k \in j + 1 .. N, NEW d \in Int
        PROVE  F[k][d] \in Ends(s, k)
    <3>1. N - k \in 0 .. N - i /\ N - k < Min(T) /\ N - (N - k) = k
      <4> HIDE DEF T
      <4>1. QED
        BY <1>1, <2>4
    <3>2. N - k \notin T
      <4> HIDE DEF T
      <4>1. QED
        BY <1>1, <2>3, <2>4, <3>1
    <3>3. QED
      BY <3>1, <3>2
  <2>6. QED
    BY <1>4, <2>3, <2>4, <2>5
<1>6. F[i][0] \in Ends(s, i)
  <2>1. N - i \in 0 .. N - i /\ N - (N - i) = i
    BY <1>1
  <2>2. \A m \in 0 .. N - i : \A depth \in Int : F[N - m][depth] \in Ends(s, N - m)
    BY <1>5
  <2>3. PICK m \in 0 .. N - i : N - m = i
    BY <2>1
  <2>4. F[N - m][0] \in Ends(s, N - m)
    BY <2>2
  <2> HIDE DEF N
  <2>5. QED
    BY <2>3, <2>4
<1>7. QED
  BY <1>3, <1>6

-----------------------------------------------------------------------------
(* Tokens: readNext fails, or gives a token that ends after where it       *)
(* starts and in the text, or is at the end of the text, really or for all *)
(* it can see.                                                             *)

ScannedIDs == TokenIDs \ {"EOF"}

Reads(s, i, l) == l = Failed \/ l \in [id : ScannedIDs, end : i + 1 .. Len(s) + 1]

CutShort(s, i) ==
  \/ i = Len(s) /\ s[i] \in Signs \cup {"/", "0"}
  \/ i < Len(s) /\ s[i] \in Signs \cup Digits /\ s[Len(s)] \in {"e", "E"}

LEMMA LexemeReads ==
  ASSUME NEW s \in AnyText, NEW i \in Nat, NEW id \in ScannedIDs, NEW end \in Ends(s, i)
  PROVE  Reads(s, i, Lexeme(id, end))
  BY DEF Ends, Reads, Lexeme, Failed, None

LEMMA TokenOrFailure ==
  ASSUME NEW s \in AnyText, NEW i \in Nat, NEW l, Reads(s, i, l)
  PROVE  /\ l.end = None <=> l = Failed
         /\ l.end # None => l \in [id : ScannedIDs, end : i + 1 .. Len(s) + 1]
         /\ l # AtEof
<1>1. Len(s) \in Nat
  BY TextEnds
<1>2. CASE l = Failed
  BY <1>2 DEF Failed, Lexeme, None, AtEof
<1>3. CASE l \in [id : ScannedIDs, end : i + 1 .. Len(s) + 1]
  BY <1>1, <1>3 DEF Failed, Lexeme, None, AtEof
<1>4. QED
  BY <1>2, <1>3 DEF Reads

LEMMA ReadsFromEarlier ==
  ASSUME NEW s \in AnyText, NEW i \in Nat, NEW j \in Nat, i <= j, NEW l, Reads(s, j, l)
  PROVE  Reads(s, i, l)
<1>1. Len(s) \in Nat
  BY TextEnds
<1>2. j + 1 .. Len(s) + 1 \subseteq i + 1 .. Len(s) + 1
  BY <1>1
<1>3. QED
  BY <1>2 DEF Reads

LEMMA IdentifierSets ==
  ASSUME NEW rf \in SUBSET RelaxedFlags
  PROVE  BareIdentifierChars[rf] \subseteq Char /\ TheEnd \notin BareIdentifierChars[rf]
  BY NotCharacters DEF BareIdentifierChars

LEMMA BareIdentifierReads ==
  ASSUME NEW s \in AnyText, NEW i \in 1 .. Len(s), NEW rf \in SUBSET RelaxedFlags
  PROVE  Reads(s, i, ReadBareIdentifier(s, i, rf))
<1> DEFINE end == ReadWhile(s, i, BareIdentifierChars[rf], 1)
<1>1. Len(s) \in Nat
  BY TextEnds
<1>2. end \in Ends(s, i)
  BY <1>1, IdentifierSets, ReadWhileEnds
<1>3. \A word : Keyword(word) \in ScannedIDs
  BY DEF Keyword, ScannedIDs, TokenIDs
<1> HIDE DEF end
<1>4. Reads(s, i, Lexeme(Keyword(SubSeq(s, i, end - 1)), end))
  BY <1>1, <1>2, <1>3, LexemeReads
<1>5. QED
  BY <1>4 DEF ReadBareIdentifier, Reads, end

LEMMA IdentifierReads ==
  ASSUME NEW s \in AnyText, NEW i \in 1 .. Len(s), NEW rf \in SUBSET RelaxedFlags
  PROVE  Reads(s, i, ReadIdentifier(s, i, rf))
<1>1. Len(s) \in Nat /\ "RawString" \in ScannedIDs /\ "QuotedString" \in ScannedIDs
  BY TextEnds DEF ScannedIDs, TokenIDs
<1>2. Reads(s, i, Lexeme("RawString", ReadRawString(s, i)))
  BY <1>1, RawStringEnds, LexemeReads
<1>3. \A q : Reads(s, i, Lexeme("QuotedString", ReadQuotedString(s, i, q)))
  BY <1>1, QuotedStringEnds, LexemeReads
<1>4. Reads(s, i, Failed) /\ Reads(s, i, ReadBareIdentifier(s, i, rf))
  BY BareIdentifierReads DEF Reads
<1>5. ReadIdentifier(s, i, rf) \in
        { Lexeme("RawString", ReadRawString(s, i)), Failed, ReadBareIdentifier(s, i, rf),
          Lexeme("QuotedString", ReadQuotedString(s, i, "\"")),
          Lexeme("QuotedString", ReadQuotedString(s, i, "'")) }
  BY DEF ReadIdentifier
<1>6. QED
  BY <1>2, <1>3, <1>4, <1>5

LEMMA IntegerReads ==
  ASSUME NEW s \in AnyText, NEW i \in 1 .. Len(s) + 1, NEW rf
  PROVE  Reads(s, i, ReadInteger(s, i, rf))
<1> DEFINE suffixes == "MultiplierSuffixes" \in rf
           signed   == suffixes /\ At(s, i) \in Signs
           letters  == IF suffixes /\ ~signed THEN SuffixChars ELSE {}
           first    == IF signed THEN i + 1 ELSE i
           end      == RunEnd(s, first, Digits \cup {"_"} \cup letters)
<1>1. Len(s) \in Nat
  BY TextEnds
<1>2. TheEnd \notin Digits \cup {"_"} \cup letters
  BY DEF TheEnd, Digits, SuffixChars
<1>3. first \in i .. Len(s) + 1
  <2>1. At(s, i) \in Signs => i <= Len(s)
    BY <1>1, TextEnds DEF Signs, TheEnd
  <2>2. QED
    BY <1>1, <2>1
<1> HIDE DEF letters, first
<1>4. end \in first .. Len(s) + 1
  <2>1. first \in 1 .. Len(s) + 1
    BY <1>1, <1>3
  <2>2. QED
    BY <1>2, <2>1, RunEnds
<1> HIDE DEF end
<1>5. end # i => end \in Ends(s, i)
  BY <1>1, <1>3, <1>4 DEF Ends
<1>6. end # i => Reads(s, i, Lexeme("SuffixedDecimal", end)) /\ Reads(s, i, Lexeme("Decimal", end))
  <2>1. "SuffixedDecimal" \in ScannedIDs /\ "Decimal" \in ScannedIDs
    BY DEF ScannedIDs, TokenIDs
  <2>2. QED
    BY <1>1, <1>5, <2>1, LexemeReads
<1>7. \/ ReadInteger(s, i, rf) = Failed
      \/ end # i /\ ReadInteger(s, i, rf) \in {Lexeme("SuffixedDecimal", end), Lexeme("Decimal", end)}
  BY DEF ReadInteger, end, first, letters
<1>8. QED
  BY <1>6, <1>7 DEF Reads

LEMMA SignedIntegerReads ==
  ASSUME NEW s \in AnyText, NEW i \in 1 .. Len(s) + 1, NEW rf
  PROVE  IF At(s, i) = TheEnd THEN ReadSignedInteger(s, i, rf) = AtEof
         ELSE Reads(s, i, ReadSignedInteger(s, i, rf))
<1>1. Len(s) \in Nat
  BY TextEnds
<1>2. Reads(s, i, Failed) /\ Reads(s, i, ReadInteger(s, i, rf))
  BY IntegerReads DEF Reads
<1>3. CASE At(s, i) = TheEnd
  BY <1>3 DEF ReadSignedInteger, TheEnd, Bad, Signs
<1>4. CASE At(s, i) # TheEnd
  <2>1. i + 1 \in 1 .. Len(s) + 1
    BY <1>1, <1>4, TextEnds
  <2>2. Reads(s, i, ReadInteger(s, i + 1, rf))
    BY <1>1, <2>1, IntegerReads, ReadsFromEarlier
  <2>3. ReadSignedInteger(s, i, rf) \in {Failed, ReadInteger(s, i + 1, rf), ReadInteger(s, i, rf)}
    BY <1>4 DEF ReadSignedInteger
  <2>4. QED
    BY <1>2, <1>4, <2>2, <2>3
<1>5. QED
  BY <1>3, <1>4

LEMMA FractionReads ==
  ASSUME NEW s \in AnyText, NEW i \in 1 .. Len(s), NEW l, Reads(s, i, l), NEW rf
  PROVE  Reads(s, i, ReadFraction(s, l, rf))
<1>1. CASE l.end # None /\ At(s, l.end) = "."
  <2>1. Len(s) \in Nat /\ l.end \in i + 1 .. Len(s) + 1
    BY <1>1, TextEnds, TokenOrFailure
  <2>2. l.end \in i + 1 .. Len(s)
    BY <1>1, <2>1, TextEnds DEF TheEnd
  <2>3. Reads(s, l.end + 1, ReadInteger(s, l.end + 1, rf))
    BY <2>1, <2>2, IntegerReads
  <2>4. Reads(s, i, ReadInteger(s, l.end + 1, rf))
    BY <2>1, <2>2, <2>3, ReadsFromEarlier
  <2>5. QED
    BY <1>1, <2>4 DEF ReadFraction
<1>2. CASE ~(l.end # None /\ At(s, l.end) = ".")
  BY <1>2 DEF ReadFraction
<1>3. QED
  BY <1>1, <1>2

\* Only an exponent may be mistaken for the end of the text.
LEMMA ExponentReads ==
  ASSUME NEW s \in AnyText, NEW i \in 1 .. Len(s), NEW l, Reads(s, i, l), NEW rf
  PROVE  \/ Reads(s, i, ReadExponent(s, l, rf))
         \/ ReadExponent(s, l, rf) = AtEof /\ i < Len(s) /\ s[Len(s)] \in {"e", "E"}
<1>1. CASE l.end # None /\ At(s, l.end) \in {"e", "E"}
  <2> DEFINE exponent == ReadSignedInteger(s, l.end + 1, rf)
  <2>1. /\ Len(s) \in Nat /\ l.end \in i + 1 .. Len(s) + 1
        /\ l \in [id : ScannedIDs, end : i + 1 .. Len(s) + 1]
    BY <1>1, TextEnds, TokenOrFailure
  <2>2. l.end \in i + 1 .. Len(s) /\ At(s, l.end) = s[l.end]
    BY <1>1, <2>1, TextEnds DEF TheEnd
  <2>3. ReadExponent(s, l, rf) =
          IF exponent.end = None THEN exponent ELSE [l EXCEPT !.end = exponent.end]
    BY <1>1 DEF ReadExponent
  <2>4. IF At(s, l.end + 1) = TheEnd THEN exponent = AtEof ELSE Reads(s, l.end + 1, exponent)
    BY <2>1, <2>2, SignedIntegerReads
  <2> HIDE DEF exponent
  <2>5. CASE At(s, l.end + 1) = TheEnd
    <3>1. l.end = Len(s)
      BY <2>1, <2>2, <2>5, TextEnds
    <3>2. exponent = AtEof /\ AtEof.end = None
      BY <2>4, <2>5 DEF AtEof
    <3>3. QED
      BY <1>1, <2>1, <2>2, <2>3, <3>1, <3>2
  <2>6. CASE At(s, l.end + 1) # TheEnd
    <3>1. Reads(s, i, exponent)
      BY <2>1, <2>2, <2>4, <2>6, ReadsFromEarlier
    <3>2. exponent.end # None => exponent.end \in i + 1 .. Len(s) + 1
      BY <2>1, <3>1, TokenOrFailure
    <3>3. exponent.end # None => Reads(s, i, [l EXCEPT !.end = exponent.end])
      BY <2>1, <3>2 DEF Reads
    <3>4. QED
      BY <2>3, <3>1, <3>3
  <2>7. QED
    BY <2>5, <2>6
<1>2. CASE ~(l.end # None /\ At(s, l.end) \in {"e", "E"})
  BY <1>2 DEF ReadExponent
<1>3. QED
  BY <1>1, <1>2

LEMMA DecimalReads ==
  ASSUME NEW s \in AnyText, NEW i \in 1 .. Len(s), s[i] \in Digits \cup Signs,
         NEW rf \in SUBSET RelaxedFlags
  PROVE  \/ Reads(s, i, ReadDecimal(s, i, rf))
         \/ ReadDecimal(s, i, rf) = AtEof /\ CutShort(s, i)
<1> DEFINE f == ReadFraction(s, ReadSignedInteger(s, i, rf), rf)
           l == ReadExponent(s, f, rf)
<1>1. Len(s) \in Nat /\ At(s, i) # TheEnd
  BY TextEnds
<1>2. Reads(s, i, f)
  BY <1>1, SignedIntegerReads, FractionReads
<1> HIDE DEF f
<1>3. Reads(s, i, l) \/ (l = AtEof /\ CutShort(s, i))
  BY <1>1, <1>2, ExponentReads DEF CutShort
<1>4. ReadDecimal(s, i, rf) \in
        {l, Failed, Lexeme("BareIdentifier", ReadWhile(s, l.end, BareIdentifierChars[rf], 1))}
  BY DEF ReadDecimal, l, f
<1>5. l.end = None => ReadDecimal(s, i, rf) = l
  BY DEF ReadDecimal, l, f
<1> HIDE DEF l
<1>6. ASSUME l.end # None
      PROVE  Reads(s, i, Lexeme("BareIdentifier", ReadWhile(s, l.end, BareIdentifierChars[rf], 1)))
  <2>1. l.end \in i + 1 .. Len(s) + 1
    BY <1>1, <1>3, <1>6, TokenOrFailure DEF AtEof
  <2>2. ReadWhile(s, l.end, BareIdentifierChars[rf], 1) \in Ends(s, l.end)
    BY <1>1, <2>1, IdentifierSets, ReadWhileEnds
  <2>3. "BareIdentifier" \in ScannedIDs
    BY DEF ScannedIDs, TokenIDs
  <2>4. QED
    BY <1>1, <2>1, <2>2, <2>3, LexemeReads, ReadsFromEarlier
<1>7. QED
  BY <1>3, <1>4, <1>5, <1>6 DEF Reads

LEMMA NumericBaseReads ==
  ASSUME NEW s \in AnyText, NEW i \in 1 .. Len(s), At(s, i + 1) \in {"x", "o", "b"}
  PROVE  Reads(s, i, ReadNumericBase(s, i))
<1> DEFINE base == s[i + 1]
           end  == RunEnd(s, i + 2, DigitsOf(base) \cup {"_"})
<1>1. Len(s) \in Nat /\ i + 1 \in 1 .. Len(s) /\ base \in {"x", "o", "b"}
  BY TextEnds DEF TheEnd
<1> HIDE DEF base
<1>2. TheEnd \notin DigitsOf(base) \cup {"_"}
  BY <1>1 DEF DigitsOf, Digits, TheEnd
<1>3. end \in i + 2 .. Len(s) + 1
  <2>1. i + 2 \in 1 .. Len(s) + 1
    BY <1>1
  <2>2. QED
    BY <1>2, <2>1, RunEnds
<1> HIDE DEF end
<1>4. end \in Ends(s, i) /\ BaseId(base) \in ScannedIDs
  BY <1>1, <1>3 DEF Ends, BaseId, ScannedIDs, TokenIDs
<1>5. Reads(s, i, Lexeme(BaseId(base), end))
  BY <1>1, <1>4, LexemeReads
<1>6. QED
  BY <1>5 DEF ReadNumericBase, Reads, base, end

ReadsOrIsCutShort(s, i, l) == Reads(s, i, l) \/ (l = AtEof /\ CutShort(s, i))

LEMMA SlashReads ==
  ASSUME NEW s \in AnyText, NEW i \in 1 .. Len(s), s[i] = "/", NEW rf \in SUBSET RelaxedFlags
  PROVE  ReadsOrIsCutShort(s, i, ReadSlash(s, i, rf))
<1>1. /\ Len(s) \in Nat
      /\ At(s, i + 1) = TheEnd => i = Len(s)
      /\ At(s, i + 1) # TheEnd => i + 2 \in Ends(s, i)
  BY TextEnds DEF Ends
<1>2. {"MultiLineComment", "SingleLineComment", "TokenComment"} \subseteq ScannedIDs
  BY DEF ScannedIDs, TokenIDs
<1>3. Reads(s, i, Lexeme("MultiLineComment", ReadMultiLineComment(s, i)))
  BY <1>1, <1>2, MultiLineCommentEnds, LexemeReads
<1>4. Reads(s, i, Lexeme("SingleLineComment", ReadSingleLineComment(s, i)))
  <2>1. s[i] \in Char \ Newlines
    BY DEF Char, Marks, Newlines
  <2>2. QED
    BY <1>1, <1>2, <2>1, SingleLineCommentEnds, LexemeReads
<1>5. At(s, i + 1) # TheEnd => Reads(s, i, Lexeme("TokenComment", i + 2))
  BY <1>1, <1>2, LexemeReads
<1>6. Reads(s, i, ReadIdentifier(s, i, rf)) /\ Reads(s, i, Failed)
  BY IdentifierReads DEF Reads
<1>7. \/ ReadSlash(s, i, rf) \in
           { Lexeme("MultiLineComment", ReadMultiLineComment(s, i)),
             Lexeme("SingleLineComment", ReadSingleLineComment(s, i)),
             ReadIdentifier(s, i, rf), Failed }
      \/ At(s, i + 1) # TheEnd /\ ReadSlash(s, i, rf) = Lexeme("TokenComment", i + 2)
      \/ At(s, i + 1) = TheEnd /\ ReadSlash(s, i, rf) = AtEof
  BY DEF ReadSlash, TheEnd
<1>8. At(s, i + 1) = TheEnd => CutShort(s, i)
  BY <1>1 DEF CutShort
<1>9. QED
  BY <1>3, <1>4, <1>5, <1>6, <1>7, <1>8 DEF ReadsOrIsCutShort

LEMMA AfterLookReads ==
  ASSUME NEW s \in AnyText, NEW i \in 1 .. Len(s), s[i] \in Signs \cup {"0"},
         NEW rf \in SUBSET RelaxedFlags
  PROVE  ReadsOrIsCutShort(s, i, ReadAfterLook(s, i, rf))
<1>1. Len(s) \in Nat /\ (At(s, i + 1) = TheEnd => i = Len(s))
  BY TextEnds
<1>2. At(s, i + 1) = TheEnd => CutShort(s, i)
  BY <1>1 DEF CutShort
<1>3. ReadsOrIsCutShort(s, i, ReadDecimal(s, i, rf))
  <2>1. s[i] \in Digits \cup Signs
    BY DEF Digits
  <2>2. QED
    BY <2>1, DecimalReads DEF ReadsOrIsCutShort
<1>4. Reads(s, i, ReadIdentifier(s, i, rf)) /\ Reads(s, i, Failed)
  BY IdentifierReads DEF Reads
<1>5. At(s, i + 1) \in {"x", "o", "b"} => Reads(s, i, ReadNumericBase(s, i))
  BY NumericBaseReads
<1>6. \/ ReadAfterLook(s, i, rf) \in {Failed, ReadIdentifier(s, i, rf), ReadDecimal(s, i, rf)}
      \/ At(s, i + 1) = TheEnd /\ ReadAfterLook(s, i, rf) = AtEof
      \/ At(s, i + 1) \in {"x", "o", "b"} /\ ReadAfterLook(s, i, rf) = ReadNumericBase(s, i)
  BY DEF ReadAfterLook
<1>7. QED
  BY <1>2, <1>3, <1>4, <1>5, <1>6 DEF ReadsOrIsCutShort

(***************************************************************************)
(* A round of the loop never stands still and never reads beyond the end;  *)
(* and what it takes for the end is the end, but for a lone character that *)
(* the scanner would look beyond and a number that ends in its e.          *)
(***************************************************************************)
LEMMA ReadNextReads ==
  ASSUME NEW s \in AnyText, NEW i \in 1 .. Len(s) + 1, NEW rf \in SUBSET RelaxedFlags
  PROVE  \/ i = Len(s) + 1 /\ ReadNext(s, i, rf) = AtEof
         \/ i \in 1 .. Len(s) /\ ReadsOrIsCutShort(s, i, ReadNext(s, i, rf))
<1>1. Len(s) \in Nat
  BY TextEnds
<1>2. CASE i = Len(s) + 1
  <2>1. At(s, i) = TheEnd
    BY <1>1, <1>2, TextEnds
  <2>2. QED
    BY <1>2, <2>1 DEF ReadNext, TheEnd, Bad, WhiteSpace, Newlines, Punctuation, Marked, Signs, Digits
<1>3. CASE i # Len(s) + 1
  <2> DEFINE c == At(s, i)
             newline == IF c = "\r" /\ At(s, i + 1) = "\n" THEN i + 2 ELSE i + 1
  <2>1. i \in 1 .. Len(s) /\ c # TheEnd /\ c = s[i]
    BY <1>1, <1>3, TextEnds
  <2>2. {"Whitespace", "Newline", "SingleLineComment"} \subseteq ScannedIDs
    BY DEF ScannedIDs, TokenIDs
  <2>3. c \in WhiteSpace => Reads(s, i, Lexeme("Whitespace", ReadWhitespace(s, i)))
    <3>1. TheEnd \notin WhiteSpace
      BY DEF TheEnd, WhiteSpace
    <3>2. c \in WhiteSpace => ReadWhitespace(s, i) \in Ends(s, i)
      BY <1>1, <2>1, <3>1, RunEnds DEF ReadWhitespace, Ends
    <3>3. QED
      BY <1>1, <2>2, <3>2, LexemeReads
  <2>4. Reads(s, i, Lexeme("Newline", newline))
    <3>1. At(s, i + 1) = "\n" => i + 1 <= Len(s)
      BY <1>1, <2>1, TextEnds DEF TheEnd
    <3>2. newline \in Ends(s, i)
      BY <1>1, <2>1, <3>1 DEF Ends
    <3>3. QED
      BY <1>1, <2>2, <3>2, LexemeReads
  <2>5. c = "/" => ReadsOrIsCutShort(s, i, ReadSlash(s, i, rf))
    BY <2>1, SlashReads
  <2>6. c \in Punctuation(rf) => Reads(s, i, Lexeme(Marked[c], i + 1))
    <3>1. c \in Punctuation(rf) => Marked[c] \in ScannedIDs
      BY DEF Punctuation, Marked, ScannedIDs, TokenIDs
    <3>2. i + 1 \in Ends(s, i)
      BY <1>1, <2>1 DEF Ends
    <3>3. QED
      BY <1>1, <3>1, <3>2, LexemeReads
  <2>7. c \in Signs \cup {"0"} => ReadsOrIsCutShort(s, i, ReadAfterLook(s, i, rf))
    BY <2>1, AfterLookReads
  <2>8. c \in Digits => ReadsOrIsCutShort(s, i, ReadDecimal(s, i, rf))
    BY <2>1, DecimalReads DEF ReadsOrIsCutShort
  <2>9. c = "#" => Reads(s, i, Lexeme("SingleLineComment", ReadSingleLineComment(s, i)))
    <3>1. "#" \in Char \ Newlines
      BY DEF Char, Marks, Newlines
    <3>2. c = "#" => ReadSingleLineComment(s, i) \in Ends(s, i)
      BY <2>1, <3>1, SingleLineCommentEnds
    <3>3. QED
      BY <1>1, <2>2, <3>2, LexemeReads
  <2>10. Reads(s, i, ReadColon(i))
    <3>1. i + 1 \in Ends(s, i)
      BY <1>1, <2>1 DEF Ends
    <3>2. QED
      BY <1>1, <2>2, <3>1, LexemeReads DEF ReadColon
  <2>11. Reads(s, i, ReadIdentifier(s, i, rf)) /\ Reads(s, i, Failed)
    BY <2>1, IdentifierReads DEF Reads
  <2>12. \/ ReadNext(s, i, rf) \in
               {Failed, Lexeme("Newline", newline), ReadColon(i), ReadIdentifier(s, i, rf)}
         \/ c \in WhiteSpace /\ ReadNext(s, i, rf) = Lexeme("Whitespace", ReadWhitespace(s, i))
         \/ c = "/" /\ ReadNext(s, i, rf) = ReadSlash(s, i, rf)
         \/ c \in Punctuation(rf) /\ ReadNext(s, i, rf) = Lexeme(Marked[c], i + 1)
         \/ c \in Signs \cup {"0"} /\ ReadNext(s, i, rf) = ReadAfterLook(s, i, rf)
         \/ c \in Digits /\ ReadNext(s, i, rf) = ReadDecimal(s, i, rf)
         \/ c = "#" /\ ReadNext(s, i, rf) = Lexeme("SingleLineComment", ReadSingleLineComment(s, i))
    BY <2>1 DEF ReadNext
  <2> HIDE DEF c, newline
  <2>13. ReadsOrIsCutShort(s, i, ReadNext(s, i, rf))
    BY <2>3, <2>4, <2>5, <2>6, <2>7, <2>8, <2>9, <2>10, <2>11, <2>12 DEF ReadsOrIsCutShort
  <2>14. QED
    BY <2>1, <2>13
<1>4. QED
  BY <1>2, <1>3

-----------------------------------------------------------------------------
(* MultiplierSuffixes: what is read without it is read with it, as the     *)
(* same token, in any syntax but nginx's.                                  *)

Suffixed(rf) == rf \cup {"MultiplierSuffixes"}

LEMMA NoSuffixAfter == TheEnd \notin SuffixChars /\ Bad \notin SuffixChars
                       /\ \A c \in Separators \cup {".", "e", "E"} : c \notin SuffixChars
  BY DEF TheEnd, Bad, SuffixChars, Separators, LineSpace, WhiteSpace, Newlines

\* Where no suffix follows an integer it ends there too if suffixes are read.
LEMMA IntegerIsKept ==
  ASSUME NEW s \in AnyText, NEW i \in 1 .. Len(s) + 1, NEW rf \in SUBSET RelaxedFlags,
         "MultiplierSuffixes" \notin rf, ReadInteger(s, i, rf) # Failed,
         At(s, ReadInteger(s, i, rf).end) \notin SuffixChars
  PROVE  ReadInteger(s, i, Suffixed(rf)) = ReadInteger(s, i, rf)
<1> DEFINE body == Digits \cup {"_"}
           end  == RunEnd(s, i, body)
           wide == RunEnd(s, i, body \cup SuffixChars)
<1>1. Len(s) \in Nat /\ TheEnd \notin body \cup SuffixChars
  BY TextEnds, NoSuffixAfter DEF TheEnd, Digits
<1>2. end # i /\ At(s, end) # Bad /\ At(s, i) # "_" /\ ReadInteger(s, i, rf) = Lexeme("Decimal", end)
  BY DEF ReadInteger, end, body
<1>3. end \in i .. Len(s) + 1 /\ At(s, end) \notin body /\ At(s, i) \in body
  BY <1>1, <1>2, RunEnds
<1>11. end = RunEnd(s, i, body)
  OBVIOUS
<1> HIDE DEF end, body
<1>5. \A j \in i .. end - 1 : At(s, j) \in body
  BY <1>3, <1>11, RunIs
<1>4. At(s, end) \notin SuffixChars
  <2>1. end # None
    BY <1>1, <1>3 DEF None
  <2>2. Lexeme("Decimal", end).end = end
    BY <2>1 DEF Lexeme
  <2>3. QED
    BY <1>2, <2>2
<1>6. wide = end
  <2>1. At(s, end) \notin body \cup SuffixChars
    BY <1>3, <1>4
  <2>2. \A j \in i .. end - 1 : At(s, j) \in body \cup SuffixChars
    BY <1>5
  <2>3. QED
    BY <1>3, <2>1, <2>2, RunIs
<1>7. Range(SubSeq(s, i, end - 1)) \cap SuffixChars = {}
  <2>1. i \in 1 .. Len(s) /\ end - 1 \in i .. Len(s)
    <3>1. end # i
      BY <1>2
    <3>2. QED
      BY <1>1, <1>3, <3>1
  <2> DEFINE u == SubSeq(s, i, end - 1)
             n == (end - 1) - i + 1
  <2>2. u \in AnyText /\ Len(u) = n /\ \A k \in 1 .. n : u[k] = s[i + k - 1]
    BY <2>1, PartOfText
  <2>4. DOMAIN u = 1 .. n
    BY <2>2, LenProperties DEF AnyText
  <2> HIDE DEF u
  <2>5. ASSUME NEW k \in DOMAIN u
        PROVE  u[k] \in body
    <3>1. i + k - 1 \in i .. end - 1 /\ i + k - 1 \in 1 .. Len(s) /\ i + k - 1 \in Nat
      BY <1>1, <2>1, <2>4
    <3>2. At(s, i + k - 1) = s[i + k - 1]
      BY <3>1, TextEnds
    <3>3. QED
      BY <1>5, <2>2, <2>4, <3>1, <3>2
  <2>6. body \cap SuffixChars = {}
    BY DEF body, Digits, SuffixChars
  <2>7. QED
    BY <2>5, <2>6 DEF Range, u
<1>8. At(s, i) \notin Signs
  BY <1>3 DEF body, Digits, Signs
<1> HIDE DEF wide
<1>9. ReadInteger(s, i, Suffixed(rf)) = Lexeme("Decimal", end)
  BY <1>2, <1>6, <1>7, <1>8 DEF ReadInteger, Suffixed, wide, body
<1>10. QED
  BY <1>2, <1>9

LEMMA SignedIntegerIsKept ==
  ASSUME NEW s \in AnyText, NEW i \in 1 .. Len(s) + 1, NEW rf \in SUBSET RelaxedFlags,
         "MultiplierSuffixes" \notin rf, ReadSignedInteger(s, i, rf) # Failed,
         At(s, ReadSignedInteger(s, i, rf).end) \notin SuffixChars
  PROVE  ReadSignedInteger(s, i, Suffixed(rf)) = ReadSignedInteger(s, i, rf)
<1>1. Len(s) \in Nat
  BY TextEnds
<1>2. CASE At(s, i) \in {TheEnd, Bad}
  <2>1. ASSUME NEW flags
        PROVE  ReadSignedInteger(s, i, flags) = IF At(s, i) = TheEnd THEN AtEof ELSE Failed
    BY <1>2 DEF ReadSignedInteger, TheEnd, Bad, Signs
  <2>2. QED
    BY <2>1
<1>3. CASE At(s, i) \notin {TheEnd, Bad}
  <2>1. i + 1 \in 1 .. Len(s) + 1
    BY <1>1, <1>3, TextEnds
  <2>2. CASE At(s, i) \in Signs
    BY <1>3, <2>1, <2>2, IntegerIsKept DEF ReadSignedInteger
  <2>3. CASE At(s, i) \notin Signs
    BY <1>3, <2>3, IntegerIsKept DEF ReadSignedInteger
  <2>4. QED
    BY <2>2, <2>3
<1>4. QED
  BY <1>2, <1>3

LEMMA SameCharacters ==
  ASSUME NEW rf \in SUBSET RelaxedFlags
  PROVE  /\ Suffixed(rf) \in SUBSET RelaxedFlags
         /\ BareIdentifierChars[Suffixed(rf)] = BareIdentifierChars[rf]
         /\ BareIdentifierStartChars[Suffixed(rf)] = BareIdentifierStartChars[rf]
         /\ Refused[Suffixed(rf)] = Refused[rf]
         /\ Punctuation(Suffixed(rf)) = Punctuation(rf)
         /\ "NGINXSyntax" \in Suffixed(rf) <=> "NGINXSyntax" \in rf
         /\ "YAMLTOMLAssignments" \in Suffixed(rf) <=> "YAMLTOMLAssignments" \in rf
<1>1. /\ Suffixed(rf) \in SUBSET RelaxedFlags
      /\ "NGINXSyntax" \in Suffixed(rf) <=> "NGINXSyntax" \in rf
      /\ "YAMLTOMLAssignments" \in Suffixed(rf) <=> "YAMLTOMLAssignments" \in rf
  BY DEF Suffixed, RelaxedFlags
<1>2. BareIdentifierChars[Suffixed(rf)] = BareIdentifierChars[rf]
  BY <1>1 DEF BareIdentifierChars
<1>3. BareIdentifierStartChars[Suffixed(rf)] = BareIdentifierStartChars[rf]
  BY <1>1, <1>2 DEF BareIdentifierStartChars
<1>4. Refused[Suffixed(rf)] = Refused[rf]
  BY <1>1 DEF Refused
<1>5. QED
  BY <1>1, <1>2, <1>3, <1>4 DEF Punctuation

LEMMA IdentifierIsKept ==
  ASSUME NEW s, NEW i, NEW rf \in SUBSET RelaxedFlags
  PROVE  ReadIdentifier(s, i, Suffixed(rf)) = ReadIdentifier(s, i, rf)
  BY SameCharacters DEF ReadIdentifier, ReadBareIdentifier

LEMMA DecimalIsKept ==
  ASSUME NEW s \in AnyText, NEW i \in 1 .. Len(s), s[i] \in Digits \cup Signs,
         NEW rf \in SUBSET RelaxedFlags, "NGINXSyntax" \notin rf,
         "MultiplierSuffixes" \notin rf, ReadDecimal(s, i, rf) # Failed
  PROVE  ReadDecimal(s, i, Suffixed(rf)) = ReadDecimal(s, i, rf)
<1> DEFINE a == ReadSignedInteger(s, i, rf)
           b == ReadFraction(s, a, rf)
           l == ReadExponent(s, b, rf)
           d == ReadDecimal(s, i, rf)
<1>1. Len(s) \in Nat /\ At(s, i) # TheEnd
  BY TextEnds
<1>2. d = IF l.end = None \/ At(s, l.end) \in Separators \cup {TheEnd, Bad} THEN l ELSE Failed
  BY DEF ReadDecimal
<1>3. Reads(s, i, a) /\ Reads(s, i, b)
  <2>1. Reads(s, i, a)
    BY <1>1, SignedIntegerReads
  <2>2. QED
    BY <2>1, FractionReads
<1>4. d = l /\ l # Failed /\ (l.end # None => At(s, l.end) \notin SuffixChars)
  BY <1>2, NoSuffixAfter
<1>5. b # Failed /\ b.end # None /\ b.end \in i + 1 .. Len(s) + 1
  <2>1. b.end = None => l = b
    BY DEF ReadExponent
  <2>2. QED
    BY <1>1, <1>3, <1>4, <2>1, TokenOrFailure
<1>6. At(s, b.end) \notin SuffixChars
  <2>1. CASE At(s, b.end) \in {"e", "E"}
    BY <2>1, NoSuffixAfter
  <2>2. CASE At(s, b.end) \notin {"e", "E"}
    <3>1. l = b
      BY <2>2 DEF ReadExponent
    <3>2. QED
      BY <1>4, <1>5, <3>1
  <2>3. QED
    BY <2>1, <2>2
<1>7. a # Failed /\ a.end # None /\ a.end \in i + 1 .. Len(s) + 1
  <2>1. a.end = None => b = a
    BY DEF ReadFraction
  <2>2. QED
    BY <1>1, <1>3, <1>5, <2>1, TokenOrFailure
<1>8. At(s, a.end) \notin SuffixChars
  <2>1. CASE At(s, a.end) = "."
    BY <2>1, NoSuffixAfter
  <2>2. CASE At(s, a.end) # "."
    <3>1. b = a
      BY <2>2 DEF ReadFraction
    <3>2. QED
      BY <1>6, <3>1
  <2>3. QED
    BY <2>1, <2>2
<1>9. ReadSignedInteger(s, i, Suffixed(rf)) = a
  BY <1>1, <1>7, <1>8, SignedIntegerIsKept
<1> HIDE DEF a
<1>10. ReadFraction(s, a, Suffixed(rf)) = b
  <2>1. CASE At(s, a.end) = "."
    <3>1. a.end + 1 \in 1 .. Len(s) + 1
      BY <1>1, <1>7, <2>1, TextEnds DEF TheEnd
    <3>2. b = ReadInteger(s, a.end + 1, rf)
      BY <1>7, <2>1 DEF ReadFraction
    <3>3. ReadInteger(s, a.end + 1, Suffixed(rf)) = b
      BY <1>5, <1>6, <3>1, <3>2, IntegerIsKept
    <3>4. QED
      BY <1>7, <2>1, <3>3 DEF ReadFraction
  <2>2. CASE At(s, a.end) # "."
    BY <2>2 DEF ReadFraction
  <2>3. QED
    BY <2>1, <2>2
<1> HIDE DEF b
<1>11. ReadExponent(s, b, Suffixed(rf)) = l
  <2>1. CASE At(s, b.end) \in {"e", "E"}
    <3> DEFINE x == ReadSignedInteger(s, b.end + 1, rf)
    <3>1. b.end + 1 \in 1 .. Len(s) + 1
      BY <1>1, <1>5, <2>1, TextEnds DEF TheEnd
    <3>2. l = IF x.end = None THEN x ELSE [b EXCEPT !.end = x.end]
      BY <1>5, <2>1 DEF ReadExponent
    <3>3. x # Failed /\ At(s, x.end) \notin SuffixChars
      <4>1. CASE x.end = None
        <5>1. At(s, None) = TheEnd
          BY <1>1, TextEnds DEF None
        <5>2. QED
          BY <1>4, <3>2, <4>1, <5>1, NoSuffixAfter
      <4>2. CASE x.end # None
        <5>1. l.end = x.end
          BY <1>3, <1>5, <3>2, <4>2, TokenOrFailure
        <5>2. x # Failed
          BY <4>2 DEF Failed, Lexeme
        <5>3. QED
          BY <1>4, <4>2, <5>1, <5>2
      <4>3. QED
        BY <4>1, <4>2
    <3>4. ReadSignedInteger(s, b.end + 1, Suffixed(rf)) = x
      BY <3>1, <3>3, SignedIntegerIsKept
    <3>5. QED
      BY <1>5, <2>1, <3>2, <3>4 DEF ReadExponent
  <2>2. CASE At(s, b.end) \notin {"e", "E"}
    BY <2>2 DEF ReadExponent
  <2>3. QED
    BY <2>1, <2>2
<1>12. ReadDecimal(s, i, Suffixed(rf)) =
         IF l.end = None \/ At(s, l.end) \in Separators \cup {TheEnd, Bad} THEN l ELSE Failed
  BY <1>9, <1>10, <1>11, SameCharacters DEF ReadDecimal
<1>13. QED
  BY <1>2, <1>12

LEMMA TokenIsKept ==
  ASSUME NEW s \in AnyText, NEW i \in 1 .. Len(s) + 1, NEW rf \in SUBSET RelaxedFlags,
         "NGINXSyntax" \notin rf, ReadNext(s, i, rf) # Failed
  PROVE  ReadNext(s, i, Suffixed(rf)) = ReadNext(s, i, rf)
<1>1. CASE "MultiplierSuffixes" \in rf
  <2>1. Suffixed(rf) = rf
    BY <1>1 DEF Suffixed
  <2>2. QED
    BY <2>1
<1>2. CASE "MultiplierSuffixes" \notin rf
  <2> DEFINE c == At(s, i)
  <2>1. /\ Punctuation(Suffixed(rf)) = Punctuation(rf)
        /\ "NGINXSyntax" \notin Suffixed(rf)
        /\ "YAMLTOMLAssignments" \in Suffixed(rf) <=> "YAMLTOMLAssignments" \in rf
        /\ ReadIdentifier(s, i, Suffixed(rf)) = ReadIdentifier(s, i, rf)
    BY SameCharacters, IdentifierIsKept
  <2>2. c # TheEnd => i \in 1 .. Len(s) /\ c = s[i]
    BY TextEnds
  <2>3. ASSUME c \in Signs \cup {"0"}, ReadAfterLook(s, i, rf) # Failed
        PROVE  ReadAfterLook(s, i, Suffixed(rf)) = ReadAfterLook(s, i, rf)
    <3>1. i \in 1 .. Len(s) /\ s[i] \in Digits \cup Signs
      BY <2>2, <2>3 DEF TheEnd, Digits, Signs
    <3>2. ReadDecimal(s, i, rf) # Failed =>
            ReadDecimal(s, i, Suffixed(rf)) = ReadDecimal(s, i, rf)
      BY <1>2, <3>1, DecimalIsKept
    <3>3. QED
      BY <2>1, <2>3, <3>2 DEF ReadAfterLook
  <2>4. ASSUME c \in Digits, ReadDecimal(s, i, rf) # Failed
        PROVE  ReadDecimal(s, i, Suffixed(rf)) = ReadDecimal(s, i, rf)
    <3>1. i \in 1 .. Len(s) /\ s[i] \in Digits \cup Signs
      BY <2>2, <2>4 DEF TheEnd, Digits
    <3>2. QED
      BY <1>2, <2>4, <3>1, DecimalIsKept
  <2>5. ReadSlash(s, i, Suffixed(rf)) = ReadSlash(s, i, rf)
    BY <2>1 DEF ReadSlash
  <2> HIDE DEF c
  <2>6. QED
    BY <2>1, <2>3, <2>4, <2>5 DEF ReadNext, c
<1>3. QED
  BY <1>1, <1>2

-----------------------------------------------------------------------------
(* Lines: after the end of a line or a { the parser is between nodes, and  *)
(* blanks and comments leave it there.                                     *)

LEMMA LeavingNode ==
  ASSUME TypeOK, StackShape, state \in NodeStates, PopNodeAndState
  PROVE  AtBlockLevel'
<1>1. states \in Seq(ParserStates) /\ states # << >> /\ node \in Seq(DOMAIN nodes)
  BY DEF TypeOK, PopNodeAndState, PopState
<1>2. Len(states) \in Nat \ {0} /\ Len(node) \in Nat /\ DOMAIN states = 1 .. Len(states)
  BY <1>1, LenProperties, EmptySeq
<1>3. Len(states) = 2 * Len(node) - 1
  BY DEF StackShape, CurrentStateFitsStacks
<1>4. Len(states) % 2 = 1
  BY <1>2, <1>3
<1>5. states[Len(states)] \in {"Document", "Children"}
  BY <1>2, <1>4 DEF StackShape, BlockStatesAlternate
<1>6. QED
  BY <1>5 DEF PopNodeAndState, PopState, Last, AtBlockLevel

LEMMA NewlineKeys ==
  ASSUME NEW t, t.id \in {"Newline", "Semicolon", "BraceOpen", "EOF"}
  PROVE  Handler(state, t) \in
           {t.id, "ClassTerminator", "ClassWhitespace", "ClassEndOfLine", "none"}
<1>1. CASE t.id = "Newline"
  <2>1. Classes(t.id) = <<"ClassTerminator", "ClassWhitespace", "ClassEndOfLine">>
    BY <1>1 DEF Classes
  <2>2. QED
    BY <2>1, HandlerKey
<1>2. CASE t.id = "Semicolon"
  <2>1. Classes(t.id) = <<"ClassTerminator">>
    BY <1>2 DEF Classes
  <2>2. QED
    BY <2>1, HandlerKey
<1>3. CASE t.id = "BraceOpen"
  <2>1. Classes(t.id) = << >>
    BY <1>3 DEF Classes
  <2>2. QED
    BY <2>1, HandlerKey
<1>4. CASE t.id = "EOF"
  <2>1. Classes(t.id) = <<"ClassTerminator", "ClassEndOfLine">>
    BY <1>4 DEF Classes
  <2>2. QED
    BY <2>1, HandlerKey
<1>5. QED
  BY <1>1, <1>2, <1>3, <1>4

LineEnds == {"Newline", "Semicolon", "BraceOpen"}

LEMMA LineEndStep ==
  ASSUME TypeOK, StackShape, NEW t, t.id \in LineEnds, ~Continuing(t), Handle(t)
  PROVE  AtBlockLevel'
<1>1. Handler(state, t) \in {t.id, "ClassTerminator", "ClassWhitespace", "ClassEndOfLine", "none"}
  BY NewlineKeys DEF LineEnds
<1>2. \/ AtBlockLevel /\ state' = state
      \/ state \in NodeStates /\ PopNodeAndState
      \/ state' = "Children"
  BY <1>1 DEF LineEnds, Handle,
     BlockWhitespace, DocumentTerminator, ChildrenNewline, BlockComment,
     BlockTokenComment, DocumentIdentifier, ChildrenIdentifier, ChildrenBraceClose,
     ParensOpen, TypeAnnotName, TypeDoneParensClose, NodeWhitespace, NodeTerminator,
     NodeEquals, NodeParamsBlank, NodeParamsEquals, NodeParamsTokenComment,
     NodeParamsSingleLineComment, NodeParamsContinuation, NodeParamsHold,
     NodeParamsSuffixedDecimal, NodeParamsBraceOpen, NodeParamsTerminator,
     NodeEndWhitespace, NodeEndEndOfLine, PropertyEquals, ArgPropEquals,
     ArgPropTokenComment, ArgPropWhitespace, ArgPropValue, ArgPropBraceOpen,
     ArgPropTerminator, PropertyValueValue,
     AtBlockLevel, On, Nop, stack, NodeStates, OpenBlock, PushState
<1>3. QED
  BY <1>2, LeavingNode DEF AtBlockLevel

LEMMA LineFillStep ==
  ASSUME NEW t, t.id \in LineFill, AtBlockLevel, Handle(t)
  PROVE  AtBlockLevel'
<1>1. Handler(state, t) \in LineFill \cup
        {"ClassTerminator", "ClassWhitespace", "ClassEndOfLine", "ClassComment", "none"}
  BY LineFillKeys
<1>2. state' = state
  BY <1>1 DEF LineFill, Handle,
     BlockWhitespace, DocumentTerminator, ChildrenNewline, BlockComment,
     BlockTokenComment, DocumentIdentifier, ChildrenIdentifier, ChildrenBraceClose,
     ParensOpen, TypeAnnotName, TypeDoneParensClose, NodeWhitespace, NodeTerminator,
     NodeEquals, NodeParamsBlank, NodeParamsEquals, NodeParamsTokenComment,
     NodeParamsSingleLineComment, NodeParamsContinuation, NodeParamsHold,
     NodeParamsSuffixedDecimal, NodeParamsBraceOpen, NodeParamsTerminator,
     NodeEndWhitespace, NodeEndEndOfLine, PropertyEquals, ArgPropEquals,
     ArgPropTokenComment, ArgPropWhitespace, ArgPropValue, ArgPropBraceOpen,
     ArgPropTerminator, PropertyValueValue,
     AtBlockLevel, On, Nop, stack
<1>3. QED
  BY <1>2 DEF AtBlockLevel

\* The end of a text is accepted between nodes only if no block is open.
LEMMA EndStep ==
  ASSUME TypeOK, StackShape, NEW t, t.id = "EOF", Handle(t), AtBlockLevel
  PROVE  suppressed' = << >>
<1>1. Handler(state, t) \in {t.id, "ClassTerminator", "ClassWhitespace", "ClassEndOfLine", "none"}
  BY NewlineKeys
<1>2. state = "Document" /\ suppressed' = suppressed
  BY <1>1 DEF Handle,
     BlockWhitespace, DocumentTerminator, ChildrenNewline, BlockComment,
     BlockTokenComment, DocumentIdentifier, ChildrenIdentifier, ChildrenBraceClose,
     ParensOpen, TypeAnnotName, TypeDoneParensClose, NodeWhitespace, NodeTerminator,
     NodeEquals, NodeParamsBlank, NodeParamsEquals, NodeParamsTokenComment,
     NodeParamsSingleLineComment, NodeParamsContinuation, NodeParamsHold,
     NodeParamsSuffixedDecimal, NodeParamsBraceOpen, NodeParamsTerminator,
     NodeEndWhitespace, NodeEndEndOfLine, PropertyEquals, ArgPropEquals,
     ArgPropTokenComment, ArgPropWhitespace, ArgPropValue, ArgPropBraceOpen,
     ArgPropTerminator, PropertyValueValue,
     AtBlockLevel, On, Nop, stack
<1>3. suppressed \in Seq(BOOLEAN) /\ Len(suppressed) = Len(node) /\ node = << >>
  BY <1>2 DEF TypeOK, StackShape, CurrentStateFitsStacks, OpenBracesMatch, AtBlockLevel
<1>4. QED
  BY <1>2, <1>3, EmptySeq

-----------------------------------------------------------------------------
(* The inductive invariant *)

Leaf == [id : TokenIDs, data : AnyText]

BetweenNodesAfterLines == latest \in LineEnds /\ result = "reading" => AtBlockLevel

ReaderTyped ==
  /\ text \in AnyText /\ at \in 1 .. Len(text) + 1
  /\ scan \in {"unopened", "nil", "eof", "failed"}
  /\ latest \in TokenIDs \cup {Unknown}
  /\ leaves \in Seq(Leaf)
  /\ \A i \in DOMAIN leaves : leaves[i].data # << >> /\ HoldsValue(leaves[i].id)

ParserInv ==
  IInv /\ ContinuationStaysInNode /\ HeldTokenHasAnOwner /\ SuppressedBlocksCounted

ReaderInv ==
  ParserInv /\ ReaderTyped /\ BetweenNodesAfterLines /\ NothingUnread /\ TruncationIsRefused

LEMMA InitReaderInv == ReaderInit => ReaderInv
<1> SUFFICES ASSUME ReaderInit PROVE ReaderInv
  OBVIOUS
<1>1. ParserInv
  <2>1. IInv
    BY InitIInv DEF ReaderInit
  <2>2. ContinuationStaysInNode
    BY DEF ReaderInit, Init, ContinuationStaysInNode
  <2>3. HeldTokenHasAnOwner
    BY NoTokenType DEF ReaderInit, Init, HeldTokenHasAnOwner, Queued, Annotating
  <2>4. SuppressedBlocksCounted
    BY DEF ReaderInit, Init, SuppressedBlocksCounted
  <2>5. QED
    BY <2>1, <2>2, <2>3, <2>4 DEF ParserInv
<1>2. ReaderTyped
  <2>1. text \in AnyText
    BY TextsAssumption DEF ReaderInit, AnyText
  <2>2. Len(text) \in Nat
    BY <2>1, TextEnds
  <2>3. QED
    BY <2>1, <2>2 DEF ReaderInit, ReaderTyped
<1>3. result = "reading" /\ latest = Unknown
  BY DEF ReaderInit, Init
<1>4. BetweenNodesAfterLines /\ NothingUnread /\ TruncationIsRefused
  BY <1>3 DEF BetweenNodesAfterLines, NothingUnread, TruncationIsRefused, Returned, LineEnds, Unknown
<1>5. QED
  BY <1>1, <1>2, <1>4 DEF ReaderInv

LEMMA ParserInvStep ==
  ASSUME ParserInv, NEW t \in ValidToken, Parse(t)
  PROVE  ParserInv'
  BY StepIInv, ContinuationStep, OwnerStep, CountStep DEF ParserInv

LEMMA FlagsAreFlags == Relaxed \in SUBSET RelaxedFlags
  BY DEF Relaxed

\* What the next round finds
LEMMA NextRound ==
  ASSUME ReaderTyped, NEW l, l = ReadNext(text, at, Relaxed)
  PROVE  /\ l \notin {Failed, AtEof} =>
              l \in [id : ScannedIDs, end : at + 1 .. Len(text) + 1] /\ at \in 1 .. Len(text)
         /\ l = AtEof => at = Len(text) + 1 \/ (at \in 1 .. Len(text) /\ CutShort(text, at))
<1>1. text \in AnyText /\ at \in 1 .. Len(text) + 1 /\ Len(text) \in Nat
  BY TextEnds DEF ReaderTyped
<1>2. \/ at = Len(text) + 1 /\ l = AtEof
      \/ at \in 1 .. Len(text) /\ ReadsOrIsCutShort(text, at, l)
  BY <1>1, FlagsAreFlags, ReadNextReads
<1>3. AtEof # Failed
  BY DEF AtEof, Failed, Lexeme, None
<1>4. ASSUME at \in 1 .. Len(text), Reads(text, at, l)
      PROVE  l # AtEof
  BY <1>1, <1>4, TokenOrFailure
<1>5. QED
  BY <1>2, <1>3, <1>4 DEF ReadsOrIsCutShort, Reads

LEMMA UnreadText ==
  ASSUME text \in AnyText, at \in 1 .. Len(text) + 1,
         at = Len(text) + 1 \/ (at \in 1 .. Len(text) /\ CutShort(text, at))
  PROVE  \/ Unread = << >>
         \/ Len(Unread) = 1 /\ Unread[1] \in Signs \cup {"/", "0"}
         \/ Last(Unread) \in {"e", "E"} /\ Unread[1] \in Signs \cup Digits
<1>1. Len(text) \in Nat
  BY TextEnds
<1>2. CASE at = Len(text) + 1
  BY <1>1, <1>2, SubSeqEmpty DEF Unread
<1>3. CASE at \in 1 .. Len(text) /\ CutShort(text, at)
  <2>1. /\ Len(Unread) = Len(text) - at + 1
        /\ Unread[1] = text[at] /\ Unread[Len(text) - at + 1] = text[Len(text)]
    BY <1>1, <1>3, PartOfText DEF Unread
  <2>2. QED
    BY <1>1, <1>3, <2>1 DEF CutShort, Last
<1>4. QED
  BY <1>2, <1>3

LEMMA FormType ==
  ASSUME NEW id \in ScannedIDs, NEW data
  PROVE  [id |-> id, form |-> FormOf(id, data)] \in ValidToken
  BY DEF FormOf, ValidToken, Valid, Token, Forms, ScannedIDs, TokenIDs, Unknown

\* Only the end of the text ends the document.
LEMMA TokenDoesNotReturn ==
  ASSUME ParserInv, ReaderTyped, NEW l, l = ReadNext(text, at, Relaxed), ReadToken(l)
  PROVE  ~Returned'
<1> DEFINE t == [id |-> l.id, form |-> FormOf(l.id, Text(text, at, l))]
<1>1. l.id \in ScannedIDs
  BY NextRound DEF ReadToken
<1>2. Parse(t) /\ t.id # "EOF" /\ TypeOK /\ StackShape
  BY <1>1 DEF ReadToken, ScannedIDs, ParserInv, IInv
<1> HIDE DEF t
<1>3. result' # "done"
  BY <1>2, FailureIsOfTheInput DEF Parse, Accept, Reject
<1>4. QED
  BY <1>3 DEF Returned

LEMMA ReadTokenStep ==
  ASSUME ReaderInv, result = "reading",
         NEW l, l = ReadNext(text, at, Relaxed), ReadToken(l)
  PROVE  ReaderInv'
<1> DEFINE data == Text(text, at, l)
           t == [id |-> l.id, form |-> FormOf(l.id, data)]
<1>1. ParserInv /\ ReaderTyped /\ BetweenNodesAfterLines /\ TypeOK /\ StackShape
  BY DEF ReaderInv, ParserInv, IInv
<1>2. /\ l.id \in ScannedIDs /\ l.end \in at + 1 .. Len(text) + 1 /\ at \in 1 .. Len(text)
      /\ text \in AnyText /\ Len(text) \in Nat
  <2>1. l \in [id : ScannedIDs, end : at + 1 .. Len(text) + 1] /\ at \in 1 .. Len(text)
    BY <1>1, NextRound DEF ReadToken
  <2>2. QED
    BY <1>1, <2>1, TextEnds DEF ReaderTyped
<1>3. /\ Parse(t) /\ t \in ValidToken /\ t.id = l.id
      /\ at' = l.end /\ text' = text /\ scan' = scan
      /\ latest' = IF Fills(l.id) THEN latest ELSE l.id
  BY <1>2, FormType DEF ReadToken
<1>11. leaves' = leaves \o ValueOf(text, at, l)
  BY DEF ReadToken
<1>4. data \in AnyText /\ data # << >>
  <2>1. l.end - 1 \in at .. Len(text)
    BY <1>2
  <2>2. QED
    BY <1>2, <2>1, PartOfText DEF Text
<1> HIDE DEF data, t
<1>5. ParserInv'
  BY <1>1, <1>3, ParserInvStep
<1>6. ReaderTyped'
  <2>1. leaves' \in Seq(Leaf) /\ \A i \in DOMAIN leaves' : leaves'[i].data # << >> /\ HoldsValue(leaves'[i].id)
    <3>1. CASE HoldsValue(l.id)
      <4> DEFINE e == [id |-> l.id, data |-> data]
      <4>1. e \in Leaf /\ e.data # << >> /\ HoldsValue(e.id)
        BY <1>2, <1>4, <3>1 DEF Leaf, ScannedIDs
      <4>2. leaves' = leaves \o <<e>> /\ leaves \in Seq(Leaf)
        BY <1>1, <1>11, <3>1 DEF ReaderTyped, ValueOf, data
      <4> HIDE DEF e
      <4>3. <<e>> \in Seq(Leaf) /\ Len(<<e>>) = 1 /\ <<e>>[1] = e
        BY <4>1
      <4>4. /\ leaves' \in Seq(Leaf) /\ Len(leaves') = Len(leaves) + 1 /\ Len(leaves) \in Nat
            /\ \A i \in 1 .. Len(leaves') :
                 leaves'[i] = IF i <= Len(leaves) THEN leaves[i] ELSE <<e>>[i - Len(leaves)]
            /\ DOMAIN leaves' = 1 .. Len(leaves') /\ DOMAIN leaves = 1 .. Len(leaves)
        BY <4>2, <4>3, ConcatProperties, LenProperties
      <4>5. ASSUME NEW i \in DOMAIN leaves'
            PROVE  leaves'[i].data # << >> /\ HoldsValue(leaves'[i].id)
        <5>1. CASE i <= Len(leaves)
          BY <1>1, <4>4, <5>1 DEF ReaderTyped
        <5>2. CASE ~(i <= Len(leaves))
          <6>1. i - Len(leaves) = 1
            BY <4>4, <5>2
          <6>2. leaves'[i] = e
            BY <4>3, <4>4, <5>2, <6>1
          <6>3. QED
            BY <4>1, <6>2
        <5>3. QED
          BY <5>1, <5>2
      <4>6. QED
        BY <4>4, <4>5
    <3>2. CASE ~HoldsValue(l.id)
      <4>1. leaves' = leaves \o << >> /\ leaves \in Seq(Leaf)
        BY <1>1, <1>11, <3>2 DEF ReaderTyped, ValueOf
      <4>2. leaves' = leaves
        BY <4>1, ConcatEmptySeq
      <4>3. QED
        BY <1>1, <4>2 DEF ReaderTyped
    <3>3. QED
      BY <3>1, <3>2
  <2>2. latest' \in TokenIDs \cup {Unknown}
    BY <1>1, <1>2, <1>3 DEF ReaderTyped, ScannedIDs
  <2>3. QED
    BY <1>1, <1>2, <1>3, <2>1, <2>2 DEF ReaderTyped
<1>7. result' # "done"
  BY <1>1, TokenDoesNotReturn DEF Returned
<1>8. BetweenNodesAfterLines'
  <2> SUFFICES ASSUME latest' \in LineEnds, result' = "reading"
               PROVE  AtBlockLevel'
    BY DEF BetweenNodesAfterLines
  <2>1. Handle(t)
    BY <1>1, <1>3, FailureIsOfTheInput DEF Parse, Accept, Reject
  <2>2. CASE Fills(l.id)
    <3>1. latest \in LineEnds /\ t.id \in LineFill
      BY <1>3, <2>2 DEF Fills
    <3>2. AtBlockLevel
      BY <1>1, <3>1 DEF BetweenNodesAfterLines
    <3>3. QED
      BY <2>1, <3>1, <3>2, LineFillStep
  <2>3. CASE ~Fills(l.id)
    <3>1. t.id \in LineEnds /\ ~Continuing(t)
      BY <1>3, <2>3 DEF Fills, LineEnds, Continuing, LineFill
    <3>2. QED
      BY <1>1, <2>1, <3>1, LineEndStep
  <2>4. QED
    BY <2>2, <2>3
<1>9. NothingUnread' /\ TruncationIsRefused'
  BY <1>7 DEF NothingUnread, TruncationIsRefused, Returned
<1>10. QED
  BY <1>5, <1>6, <1>8, <1>9 DEF ReaderInv

LEMMA ReadEndStep ==
  ASSUME ReaderInv, result = "reading",
         NEW l, l = ReadNext(text, at, Relaxed), ReadEnd(l)
  PROVE  ReaderInv'
<1> DEFINE t == Tok("EOF")
<1>1. ParserInv /\ ReaderTyped /\ BetweenNodesAfterLines /\ TypeOK /\ StackShape
  BY DEF ReaderInv, ParserInv, IInv
<1>2. t \in ValidToken /\ t.id = "EOF" /\ Parse(t)
  BY DEF ReadEnd, Tok, ValidToken, Valid, Token, Forms, TokenIDs, Unknown
<1>3. l = AtEof /\ text' = text /\ at' = at /\ scan' = "eof" /\ leaves' = leaves /\ latest' = latest
  BY DEF ReadEnd
<1> HIDE DEF t
<1>4. ParserInv'
  BY <1>1, <1>2, ParserInvStep
<1>5. ReaderTyped'
  BY <1>1, <1>3 DEF ReaderTyped
<1>6. result' # "reading"
  BY <1>1, <1>2, FailureIsOfTheInput DEF Parse, Accept, Reject
<1>7. NothingUnread'
  <2>1. \/ Unread = << >>
        \/ Len(Unread) = 1 /\ Unread[1] \in Signs \cup {"/", "0"}
        \/ Last(Unread) \in {"e", "E"} /\ Unread[1] \in Signs \cup Digits
    BY <1>1, <1>3, NextRound, UnreadText DEF ReaderTyped
  <2>2. Unread' = Unread
    BY <1>3 DEF Unread
  <2>3. QED
    BY <2>1, <2>2 DEF NothingUnread
<1>8. TruncationIsRefused'
  <2> SUFFICES ASSUME result' = "done", suppressed' # << >>, latest' \in LineEnds
               PROVE  FALSE
    BY DEF TruncationIsRefused, Returned, LineEnds
  <2>1. Handle(t)
    BY <1>1, <1>2, FailureIsOfTheInput DEF Parse, Accept, Reject
  <2>2. AtBlockLevel
    BY <1>1, <1>3 DEF BetweenNodesAfterLines
  <2>3. QED
    BY <1>1, <1>2, <2>1, <2>2, EndStep
<1>9. QED
  BY <1>4, <1>5, <1>6, <1>7, <1>8 DEF ReaderInv, BetweenNodesAfterLines

LEMMA StutterParserInv ==
  ASSUME ParserInv, UNCHANGED vars
  PROVE  ParserInv'
<1>1. IInv'
  BY StutterIInv DEF ParserInv
<1>2. ContinuationStaysInNode' /\ HeldTokenHasAnOwner' /\ SuppressedBlocksCounted'
  BY DEF ParserInv, ContinuationStaysInNode, HeldTokenHasAnOwner, SuppressedBlocksCounted,
         Annotating, Queued, vars, stack, held, ignore
<1>3. QED
  BY <1>1, <1>2 DEF ParserInv

LEMMA ScanFailsStep ==
  ASSUME ReaderInv, result = "reading", NEW l, ScanFails(l)
  PROVE  ReaderInv'
<1>1. UNCHANGED <<vars, text, at, leaves, latest>> /\ scan' = "failed"
  BY DEF ScanFails
<1>2. ParserInv'
  BY <1>1, StutterParserInv DEF ReaderInv
<1>3. ReaderTyped'
  BY <1>1 DEF ReaderInv, ReaderTyped
<1>4. result' = "reading" /\ BetweenNodesAfterLines'
  BY <1>1 DEF ReaderInv, BetweenNodesAfterLines, AtBlockLevel, vars, stack, held
<1>5. QED
  BY <1>2, <1>3, <1>4 DEF ReaderInv, NothingUnread, TruncationIsRefused, Returned

LEMMA StutterReaderInv ==
  ASSUME ReaderInv, UNCHANGED readerVars
  PROVE  ReaderInv'
<1>1. UNCHANGED <<vars, text, at, scan, leaves, latest>>
  BY DEF readerVars
<1>2. ParserInv'
  BY <1>1, StutterParserInv DEF ReaderInv
<1>3. ReaderTyped'
  BY <1>1 DEF ReaderInv, ReaderTyped
<1>4. BetweenNodesAfterLines' /\ NothingUnread' /\ TruncationIsRefused'
  BY <1>1 DEF ReaderInv, BetweenNodesAfterLines, AtBlockLevel, NothingUnread, Unread,
              TruncationIsRefused, Returned, vars, stack, held, ignore
<1>5. QED
  BY <1>2, <1>3, <1>4 DEF ReaderInv

LEMMA ReaderInvariance == ReaderSpec => []ReaderInv
<1>1. ReaderInv /\ [Read]_readerVars => ReaderInv'
  <2> SUFFICES ASSUME ReaderInv, Read \/ UNCHANGED readerVars
               PROVE  ReaderInv'
    OBVIOUS
  <2>1. CASE Read
    <3>1. PICK l \in {ReadNext(text, at, Relaxed)} : ReadToken(l) \/ ReadEnd(l) \/ ScanFails(l)
      BY <2>1 DEF Read
    <3>2. result = "reading"
      BY <2>1 DEF Read
    <3>3. QED
      BY <3>1, <3>2, ReadTokenStep, ReadEndStep, ScanFailsStep
  <2>2. QED
    BY <2>1, StutterReaderInv
<1>2. QED
  BY <1>1, InitReaderInv, PTL DEF ReaderSpec

-----------------------------------------------------------------------------
(* The theorems *)

\* Type correctness, for every text: every token that is scanned is at least
\* one character long and ends inside the text, so parse returns, whatever it
\* is given; and a token that becomes a value is never an empty one.
THEOREM ReaderTypeCorrect == ReaderSpec => []ReaderTypeOK
<1>1. ReaderInv => ReaderTypeOK
  <2> SUFFICES ASSUME ReaderInv PROVE ReaderTypeOK
    OBVIOUS
  <2> DEFINE l == ReadNext(text, at, Relaxed)
  <2>1. TypeOK /\ ReaderTyped
    BY DEF ReaderInv, ParserInv, IInv
  <2>2. l \in {Failed, AtEof} \/ l.end \in at + 1 .. Len(text) + 1
    BY <2>1, NextRound
  <2>3. QED
    BY <2>1, <2>2 DEF ReaderTyped, ReaderTypeOK, AnyText
<1>2. QED
  BY <1>1, ReaderInvariance, PTL

\* Parse returns a document only when it has read its text to the end, but for
\* the two endings the scanner cannot see: a lone sign, slash or zero that it
\* would look beyond, and a number that ends in its e.
THEOREM EverythingIsRead == ReaderSpec => []NothingUnread
<1>1. ReaderInv => NothingUnread
  BY DEF ReaderInv
<1>2. QED
  BY <1>1, ReaderInvariance, PTL

\* However the text is cut off inside a child block, parse refuses it when the
\* last token that counts ends a line or opens the block.
THEOREM TruncatedDocumentsAreRefused == ReaderSpec => []TruncationIsRefused
<1>1. ReaderInv => TruncationIsRefused
  BY DEF ReaderInv
<1>2. QED
  BY <1>1, ReaderInvariance, PTL

\* What was shown of the parser under any sequence of tokens holds when the
\* scanner feeds it: the state stack keeps its shape, no handler meets a state
\* it calls a bug, a held token has its owner, covered blocks are counted, and
\* a continued line stays inside its node.
THEOREM ParserKeepsItsPromises ==
  ReaderSpec => [](/\ StackShape /\ NoInternalError /\ HeldTokenHasAnOwner
                   /\ SuppressedBlocksCounted /\ ContinuationStaysInNode)
<1>1. ReaderInv => /\ StackShape /\ NoInternalError /\ HeldTokenHasAnOwner
                   /\ SuppressedBlocksCounted /\ ContinuationStaysInNode
  BY DEF ReaderInv, ParserInv, IInv
<1>2. QED
  BY <1>1, ReaderInvariance, PTL

(***************************************************************************)
(* A reader is a parser: each round of parse's loop hands it one token, or *)
(* leaves it alone when the text cannot be scanned.  So what the parser    *)
(* promises for any tokens it promises for the tokens of every text.       *)
(***************************************************************************)
THEOREM ReaderImplementsParser == ReaderSpec => AnyTokens
<1>1. ReaderInit => Init
  BY DEF ReaderInit
<1>2. ReaderInv /\ [Read]_readerVars => [ParsesOne]_vars
  <2> SUFFICES ASSUME ReaderInv, Read
               PROVE  ParsesOne \/ UNCHANGED vars
    BY DEF readerVars
  <2>1. PICK l \in {ReadNext(text, at, Relaxed)} : ReadToken(l) \/ ReadEnd(l) \/ ScanFails(l)
    BY DEF Read
  <2>2. CASE ReadToken(l)
    <3>1. l.id \in ScannedIDs
      BY <2>1, <2>2, NextRound DEF ReaderInv, ReadToken
    <3>2. QED
      BY <2>2, <3>1, FormType DEF ReadToken, ParsesOne
  <2>3. CASE ReadEnd(l)
    <3>1. Tok("EOF") \in ValidToken
      BY DEF Tok, ValidToken, Valid, Token, Forms, TokenIDs, Unknown
    <3>2. QED
      BY <2>3, <3>1 DEF ReadEnd, ParsesOne
  <2>4. CASE ScanFails(l)
    BY <2>4 DEF ScanFails
  <2>5. QED
    BY <2>1, <2>2, <2>3, <2>4
<1>3. QED
  BY <1>1, <1>2, ReaderInvariance, PTL DEF ReaderSpec, AnyTokens

(***************************************************************************)
(* From characters to document: for every text, the nodes follow its       *)
(* nesting and each has the values of its own line, the arguments and      *)
(* properties of a node that is closed are final, no node, argument or     *)
(* property of a block that a /- covers is in the document, a value that   *)
(* is held back becomes an argument or a property name or is dropped by a  *)
(* /-, and no comment between nodes is lost or repeated, those of covered  *)
(* blocks and those put after a closed node among them.                    *)
(***************************************************************************)
THEOREM DocumentFollowsCharacters ==
  ReaderSpec => /\ ImplementsNodeTree
                /\ []OpenNodesNest
                /\ OnlyCurrentNodeChanges
                /\ SuppressedBlocksLeaveNoTrace
                /\ HeldValueAccountedFor
                /\ CommentsConserved
  BY ReaderImplementsParser, DocumentFollowsText, TreeNests, ClosedNodesAreFinal,
     CoveredTextIsDropped, HeldValuesAreKept, CommentsAreKept

-----------------------------------------------------------------------------
(* The values of a text *)

\* What is so at the end of a text, and at a position if it is so at all later
\* ones, is so at each.
LEMMA FromTheEnd ==
  ASSUME NEW n \in Nat, NEW T, \A i \in 1 .. n : (\A j \in i + 1 .. n : j \in T) => i \in T
  PROVE  \A i \in 1 .. n : i \in T
<1> DEFINE U == { m \in 0 .. n - 1 : n - m \notin T }
<1>1. SUFFICES ASSUME NEW i \in 1 .. n, i \notin T
               PROVE  FALSE
  OBVIOUS
<1>2. U \in SUBSET Nat /\ n - i \in U
  <2>1. n - i \in 0 .. n - 1 /\ n - (n - i) = i
    OBVIOUS
  <2>2. QED
    BY <1>1, <2>1
<1>3. Min(U) \in U /\ \A m \in U : Min(U) <= m
  BY <1>2, Smallest
<1> DEFINE k == n - Min(U)
<1>4. Min(U) \in 0 .. n - 1 /\ k \in 1 .. n /\ k \notin T
  BY <1>3
<1>5. ASSUME NEW j \in k + 1 .. n
      PROVE  j \in T
  <2>1. n - j \in 0 .. n - 1 /\ n - (n - j) = j /\ ~(Min(U) <= n - j)
    BY <1>4
  <2>2. QED
    BY <1>3, <2>1
<1> HIDE DEF k
<1>6. QED
  BY <1>4, <1>5

\* The values from a position on, where from has those of the later positions.
ValuesAt(s, flags, from, i) ==
  LET l == ReadNext(s, i, flags)
  IN  IF l \in {Failed, AtEof} THEN << >> ELSE ValueOf(s, i, l) \o from[l.end]

LEMMA ValuesLookAhead ==
  ASSUME NEW s \in AnyText, NEW i \in 1 .. Len(s) + 1, NEW flags \in SUBSET RelaxedFlags,
         NEW g, NEW h, \A j \in i + 1 .. Len(s) + 1 : g[j] = h[j]
  PROVE  ValuesAt(s, flags, g, i) = ValuesAt(s, flags, h, i)
<1> DEFINE l == ReadNext(s, i, flags)
<1>1. l \notin {Failed, AtEof} => l.end \in i + 1 .. Len(s) + 1
  BY ReadNextReads DEF ReadsOrIsCutShort, Reads
<1> HIDE DEF l
<1>2. QED
  BY <1>1 DEF ValuesAt, l

LEMMA ValuesExist ==
  ASSUME NEW s \in AnyText, NEW flags \in SUBSET RelaxedFlags
  PROVE  \E g : g = [i \in 1 .. Len(s) + 1 |-> ValuesAt(s, flags, g, i)]
<1> DEFINE N == Len(s) + 1
           Known(i) == \E g : g = [j \in i .. N |-> ValuesAt(s, flags, g, j)]
           T == { i \in 1 .. N : Known(i) }
<1>1. Len(s) \in Nat /\ N \in Nat /\ 1 \in 1 .. N
  BY TextEnds
<1>2. ASSUME NEW i \in 1 .. N, \A j \in i + 1 .. N : j \in T
      PROVE  Known(i)
  <2>1. PICK g : i < N => g = [j \in i + 1 .. N |-> ValuesAt(s, flags, g, j)]
    <3>1. CASE i < N
      <4>1. i + 1 \in i + 1 .. N
        BY <1>1, <3>1
      <4>2. QED
        BY <1>2, <4>1
    <3>2. CASE ~(i < N)
      BY <3>2
    <3>3. QED
      BY <3>1, <3>2
  <2> DEFINE h == [j \in i .. N |-> IF j = i THEN ValuesAt(s, flags, g, i) ELSE g[j]]
  <2>2. ASSUME NEW j \in i .. N
        PROVE  h[j] = ValuesAt(s, flags, h, j)
    <3>1. j \in 1 .. Len(s) + 1 /\ \A k \in j + 1 .. Len(s) + 1 : h[k] = g[k]
      BY <1>1
    <3>2. h[j] = ValuesAt(s, flags, g, j)
      <4>1. CASE j = i
        BY <4>1
      <4>2. CASE j # i
        <5>1. i < N /\ j \in i + 1 .. N
          BY <1>1, <4>2
        <5>2. g[j] = ValuesAt(s, flags, g, j)
          BY <2>1, <5>1
        <5>3. QED
          BY <4>2, <5>2
      <4>3. QED
        BY <4>1, <4>2
    <3> HIDE DEF h
    <3>3. QED
      BY <3>1, <3>2, ValuesLookAhead
  <2>3. h = [j \in i .. N |-> ValuesAt(s, flags, h, j)]
    BY <2>2
  <2>4. QED
    BY <2>3
<1> HIDE DEF Known
<1>3. \A i \in 1 .. N : i \in T
  <2>1. \A i \in 1 .. N : (\A j \in i + 1 .. N : j \in T) => i \in T
    BY <1>2
  <2> HIDE DEF T, N
  <2>2. QED
    BY <1>1, <2>1, FromTheEnd
<1>4. QED
  BY <1>1, <1>3 DEF Known

LEMMA ValuesAreRead ==
  ASSUME NEW s \in AnyText, NEW flags \in SUBSET RelaxedFlags
  PROVE  \A i \in 1 .. Len(s) + 1 :
           ValuesFrom(s, flags)[i] = ValuesAt(s, flags, ValuesFrom(s, flags), i)
<1> DEFINE V == ValuesFrom(s, flags)
<1>1. V = CHOOSE g : g = [i \in 1 .. Len(s) + 1 |-> ValuesAt(s, flags, g, i)]
  BY DEF ValuesFrom, ValuesAt
<1>2. V = [i \in 1 .. Len(s) + 1 |-> ValuesAt(s, flags, V, i)]
  BY <1>1, ValuesExist
<1> HIDE DEF V
<1>3. QED
  BY <1>2 DEF V

LEMMA ValueOfToken ==
  ASSUME NEW s \in AnyText, NEW i \in 1 .. Len(s),
         NEW l \in [id : ScannedIDs, end : i + 1 .. Len(s) + 1]
  PROVE  ValueOf(s, i, l) \in Seq(Leaf)
<1>1. l.end - 1 \in i .. Len(s)
  BY TextEnds
<1> DEFINE e == [id |-> l.id, data |-> Text(s, i, l)]
<1>2. e \in Leaf
  BY <1>1, PartOfText DEF Text, ScannedIDs, Leaf
<1> HIDE DEF e
<1>3. <<e>> \in Seq(Leaf) /\ << >> \in Seq(Leaf)
  BY <1>2
<1>4. ValueOf(s, i, l) \in {<<e>>, << >>}
  BY DEF ValueOf, e
<1>5. QED
  BY <1>3, <1>4

LEMMA ValuesType ==
  ASSUME NEW s \in AnyText, NEW flags \in SUBSET RelaxedFlags
  PROVE  \A i \in 1 .. Len(s) + 1 : ValuesFrom(s, flags)[i] \in Seq(Leaf)
<1> DEFINE N == Len(s) + 1
           V == ValuesFrom(s, flags)
           T == { i \in 1 .. N : V[i] \in Seq(Leaf) }
<1>1. N \in Nat /\ Len(s) \in Nat
  BY TextEnds
<1>2. \A i \in 1 .. N : V[i] = ValuesAt(s, flags, V, i)
  BY ValuesAreRead
<1> HIDE DEF V
<1>3. ASSUME NEW i \in 1 .. N, \A j \in i + 1 .. N : j \in T
      PROVE  i \in T
  <2> DEFINE l == ReadNext(s, i, flags)
  <2>1. CASE l \in {Failed, AtEof}
    <3>1. V[i] = << >>
      BY <1>2, <2>1 DEF ValuesAt
    <3>2. << >> \in Seq(Leaf)
      OBVIOUS
    <3>3. QED
      BY <3>1, <3>2
  <2>2. CASE l \notin {Failed, AtEof}
    <3>1. i \in 1 .. Len(s) /\ l \in [id : ScannedIDs, end : i + 1 .. N]
      BY <2>2, ReadNextReads DEF ReadsOrIsCutShort, Reads
    <3> HIDE DEF l
    <3>2. V[l.end] \in Seq(Leaf)
      BY <1>3, <3>1
    <3>3. ValueOf(s, i, l) \in Seq(Leaf)
      BY <3>1, ValueOfToken
    <3>4. V[i] = ValueOf(s, i, l) \o V[l.end]
      BY <1>2, <2>2 DEF ValuesAt, l
    <3>5. V[i] \in Seq(Leaf)
      BY <3>2, <3>3, <3>4, ConcatProperties
    <3>6. QED
      BY <3>5
  <2>3. QED
    BY <2>1, <2>2
<1> HIDE DEF T, N
<1>4. \A i \in 1 .. N : i \in T
  BY <1>1, <1>3, FromTheEnd
<1>5. QED
  BY <1>4 DEF T, N, V

\* What was read and what is still to come, with suffixes, are always the values
\* of the whole text, and there is nothing to come when the document is done.
SuffixValues == ValuesFrom(text, Suffixed(Relaxed))

NothingIsMissed ==
  "NGINXSyntax" \notin opts =>
    /\ leaves \o SuffixValues[at] = SuffixValues[1]
    /\ Returned => SuffixValues[at] = << >>

LEMMA InitNothingIsMissed == ReaderInit => NothingIsMissed
<1> SUFFICES ASSUME ReaderInit
             PROVE  NothingIsMissed
  OBVIOUS
<1>1. text \in AnyText /\ leaves = << >> /\ at = 1 /\ result = "reading"
  BY TextsAssumption DEF ReaderInit, AnyText, Init
<1>2. SuffixValues[1] \in Seq(Leaf)
  BY <1>1, ValuesType, TextEnds, FlagsAreFlags, SameCharacters DEF SuffixValues
<1>3. QED
  BY <1>1, <1>2, ConcatEmptySeq DEF NothingIsMissed, Returned

\* The next token and what comes after it
LEMMA NextValues ==
  ASSUME ReaderTyped, "NGINXSyntax" \notin opts, NEW l, l = ReadNext(text, at, Relaxed),
         l # Failed
  PROVE  SuffixValues[at] = IF l = AtEof THEN << >>
                            ELSE ValueOf(text, at, l) \o SuffixValues[l.end]
<1>1. /\ text \in AnyText /\ at \in 1 .. Len(text) + 1
      /\ Relaxed \in SUBSET RelaxedFlags /\ Suffixed(Relaxed) \in SUBSET RelaxedFlags
      /\ "NGINXSyntax" \notin Relaxed
  BY FlagsAreFlags, SameCharacters DEF ReaderTyped, Relaxed
<1>2. ReadNext(text, at, Suffixed(Relaxed)) = l
  BY <1>1, TokenIsKept
<1>3. SuffixValues[at] = ValuesAt(text, Suffixed(Relaxed), SuffixValues, at)
  BY <1>1, ValuesAreRead DEF SuffixValues
<1>4. QED
  BY <1>2, <1>3 DEF ValuesAt

LEMMA MissedStep ==
  ASSUME ReaderInv, NothingIsMissed, Read
  PROVE  NothingIsMissed'
<1>1. SUFFICES ASSUME "NGINXSyntax" \notin opts'
               PROVE  /\ leaves' \o SuffixValues'[at'] = SuffixValues'[1]
                      /\ Returned' => SuffixValues'[at'] = << >>
  BY DEF NothingIsMissed
<1>2. PICK l \in {ReadNext(text, at, Relaxed)} : ReadToken(l) \/ ReadEnd(l) \/ ScanFails(l)
  BY DEF Read
<1>3. opts' = opts /\ text' = text /\ SuffixValues' = SuffixValues
  <2>1. opts' = opts /\ text' = text
    BY <1>2, Zenon DEF ReadToken, ReadEnd, ScanFails, Parse, vars
  <2>2. QED
    BY <2>1 DEF SuffixValues, Relaxed
<1>4. /\ ReaderTyped /\ ParserInv /\ result = "reading" /\ "NGINXSyntax" \notin opts
      /\ leaves \o SuffixValues[at] = SuffixValues[1]
  BY <1>1, <1>3 DEF ReaderInv, NothingIsMissed, Read
<1>5. CASE ReadToken(l)
  <2>1. leaves' = leaves \o ValueOf(text, at, l) /\ at' = l.end /\ l \notin {Failed, AtEof}
    BY <1>5 DEF ReadToken
  <2>2. l \in [id : ScannedIDs, end : at + 1 .. Len(text) + 1] /\ at \in 1 .. Len(text)
    BY <1>2, <1>4, <2>1, NextRound
  <2>3. /\ text \in AnyText /\ leaves \in Seq(Leaf) /\ ValueOf(text, at, l) \in Seq(Leaf)
        /\ SuffixValues[l.end] \in Seq(Leaf)
    <3>1. l.end \in 1 .. Len(text) + 1 /\ text \in AnyText /\ leaves \in Seq(Leaf)
      BY <1>4, <2>2 DEF ReaderTyped
    <3>2. SuffixValues[l.end] \in Seq(Leaf)
      BY <3>1, ValuesType, FlagsAreFlags, SameCharacters DEF SuffixValues
    <3>3. QED
      BY <2>2, <3>1, <3>2, ValueOfToken
  <2>4. SuffixValues[at] = ValueOf(text, at, l) \o SuffixValues[l.end]
    BY <1>2, <1>4, <2>1, NextValues
  <2>5. leaves' \o SuffixValues[at'] = SuffixValues[1]
    <3> DEFINE v == ValueOf(text, at, l)
               w == SuffixValues[l.end]
    <3>1. v \in Seq(Leaf) /\ w \in Seq(Leaf) /\ leaves \in Seq(Leaf)
      BY <2>3
    <3>2. leaves' = leaves \o v /\ SuffixValues[at'] = w
      BY <2>1
    <3>3. leaves \o (v \o w) = SuffixValues[1]
      BY <1>4, <2>4
    <3> HIDE DEF v, w
    <3>4. (leaves \o v) \o w = leaves \o (v \o w)
      BY <3>1, ConcatAssociative
    <3>5. QED
      BY <3>2, <3>3, <3>4
  <2>6. ~Returned'
    BY <1>2, <1>4, <1>5, TokenDoesNotReturn DEF ReaderInv
  <2>7. QED
    BY <1>3, <2>5, <2>6
<1>6. CASE ReadEnd(l)
  <2>1. l = AtEof /\ leaves' = leaves /\ at' = at /\ l # Failed
    BY <1>6 DEF ReadEnd, AtEof, Failed, Lexeme
  <2>2. SuffixValues[at] = << >>
    BY <1>2, <1>4, <2>1, NextValues
  <2>3. QED
    BY <1>3, <1>4, <2>1, <2>2
<1>7. CASE ScanFails(l)
  <2>1. leaves' = leaves /\ at' = at /\ result' = "reading"
    BY <1>4, <1>7 DEF ScanFails, vars
  <2>2. QED
    BY <1>3, <1>4, <2>1 DEF Returned
<1>8. QED
  BY <1>2, <1>5, <1>6, <1>7

(***************************************************************************)
(* Whatever document is read without MultiplierSuffixes is read with it,   *)
(* and to the same values, in any syntax but nginx's: an integer that is   *)
(* accepted ends where no suffix begins, and neither a word nor a comment  *)
(* looks at the flag.                                                      *)
(***************************************************************************)
THEOREM SuffixesTakeNothingAway == ReaderSpec => []SuffixesOnlyAdd
<1>1. ReaderInv /\ NothingIsMissed => SuffixesOnlyAdd
  <2> SUFFICES ASSUME ReaderInv, NothingIsMissed, Returned, "NGINXSyntax" \notin opts
               PROVE  leaves = SuffixValues[1]
    BY DEF SuffixesOnlyAdd, SuffixValues, Suffixed
  <2>1. leaves \o << >> = SuffixValues[1] /\ leaves \in Seq(Leaf)
    BY DEF NothingIsMissed, ReaderInv, ReaderTyped
  <2>2. QED
    BY <2>1, ConcatEmptySeq
<1>2. ReaderInv /\ NothingIsMissed /\ [Read]_readerVars => NothingIsMissed'
  <2>1. ASSUME NothingIsMissed, UNCHANGED readerVars
        PROVE  NothingIsMissed'
    BY <2>1 DEF NothingIsMissed, SuffixValues, Relaxed, Returned, readerVars, vars
  <2>2. QED
    BY <2>1, MissedStep
<1>3. QED
  BY <1>1, <1>2, InitNothingIsMissed, ReaderInvariance, PTL DEF ReaderSpec
=============================================================================
