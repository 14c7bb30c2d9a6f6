-------------------------- MODULE RecentRingProofs --------------------------
(***************************************************************************)
(* What holds of the ring of recent tokens for every size of the ring,     *)
(* every stream of tokens and every length of it.                          *)
(*                                                                         *)
(* The two loops of recent.go are recursive functions in the model.  Both  *)
(* are given a closed form here, by the same two lemmas: every set of      *)
(* numbers has a least one, so two functions that agree at 0 and whose     *)
(* agreement is passed on from i - 1 to i agree everywhere.                *)
(***************************************************************************)
EXTENDS MCRecentRing, SequenceTheorems, FiniteSetTheorems, FunctionTheorems,
        WellFoundedInduction, TLAPS

-----------------------------------------------------------------------------
(* Loops *)

LEMMA Least ==
  ASSUME NEW T \in SUBSET Nat, T # {}
  PROVE  \E n \in T : \A m \in T : n <= m
<1> DEFINE U == { 0 .. n : n \in T }
<1>1. U \in SUBSET FiniteSubsetsOf(Nat) /\ U # {}
  <2>1. ASSUME NEW n \in Nat
        PROVE  0 .. n \in FiniteSubsetsOf(Nat)
    <3>1. IsFiniteSet(0 .. n)
      BY FS_Interval
    <3>2. 0 .. n \subseteq Nat
      OBVIOUS
    <3>3. QED
      BY <3>1, <3>2 DEF FiniteSubsetsOf
  <2>2. QED
    BY <2>1
<1>2. PICK x \in U : \A y \in U : <<y, x>> \notin StrictSubsetOrdering(Nat)
  BY <1>1, FS_StrictSubsetOrderingWellFounded, WFMin
<1>3. PICK n \in T : x = 0 .. n
  OBVIOUS
<1>4. ASSUME NEW m \in T, m < n
      PROVE  FALSE
  <2>1. <<0 .. m, 0 .. n>> \in StrictSubsetOrdering(Nat)
    BY <1>4 DEF StrictSubsetOrdering
  <2>2. QED
    BY <2>1, <1>2, <1>3
<1>5. QED
  BY <1>4

LEMMA LoopsAgree ==
  ASSUME NEW n \in Nat, NEW F, NEW G,
         F[0] = G[0],
         \A i \in 1 .. n : F[i - 1] = G[i - 1] => F[i] = G[i]
  PROVE  \A i \in 0 .. n : F[i] = G[i]
<1> DEFINE T == { i \in 0 .. n : F[i] # G[i] }
<1>1. SUFFICES ASSUME T # {}
               PROVE  FALSE
  OBVIOUS
<1>2. T \in SUBSET Nat
  OBVIOUS
<1>3. PICK k \in T : \A m \in T : k <= m
  <2> HIDE DEF T
  <2>1. QED
    BY <1>1, <1>2, Least
<1>4. k \in 1 .. n /\ k - 1 \in 0 .. n
  OBVIOUS
<1>5. F[k - 1] = G[k - 1]
  BY <1>3, <1>4
<1>6. QED
  BY <1>4, <1>5

-----------------------------------------------------------------------------
(* The window on the ring *)

LEMMA Wrap ==
  ASSUME NEW N \in Nat, N > 0, NEW a \in Nat, a < 2 * N
  PROVE  a % N = IF a < N THEN a ELSE a - N
  OBVIOUS

LEMMA WindowType ==
  ASSUME NEW r \in Ring
  PROVE  /\ FromOldest(r) \in Seq(Token)
         /\ Len(FromOldest(r)) = RecentCount
         /\ \A i \in 1 .. RecentCount : FromOldest(r)[i] \in Token
<1>1. \A i \in 1 .. RecentCount : (r.head + i) % RecentCount \in Slots
  BY RecentCountAssumption DEF Ring, Slots
<1>2. \A i \in 1 .. RecentCount : r.tokens[(r.head + i) % RecentCount] \in Token
  BY <1>1 DEF Ring
<1>3. FromOldest(r) \in [1 .. RecentCount -> Token]
  BY <1>2 DEF FromOldest
<1>4. RecentCount \in Nat
  BY RecentCountAssumption
<1>5. QED
  BY <1>3, <1>4

LEMMA EmptyRingType == EmptyRing \in Ring /\ \A i \in 1 .. RecentCount : FromOldest(EmptyRing)[i] = NoToken
<1>1. NoToken \in Token /\ 0 \in Slots
  BY RecentCountAssumption DEF NoToken, Token, Forms, Slots
<1>2. EmptyRing \in Ring
  BY <1>1 DEF EmptyRing, Ring
<1>3. \A i \in 1 .. RecentCount : (0 + i) % RecentCount \in Slots
  BY RecentCountAssumption DEF Slots
<1>4. QED
  BY <1>2, <1>3 DEF EmptyRing, FromOldest

\* Adding a token slides the window by one, also when the head wraps.
LEMMA AddSlides ==
  ASSUME NEW r \in Ring, NEW t \in Token
  PROVE  /\ RingAdd(r, t) \in Ring
         /\ FromOldest(RingAdd(r, t))[RecentCount] = t
         /\ \A i \in 1 .. RecentCount - 1 :
              FromOldest(RingAdd(r, t))[i] = FromOldest(r)[i + 1]
<1> DEFINE N == RecentCount
           h == r.head
           new == (h + 1) % N
           u == RingAdd(r, t)
<1>1. N \in Nat /\ N > 0 /\ h \in Nat /\ h < N
  BY RecentCountAssumption DEF Ring, Slots
<1>2. new \in Slots /\ new = (IF h + 1 < N THEN h + 1 ELSE h + 1 - N)
  <2>1. h + 1 \in Nat /\ h + 1 < 2 * N
    BY <1>1
  <2>2. new = (IF h + 1 < N THEN h + 1 ELSE h + 1 - N)
    BY <1>1, <2>1, Wrap
  <2>3. QED
    BY <1>1, <2>2 DEF Slots
<1>3. u = [tokens |-> [r.tokens EXCEPT ![new] = t], head |-> new]
  BY DEF RingAdd
<1>4. u \in Ring
  BY <1>2, <1>3 DEF Ring
<1>5. ASSUME NEW i \in 1 .. N
      PROVE  FromOldest(u)[i] = u.tokens[(new + i) % N]
  BY <1>3 DEF FromOldest
<1>6. FromOldest(u)[N] = t
  <2>1. (new + N) % N = new
    <3>1. new \in Nat /\ new < N
      BY <1>1, <1>2 DEF Slots
    <3> DEFINE a == new + N
    <3> HIDE DEF new, N, h
    <3>2. a \in Nat /\ a < 2 * N /\ ~(a < N) /\ a - N = new
      BY <3>1, <1>1
    <3> HIDE DEF a
    <3>3. a % N = new
      BY <3>2, <1>1, Wrap
    <3>4. QED
      BY <3>3 DEF a
  <2>2. N \in 1 .. N
    BY <1>1
  <2>3. u.tokens[new] = t
    BY <1>2, <1>3 DEF Ring
  <2>4. QED
    BY <1>5, <2>1, <2>2, <2>3
<1>7. ASSUME NEW i \in 1 .. N - 1
      PROVE  FromOldest(u)[i] = FromOldest(r)[i + 1]
  <2> DEFINE k == (h + (i + 1)) % N
  <2>1. /\ k = (IF h + (i + 1) < N THEN h + (i + 1) ELSE h + (i + 1) - N)
        /\ k \in Slots
    <3>1. h + (i + 1) \in Nat /\ h + (i + 1) < 2 * N
      BY <1>1
    <3>2. k = (IF h + (i + 1) < N THEN h + (i + 1) ELSE h + (i + 1) - N)
      BY <1>1, <3>1, Wrap, SMTT(30)
    <3>3. QED
      BY <1>1, <3>2 DEF Slots
  <2>2. (new + i) % N = (IF new + i < N THEN new + i ELSE new + i - N)
    <3>1. new \in Nat /\ new < N
      BY <1>1, <1>2 DEF Slots
    <3> DEFINE a == new + i
    <3> HIDE DEF new
    <3>2. a \in Nat /\ a < 2 * N
      BY <3>1, <1>1
    <3>3. CASE a < N
      <4> HIDE DEF a
      <4>1. a % N = a
        BY <3>2, <3>3, <1>1, Wrap
      <4>2. QED
        BY <4>1, <3>3 DEF a
    <3>4. CASE ~(a < N)
      <4> HIDE DEF a
      <4>1. a % N = a - N
        BY <3>2, <3>4, <1>1, Wrap
      <4>2. QED
        BY <4>1, <3>1, <3>4, <1>1 DEF a
    <3>5. QED
      BY <3>3, <3>4
  <2>3. (new + i) % N = k /\ k # new
    <3> DEFINE m == (new + i) % N
    <3>1. i \in Nat /\ 1 <= i /\ i <= N - 1
      BY <1>1
    <3> HIDE DEF new, N, h, k, m
    <3>2. QED
      BY <1>1, <1>2, <2>1, <2>2, <3>1 DEF m
  <2>4. u.tokens[k] = r.tokens[k]
    BY <1>3, <2>1, <2>3 DEF Ring
  <2>5. FromOldest(r)[i + 1] = r.tokens[k]
    <3>1. i + 1 \in 1 .. N
      BY <1>1
    <3>2. QED
      BY <3>1 DEF FromOldest
  <2>6. i \in 1 .. N
    BY <1>1
  <2>7. QED
    BY <1>5, <2>3, <2>4, <2>5, <2>6
<1>8. QED
  BY <1>4, <1>6, <1>7

-----------------------------------------------------------------------------
(* Get *)

\* When the slots never written are the k oldest, Get is the rest in order.
LEMMA GetIsTheRest ==
  ASSUME NEW r \in Ring, NEW k \in 0 .. RecentCount,
         \A i \in 1 .. RecentCount : Valid(FromOldest(r)[i]) <=> i > k
  PROVE  RingGet(r) = SubSeq(FromOldest(r), k + 1, RecentCount)
<1> DEFINE N == RecentCount
           w == FromOldest(r)
           G == [i \in 0 .. N |-> SubSeq(w, k + 1, i)]
           F == CHOOSE f : f = [i \in 0 .. N |->
                                  IF i = 0 THEN << >>
                                  ELSE IF Valid(w[i]) THEN Append(f[i - 1], w[i])
                                  ELSE f[i - 1]]
<1>1. N \in Nat /\ k \in Nat /\ k <= N
  BY RecentCountAssumption
<1>2. w \in Seq(Token) /\ Len(w) = N /\ \A i \in 1 .. N : w[i] \in Token
  BY WindowType
<1>3. \A i \in 1 .. N : Valid(w[i]) <=> i > k
  OBVIOUS
<1>4. RingGet(r) = F[N]
  BY DEF RingGet
<1> HIDE DEF w, N
<1>5. \A i \in 0 .. N : i <= k => G[i] = << >>
  <2>1. TAKE i \in 0 .. N
  <2>2. HAVE i <= k
  <2>3. SubSeq(w, k + 1, i) = << >>
    BY <2>2, <1>1, SubSeqEmpty
  <2>4. QED
    BY <2>3
<1>6. \A i \in 1 .. N : i > k => G[i] = Append(G[i - 1], w[i])
  <2>1. TAKE i \in 1 .. N
  <2>2. HAVE i > k
  <2>3. /\ SubSeq(w, k + 1, i) \in Seq(Token)
        /\ Len(SubSeq(w, k + 1, i)) = i - k
        /\ \A j \in 1 .. i - k : SubSeq(w, k + 1, i)[j] = w[k + j]
    BY <2>2, <1>1, <1>2, SubSeqProperties
  <2>4. /\ SubSeq(w, k + 1, i - 1) \in Seq(Token)
        /\ Len(SubSeq(w, k + 1, i - 1)) = i - 1 - k
        /\ \A j \in 1 .. i - 1 - k : SubSeq(w, k + 1, i - 1)[j] = w[k + j]
    BY <2>2, <1>1, <1>2, SubSeqProperties
  <2> DEFINE a == SubSeq(w, k + 1, i - 1)
             b == SubSeq(w, k + 1, i)
  <2>5. w[i] \in Token
    BY <1>2
  <2>6. b = Append(a, w[i])
    <3> HIDE DEF a, b
    <3>1. /\ Append(a, w[i]) \in Seq(Token)
          /\ Len(Append(a, w[i])) = i - k
          /\ \A j \in 1 .. i - k : Append(a, w[i])[j] = w[k + j]
      BY <2>2, <2>4, <2>5, <1>1 DEF a
    <3>2. b \in Seq(Token) /\ Len(b) = i - k /\ \A j \in 1 .. i - k : b[j] = w[k + j]
      BY <2>3 DEF b
    <3>3. QED
      BY <3>1, <3>2, SeqEqual
  <2>7. G[i] = b /\ G[i - 1] = a
    BY <1>1
  <2>8. QED
    BY <2>6, <2>7
<1> HIDE DEF G
<1>7. G = [i \in 0 .. N |-> IF i = 0 THEN << >>
                           ELSE IF Valid(w[i]) THEN Append(G[i - 1], w[i])
                           ELSE G[i - 1]]
  <2>1. \A i \in 0 .. N : G[i] = IF i = 0 THEN << >>
                                ELSE IF Valid(w[i]) THEN Append(G[i - 1], w[i])
                                ELSE G[i - 1]
    <3>1. TAKE i \in 0 .. N
    <3>2. CASE i = 0
      BY <3>2, <1>1, <1>5
    <3>3. CASE i # 0 /\ i <= k
      <4>1. i \in 1 .. N /\ i - 1 \in 0 .. N /\ i - 1 <= k /\ ~(i > k)
        BY <3>3, <1>1
      <4>2. QED
        BY <4>1, <3>3, <1>3, <1>5
    <3>4. CASE i # 0 /\ i > k
      <4>1. i \in 1 .. N
        BY <3>4, <1>1
      <4>2. QED
        BY <4>1, <3>4, <1>3, <1>6
    <3>5. QED
      BY <3>2, <3>3, <3>4, <1>1
  <2>2. G = [i \in 0 .. N |-> G[i]]
    BY DEF G
  <2>3. QED
    BY <2>1, <2>2
<1>8. F = [i \in 0 .. N |-> IF i = 0 THEN << >>
                           ELSE IF Valid(w[i]) THEN Append(F[i - 1], w[i])
                           ELSE F[i - 1]]
  BY <1>7
<1> HIDE DEF F
<1>9. \A i \in 0 .. N : F[i] = G[i]
  <2>1. F[0] = G[0]
    BY <1>1, <1>7, <1>8
  <2>2. ASSUME NEW i \in 1 .. N, F[i - 1] = G[i - 1]
        PROVE  F[i] = G[i]
    <3>1. i \in 0 .. N /\ i # 0
      BY <1>1
    <3>2. F[i] = IF Valid(w[i]) THEN Append(F[i - 1], w[i]) ELSE F[i - 1]
      BY <3>1, <1>8
    <3>3. G[i] = IF Valid(w[i]) THEN Append(G[i - 1], w[i]) ELSE G[i - 1]
      BY <3>1, <1>7
    <3>4. QED
      BY <2>2, <3>2, <3>3
  <2>3. QED
    BY <2>1, <2>2, <1>1, LoopsAgree
<1>10. F[N] = SubSeq(w, k + 1, N)
  BY <1>1, <1>9 DEF G
<1>11. QED
  BY <1>4, <1>10 DEF N, w

-----------------------------------------------------------------------------
(* Every stream of tokens *)

IInv ==
  /\ ring \in Ring
  /\ fed \in Seq(Input)
  /\ \A i \in 1 .. RecentCount :
       FromOldest(ring)[i] = IF Len(fed) + i > RecentCount
                             THEN fed[Len(fed) + i - RecentCount]
                             ELSE NoToken

LEMMA InitIInv == Init => IInv
<1>1. SUFFICES ASSUME Init
               PROVE  IInv
  OBVIOUS
<1>2. ring = EmptyRing /\ fed = << >>
  BY <1>1 DEF Init
<1>3. fed \in Seq(Input) /\ Len(fed) = 0
  BY <1>2, EmptySeq
<1>4. \A i \in 1 .. RecentCount : ~(0 + i > RecentCount)
  BY RecentCountAssumption
<1>5. QED
  BY <1>2, <1>3, <1>4, EmptyRingType DEF IInv

LEMMA NextIInv == IInv /\ [Next]_vars => IInv'
<1>1. SUFFICES ASSUME IInv, [Next]_vars
               PROVE  IInv'
  OBVIOUS
<1>2. CASE UNCHANGED vars
  BY <1>1, <1>2 DEF IInv, vars
<1>3. ASSUME NEW t \in Input, Add(t)
      PROVE  IInv'
  <2> DEFINE N == RecentCount
             L == Len(fed)
  <2>1. t \in Token
    BY InputAssumption
  <2>2. /\ ring \in Ring
        /\ fed \in Seq(Input)
        /\ \A i \in 1 .. N : FromOldest(ring)[i] = IF L + i > N THEN fed[L + i - N] ELSE NoToken
    BY <1>1 DEF IInv
  <2>3. ring' = RingAdd(ring, t) /\ fed' = Append(fed, t)
    BY <1>3 DEF Add
  <2>4. /\ ring' \in Ring
        /\ FromOldest(ring')[N] = t
        /\ \A i \in 1 .. N - 1 : FromOldest(ring')[i] = FromOldest(ring)[i + 1]
    BY <2>1, <2>2, <2>3, AddSlides
  <2>5. N \in Nat /\ N > 0 /\ L \in Nat
    BY <2>2, RecentCountAssumption, LenProperties
  <2>6. /\ fed' \in Seq(Input)
        /\ Len(fed') = L + 1
        /\ fed'[L + 1] = t
        /\ \A j \in 1 .. L : fed'[j] = fed[j]
    BY <2>2, <2>3
  <2> HIDE DEF N, L
  <2>7. ASSUME NEW i \in 1 .. N
        PROVE  FromOldest(ring')[i] = IF (L + 1) + i > N THEN fed'[(L + 1) + i - N] ELSE NoToken
    <3>1. CASE i = N
      <4>1. (L + 1) + i > N /\ (L + 1) + i - N = L + 1
        BY <3>1, <2>5
      <4>2. QED
        BY <4>1, <3>1, <2>4, <2>6
    <3>2. CASE i # N /\ (L + 1) + i > N
      <4>1. i \in 1 .. N - 1 /\ i + 1 \in 1 .. N /\ L + (i + 1) > N
        BY <3>2, <2>5
      <4>2. L + (i + 1) - N = (L + 1) + i - N /\ (L + 1) + i - N \in 1 .. L
        BY <3>2, <2>5
      <4>3. FromOldest(ring)[i + 1] = fed[L + (i + 1) - N]
        BY <4>1, <2>2
      <4>4. QED
        BY <4>1, <4>2, <4>3, <3>2, <2>4, <2>6
    <3>3. CASE i # N /\ ~((L + 1) + i > N)
      <4>1. i \in 1 .. N - 1 /\ i + 1 \in 1 .. N /\ ~(L + (i + 1) > N)
        BY <3>3, <2>5
      <4>2. FromOldest(ring)[i + 1] = NoToken
        BY <4>1, <2>2
      <4>3. QED
        BY <4>1, <4>2, <3>3, <2>4
    <3>4. QED
      BY <3>1, <3>2, <3>3
  <2>8. QED
    BY <2>4, <2>6, <2>7 DEF IInv, N, L
<1>4. QED
  BY <1>1, <1>2, <1>3 DEF Next

LEMMA Invariance == Spec => []IInv
  BY InitIInv, NextIInv, PTL DEF Spec

LEMMA InvariantGivesGet == IInv => GetIsTheLastTokens
<1> SUFFICES ASSUME IInv
             PROVE  GetIsTheLastTokens
  OBVIOUS
<1> DEFINE N == RecentCount
           L == Len(fed)
           w == FromOldest(ring)
           k == IF L > N THEN 0 ELSE N - L
           m == IF L > N THEN L - N + 1 ELSE 1
<1>1. N \in Nat /\ N > 0 /\ L \in Nat
  BY RecentCountAssumption, LenProperties DEF IInv
<1>2. k \in 0 .. N /\ m \in Nat /\ m >= 1 /\ L - m = N - (k + 1)
  <2> HIDE DEF N, L
  <2>1. QED
    BY <1>1
<1>3. \A i \in 1 .. N : w[i] = IF L + i > N THEN fed[L + i - N] ELSE NoToken
  BY DEF IInv
<1>4. \A j \in 1 .. L : fed[j] \in Token /\ Valid(fed[j])
  BY InputAssumption, ElementOfSeq DEF IInv
<1>5. \A i \in 1 .. N : Valid(w[i]) <=> i > k
  <2>1. TAKE i \in 1 .. N
  <2>2. CASE L + i > N
    <3>1. L + i - N \in 1 .. L /\ i > k
      BY <2>2, <1>1
    <3>2. QED
      BY <3>1, <2>2, <1>3, <1>4
  <2>3. CASE ~(L + i > N)
    <3>1. ~(i > k)
      BY <2>3, <1>1
    <3>2. QED
      BY <3>1, <2>3, <1>3 DEF NoToken, Valid
  <2>4. QED
    BY <2>2, <2>3
<1>6. RingGet(ring) = SubSeq(w, k + 1, N)
  <2>1. ring \in Ring
    BY DEF IInv
  <2> HIDE DEF k
  <2>2. QED
    BY <2>1, <1>2, <1>5, GetIsTheRest
<1>7. \A i \in 1 .. N : w[i] \in Token
  BY WindowType DEF IInv
<1> HIDE DEF w, N, L, k, m
<1>8. /\ SubSeq(w, k + 1, N) \in Seq(Token)
      /\ Len(SubSeq(w, k + 1, N)) = N - k
      /\ \A i \in 1 .. N - k : SubSeq(w, k + 1, N)[i] = w[k + i]
  BY <1>1, <1>2, <1>7, SubSeqProperties
<1>9. /\ SubSeq(fed, m, L) \in Seq(Token)
      /\ Len(SubSeq(fed, m, L)) = N - k
      /\ \A i \in 1 .. N - k : SubSeq(fed, m, L)[i] = fed[m + i - 1]
  BY <1>1, <1>2, <1>4, SubSeqProperties
<1>10. ASSUME NEW i \in 1 .. N - k
       PROVE  w[k + i] = fed[m + i - 1]
  <2>1. k + i \in 1 .. N /\ L + (k + i) > N /\ L + (k + i) - N = m + i - 1
    BY <1>1, <1>2 DEF k, m
  <2>2. QED
    BY <2>1, <1>3
<1>11. SubSeq(w, k + 1, N) = SubSeq(fed, m, L)
  <2> DEFINE a == SubSeq(w, k + 1, N)
             b == SubSeq(fed, m, L)
  <2>1. \A i \in 1 .. N - k : a[i] = b[i]
    BY <1>8, <1>9, <1>10
  <2>2. a \in Seq(Token) /\ b \in Seq(Token) /\ Len(a) = N - k /\ Len(b) = N - k
    BY <1>8, <1>9
  <2> HIDE DEF a, b
  <2>3. a = b
    BY <2>1, <2>2, SeqEqual
  <2>4. QED
    BY <2>3 DEF a, b
<1>12. QED
  BY <1>6, <1>11 DEF GetIsTheLastTokens, LastOf, m, L, N

(***************************************************************************)
(* What an error message quotes is the end of the input: Get returns the   *)
(* last tokens Add was given, oldest first, for a ring of any size that    *)
(* has wrapped any number of times, and all of them while it has not.      *)
(***************************************************************************)
THEOREM RecentTokensAreQuoted == Spec => []GetIsTheLastTokens
  BY Invariance, InvariantGivesGet, PTL

-----------------------------------------------------------------------------
(* TrailingNewlines *)

\* The blank lines among the n oldest slots that nothing up to n ends.
BlanksUpTo(w, n) ==
  { i \in 1 .. n :
      /\ w[i].id = "Newline"
      /\ \A j \in i .. n : w[j].id \in {"Newline", "Whitespace"}
      /\ i > 1 /\ w[i - 1].id \notin Insignificant => w[i].form = "wide" }

NewlineBytes(k) == [j \in 1 .. k |-> "nl"]

LEMMA NewlineBytesProperties ==
  ASSUME NEW k \in Nat
  PROVE  /\ NewlineBytes(k) \in Seq({"nl"})
         /\ NewlineBytes(k) \o << >> = NewlineBytes(k)
         /\ NewlineBytes(k) \o <<"nl">> = NewlineBytes(k + 1)
         /\ NewlineBytes(0) = << >>
<1>1. \A n \in Nat : /\ NewlineBytes(n) \in Seq({"nl"})
                     /\ Len(NewlineBytes(n)) = n
                     /\ \A j \in 1 .. n : NewlineBytes(n)[j] = "nl"
  <2>1. TAKE n \in Nat
  <2>2. NewlineBytes(n) \in [1 .. n -> {"nl"}]
    BY DEF NewlineBytes
  <2>3. QED
    BY <2>2 DEF NewlineBytes
<1> DEFINE s == NewlineBytes(k)
           u == NewlineBytes(k + 1)
<1>2. /\ s \in Seq({"nl"}) /\ Len(s) = k /\ \A j \in 1 .. k : s[j] = "nl"
      /\ u \in Seq({"nl"}) /\ Len(u) = k + 1 /\ \A j \in 1 .. k + 1 : u[j] = "nl"
  BY <1>1
<1>3. <<"nl">> \in Seq({"nl"}) /\ Len(<<"nl">>) = 1 /\ <<"nl">>[1] = "nl"
  OBVIOUS
<1> HIDE DEF s, u
<1>4. s \o <<"nl">> = u
  <2> DEFINE v == s \o <<"nl">>
  <2>1. v \in Seq({"nl"}) /\ Len(v) = k + 1 /\ \A j \in 1 .. k + 1 : v[j] = "nl"
    BY <1>2, <1>3, ConcatProperties
  <2> HIDE DEF v
  <2>2. v = u
    BY <1>2, <2>1, SeqEqual
  <2>3. QED
    BY <2>2 DEF v
<1>5. s \o << >> = s
  BY <1>2, ConcatEmptySeq
<1>6. NewlineBytes(0) = << >>
  BY <1>1, EmptySeq
<1>7. QED
  BY <1>2, <1>4, <1>5, <1>6 DEF s, u

LEMMA BlanksUpToFinite ==
  ASSUME NEW w, NEW n \in Nat
  PROVE  IsFiniteSet(BlanksUpTo(w, n)) /\ Cardinality(BlanksUpTo(w, n)) \in Nat
<1>1. IsFiniteSet(1 .. n)
  BY FS_Interval
<1>2. BlanksUpTo(w, n) \subseteq 1 .. n
  BY DEF BlanksUpTo
<1>3. QED
  BY <1>1, <1>2, FS_Subset, FS_CardinalityType

\* What one more slot does to the blank lines seen so far.
LEMMA BlanksStep ==
  ASSUME NEW w, NEW n \in Nat, n > 0
  PROVE  /\ w[n].id = "Newline" =>
              BlanksUpTo(w, n) =
                IF n > 1 /\ w[n - 1].id \notin Insignificant /\ w[n].form # "wide"
                THEN BlanksUpTo(w, n - 1)
                ELSE BlanksUpTo(w, n - 1) \cup {n}
         /\ w[n].id = "Whitespace" => BlanksUpTo(w, n) = BlanksUpTo(w, n - 1)
         /\ w[n].id \notin {"Newline", "Whitespace"} => BlanksUpTo(w, n) = {}
<1> DEFINE Here(i) == /\ w[i].id = "Newline"
                      /\ i > 1 /\ w[i - 1].id \notin Insignificant => w[i].form = "wide"
           Open(i, m) == \A j \in i .. m : w[j].id \in {"Newline", "Whitespace"}
<1>1. \A m \in Nat : \A i : i \in BlanksUpTo(w, m) <=> i \in 1 .. m /\ Here(i) /\ Open(i, m)
  BY DEF BlanksUpTo
<1>2. ASSUME NEW i \in 1 .. n
      PROVE  Open(i, n) <=> w[n].id \in {"Newline", "Whitespace"} /\ Open(i, n - 1)
  <2>1. \A j : j \in i .. n <=> j = n \/ j \in i .. n - 1
    OBVIOUS
  <2>2. QED
    BY <2>1
<1> HIDE DEF Open
<1>3. ASSUME NEW i
      PROVE  i \in BlanksUpTo(w, n) <=>
               /\ w[n].id \in {"Newline", "Whitespace"}
               /\ i \in BlanksUpTo(w, n - 1) \/ (i = n /\ Here(n))
  <2>1. i \in 1 .. n <=> i \in 1 .. n - 1 \/ i = n
    OBVIOUS
  <2>2. Open(n, n - 1)
    BY DEF Open
  <2>3. i = n => i \notin 1 .. n - 1
    OBVIOUS
  <2> HIDE DEF Here
  <2>4. n - 1 \in Nat
    OBVIOUS
  <2>5. QED
    BY <1>1, <1>2, <2>1, <2>2, <2>3, <2>4
<1>4. Here(n) <=> w[n].id = "Newline" /\ ~(n > 1 /\ w[n - 1].id \notin Insignificant /\ w[n].form # "wide")
  OBVIOUS
<1> HIDE DEF Here
<1>5. CASE w[n].id = "Newline"
  BY <1>3, <1>4, <1>5
<1>6. CASE w[n].id = "Whitespace"
  BY <1>3, <1>4, <1>6
<1>7. CASE w[n].id \notin {"Newline", "Whitespace"}
  BY <1>3, <1>7
<1>8. QED
  BY <1>5, <1>6, <1>7

\* What the walk knows after i slots.
WalkedTo(w, i) ==
  [white |-> NewlineBytes(Cardinality(BlanksUpTo(w, i))),
   significant |-> i > 0 /\ w[i].id \notin Insignificant]

LEMMA WalkStep ==
  ASSUME NEW w, NEW n \in Nat, n > 0
  PROVE  WalkedTo(w, n) = WalkToken(WalkedTo(w, n - 1), w[n])
<1> DEFINE B == BlanksUpTo(w, n - 1)
           c == Cardinality(B)
           held == n > 1 /\ w[n - 1].id \notin Insignificant
           seen == WalkedTo(w, n - 1)
<1>1. n - 1 \in Nat /\ (n - 1 > 0 <=> n > 1)
  OBVIOUS
<1>2. IsFiniteSet(B) /\ c \in Nat
  BY <1>1, BlanksUpToFinite
<1>3. n \notin B
  BY DEF BlanksUpTo
<1>4. seen.white = NewlineBytes(c) /\ (seen.significant <=> held)
  BY <1>1 DEF WalkedTo
<1>5. Cardinality(B \cup {n}) = c + 1
  BY <1>2, <1>3, FS_AddElement
<1>6. (n > 0 /\ w[n].id \notin Insignificant) = (w[n].id \notin Insignificant)
  OBVIOUS
<1> HIDE DEF B, c, held, seen
<1>7. CASE w[n].id = "Newline"
  <2>1. CASE held /\ w[n].form # "wide"
    <3>1. BlanksUpTo(w, n) = B
      BY <1>7, <2>1, BlanksStep DEF B, held
    <3>2. WalkedTo(w, n) = [white |-> NewlineBytes(c), significant |-> w[n].id \notin Insignificant]
      BY <3>1, <1>6 DEF WalkedTo, c
    <3>3. WalkToken(seen, w[n]) =
            [white |-> NewlineBytes(c) \o << >>, significant |-> w[n].id \notin Insignificant]
      BY <1>4, <1>7, <2>1 DEF WalkToken
    <3>4. QED
      BY <3>2, <3>3, <1>2, NewlineBytesProperties DEF seen
  <2>2. CASE ~(held /\ w[n].form # "wide")
    <3>1. BlanksUpTo(w, n) = B \cup {n}
      BY <1>7, <2>2, BlanksStep DEF B, held
    <3>2. WalkedTo(w, n) = [white |-> NewlineBytes(c + 1), significant |-> w[n].id \notin Insignificant]
      BY <3>1, <1>5, <1>6 DEF WalkedTo
    <3>3. WalkToken(seen, w[n]) =
            [white |-> NewlineBytes(c) \o <<"nl">>, significant |-> w[n].id \notin Insignificant]
      BY <1>4, <1>7, <2>2 DEF WalkToken
    <3>4. QED
      BY <3>2, <3>3, <1>2, NewlineBytesProperties DEF seen
  <2>3. QED
    BY <2>1, <2>2
<1>8. CASE w[n].id = "Whitespace"
  <2>1. BlanksUpTo(w, n) = B
    BY <1>8, BlanksStep DEF B
  <2>2. WalkedTo(w, n) = [white |-> NewlineBytes(c), significant |-> w[n].id \notin Insignificant]
    BY <2>1, <1>6 DEF WalkedTo, c
  <2>3. WalkToken(seen, w[n]) =
          [white |-> NewlineBytes(c), significant |-> w[n].id \notin Insignificant]
    BY <1>4, <1>8 DEF WalkToken
  <2>4. QED
    BY <2>2, <2>3 DEF seen
<1>9. CASE w[n].id \notin {"Newline", "Whitespace"}
  <2>1. BlanksUpTo(w, n) = {}
    BY <1>9, BlanksStep
  <2>2. NewlineBytes(Cardinality({})) = << >>
    BY FS_EmptySet, NewlineBytesProperties
  <2>3. WalkedTo(w, n) = [white |-> << >>, significant |-> w[n].id \notin Insignificant]
    BY <2>1, <2>2, <1>6 DEF WalkedTo
  <2>4. WalkToken(seen, w[n]) = [white |-> << >>, significant |-> w[n].id \notin Insignificant]
    BY <1>9 DEF WalkToken
  <2>5. QED
    BY <2>3, <2>4 DEF seen
<1>10. QED
  BY <1>7, <1>8, <1>9

LEMMA WalkStart ==
  ASSUME NEW w
  PROVE  WalkedTo(w, 0) = WalkFrom
<1>1. BlanksUpTo(w, 0) = {}
  BY DEF BlanksUpTo
<1>2. NewlineBytes(Cardinality({})) = << >>
  BY FS_EmptySet, NewlineBytesProperties
<1>3. (0 > 0 /\ w[0].id \notin Insignificant) = FALSE
  OBVIOUS
<1>4. QED
  BY <1>1, <1>2, <1>3 DEF WalkedTo, WalkFrom

\* The loop of TrailingNewlines over any number of slots.
LEMMA WalkedWhiteIs ==
  ASSUME NEW r, NEW n \in Nat
  PROVE  WalkedWhite(r, n) = NewlineBytes(Cardinality(BlanksUpTo(FromOldest(r), n)))
<1> DEFINE w == FromOldest(r)
           G == [i \in 0 .. n |-> WalkedTo(w, i)]
           F == CHOOSE f : f = [i \in 0 .. n |->
                                  IF i = 0 THEN WalkFrom ELSE WalkToken(f[i - 1], w[i])]
<1>1. WalkedWhite(r, n) = F[n].white
  BY DEF WalkedWhite
<1> HIDE DEF w
<1>2. G = [i \in 0 .. n |-> IF i = 0 THEN WalkFrom ELSE WalkToken(G[i - 1], w[i])]
  <2>1. ASSUME NEW i \in 0 .. n
        PROVE  G[i] = IF i = 0 THEN WalkFrom ELSE WalkToken(G[i - 1], w[i])
    <3>1. CASE i = 0
      BY <3>1, WalkStart
    <3>2. CASE i # 0
      <4>1. i \in Nat /\ i > 0 /\ i - 1 \in 0 .. n
        BY <3>2
      <4>2. G[i] = WalkedTo(w, i) /\ G[i - 1] = WalkedTo(w, i - 1)
        BY <4>1
      <4>3. QED
        BY <4>1, <4>2, <3>2, WalkStep
    <3>3. QED
      BY <3>1, <3>2
  <2> HIDE DEF G
  <2>2. G = [i \in 0 .. n |-> G[i]]
    BY DEF G
  <2>3. QED
    BY <2>1, <2>2
<1> HIDE DEF G
<1>3. F = [i \in 0 .. n |-> IF i = 0 THEN WalkFrom ELSE WalkToken(F[i - 1], w[i])]
  BY <1>2
<1> HIDE DEF F
<1>4. \A i \in 0 .. n : F[i] = G[i]
  <2>1. F[0] = G[0]
    BY <1>2, <1>3
  <2>2. ASSUME NEW i \in 1 .. n, F[i - 1] = G[i - 1]
        PROVE  F[i] = G[i]
    <3>1. i \in 0 .. n /\ i # 0
      OBVIOUS
    <3>2. F[i] = WalkToken(F[i - 1], w[i]) /\ G[i] = WalkToken(G[i - 1], w[i])
      BY <3>1, <1>2, <1>3
    <3>3. QED
      BY <2>2, <3>2
  <2>3. QED
    BY <2>1, <2>2, LoopsAgree
<1>5. F[n] = WalkedTo(w, n)
  BY <1>4 DEF G
<1>6. QED
  BY <1>1, <1>5 DEF WalkedTo, w

(***************************************************************************)
(* The blank lines TrailingNewlines gathers as it walks the ring are those *)
(* the parser's model counts in one look at the window, for every ring:    *)
(* the model of the parser loses nothing by not walking.                   *)
(***************************************************************************)
THEOREM WalkCountsBlankLines ==
  ASSUME NEW r
  PROVE  TrailingNewlines(r) = BlankLines(r)
<1>1. RecentCount - 1 \in Nat
  BY RecentCountAssumption
<1>2. TrailingNewlines(r) = NewlineBytes(Cardinality(BlanksUpTo(FromOldest(r), RecentCount - 1)))
  BY <1>1, WalkedWhiteIs DEF TrailingNewlines
<1>3. QED
  BY <1>2 DEF BlankLines, BlanksUpTo, NewlineBytes

-----------------------------------------------------------------------------
(* The window and the stream *)

\* The place in the stream of what is i-th in the window
Back == Len(fed) - RecentCount

\* Only what was read is in the blank lines of the window, each where it stands.
LEMMA BlanksStandInStream ==
  ASSUME IInv, NEW i \in 1 .. RecentCount - 1
  PROVE  i \in BlanksUpTo(FromOldest(ring), RecentCount - 1) <=> i + Back \in BlankLinesOf(fed)
<1> DEFINE N == RecentCount
           L == Len(fed)
           w == FromOldest(ring)
<1>1. N \in Nat /\ N > 0 /\ L \in Nat /\ DOMAIN fed = 1 .. L
  BY RecentCountAssumption, LenProperties DEF IInv
<1>2. \A j \in 1 .. N : w[j] = IF L + j > N THEN fed[L + j - N] ELSE NoToken
  BY DEF IInv
<1>3. NoToken.id \notin Insignificant /\ NoToken.id # "Newline"
  BY DEF NoToken, Unknown, Insignificant
<1> HIDE DEF N, L, w
<1>4. CASE ~(L + i > N)
  <2>1. w[i] = NoToken
    BY <1>1, <1>2, <1>4 DEF N
  <2>2. i + Back \notin 1 .. L
    BY <1>1, <1>4 DEF N, L, Back
  <2> QED BY <1>1, <1>3, <2>1, <2>2 DEF BlanksUpTo, BlankLinesOf, InReach, w
<1>5. CASE L + i > N
  <2> DEFINE m == i + Back
  <2>1. m = L + i - N /\ m \in 1 .. L - 1 /\ m > L - N /\ i \in 1 .. N - 1 /\ i \in 1 .. N
    BY <1>1, <1>5 DEF N, L, Back
  <2>2. m \in InReach(fed)
    BY <1>1, <2>1 DEF InReach, N, L
  <2>3. w[i] = fed[m]
    BY <1>2, <1>5, <2>1
  <2> HIDE DEF m
  <2>4. (\A j \in i .. N - 1 : w[j].id \in {"Newline", "Whitespace"})
          <=> \A j \in m .. L - 1 : fed[j].id \in {"Newline", "Whitespace"}
    <3>1. ASSUME NEW j \in i .. N - 1
          PROVE  j + (L - N) \in m .. L - 1 /\ w[j] = fed[j + (L - N)]
      <4>1. j \in 1 .. N /\ L + j > N /\ L + j - N = j + (L - N)
        BY <1>1, <1>5, <2>1
      <4> QED BY <1>1, <1>2, <2>1, <4>1
    <3>2. ASSUME NEW j \in m .. L - 1
          PROVE  j - (L - N) \in i .. N - 1 /\ w[j - (L - N)] = fed[j]
      <4>1. j - (L - N) \in i .. N - 1 /\ (j - (L - N)) + (L - N) = j
        BY <1>1, <2>1
      <4> QED BY <3>1, <4>1
    <3> QED BY <3>1, <3>2
  <2>5. i > 1 /\ w[i - 1].id \notin Insignificant <=> EndsLine(fed, m)
    <3>1. i > 1 <=> m > L - N + 1
      BY <1>1, <2>1
    <3>2. ASSUME i > 1
          PROVE  w[i - 1].id \notin Insignificant <=> m = 1 \/ fed[m - 1].id \notin Insignificant
      <4>1. i - 1 \in 1 .. N
        BY <1>1, <2>1, <3>2
      <4>2. CASE m = 1
        <5>1. ~(L + (i - 1) > N)
          BY <1>1, <2>1, <4>2
        <5> QED BY <1>2, <1>3, <4>1, <4>2, <5>1
      <4>3. CASE m # 1
        <5>1. L + (i - 1) > N /\ L + (i - 1) - N = m - 1
          BY <1>1, <2>1, <4>3
        <5> QED BY <1>2, <4>1, <4>3, <5>1
      <4> QED BY <4>2, <4>3
    <3> QED BY <3>1, <3>2 DEF EndsLine, N, L
  <2>6. i \in BlanksUpTo(w, N - 1) <=>
          /\ w[i].id = "Newline"
          /\ \A j \in i .. N - 1 : w[j].id \in {"Newline", "Whitespace"}
          /\ i > 1 /\ w[i - 1].id \notin Insignificant => w[i].form = "wide"
    BY <2>1 DEF BlanksUpTo
  <2>7. m \in BlankLinesOf(fed) <=>
          /\ fed[m].id = "Newline"
          /\ \A j \in m .. L - 1 : fed[j].id \in {"Newline", "Whitespace"}
          /\ EndsLine(fed, m) => fed[m].form = "wide"
    BY <2>2 DEF BlankLinesOf, L
  <2> QED BY <2>3, <2>4, <2>5, <2>6, <2>7 DEF m, w, N
<1> QED BY <1>4, <1>5

\* There are as many in the one as in the other.
LEMMA BlanksAreAsMany ==
  ASSUME IInv
  PROVE  Cardinality(BlanksUpTo(FromOldest(ring), RecentCount - 1)) = Cardinality(BlankLinesOf(fed))
<1> DEFINE S == BlanksUpTo(FromOldest(ring), RecentCount - 1)
           T == BlankLinesOf(fed)
           f == [i \in S |-> i + Back]
<1>1. RecentCount \in Nat /\ Len(fed) \in Nat /\ Back \in Int /\ Back = Len(fed) - RecentCount
  BY RecentCountAssumption, LenProperties DEF IInv, Back
<1>2. IsFiniteSet(S) /\ S \subseteq 1 .. RecentCount - 1
  <2>1. RecentCount - 1 \in Nat
    BY RecentCountAssumption
  <2> QED BY <2>1, BlanksUpToFinite DEF BlanksUpTo
<1>3. \A i \in S : i \in Int /\ i + Back \in T
  BY <1>2, BlanksStandInStream
<1>4. ASSUME NEW m \in T PROVE m - Back \in S /\ (m - Back) + Back = m
  <2>1. m \in 1 .. Len(fed) /\ m < Len(fed) /\ m > Len(fed) - RecentCount
    BY LenProperties DEF BlankLinesOf, InReach, IInv
  <2>2. m - Back \in 1 .. RecentCount - 1 /\ (m - Back) + Back = m
    BY <1>1, <2>1
  <2> QED BY <2>2, BlanksStandInStream
<1> HIDE DEF S, T
<1>5. f \in Bijection(S, T)
  <2>1. f \in [S -> T]
    BY <1>3
  <2>2. \A a, b \in S : f[a] = f[b] => a = b
    BY <1>1, <1>3
  <2>3. \A m \in T : \E a \in S : f[a] = m
    BY <1>4
  <2> QED BY <2>1, <2>2, <2>3, Fun_IsBij
<1>6. Cardinality(S) = Cardinality(T)
  BY <1>2, <1>5, FS_Bijection DEF ExistsBijection
<1> QED BY <1>6 DEF S, T

(***************************************************************************)
(* What TrailingNewlines gathers are the blank lines of the stream itself, *)
(* in a ring of any size that has wrapped any number of times: the window  *)
(* is the end of the stream and the walk counts what it should in it.      *)
(***************************************************************************)
THEOREM BlankLinesAreGathered == Spec => []TrailingNewlinesAreBlankLines
<1>1. IInv => TrailingNewlinesAreBlankLines
  <2> SUFFICES ASSUME IInv PROVE TrailingNewlinesAreBlankLines
    OBVIOUS
  <2>1. RecentCount - 1 \in Nat
    BY RecentCountAssumption
  <2>2. TrailingNewlines(ring)
          = NewlineBytes(Cardinality(BlanksUpTo(FromOldest(ring), RecentCount - 1)))
    BY <2>1, WalkedWhiteIs DEF TrailingNewlines
  <2> QED BY <2>2, BlanksAreAsMany DEF TrailingNewlinesAreBlankLines, NewlineBytes
<1> QED BY Invariance, <1>1, PTL
=============================================================================
