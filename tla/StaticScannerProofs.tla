-------------------------- MODULE StaticScannerProofs --------------------------
(***************************************************************************)
(* The static scanner, for any number of goroutines, any texts and any     *)
(* recogniser: it keeps its type, and it implements the private scanners.  *)
(***************************************************************************)
EXTENDS StaticScanner, SequenceTheorems, TLAPS

-----------------------------------------------------------------------------
(***************************************************************************)
(* What the holder of the mutex relies on.  Before the scanner is laid out *)
(* nothing is known of it and the holder has been given nothing; then it   *)
(* is on the holder's text, behind what the holder got, and what is peeked *)
(* at is what comes next.                                                  *)
(***************************************************************************)
NothingGiven(c) == c.got = << >> /\ c.ahead = << >>

OnTextOf(c, sc) ==
  /\ sc.raw = c.text
  /\ sc.off = Len(c.got) /\ sc.off <= Len(sc.raw)
  /\ \A i \in 1 .. sc.off : c.got[i] = sc.raw[i]
  /\ sc.off + Len(sc.peeked) <= Len(sc.raw)
  /\ \A i \in 1 .. Len(sc.peeked) : sc.peeked[i] = sc.raw[sc.off + i]
  /\ sc.marks = IF sc.off = 0 THEN << >> ELSE <<0>>

CallsWait ==
  \A p \in Callers :
    call[p].phase = "scanning" /\ ~(lock = p /\ ready) => NothingGiven(call[p])

HolderOnItsText == ready => lock \in Callers /\ OnTextOf(call[lock], s)

IInv == TypeOK /\ CallsWait /\ HolderOnItsText

-----------------------------------------------------------------------------
LEMMA NothingYet ==
  /\ << >> \in Seq(Chars) /\ << >> \in Seq(Nat) /\ Len(<< >>) = 0
  /\ \A q \in Seq(Chars) : Len(q) \in Nat /\ (q # << >> => Len(q) > 0)
<1>1. << >> \in Seq(Chars) /\ Len(<< >>) = 0
  BY EmptySeq
<1>2. << >> \in Seq(Nat)
  BY EmptySeq
<1>3. ASSUME NEW q \in Seq(Chars) PROVE Len(q) \in Nat /\ (q # << >> => Len(q) > 0)
  BY EmptySeq, LenProperties
<1> QED BY <1>1, <1>2, <1>3

LEMMA TwoInARow ==
  ASSUME NEW a \in Chars, NEW b \in Chars
  PROVE  <<a>> \o <<b>> = <<a, b>>
<1>1. /\ <<a>> \in Seq(Chars) /\ <<b>> \in Seq(Chars) /\ <<a, b>> \in Seq(Chars)
      /\ Len(<<a>>) = 1 /\ Len(<<b>>) = 1 /\ Len(<<a, b>>) = 2
  OBVIOUS
<1>2. <<a>> \o <<b>> \in Seq(Chars) /\ Len(<<a>> \o <<b>>) = 2
  BY <1>1, ConcatProperties
<1>3. (<<a>> \o <<b>>)[1] = a /\ (<<a>> \o <<b>>)[2] = b
  BY <1>1, ConcatProperties
<1>4. <<a, b>>[1] = a /\ <<a, b>>[2] = b
  OBVIOUS
<1>5. \A i \in 1 .. 2 : (<<a>> \o <<b>>)[i] = <<a, b>>[i]
  <2>1. \A i \in 1 .. 2 : i = 1 \/ i = 2
    OBVIOUS
  <2> QED BY <1>3, <1>4, <2>1
<1> QED BY <1>1, <1>2, <1>5, SeqEqual

(***************************************************************************)
(* Peeking shows the holder of the mutex the next characters of its own    *)
(* text, whether they were peeked at before or not.                        *)
(***************************************************************************)
LEMMA PeekShowsOwnText ==
  ASSUME IInv, NEW p \in Callers, lock = p, ready
  PROVE  /\ First = Private!Upcoming(p, 1)
         /\ First # End => Second = Private!Upcoming(p, 2)
         /\ First \in Chars \cup {End} /\ Second \in Chars \cup {End}
         /\ First # End <=> s.off < Len(s.raw)
         /\ First # End => (Second # End <=> s.off + 1 < Len(s.raw))
         /\ First # End => First = s.raw[s.off + 1]
         /\ Second # End => Second = s.raw[s.off + 2]
<1>1. TypeOK /\ OnTextOf(call[p], s)
  BY DEF IInv, HolderOnItsText
<1>2. /\ s.raw = call[p].text /\ s.off = Len(call[p].got) /\ s.off \in Nat
      /\ s.raw \in Seq(Chars) /\ s.peeked \in Seq(Chars)
      /\ Len(s.peeked) \in Nat /\ Len(s.peeked) <= 2 /\ Len(s.raw) \in Nat
      /\ s.off + Len(s.peeked) <= Len(s.raw)
      /\ \A i \in 1 .. Len(s.peeked) : s.peeked[i] = s.raw[s.off + i]
  <2>1. s.off \in Nat /\ s.raw \in Seq(Chars) /\ s.peeked \in Seq(Chars) /\ Len(s.peeked) <= 2
    BY <1>1 DEF TypeOK
  <2>2. Len(s.peeked) \in Nat /\ Len(s.raw) \in Nat
    BY <2>1, LenProperties
  <2> QED BY <1>1, <2>1, <2>2 DEF OnTextOf
<1>3. \A i \in 1 .. 2 : /\ Input(i) = Private!Upcoming(p, i)
                        /\ Input(i) \in Chars \cup {End}
                        /\ Input(i) # End <=> s.off + i <= Len(s.raw)
  <2> SUFFICES ASSUME NEW i \in 1 .. 2
               PROVE  /\ Input(i) = Private!Upcoming(p, i)
                      /\ Input(i) \in Chars \cup {End}
                      /\ Input(i) # End <=> s.off + i <= Len(s.raw)
    OBVIOUS
  <2>1. Input(i) = Private!Upcoming(p, i)
    BY <1>2 DEF Input, Private!Upcoming
  <2>2. s.off + i \in 1 .. Len(s.raw) <=> s.off + i <= Len(s.raw)
    BY <1>2
  <2>3. s.off + i \in 1 .. Len(s.raw) => s.raw[s.off + i] \in Chars
    BY <1>2
  <2> QED BY <2>1, <2>2, <2>3, EndAssumption DEF Input
<1>4. First = Input(1)
  <2>1. CASE s.peeked = << >>
    BY <2>1 DEF First
  <2>2. CASE s.peeked # << >>
    <3>0. Len(s.peeked) > 0
      BY <1>2, <2>2, NothingYet
    <3>1. 1 \in 1 .. Len(s.peeked) /\ s.off + 1 \in 1 .. Len(s.raw)
      <4>1. \A n, m, k \in Nat : n > 0 /\ m + n <= k => 1 \in 1 .. n /\ m + 1 \in 1 .. k
        OBVIOUS
      <4> QED BY <1>2, <3>0, <4>1
    <3>2. s.peeked[1] = s.raw[s.off + 1]
      BY <1>2, <3>1
    <3> QED BY <2>2, <3>1, <3>2 DEF First, Input
  <2> QED BY <2>1, <2>2
<1>5. Second = Input(2)
  <2>1. CASE Len(s.peeked) = 2
    <3>1. 2 \in 1 .. Len(s.peeked) /\ s.off + 2 \in 1 .. Len(s.raw)
      BY <1>2, <2>1
    <3>2. s.peeked[2] = s.raw[s.off + 2]
      BY <1>2, <3>1
    <3> QED BY <2>1, <3>1, <3>2 DEF Second, Input
  <2>2. CASE Len(s.peeked) # 2
    BY <2>2 DEF Second
  <2> QED BY <2>1, <2>2
<1>6. \A i \in 1 .. 2 : Input(i) # End => Input(i) = s.raw[s.off + i]
  BY DEF Input
<1> QED BY <1>2, <1>3, <1>4, <1>5, <1>6

(***************************************************************************)
(* What a step of the holder keeps of the call it is in.                   *)
(***************************************************************************)
LEMMA HolderIsScanning ==
  ASSUME IInv, NEW p \in Callers, lock = p
  PROVE  call[p] \in CallType /\ call[p].phase = "scanning"
BY NobodyAssumption DEF IInv, TypeOK

LEMMA InvInit == Init => IInv
<1> SUFFICES ASSUME Init PROVE IInv
  OBVIOUS
<1>1. Idle \in CallType
  BY NothingYet DEF Idle, CallType, Answers, NoAnswer, Views
<1>2. TypeOK
  <2>1. s \in [raw : Seq(Chars), off : Nat, peeked : Seq(Chars), marks : Seq(Nat)]
    BY NothingYet DEF Init, NewScanner
  <2>2. Len(s.peeked) <= 2
    BY NothingYet DEF Init, NewScanner
  <2> QED BY <1>1, <2>1, <2>2 DEF Init, TypeOK
<1> QED BY <1>2 DEF Init, Idle, IInv, CallsWait, HolderOnItsText

(***************************************************************************)
(* A step that only touches the call of the holder, and keeps what it      *)
(* relies on, keeps the invariant.                                         *)
(***************************************************************************)
LEMMA HolderStep ==
  ASSUME IInv, NEW p \in Callers, lock = p, ready, NEW c \in CallType,
         c.phase = "scanning", Becomes(p, c), UNCHANGED <<lock, ready>>,
         s' \in [raw : Seq(Chars), off : Nat, peeked : Seq(Chars), marks : Seq(Nat)],
         Len(s'.peeked) <= 2, OnTextOf(c, s')
  PROVE  IInv'
<1>1. call' = [call EXCEPT ![p] = c] /\ call'[p] = c
  BY DEF Becomes, IInv, TypeOK
<1>2. TypeOK'
  <2>1. call' \in [Callers -> CallType]
    BY <1>1 DEF IInv, TypeOK
  <2>2. lock' # Nobody => call'[lock'].phase = "scanning"
    BY <1>1
  <2> QED BY <2>1, <2>2 DEF IInv, TypeOK
<1>3. CallsWait'
  BY <1>1 DEF IInv, TypeOK, CallsWait, NothingGiven
<1>4. HolderOnItsText'
  BY <1>1 DEF HolderOnItsText, OnTextOf
<1> QED BY <1>2, <1>3, <1>4 DEF IInv

(***************************************************************************)
(* A step that neither runs nor gives away the laid out scanner and only   *)
(* starts calls keeps the invariant; so does one that ends a call.         *)
(***************************************************************************)
LEMMA CallStep ==
  ASSUME IInv, NEW p \in Callers, Call(p)
  PROVE  IInv'
<1>1. PICK t \in Texts : Becomes(p, Asked(t))
  BY DEF Call
<1>2. Asked(t) \in CallType /\ NothingGiven(Asked(t)) /\ Asked(t).phase = "scanning"
  <2>1. NoAnswer \in Answers /\ << >> \in Views /\ t \in Seq(Chars)
    BY NothingYet, TextsAssumption DEF NoAnswer, Answers, Views
  <2> QED BY <2>1, NothingYet DEF Asked, CallType, NothingGiven
<1>3. /\ call' = [call EXCEPT ![p] = Asked(t)] /\ call'[p] = Asked(t)
      /\ UNCHANGED <<lock, ready, s>>
  BY <1>1 DEF Call, Becomes, IInv, TypeOK
<1>4. lock # p
  BY HolderIsScanning DEF Call
<1>5. TypeOK'
  <2>1. call' \in [Callers -> CallType]
    BY <1>2, <1>3 DEF IInv, TypeOK
  <2>2. lock' # Nobody => call'[lock'].phase = "scanning"
    BY <1>3, <1>4 DEF IInv, TypeOK
  <2> QED BY <1>3, <2>1, <2>2 DEF IInv, TypeOK
<1>6. CallsWait'
  BY <1>2, <1>3 DEF IInv, TypeOK, CallsWait, NothingGiven
<1>7. HolderOnItsText'
  BY <1>3, <1>4 DEF IInv, TypeOK, HolderOnItsText, OnTextOf
<1> QED BY <1>5, <1>6, <1>7 DEF IInv

LEMMA AcquireStep ==
  ASSUME IInv, NEW p \in Callers, Acquire(p)
  PROVE  IInv'
<1>1. TypeOK'
  BY DEF IInv, TypeOK, Acquire
<1>2. CallsWait'
  BY NobodyAssumption DEF IInv, TypeOK, CallsWait, HolderOnItsText, NothingGiven, Acquire
<1>3. HolderOnItsText'
  BY DEF HolderOnItsText, Acquire
<1> QED BY <1>1, <1>2, <1>3 DEF IInv

LEMMA LayOutStep ==
  ASSUME IInv, NEW p \in Callers, LayOut(p)
  PROVE  IInv'
<1>1. /\ call[p] \in CallType /\ call[p].phase = "scanning" /\ NothingGiven(call[p])
      /\ lock = p /\ UNCHANGED <<call, lock>> /\ ready' = TRUE
      /\ s' = [raw |-> call[p].text, off |-> 0, peeked |-> << >>, marks |-> << >>]
  BY HolderIsScanning DEF IInv, CallsWait, LayOut
<1>2. TypeOK'
  BY <1>1, NothingYet DEF IInv, TypeOK, CallType
<1>3. CallsWait'
  BY <1>1 DEF IInv, CallsWait, NothingGiven
<1>4. HolderOnItsText'
  <2>1. /\ s'.raw = call[p].text /\ s'.off = 0 /\ s'.peeked = << >> /\ s'.marks = << >>
        /\ call'[p] = call[p] /\ call[p].got = << >> /\ Len(call[p].text) \in Nat
    BY <1>1, LenProperties DEF NothingGiven, CallType
  <2>2. OnTextOf(call[p], s')
    BY <2>1, NothingYet DEF OnTextOf
  <2> QED BY <1>1, <2>2 DEF HolderOnItsText
<1> QED BY <1>2, <1>3, <1>4 DEF IInv

-----------------------------------------------------------------------------
(***************************************************************************)
(* What the holder does with its call is what it would do with a scanner   *)
(* of its own.                                                             *)
(***************************************************************************)
LEMMA HolderContext ==
  ASSUME IInv, NEW p \in Callers, lock = p, ready
  PROVE  /\ call[p] \in CallType /\ call[p].phase = "scanning" /\ OnTextOf(call[p], s)
         /\ call \in [Callers -> CallType]
         /\ s \in [raw : Seq(Chars), off : Nat, peeked : Seq(Chars), marks : Seq(Nat)]
         /\ Len(s.peeked) <= 2
         /\ Len(s.peeked) \in Nat /\ Len(s.raw) \in Nat /\ s.off \in Nat
<1>1. TypeOK /\ OnTextOf(call[p], s) /\ call[p] \in CallType /\ call[p].phase = "scanning"
  BY HolderIsScanning DEF IInv, HolderOnItsText
<1> QED BY <1>1, LenProperties DEF TypeOK

LEMMA ShownType ==
  ASSUME NEW c \in CallType, NEW v \in Views
  PROVE  /\ Shown(c, v) \in CallType
         /\ Shown(c, v).phase = c.phase /\ Shown(c, v).text = c.text
         /\ Shown(c, v).got = c.got
BY DEF Shown, CallType

LEMMA PeekStep ==
  ASSUME IInv, NEW p \in Callers, Peek(p)
  PROVE  IInv' /\ Private!Peek(p)
<1>1. lock = p /\ ready /\ UNCHANGED <<lock, ready>>
      /\ Becomes(p, Shown(call[p], <<First>>))
  BY DEF Peek, Wants
<1>2. /\ call[p] \in CallType /\ call[p].phase = "scanning" /\ OnTextOf(call[p], s)
      /\ s \in [raw : Seq(Chars), off : Nat, peeked : Seq(Chars), marks : Seq(Nat)]
      /\ Len(s.peeked) <= 2
      /\ Len(s.peeked) \in Nat /\ Len(s.raw) \in Nat /\ s.off \in Nat
  BY <1>1, HolderContext
<1>3. /\ First = Private!Upcoming(p, 1) /\ First \in Chars \cup {End}
      /\ First # End <=> s.off < Len(s.raw)
  BY <1>1, PeekShowsOwnText
<1>4. <<First>> \in Views
  BY <1>3 DEF Views
<1>5. Private!Peek(p)
  BY <1>1, <1>2, <1>3 DEF Peek, Wants, Becomes, Shown,
                          Private!Peek, Private!Wants, Private!Becomes, Private!Shown
<1>6. Shown(call[p], <<First>>) \in CallType /\ Shown(call[p], <<First>>).phase = "scanning"
      /\ Shown(call[p], <<First>>).text = call[p].text
      /\ Shown(call[p], <<First>>).got = call[p].got
  BY <1>2, <1>4, ShownType
<1>7. CASE s.peeked = << >> /\ First # End
  <2>1. s' = [s EXCEPT !.peeked = <<First>>]
    BY <1>7 DEF Peek, PeekedAt
  <2>2. <<First>> \in Seq(Chars) /\ Len(<<First>>) = 1 /\ <<First>>[1] = First
    BY <1>3, <1>7
  <2>3. First = s.raw[s.off + 1]
    BY <1>1, <1>7, PeekShowsOwnText
  <2>4. /\ s' \in [raw : Seq(Chars), off : Nat, peeked : Seq(Chars), marks : Seq(Nat)]
        /\ Len(s'.peeked) = 1 /\ s'.peeked[1] = First
        /\ s'.raw = s.raw /\ s'.off = s.off /\ s'.marks = s.marks
    BY <1>2, <2>1, <2>2
  <2>5. OnTextOf(Shown(call[p], <<First>>), s')
    <3>1. \A i \in 1 .. Len(s'.peeked) : s'.peeked[i] = s'.raw[s'.off + i]
      BY <2>3, <2>4
    <3>2. s'.off + Len(s'.peeked) <= Len(s'.raw)
      BY <1>2, <1>3, <1>7, <2>4
    <3> QED BY <1>2, <1>6, <2>4, <3>1, <3>2 DEF OnTextOf
  <2> QED BY <1>1, <1>5, <1>6, <2>4, <2>5, HolderStep
<1>8. CASE ~(s.peeked = << >> /\ First # End)
  <2>1. s' = s
    BY <1>2, <1>8 DEF Peek, PeekedAt
  <2>2. OnTextOf(Shown(call[p], <<First>>), s')
    BY <1>2, <1>6, <2>1 DEF OnTextOf
  <2> QED BY <1>1, <1>2, <1>5, <1>6, <2>1, <2>2, HolderStep
<1> QED BY <1>7, <1>8

LEMMA PeekTwoStep ==
  ASSUME IInv, NEW p \in Callers, PeekTwo(p)
  PROVE  IInv' /\ Private!PeekTwo(p)
<1> DEFINE v == IF First = End THEN <<End>> ELSE <<First, Second>>
           c == Shown(call[p], v)
<1>1. lock = p /\ ready /\ UNCHANGED <<lock, ready>> /\ Becomes(p, c)
      /\ s' = [s EXCEPT !.peeked = PeekedAtTwo(First, Second)]
  BY DEF PeekTwo, Wants
<1>2. /\ call[p] \in CallType /\ call[p].phase = "scanning" /\ OnTextOf(call[p], s)
      /\ s \in [raw : Seq(Chars), off : Nat, peeked : Seq(Chars), marks : Seq(Nat)]
      /\ Len(s.peeked) \in Nat /\ Len(s.raw) \in Nat /\ s.off \in Nat
  BY <1>1, HolderContext
<1>3. /\ First = Private!Upcoming(p, 1) /\ First \in Chars \cup {End}
      /\ First # End => Second = Private!Upcoming(p, 2)
      /\ Second \in Chars \cup {End}
      /\ First # End <=> s.off < Len(s.raw)
      /\ First # End => (Second # End <=> s.off + 1 < Len(s.raw))
      /\ First # End => First = s.raw[s.off + 1]
      /\ Second # End => Second = s.raw[s.off + 2]
  BY <1>1, PeekShowsOwnText
<1>4. v \in Views
  BY <1>3 DEF Views
<1>5. Private!PeekTwo(p)
  <2>1. v = IF Private!Upcoming(p, 1) = End THEN <<End>>
            ELSE <<Private!Upcoming(p, 1), Private!Upcoming(p, 2)>>
    BY <1>3
  <2>2. Recognise(call[p].got, call[p].ahead) = "peekTwo"
    BY DEF PeekTwo, Wants
  <2> QED BY <1>1, <1>2, <2>1, <2>2 DEF Becomes, Shown, Private!PeekTwo, Private!Wants,
                                       Private!Becomes, Private!Shown
<1>6. c \in CallType /\ c.phase = "scanning" /\ c.text = call[p].text /\ c.got = call[p].got
  BY <1>2, <1>4, ShownType
<1>7. /\ PeekedAtTwo(First, Second) \in Seq(Chars)
      /\ Len(PeekedAtTwo(First, Second)) <= 2
      /\ s.off + Len(PeekedAtTwo(First, Second)) <= Len(s.raw)
      /\ \A i \in 1 .. Len(PeekedAtTwo(First, Second)) :
           PeekedAtTwo(First, Second)[i] = s.raw[s.off + i]
  <2>1. CASE First = End
    <3>1. PeekedAtTwo(First, Second) = << >>
      BY <2>1 DEF PeekedAtTwo, PeekedAt
    <3> QED BY <1>2, <3>1, NothingYet DEF OnTextOf
  <2>2. CASE First # End /\ Second = End
    <3>1. PeekedAtTwo(First, Second) = <<First>>
      BY <2>2 DEF PeekedAtTwo, PeekedAt
    <3>2. <<First>> \in Seq(Chars) /\ Len(<<First>>) = 1 /\ <<First>>[1] = First
      BY <1>3, <2>2
    <3>3. First = s.raw[s.off + 1] /\ s.off + 1 <= Len(s.raw)
      BY <1>2, <1>3, <2>2
    <3>4. \A i \in 1 .. 1 : <<First>>[i] = s.raw[s.off + i]
      BY <3>2, <3>3
    <3> QED BY <3>1, <3>2, <3>3, <3>4
  <2>3. CASE First # End /\ Second # End
    <3>1. PeekedAtTwo(First, Second) = <<First, Second>>
      <4>1. PeekedAtTwo(First, Second) = <<First>> \o <<Second>>
        BY <2>3 DEF PeekedAtTwo, PeekedAt
      <4> QED BY <4>1, <1>3, <2>3, TwoInARow
    <3>2. /\ <<First, Second>> \in Seq(Chars) /\ Len(<<First, Second>>) = 2
          /\ <<First, Second>>[1] = First /\ <<First, Second>>[2] = Second
      BY <1>3, <2>3
    <3>3. /\ First = s.raw[s.off + 1] /\ Second = s.raw[s.off + 2]
          /\ s.off + 2 <= Len(s.raw)
      BY <1>2, <1>3, <2>3
    <3>4. \A i \in 1 .. 2 : <<First, Second>>[i] = s.raw[s.off + i]
      BY <3>2, <3>3
    <3> QED BY <3>1, <3>2, <3>3, <3>4
  <2> QED BY <2>1, <2>2, <2>3
<1>8. /\ s' \in [raw : Seq(Chars), off : Nat, peeked : Seq(Chars), marks : Seq(Nat)]
      /\ s'.peeked = PeekedAtTwo(First, Second)
      /\ s'.raw = s.raw /\ s'.off = s.off /\ s'.marks = s.marks
  BY <1>1, <1>2, <1>7
<1>9. OnTextOf(c, s')
  BY <1>2, <1>6, <1>7, <1>8 DEF OnTextOf
<1> HIDE DEF c
<1> QED BY <1>1, <1>5, <1>6, <1>7, <1>8, <1>9, HolderStep

LEMMA GetStep ==
  ASSUME IInv, NEW p \in Callers, Get(p)
  PROVE  IInv' /\ Private!Get(p)
<1> DEFINE c == IF First = End THEN Shown(call[p], <<End>>) ELSE Given(call[p], First)
<1>1. lock = p /\ ready /\ UNCHANGED <<lock, ready>> /\ Becomes(p, c)
  BY DEF Get, Wants
<1>2. /\ call[p] \in CallType /\ call[p].phase = "scanning" /\ OnTextOf(call[p], s)
      /\ s \in [raw : Seq(Chars), off : Nat, peeked : Seq(Chars), marks : Seq(Nat)]
      /\ Len(s.peeked) <= 2
      /\ Len(s.peeked) \in Nat /\ Len(s.raw) \in Nat /\ s.off \in Nat
  BY <1>1, HolderContext
<1>3. /\ First = Private!Upcoming(p, 1) /\ First \in Chars \cup {End}
      /\ First # End <=> s.off < Len(s.raw)
      /\ First # End => First = s.raw[s.off + 1]
  BY <1>1, PeekShowsOwnText
<1>4. Private!Get(p)
  <2>1. Recognise(call[p].got, call[p].ahead) = "get"
    BY DEF Get, Wants
  <2> QED BY <1>1, <1>2, <1>3, <2>1
             DEF Becomes, Shown, Given, Private!Get, Private!Wants, Private!Becomes,
                 Private!Shown, Private!Given
<1>5. CASE First = End
  <2>1. s' = s /\ c = Shown(call[p], <<End>>)
    BY <1>5 DEF Get
  <2>2. <<End>> \in Views
    BY DEF Views
  <2>3. c \in CallType /\ c.phase = "scanning" /\ c.text = call[p].text /\ c.got = call[p].got
    BY <1>2, <2>1, <2>2, ShownType
  <2>4. OnTextOf(c, s')
    BY <1>2, <2>1, <2>3 DEF OnTextOf
  <2> HIDE DEF c
  <2> QED BY <1>1, <1>2, <1>4, <2>1, <2>3, <2>4, HolderStep
<1>6. CASE First # End
  <2>1. s' = [s EXCEPT !.off = @ + 1,
                       !.peeked = IF @ = << >> THEN @ ELSE Tail(@),
                       !.marks = IF @ = << >> THEN <<s.off>> ELSE @]
    BY <1>6 DEF Get
  <2>2. c = Given(call[p], First) /\ First \in Chars
    BY <1>3, <1>6
  <2>3. /\ c \in CallType /\ c.phase = "scanning" /\ c.text = call[p].text
        /\ c.got = Append(call[p].got, First)
    <3>1. call[p].got \in Seq(Chars)
      BY <1>2 DEF CallType
    <3>2. Append(call[p].got, First) \in Seq(Chars) /\ << >> \in Views
      BY <2>2, <3>1, AppendProperties DEF Views
    <3> QED BY <1>2, <2>2, <3>2 DEF Given, CallType
  <2>4. /\ Len(c.got) = s.off + 1 /\ \A i \in 1 .. s.off : c.got[i] = call[p].got[i]
        /\ c.got[s.off + 1] = First
    <3>1. call[p].got \in Seq(Chars) /\ s.off = Len(call[p].got)
      BY <1>2 DEF CallType, OnTextOf
    <3> QED BY <2>2, <2>3, <3>1, AppendProperties
  <2>5. \A i \in 1 .. s.off + 1 : c.got[i] = s.raw[i]
    <3>1. \A n \in Nat : \A i \in 1 .. n + 1 : i = n + 1 \/ i \in 1 .. n
      OBVIOUS
    <3>2. \A i \in 1 .. s.off : call[p].got[i] = s.raw[i]
      BY <1>2 DEF OnTextOf
    <3> HIDE DEF c
    <3> QED BY <1>2, <1>3, <1>6, <2>4, <3>1, <3>2
  <2> DEFINE rest == IF s.peeked = << >> THEN s.peeked ELSE Tail(s.peeked)
  <2>6. /\ rest \in Seq(Chars) /\ Len(rest) \in Nat /\ Len(rest) <= 2
        /\ s.off + 1 + Len(rest) <= Len(s.raw)
        /\ \A i \in 1 .. Len(rest) : rest[i] = s.raw[s.off + 1 + i]
    <3>1. CASE s.peeked = << >>
      <4>1. rest = << >> /\ rest \in Seq(Chars) /\ Len(rest) = 0
        BY <3>1, NothingYet
      <4>2. s.off + 1 <= Len(s.raw)
        BY <1>2, <1>3, <1>6
      <4>3. \A i \in 1 .. 0 : FALSE
        OBVIOUS
      <4> HIDE DEF rest
      <4> QED BY <1>2, <4>1, <4>2, <4>3
    <3>2. CASE s.peeked # << >>
      <4>1. /\ rest = Tail(s.peeked) /\ rest \in Seq(Chars) /\ Len(rest) = Len(s.peeked) - 1
            /\ Len(s.peeked) \in Nat \ {0}
            /\ \A i \in 1 .. Len(rest) : rest[i] = s.peeked[i + 1]
        BY <1>2, <3>2, HeadTailProperties, EmptySeq
      <4>2. \A i \in 1 .. Len(rest) : i + 1 \in 1 .. Len(s.peeked)
        BY <4>1
      <4>3. \A j \in 1 .. Len(s.peeked) : s.peeked[j] = s.raw[s.off + j]
        BY <1>2 DEF OnTextOf
      <4>4. ASSUME NEW i \in 1 .. Len(rest) PROVE rest[i] = s.raw[s.off + 1 + i]
        <5>1. s.off + (i + 1) = s.off + 1 + i
          BY <1>2, <4>1
        <5> QED BY <4>1, <4>2, <4>3, <5>1
      <4>5. s.off + Len(s.peeked) <= Len(s.raw)
        BY <1>2 DEF OnTextOf
      <4>6. \A n \in Nat \ {0}, m, k \in Nat :
              n <= 2 /\ m + n <= k => n - 1 \in Nat /\ n - 1 <= 2 /\ m + 1 + (n - 1) <= k
        OBVIOUS
      <4>7. Len(rest) \in Nat /\ Len(rest) <= 2 /\ s.off + 1 + Len(rest) <= Len(s.raw)
        BY <1>2, <4>1, <4>5, <4>6
      <4> QED BY <4>1, <4>4, <4>7
    <3> QED BY <3>1, <3>2
  <2>7. s.marks = IF s.off = 0 THEN << >> ELSE <<0>>
    BY <1>2 DEF OnTextOf
  <2>8. (IF s.marks = << >> THEN <<s.off>> ELSE s.marks) = <<0>>
    BY <1>2, <2>7
  <2>9. /\ s' \in [raw : Seq(Chars), off : Nat, peeked : Seq(Chars), marks : Seq(Nat)]
        /\ s'.raw = s.raw /\ s'.off = s.off + 1 /\ s'.peeked = rest /\ s'.marks = <<0>>
    <3>1. s.off + 1 \in Nat
      BY <1>2
    <3>2. s' = [s EXCEPT !.off = s.off + 1, !.peeked = rest, !.marks = <<0>>]
      BY <2>1, <2>8
    <3>3. <<0>> \in Seq(Nat)
      OBVIOUS
    <3> HIDE DEF rest
    <3> QED BY <1>2, <2>6, <3>1, <3>2, <3>3
  <2>10. OnTextOf(c, s')
    <3> HIDE DEF c, rest
    <3>1. s.off + 1 <= Len(s.raw) /\ s.off + 1 # 0 /\ s.raw = call[p].text
      BY <1>2, <1>3, <1>6 DEF OnTextOf
    <3> QED BY <2>3, <2>4, <2>5, <2>6, <2>9, <3>1 DEF OnTextOf
  <2> HIDE DEF c, rest
  <2> QED BY <1>1, <1>4, <2>3, <2>6, <2>9, <2>10, HolderStep
<1> QED BY <1>5, <1>6

(***************************************************************************)
(* The end of a call gives the caller the text it was given character by   *)
(* character, and leaves the mutex to the others.                          *)
(***************************************************************************)
LEMMA ReturnStep ==
  ASSUME IInv, NEW p \in Callers, lock = p, ready, NEW a \in Answers, Return(p, a)
  PROVE  IInv'
<1>1. /\ call[p] \in CallType /\ call \in [Callers -> CallType]
      /\ s \in [raw : Seq(Chars), off : Nat, peeked : Seq(Chars), marks : Seq(Nat)]
      /\ Len(s.peeked) <= 2
  BY HolderContext
<1>2. /\ call' = [call EXCEPT ![p] = Answered(call[p], a)]
      /\ s' = [s EXCEPT !.marks = << >>] /\ lock' = Nobody /\ ready' = FALSE
  BY DEF Return, Becomes
<1>3. Answered(call[p], a) \in CallType /\ Answered(call[p], a).phase = "idle"
  BY <1>1 DEF Answered, CallType
<1>4. TypeOK'
  <2>1. call' \in [Callers -> CallType]
    BY <1>1, <1>2, <1>3
  <2>2. s' \in [raw : Seq(Chars), off : Nat, peeked : Seq(Chars), marks : Seq(Nat)]
        /\ Len(s'.peeked) <= 2
    BY <1>1, <1>2, NothingYet
  <2> QED BY <1>2, <2>1, <2>2 DEF TypeOK
<1>5. CallsWait'
  <2> SUFFICES ASSUME NEW q \in Callers, call'[q].phase = "scanning"
               PROVE  NothingGiven(call'[q])
    BY DEF CallsWait, NothingGiven
  <2>1. q # p /\ call'[q] = call[q]
    BY <1>1, <1>2, <1>3
  <2> QED BY <2>1 DEF IInv, CallsWait, NothingGiven
<1>6. HolderOnItsText'
  BY <1>2 DEF HolderOnItsText
<1> QED BY <1>4, <1>5, <1>6 DEF IInv

LEMMA StopStep ==
  ASSUME IInv, NEW p \in Callers, Stop(p)
  PROVE  IInv' /\ Private!Stop(p)
<1>1. /\ lock = p /\ ready /\ Recognise(call[p].got, call[p].ahead) = "stop"
      /\ Return(p, Token(FromMark))
  BY DEF Stop, Wants
<1>2. /\ call[p] \in CallType /\ call[p].phase = "scanning" /\ OnTextOf(call[p], s)
      /\ s \in [raw : Seq(Chars), off : Nat, peeked : Seq(Chars), marks : Seq(Nat)]
      /\ Len(s.raw) \in Nat /\ s.off \in Nat
  BY <1>1, HolderContext
<1>3. /\ call[p].got \in Seq(Chars) /\ call[p].ahead \in Views
      /\ s.raw \in Seq(Chars) /\ s.off = Len(call[p].got) /\ s.off <= Len(s.raw)
      /\ \A i \in 1 .. s.off : call[p].got[i] = s.raw[i]
  BY <1>2 DEF OnTextOf, CallType
<1>4. call[p].got # << >>
  BY <1>1, <1>3, RecogniseAssumption
<1>5. s.marks = <<0>> /\ s.marks[Len(s.marks)] + 1 = 1
  <2>1. s.off # 0
    BY <1>3, <1>4, NothingYet
  <2> QED BY <1>2, <2>1 DEF OnTextOf
<1>6. FromMark = SubSeq(s.raw, 1, s.off)
  BY <1>5 DEF FromMark
<1>7. FromMark = call[p].got
  <2> DEFINE m == SubSeq(s.raw, 1, s.off)
  <2>1. \A i \in 1 .. s.off : i \in 1 .. Len(s.raw)
    BY <1>2, <1>3
  <2>2. m \in Seq(Chars) /\ Len(m) = s.off /\ \A i \in 1 .. s.off : m[i] = s.raw[i]
    BY <1>2, <1>3
  <2> HIDE DEF m
  <2>3. m = call[p].got
    BY <1>3, <2>2, SeqEqual
  <2> QED BY <1>6, <2>3 DEF m
<1>8. Token(FromMark) \in Answers
  BY <1>3, <1>7 DEF Token, Answers
<1>9. Private!Stop(p)
  BY <1>1, <1>2, <1>7 DEF Return, Becomes, Answered, Token, Private!Stop, Private!Wants,
                          Private!Becomes, Private!Answered, Private!Token
<1> QED BY <1>1, <1>8, <1>9, ReturnStep

LEMMA FailStep ==
  ASSUME IInv, NEW p \in Callers, Fail(p)
  PROVE  IInv' /\ Private!Fail(p)
<1>1. /\ lock = p /\ ready /\ Recognise(call[p].got, call[p].ahead) = "fail"
      /\ Return(p, Error)
  BY DEF Fail, Wants
<1>2. call[p].phase = "scanning"
  BY <1>1, HolderContext
<1>3. Error \in Answers
  BY NothingYet DEF Error, Answers
<1>4. Private!Fail(p)
  BY <1>1, <1>2 DEF Return, Becomes, Answered, Error, Private!Fail, Private!Wants,
                    Private!Becomes, Private!Answered, Private!Error
<1> QED BY <1>1, <1>3, <1>4, ReturnStep

-----------------------------------------------------------------------------
LEMMA InvNext == IInv /\ [Next]_vars => IInv' /\ [Private!Next]_(Private!vars)
<1> SUFFICES ASSUME IInv, [Next]_vars PROVE IInv' /\ [Private!Next]_(Private!vars)
  OBVIOUS
<1>1. CASE UNCHANGED vars
  BY <1>1 DEF vars, IInv, TypeOK, CallsWait, HolderOnItsText, OnTextOf, NothingGiven,
              Private!vars
<1>2. ASSUME NEW p \in Callers, Call(p) PROVE IInv' /\ Private!Next
  <2>1. Private!Call(p)
    BY <1>2 DEF Call, Becomes, Asked, NoAnswer, Private!Call, Private!Becomes,
                Private!Asked, Private!NoAnswer
  <2> QED BY <1>2, <2>1, CallStep DEF Private!Next
<1>3. ASSUME NEW p \in Callers, Acquire(p) PROVE IInv' /\ UNCHANGED call
  BY <1>3, AcquireStep DEF Acquire
<1>4. ASSUME NEW p \in Callers, LayOut(p) PROVE IInv' /\ UNCHANGED call
  BY <1>4, LayOutStep DEF LayOut
<1>5. ASSUME NEW p \in Callers, Peek(p) PROVE IInv' /\ Private!Next
  BY <1>5, PeekStep DEF Private!Next, Private!Scan
<1>6. ASSUME NEW p \in Callers, PeekTwo(p) PROVE IInv' /\ Private!Next
  BY <1>6, PeekTwoStep DEF Private!Next, Private!Scan
<1>7. ASSUME NEW p \in Callers, Get(p) PROVE IInv' /\ Private!Next
  BY <1>7, GetStep DEF Private!Next, Private!Scan
<1>8. ASSUME NEW p \in Callers, Stop(p) PROVE IInv' /\ Private!Next
  BY <1>8, StopStep DEF Private!Next, Private!Scan
<1>9. ASSUME NEW p \in Callers, Fail(p) PROVE IInv' /\ Private!Next
  BY <1>9, FailStep DEF Private!Next, Private!Scan
<1> QED
  BY <1>1, <1>2, <1>3, <1>4, <1>5, <1>6, <1>7, <1>8, <1>9 DEF Next, Holder, Private!vars

(***************************************************************************)
(* For any number of goroutines, any texts and any recogniser, the shared  *)
(* scanner keeps its type and the mutex is held only from within a call.   *)
(***************************************************************************)
THEOREM TypeCorrect == Spec => []TypeOK
<1>1. IInv => TypeOK
  BY DEF IInv
<1> QED BY InvInit, InvNext, <1>1, PTL DEF Spec

(***************************************************************************)
(* For any number of goroutines, any texts and any recogniser, each caller *)
(* of ScanOne is answered the error, or the token ID and Data, a scanner   *)
(* of its own would have given: every step of the shared scanner is a step *)
(* of the private ones, or does not show (the safety part of               *)
(* ImplementsPrivateScanner).  It says nothing of a token's Line and       *)
(* Column, which earlier calls do reach.                                   *)
(***************************************************************************)
THEOREM StaticImplementsPrivate == Spec => Private!Spec
<1>1. Init => Private!Init
  BY DEF Init, Idle, NoAnswer, Private!Init, Private!Idle, Private!NoAnswer
<1> QED BY InvInit, InvNext, <1>1, PTL DEF Spec, Private!Spec
=============================================================================
