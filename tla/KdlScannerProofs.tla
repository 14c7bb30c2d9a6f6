--------------------------- MODULE KdlScannerProofs ---------------------------
(***************************************************************************)
(* The scanner's buffer, for documents of any length and encoding, runes   *)
(* and buffers of any size and marks of any depth: the scanner keeps its   *)
(* type, characters are those of the document, and marked text and the     *)
(* tokens of small documents stay what they are.                           *)
(***************************************************************************)
EXTENDS KdlScanner, SequenceTheorems, TLAPS

-----------------------------------------------------------------------------
(***************************************************************************)
(* The inductive invariant.  The operators of the scanner take it through  *)
(* states in the middle of an action, so it is stated of a scanner t from  *)
(* which n bytes of the document were consumed.                            *)
(***************************************************************************)
ByteArrays == UNION { [cap : {c}, at : [0 .. c - 1 -> 0 .. Len(doc)]] : c \in Nat }

Scanners ==
  [mem : Seq(ByteArrays), raw : Nat, off : Nat, peeked : Seq(Rune),
   marks : Seq([off : Nat, pos : Nat]), r : {NoReader} \cup 0 .. Len(doc),
   failed : BOOLEAN]

Cap(t)   == Last(t.mem).cap
Cells(t) == Last(t.mem).at

PeekedFit(t) ==
  /\ Len(t.peeked) <= 2
  /\ t.peeked # << >> => t.off + t.peeked[1].size <= t.raw
  /\ Len(t.peeked) = 2 => t.off + t.peeked[1].size + t.peeked[2].size <= t.raw

MarksInOrder(t, n) ==
  \A k \in DOMAIN t.marks :
    /\ t.marks[k].off <= t.off /\ t.marks[k].pos <= n
    /\ \A j \in 1 .. k : t.marks[j].off <= t.marks[k].off

\* What holds whatever the reader did
Sound(t, n) ==
  /\ doc \in Documents /\ n \in Nat /\ t \in Scanners
  /\ t.mem # << >> /\ BufferSize <= Cap(t)
  /\ t.raw <= Cap(t) /\ t.off <= t.raw
  /\ n + Unread(t) <= Len(doc)
  /\ \A i \in 0 .. t.raw - 1 : Cells(t)[i] \in 1 .. Len(doc)
  /\ t.r # NoReader => ~t.failed /\ t.r = n + Unread(t)
  /\ PeekedFit(t)
  /\ MarksInOrder(t, n)

MarksExact(t, n) ==
  \A k \in DOMAIN t.marks : t.off - t.marks[k].off = n - t.marks[k].pos

\* What holds until a refill gets nothing
Exact(t, n) ==
  /\ \A i \in 0 .. t.raw - 1 : Cells(t)[i] = i + 1 + n - t.off
  /\ t.r = NoReader => n + Unread(t) = Len(doc)
  /\ t.r # NoReader => Unread(t) > UTFMax
  /\ t.peeked # << >> => t.peeked[1] = CharacterAfter(n)
  /\ Len(t.peeked) = 2 => t.peeked[2] = CharacterAfter(n + t.peeked[1].size)
  /\ MarksExact(t, n)

Good(t, n) == Sound(t, n) /\ (~t.failed => Exact(t, n))

\* The tokens of a document that fits the buffer are slices of one array.
Slice == [array : {1}, lo : Nat, hi : Nat, copy : {<< >>}, from : Nat, to : Nat]

SmallDocument ==
  Len(doc) < BufferSize =>
    /\ s.r = NoReader /\ Len(s.mem) = 1 /\ (Scanning => ~s.failed)
    /\ held \in Seq(Slice) /\ HeldTokensHaveTheirText

IInv ==
  /\ Good(s, read) /\ SmallDocument
  /\ readerFails \in BOOLEAN /\ outcome \in {"scanning", "end", "error"}

-----------------------------------------------------------------------------
(* Sequences and arrays *)

LEMMA LastIsElement ==
  ASSUME NEW S, NEW m \in Seq(S), m # << >>
  PROVE  Last(m) \in S /\ Len(m) \in Nat \ {0} /\ DOMAIN m = 1 .. Len(m)
<1>1. Len(m) \in Nat \ {0} /\ DOMAIN m = 1 .. Len(m)
  BY EmptySeq, LenProperties
<1>2. m[Len(m)] \in S
  BY <1>1, ElementOfSeq
<1> QED BY <1>1, <1>2 DEF Last

LEMMA LastReplaced ==
  ASSUME NEW S, NEW m \in Seq(S), m # << >>, NEW a \in S
  PROVE  /\ Front(m) \o <<a>> \in Seq(S)
         /\ Front(m) \o <<a>> # << >>
         /\ Len(Front(m) \o <<a>>) = Len(m)
         /\ Last(Front(m) \o <<a>>) = a
<1>1. Len(m) \in Nat \ {0} /\ DOMAIN m = 1 .. Len(m)
  BY LastIsElement
<1>2. Front(m) \in Seq(S) /\ Len(Front(m)) = Len(m) - 1
  BY <1>1, SubSeqProperties DEF Front
<1>3. <<a>> \in Seq(S) /\ Len(<<a>>) = 1 /\ <<a>>[1] = a
  OBVIOUS
<1>4. /\ Front(m) \o <<a>> \in Seq(S)
      /\ Len(Front(m) \o <<a>>) = Len(Front(m)) + Len(<<a>>)
  BY <1>2, <1>3, ConcatProperties
<1>5. (Front(m) \o <<a>>)[Len(m)] = <<a>>[Len(m) - Len(Front(m))]
  <2>1. Len(m) \in 1 .. Len(Front(m)) + Len(<<a>>) /\ ~ (Len(m) <= Len(Front(m)))
    BY <1>1, <1>2, <1>3
  <2> QED BY <1>2, <1>3, <2>1, ConcatProperties
<1>6. Len(m) - Len(Front(m)) = 1 /\ Len(Front(m) \o <<a>>) = Len(m)
  <2>1. Len(<<a>>) = 1
    BY <1>3
  <2>2. \A x, y, z, l \in Int : x = y - 1 /\ z = 1 /\ l = x + z => y - x = 1 /\ l = y
    OBVIOUS
  <2>3. Len(Front(m)) \in Int /\ Len(m) \in Int /\ Len(<<a>>) \in Int
    BY <1>1, <1>2, <2>1
  <2>4. Len(Front(m) \o <<a>>) \in Int
    BY <1>4, LenProperties
  <2> QED BY <1>2, <1>4, <2>1, <2>2, <2>3, <2>4
<1>7. Front(m) \o <<a>> # << >>
  BY <1>1, <1>4, <1>6, EmptySeq
<1> QED BY <1>3, <1>4, <1>5, <1>6, <1>7 DEF Last

LEMMA LastAdded ==
  ASSUME NEW S, NEW m \in Seq(S), NEW a \in S
  PROVE  /\ m \o <<a>> \in Seq(S)
         /\ m \o <<a>> # << >>
         /\ Last(m \o <<a>>) = a
<1>1. Len(m) \in Nat
  BY LenProperties
<1>2. <<a>> \in Seq(S) /\ Len(<<a>>) = 1 /\ <<a>>[1] = a
  OBVIOUS
<1>3. /\ m \o <<a>> \in Seq(S)
      /\ Len(m \o <<a>>) = Len(m) + 1
      /\ (m \o <<a>>)[Len(m) + 1] = <<a>>[1]
  BY <1>1, <1>2, ConcatProperties
<1> QED BY <1>1, <1>2, <1>3, EmptySeq DEF Last

LEMMA DocumentShape ==
  ASSUME doc \in Documents
  PROVE  Len(doc) \in Nat /\ \A i \in 1 .. Len(doc) : doc[i] \in 0 .. UTFMax
BY DocumentsAssumption, LenProperties, ElementOfSeq

LEMMA ArrayShape ==
  ASSUME NEW a \in ByteArrays
  PROVE  /\ a = [cap |-> a.cap, at |-> a.at]
         /\ a.cap \in Nat /\ a.at \in [0 .. a.cap - 1 -> 0 .. Len(doc)]
<1>1. PICK c \in Nat : a \in [cap : {c}, at : [0 .. c - 1 -> 0 .. Len(doc)]]
  BY DEF ByteArrays
<1> QED BY <1>1

LEMMA ShapeOfArray ==
  ASSUME NEW c \in Nat, NEW f \in [0 .. c - 1 -> 0 .. Len(doc)]
  PROVE  [cap |-> c, at |-> f] \in ByteArrays
BY DEF ByteArrays

LEMMA BufferShape ==
  ASSUME NEW t, t \in Scanners, t.mem # << >>
  PROVE  /\ Last(t.mem) \in ByteArrays
         /\ Last(t.mem) = [cap |-> Cap(t), at |-> Cells(t)]
         /\ Cap(t) \in Nat /\ Cells(t) \in [0 .. Cap(t) - 1 -> 0 .. Len(doc)]
<1>1. t.mem \in Seq(ByteArrays)
  BY DEF Scanners
<1>2. Last(t.mem) \in ByteArrays
  BY <1>1, LastIsElement
<1> QED BY <1>2, ArrayShape DEF Cap, Cells

-----------------------------------------------------------------------------
(* refill *)

LEMMA MarkShape ==
  ASSUME NEW m \in Seq([off : Nat, pos : Nat]), NEW k \in DOMAIN m
  PROVE  /\ m[k] = [off |-> m[k].off, pos |-> m[k].pos]
         /\ m[k].off \in Nat /\ m[k].pos \in Nat
<1>1. m[k] \in [off : Nat, pos : Nat]
  BY LenProperties, ElementOfSeq
<1> QED BY <1>1

LEMMA KeptFromIsBeforeInput ==
  ASSUME NEW t, NEW n, Sound(t, n)
  PROVE  /\ KeptFrom(t) \in 0 .. t.off
         /\ Retained(t) \in Unread(t) .. t.raw
         /\ \A k \in DOMAIN t.marks : t.marks[k].off \in KeptFrom(t) .. t.off
         /\ t.marks = << >> => KeptFrom(t) = t.off
<1>1. t.marks \in Seq([off : Nat, pos : Nat]) /\ t.raw \in Nat /\ t.off \in Nat /\ t.off <= t.raw
  BY DEF Sound, Scanners
<1>2. \A k \in DOMAIN t.marks : t.marks[k].off \in Nat
  BY <1>1, MarkShape
<1>3. DOMAIN t.marks = 1 .. Len(t.marks) /\ Len(t.marks) \in Nat
  BY <1>1, LenProperties
<1>4. CASE t.marks = << >>
  BY <1>1, <1>4 DEF KeptFrom, Retained, Unread
<1>5. CASE t.marks # << >>
  <2>1. 1 \in DOMAIN t.marks /\ \A k \in DOMAIN t.marks : 1 \in 1 .. k
    BY <1>1, <1>3, <1>5, EmptySeq
  <2>2. \A k \in DOMAIN t.marks : t.marks[1].off <= t.marks[k].off /\ t.marks[k].off <= t.off
    BY <2>1 DEF Sound, MarksInOrder
  <2> QED BY <1>1, <1>2, <1>5, <2>1, <2>2 DEF KeptFrom, Retained, Unread
<1> QED BY <1>4, <1>5

LEMMA MovedShape ==
  ASSUME NEW t, NEW n, Sound(t, n)
  PROVE  /\ MovedBuffer(t) \in ByteArrays
         /\ MovedBuffer(t).cap = Cap(t)
         /\ \A i \in 0 .. Retained(t) - 1 : MovedBuffer(t).at[i] = Cells(t)[KeptFrom(t) + i]
         /\ \A i \in Retained(t) .. Cap(t) - 1 : MovedBuffer(t).at[i] = Cells(t)[i]
<1> DEFINE array == MovedBuffer(t)
           at == [i \in 0 .. Cap(t) - 1 |->
                    IF i < Retained(t) THEN Cells(t)[KeptFrom(t) + i] ELSE Cells(t)[i]]
<1>1. /\ Last(t.mem) = [cap |-> Cap(t), at |-> Cells(t)]
      /\ Cap(t) \in Nat /\ Cells(t) \in [0 .. Cap(t) - 1 -> 0 .. Len(doc)]
  BY BufferShape DEF Sound
<1>2. /\ KeptFrom(t) \in Nat /\ Retained(t) \in Nat /\ KeptFrom(t) + Retained(t) <= Cap(t)
  <2>1. t.raw \in Nat /\ t.off \in Nat /\ t.raw <= Cap(t) /\ t.off <= t.raw
    BY DEF Sound, Scanners
  <2>2. KeptFrom(t) \in 0 .. t.off
    BY KeptFromIsBeforeInput
  <2> QED BY <1>1, <2>1, <2>2 DEF Retained
<1>3. array = [cap |-> Cap(t), at |-> at]
  <2>1. DOMAIN Last(t.mem).at = 0 .. Cap(t) - 1 /\ Last(t.mem).at = Cells(t)
    BY <1>1
  <2>2. array = [Last(t.mem) EXCEPT !.at = at]
    BY <2>1 DEF Moved, MovedBuffer
  <2> HIDE DEF array, at
  <2> QED BY <1>1, <2>2
<1>4. at \in [0 .. Cap(t) - 1 -> 0 .. Len(doc)]
  BY <1>1, <1>2
<1>5. array \in ByteArrays
  BY <1>1, <1>3, <1>4, ShapeOfArray
<1> QED BY <1>1, <1>2, <1>3, <1>5

LEMMA EnlargedShape ==
  ASSUME doc \in Documents, NEW a \in ByteArrays
  PROVE  /\ Enlarged(a) \in ByteArrays
         /\ Enlarged(a).cap = 2 * a.cap
         /\ \A i \in 0 .. a.cap - 1 : Enlarged(a).at[i] = a.at[i]
<1> DEFINE at == [i \in 0 .. 2 * a.cap - 1 |-> IF i < a.cap THEN a.at[i] ELSE 0]
<1>1. a.cap \in Nat /\ a.at \in [0 .. a.cap - 1 -> 0 .. Len(doc)] /\ Len(doc) \in Nat
  BY ArrayShape, DocumentShape
<1>2. at \in [0 .. 2 * a.cap - 1 -> 0 .. Len(doc)]
  BY <1>1
<1>3. Enlarged(a) = [cap |-> 2 * a.cap, at |-> at]
  BY DEF Enlarged
<1>4. Enlarged(a) \in ByteArrays
  <2>1. 2 * a.cap \in Nat
    BY <1>1
  <2> HIDE DEF at
  <2> QED BY <1>2, <1>3, <2>1, ShapeOfArray
<1> QED BY <1>1, <1>3, <1>4

LEMMA FilledShape ==
  ASSUME doc \in Documents, NEW a \in ByteArrays, NEW retain \in Nat, NEW n \in Nat,
         NEW sent \in Nat, retain + n <= a.cap, sent + n <= Len(doc)
  PROVE  /\ Filled(a, retain, n, sent) \in ByteArrays
         /\ Filled(a, retain, n, sent).cap = a.cap
         /\ \A i \in 0 .. retain - 1 : Filled(a, retain, n, sent).at[i] = a.at[i]
         /\ \A i \in retain .. retain + n - 1 :
              Filled(a, retain, n, sent).at[i] = sent + 1 + (i - retain)
<1> DEFINE at == [i \in 0 .. a.cap - 1 |-> IF i \in retain .. retain + n - 1
                                           THEN sent + 1 + (i - retain) ELSE a.at[i]]
<1>1. /\ a = [cap |-> a.cap, at |-> a.at]
      /\ a.cap \in Nat /\ a.at \in [0 .. a.cap - 1 -> 0 .. Len(doc)] /\ Len(doc) \in Nat
  BY ArrayShape, DocumentShape
<1>2. at \in [0 .. a.cap - 1 -> 0 .. Len(doc)]
  BY <1>1, SMTT(30)
<1>3. Filled(a, retain, n, sent) = [cap |-> a.cap, at |-> at]
  <2>1. DOMAIN a.at = 0 .. a.cap - 1
    BY <1>1
  <2>2. Filled(a, retain, n, sent) = [a EXCEPT !.at = at]
    BY <2>1 DEF Filled
  <2> HIDE DEF at
  <2> QED BY <1>1, <2>2
<1>4. Filled(a, retain, n, sent) \in ByteArrays
  BY <1>1, <1>2, <1>3, ShapeOfArray
<1> QED BY <1>1, <1>3, <1>4, SMTT(30)

LEMMA RefillableShape ==
  ASSUME NEW t, NEW n, Sound(t, n)
  PROVE  /\ Refillable(t) \in ByteArrays
         /\ Refillable(t).cap = IF Grows(t) THEN 2 * Cap(t) ELSE Cap(t)
         /\ \A i \in 0 .. Retained(t) - 1 : Refillable(t).at[i] = Cells(t)[KeptFrom(t) + i]
<1> DEFINE moved == MovedBuffer(t)
<1>1. /\ moved \in ByteArrays /\ moved.cap = Cap(t)
      /\ \A i \in 0 .. Retained(t) - 1 : moved.at[i] = Cells(t)[KeptFrom(t) + i]
  BY MovedShape
<1>2. Retained(t) \in Nat /\ Cap(t) \in Nat /\ Retained(t) <= Cap(t)
  <2>1. t.raw \in Nat /\ t.off \in Nat /\ t.raw <= Cap(t) /\ t.off <= t.raw
    BY DEF Sound, Scanners
  <2>2. Retained(t) \in Unread(t) .. t.raw
    BY KeptFromIsBeforeInput
  <2>3. Cap(t) \in Nat
    BY BufferShape DEF Sound
  <2> QED BY <2>1, <2>2, <2>3 DEF Unread
<1>3. doc \in Documents
  BY DEF Sound
<1>4. CASE Grows(t)
  <2>1. /\ Enlarged(moved) \in ByteArrays
        /\ Enlarged(moved).cap = 2 * moved.cap
        /\ \A i \in 0 .. moved.cap - 1 : Enlarged(moved).at[i] = moved.at[i]
    BY <1>1, <1>3, EnlargedShape
  <2>2. Refillable(t) = Enlarged(moved)
    BY <1>4 DEF Refillable
  <2>3. \A i \in 0 .. Retained(t) - 1 : i \in 0 .. moved.cap - 1
    BY <1>1, <1>2
  <2>4. \A i \in 0 .. Retained(t) - 1 : Refillable(t).at[i] = Cells(t)[KeptFrom(t) + i]
    BY <1>1, <2>1, <2>2, <2>3
  <2> QED BY <1>1, <1>4, <2>1, <2>2, <2>4
<1>5. CASE ~Grows(t)
  BY <1>1, <1>5 DEF Refillable
<1> QED BY <1>4, <1>5

LEMMA ShiftedShape ==
  ASSUME NEW t, NEW n, Sound(t, n)
  PROVE  /\ Shifted(t) \in Seq([off : Nat, pos : Nat])
         /\ DOMAIN Shifted(t) = DOMAIN t.marks
         /\ \A k \in DOMAIN t.marks : /\ Shifted(t)[k].off = t.marks[k].off - KeptFrom(t)
                                      /\ Shifted(t)[k].pos = t.marks[k].pos
<1>1. t.marks \in Seq([off : Nat, pos : Nat])
  BY DEF Sound, Scanners
<1>2. DOMAIN t.marks = 1 .. Len(t.marks) /\ Len(t.marks) \in Nat
  BY <1>1, LenProperties
<1>3. ASSUME NEW k \in DOMAIN t.marks
      PROVE  /\ Shifted(t)[k] \in [off : Nat, pos : Nat]
             /\ Shifted(t)[k].off = t.marks[k].off - KeptFrom(t)
             /\ Shifted(t)[k].pos = t.marks[k].pos
  <2>1. /\ t.marks[k] = [off |-> t.marks[k].off, pos |-> t.marks[k].pos]
        /\ t.marks[k].off \in Nat /\ t.marks[k].pos \in Nat
    BY <1>1, MarkShape
  <2>2. t.marks[k].off - KeptFrom(t) \in Nat
    <3>1. t.marks[k].off \in KeptFrom(t) .. t.off /\ KeptFrom(t) \in 0 .. t.off
      BY KeptFromIsBeforeInput
    <3>2. t.off \in Nat
      BY DEF Sound, Scanners
    <3> QED BY <3>1, <3>2
  <2>3. Shifted(t)[k] = [t.marks[k] EXCEPT !.off = @ - KeptFrom(t)]
    BY DEF Shifted
  <2>4. Shifted(t)[k] = [off |-> t.marks[k].off - KeptFrom(t), pos |-> t.marks[k].pos]
    BY <2>1, <2>3
  <2> QED BY <2>1, <2>2, <2>4
<1>4. DOMAIN Shifted(t) = DOMAIN t.marks
  BY DEF Shifted
<1>5. Shifted(t) \in [1 .. Len(t.marks) -> [off : Nat, pos : Nat]]
  BY <1>2, <1>3, <1>4 DEF Shifted
<1>6. Shifted(t) \in Seq([off : Nat, pos : Nat])
  BY <1>2, <1>5, SeqDef
<1> QED BY <1>3, <1>4, <1>6

LEMMA RefillThatFails ==
  ASSUME NEW t, NEW n, Sound(t, n), t.r # NoReader, ReadFails(t, Room(t))
  PROVE  /\ Refilled(t) \in Scanners /\ Refilled(t).mem # << >>
         /\ Last(Refilled(t).mem) = MovedBuffer(t)
         /\ Refilled(t).raw = t.raw /\ Refilled(t).off = t.off
         /\ Refilled(t).peeked = t.peeked /\ Refilled(t).marks = Shifted(t)
         /\ Refilled(t).r = NoReader /\ Refilled(t).failed = TRUE
<1> DEFINE moved == MovedBuffer(t)
           mem   == Front(t.mem) \o <<moved>>
<1>1. t \in Scanners /\ t.mem \in Seq(ByteArrays) /\ t.mem # << >>
  BY DEF Sound, Scanners
<1>2. moved \in ByteArrays /\ moved.cap = Cap(t)
  BY MovedShape
<1>3. mem \in Seq(ByteArrays) /\ mem # << >> /\ Last(mem) = moved
  BY <1>1, <1>2, LastReplaced
<1>4. Shifted(t) \in Seq([off : Nat, pos : Nat])
  BY ShiftedShape
<1>5. Refilled(t) = [t EXCEPT !.mem = mem, !.marks = Shifted(t), !.r = NoReader, !.failed = TRUE]
  BY DEF Refilled
<1> HIDE DEF mem
<1>6. Refilled(t) = [mem |-> mem, raw |-> t.raw, off |-> t.off, peeked |-> t.peeked,
                     marks |-> Shifted(t), r |-> NoReader, failed |-> TRUE]
  BY <1>1, <1>5 DEF Scanners
<1>7. Refilled(t) \in Scanners
  BY <1>1, <1>3, <1>4, <1>6 DEF Scanners
<1> QED BY <1>3, <1>6, <1>7

LEMMA RefillThatReads ==
  ASSUME NEW t, NEW n, Sound(t, n), t.r # NoReader, ~ReadFails(t, Room(t))
  PROVE  LET sent   == Arrive(t, Room(t))
             filled == Filled(Refillable(t), Retained(t), sent, t.r)
         IN  /\ Refilled(t) \in Scanners /\ Refilled(t).mem # << >>
             /\ Last(Refilled(t).mem) = filled
             /\ Refilled(t).raw = Retained(t) + sent
             /\ Refilled(t).off = t.off - KeptFrom(t)
             /\ Refilled(t).peeked = t.peeked /\ Refilled(t).marks = Shifted(t)
             /\ Refilled(t).r = (IF sent < Room(t) THEN NoReader ELSE t.r + sent)
             /\ Refilled(t).failed = t.failed
             /\ sent \in 0 .. Room(t) /\ t.r + sent <= Len(doc)
             /\ sent < Room(t) => t.r + sent = Len(doc)
             /\ filled.cap = Refillable(t).cap
             /\ filled.cap = Retained(t) + Room(t)
             /\ \A i \in 0 .. Retained(t) - 1 : filled.at[i] = Cells(t)[KeptFrom(t) + i]
             /\ \A i \in Retained(t) .. Retained(t) + sent - 1 :
                  filled.at[i] = t.r + 1 + (i - Retained(t))
<1> DEFINE moved  == MovedBuffer(t)
           sent   == Arrive(t, Room(t))
           filled == Filled(Refillable(t), Retained(t), sent, t.r)
           kept   == Front(t.mem) \o <<moved>>
           mem    == (IF Grows(t) THEN kept ELSE Front(t.mem)) \o <<filled>>
           r      == IF sent < Room(t) THEN NoReader ELSE t.r + sent
<1>1. /\ t \in Scanners /\ t.mem \in Seq(ByteArrays) /\ t.mem # << >>
      /\ doc \in Documents /\ Len(doc) \in Nat /\ t.r \in 0 .. Len(doc)
      /\ t.raw \in Nat /\ t.off \in Nat
  BY DocumentShape DEF Sound, Scanners
<1>2. moved \in ByteArrays /\ moved.cap = Cap(t)
  BY MovedShape
<1>3. /\ Refillable(t) \in ByteArrays
      /\ Refillable(t).cap = IF Grows(t) THEN 2 * Cap(t) ELSE Cap(t)
      /\ \A i \in 0 .. Retained(t) - 1 : Refillable(t).at[i] = Cells(t)[KeptFrom(t) + i]
  BY RefillableShape
<1>4. /\ Retained(t) \in Nat /\ Room(t) \in Nat /\ Refillable(t).cap = Retained(t) + Room(t)
      /\ KeptFrom(t) \in 0 .. t.off
  <2>1. KeptFrom(t) \in 0 .. t.off /\ Retained(t) \in Unread(t) .. t.raw
    BY KeptFromIsBeforeInput
  <2>2. t.raw <= Cap(t) /\ t.off <= t.raw /\ Cap(t) \in Nat
    BY BufferShape DEF Sound
  <2>3. Refillable(t).cap \in Nat /\ Cap(t) <= Refillable(t).cap
    BY <1>3, <2>2
  <2>4. Unread(t) \in Nat /\ Retained(t) \in Nat /\ Retained(t) <= t.raw
    BY <1>1, <2>1, <2>2 DEF Unread
  <2> QED BY <1>1, <2>1, <2>2, <2>3, <2>4 DEF Room
<1>5. sent \in 0 .. Room(t) /\ t.r + sent <= Len(doc) /\ (sent < Room(t) => t.r + sent = Len(doc))
  BY <1>1, <1>4 DEF Arrive
<1>6. /\ filled \in ByteArrays /\ filled.cap = Refillable(t).cap
      /\ \A i \in 0 .. Retained(t) - 1 : filled.at[i] = Refillable(t).at[i]
      /\ \A i \in Retained(t) .. Retained(t) + sent - 1 :
           filled.at[i] = t.r + 1 + (i - Retained(t))
  <2>1. Retained(t) + sent <= Refillable(t).cap /\ sent \in Nat /\ t.r \in Nat
    BY <1>1, <1>4, <1>5
  <2> HIDE DEF sent
  <2>2. doc \in Documents
    BY <1>1
  <2>3. Refillable(t) \in ByteArrays /\ Retained(t) \in Nat /\ t.r + sent <= Len(doc)
    BY <1>3, <1>4, <1>5
  <2>4. Refillable(t).cap \in Nat /\ Len(doc) \in Nat
    BY <1>1, <1>4
  <2>5. filled \in ByteArrays
    BY <2>1, <2>2, <2>3, <2>4, FilledShape
  <2>6. filled.cap = Refillable(t).cap
    BY <2>1, <2>2, <2>3, <2>4, FilledShape
  <2>7. \A i \in 0 .. Retained(t) - 1 : filled.at[i] = Refillable(t).at[i]
    BY <2>1, <2>2, <2>3, <2>4, FilledShape
  <2>8. \A i \in Retained(t) .. Retained(t) + sent - 1 :
           filled.at[i] = t.r + 1 + (i - Retained(t))
    BY <2>1, <2>2, <2>3, <2>4, FilledShape
  <2> QED BY <2>5, <2>6, <2>7, <2>8
<1>7. mem \in Seq(ByteArrays) /\ mem # << >> /\ Last(mem) = filled
  <2>1. kept \in Seq(ByteArrays)
    BY <1>1, <1>2, LastReplaced
  <2> HIDE DEF kept, filled
  <2>2. CASE Grows(t)
    BY <1>6, <2>1, <2>2, LastAdded
  <2>3. CASE ~Grows(t)
    BY <1>1, <1>6, <2>3, LastReplaced
  <2> QED BY <2>2, <2>3
<1>8. Shifted(t) \in Seq([off : Nat, pos : Nat])
  BY ShiftedShape
<1>9. Refilled(t) = [t EXCEPT !.mem = mem, !.marks = Shifted(t), !.r = r,
                              !.raw = Retained(t) + sent, !.off = t.off - KeptFrom(t)]
  BY DEF Refilled
<1> HIDE DEF mem, filled, sent
<1>10. r \in {NoReader} \cup 0 .. Len(doc) /\ Retained(t) + sent \in Nat /\ t.off - KeptFrom(t) \in Nat
  <2>1. r \in {NoReader} \cup 0 .. Len(doc)
    <3>1. t.r + sent \in 0 .. Len(doc)
      BY <1>1, <1>4, <1>5
    <3> QED BY <3>1
  <2>2. Retained(t) + sent \in Nat
    BY <1>4, <1>5
  <2>3. t.off - KeptFrom(t) \in Nat
    BY <1>1, <1>4
  <2> QED BY <2>1, <2>2, <2>3
<1> HIDE DEF r
<1>11. Refilled(t) = [mem |-> mem, raw |-> Retained(t) + sent, off |-> t.off - KeptFrom(t),
                      peeked |-> t.peeked, marks |-> Shifted(t), r |-> r, failed |-> t.failed]
  BY <1>1, <1>9 DEF Scanners
<1>12. Refilled(t) \in Scanners
  BY <1>1, <1>7, <1>8, <1>10, <1>11 DEF Scanners
<1>13. \A i \in 0 .. Retained(t) - 1 : filled.at[i] = Cells(t)[KeptFrom(t) + i]
  BY <1>3, <1>6
<1> QED BY <1>4, <1>5, <1>6, <1>7, <1>11, <1>12, <1>13 DEF filled, sent, r

LEMMA SoundNumbers ==
  ASSUME NEW t, NEW n, Sound(t, n)
  PROVE  /\ t \in Scanners /\ doc \in Documents /\ n \in Nat /\ Len(doc) \in Nat
         /\ t.raw \in Nat /\ t.off \in 0 .. t.raw /\ t.raw <= Cap(t)
         /\ Cap(t) \in Nat /\ BufferSize <= Cap(t)
         /\ BufferSize \in Nat /\ UTFMax \in Nat \ {0} /\ 4 * UTFMax <= BufferSize
         /\ Unread(t) = t.raw - t.off /\ Unread(t) \in Nat /\ n + Unread(t) <= Len(doc)
         /\ t.r \in {NoReader} \cup 0 .. Len(doc)
         /\ t.failed \in BOOLEAN /\ t.peeked \in Seq(Rune)
         /\ t.marks \in Seq([off : Nat, pos : Nat])
         /\ t.mem \in Seq(ByteArrays) /\ t.mem # << >>
<1>1. Cap(t) \in Nat
  BY BufferShape DEF Sound
<1>2. doc \in Documents /\ Len(doc) \in Nat
  BY DocumentShape DEF Sound
<1>3. BufferSize \in Nat /\ UTFMax \in Nat \ {0} /\ 4 * UTFMax <= BufferSize
  BY UTFMaxAssumption, BufferSizeAssumption
<1> QED BY <1>1, <1>2, <1>3 DEF Sound, Scanners, Unread

LEMMA ShiftedInOrder ==
  ASSUME NEW t, NEW n, Sound(t, n), NEW u, u.marks = Shifted(t),
         u.off \in {t.off, t.off - KeptFrom(t)}
  PROVE  MarksInOrder(u, n)
<1>1. DOMAIN u.marks = DOMAIN t.marks /\ t.marks \in Seq([off : Nat, pos : Nat])
  BY ShiftedShape, SoundNumbers
<1>2. KeptFrom(t) \in Nat /\ t.off \in Nat /\ KeptFrom(t) <= t.off
  BY KeptFromIsBeforeInput, SoundNumbers
<1>3. ASSUME NEW k \in DOMAIN t.marks
      PROVE  /\ u.marks[k].off \in Nat /\ u.marks[k].off = t.marks[k].off - KeptFrom(t)
             /\ u.marks[k].pos = t.marks[k].pos /\ t.marks[k].off \in Nat
  <2>1. t.marks[k].off \in KeptFrom(t) .. t.off
    BY KeptFromIsBeforeInput
  <2> QED BY <1>2, <2>1, ShiftedShape
<1>4. \A a, b, c \in Nat : c <= a /\ c <= b /\ a <= b => a - c <= b - c /\ a - c <= b
  OBVIOUS
<1>5. ASSUME NEW k \in DOMAIN t.marks
      PROVE  /\ u.marks[k].off <= u.off /\ u.marks[k].pos <= n
             /\ \A j \in 1 .. k : u.marks[j].off <= u.marks[k].off
  <2>1. /\ t.marks[k].off <= t.off /\ t.marks[k].pos <= n
        /\ \A j \in 1 .. k : t.marks[j].off <= t.marks[k].off
    BY DEF Sound, MarksInOrder
  <2>2. t.marks[k].off \in Nat /\ KeptFrom(t) <= t.marks[k].off
    BY <1>2, KeptFromIsBeforeInput
  <2>3. u.marks[k].off <= u.off /\ u.marks[k].pos <= n
    BY <1>2, <1>3, <1>4, <2>1, <2>2
  <2>4. ASSUME NEW j \in 1 .. k PROVE u.marks[j].off <= u.marks[k].off
    <3>1. j \in DOMAIN t.marks
      BY <1>1, LenProperties
    <3>2. t.marks[j].off \in Nat /\ KeptFrom(t) <= t.marks[j].off
      BY <1>2, <3>1, KeptFromIsBeforeInput
    <3>3. t.marks[j].off <= t.marks[k].off
      BY <2>1
    <3>4. u.marks[j].off = t.marks[j].off - KeptFrom(t) /\ u.marks[k].off = t.marks[k].off - KeptFrom(t)
      BY <1>3, <3>1
    <3> QED BY <1>2, <1>4, <2>2, <3>2, <3>3, <3>4
  <2> QED BY <2>3, <2>4
<1> QED BY <1>1, <1>5 DEF MarksInOrder

LEMMA FailedRefillIsSound ==
  ASSUME NEW t, NEW n, Sound(t, n), t.r # NoReader, ReadFails(t, Room(t))
  PROVE  Sound(Refilled(t), n)
<1> DEFINE u == Refilled(t)
<1>1. /\ u \in Scanners /\ u.mem # << >> /\ Last(u.mem) = MovedBuffer(t)
      /\ u.raw = t.raw /\ u.off = t.off /\ u.peeked = t.peeked /\ u.marks = Shifted(t)
      /\ u.r = NoReader /\ u.failed = TRUE
  BY RefillThatFails
<1> HIDE DEF u
<1>2. Cap(u) = Cap(t) /\ Cells(u) = MovedBuffer(t).at
  BY <1>1, MovedShape DEF Cap, Cells
<1>3. PeekedFit(u)
  BY <1>1 DEF Sound, PeekedFit
<1>4. MarksInOrder(u, n)
  BY <1>1, ShiftedInOrder
<1>5. ASSUME NEW i \in 0 .. u.raw - 1 PROVE Cells(u)[i] \in 1 .. Len(doc)
  <2>1. /\ KeptFrom(t) \in Nat /\ Retained(t) = t.raw - KeptFrom(t) /\ t.raw \in Nat
        /\ t.raw <= Cap(t) /\ Cap(t) \in Nat /\ KeptFrom(t) <= t.raw
    BY KeptFromIsBeforeInput, SoundNumbers, SMTT(30) DEF Retained
  <2>2. \A j \in 0 .. t.raw - 1 : Cells(t)[j] \in 1 .. Len(doc)
    BY DEF Sound
  <2>3. CASE i < Retained(t)
    <3>1. Cells(u)[i] = Cells(t)[KeptFrom(t) + i] /\ KeptFrom(t) + i \in 0 .. t.raw - 1
      BY <1>1, <1>2, <2>1, <2>3, MovedShape
    <3> QED BY <2>2, <3>1
  <2>4. CASE ~(i < Retained(t))
    <3>1. Cells(u)[i] = Cells(t)[i] /\ i \in 0 .. t.raw - 1
      BY <1>1, <1>2, <2>1, <2>4, MovedShape
    <3> QED BY <2>2, <3>1
  <2> QED BY <2>3, <2>4
<1> QED BY <1>1, <1>2, <1>3, <1>4, <1>5 DEF Sound, Unread, u

\* The fields of a scanner after a refill that got something
LEMMA ReadNumbers ==
  ASSUME NEW t, NEW n, Sound(t, n), t.r # NoReader, ~ReadFails(t, Room(t)),
         NEW u, u = Refilled(t), NEW sent, sent = Arrive(t, Room(t))
  PROVE  /\ KeptFrom(t) \in Nat /\ KeptFrom(t) <= t.off
         /\ Retained(t) = t.raw - KeptFrom(t) /\ Retained(t) \in Nat /\ Room(t) \in Nat
         /\ sent \in Nat /\ sent <= Room(t)
         /\ u.raw = Retained(t) + sent /\ u.off = t.off - KeptFrom(t)
         /\ u.raw \in Nat /\ u.off \in Nat /\ u.off <= u.raw
         /\ Unread(u) = Unread(t) + sent /\ Unread(u) \in Nat
         /\ t.r \in Nat /\ t.r = n + Unread(t) /\ t.r + sent <= Len(doc)
         /\ Cap(u) \in Nat /\ Cap(u) = Retained(t) + Room(t) /\ u.raw <= Cap(u)
         /\ u.failed = FALSE
<1>1. /\ Last(u.mem) = Filled(Refillable(t), Retained(t), sent, t.r)
      /\ u.raw = Retained(t) + sent /\ u.off = t.off - KeptFrom(t)
      /\ u.failed = t.failed
      /\ sent \in 0 .. Room(t) /\ t.r + sent <= Len(doc)
      /\ Last(u.mem).cap = Refillable(t).cap
      /\ Last(u.mem).cap = Retained(t) + Room(t)
  BY RefillThatReads
<1>2. /\ t.raw \in Nat /\ t.off \in 0 .. t.raw /\ Cap(t) \in Nat /\ Len(doc) \in Nat
      /\ Unread(t) = t.raw - t.off /\ t.raw <= Cap(t) /\ n \in Nat
      /\ t.r \in {NoReader} \cup 0 .. Len(doc)
  BY SoundNumbers
<1>3. KeptFrom(t) \in Nat /\ KeptFrom(t) <= t.off /\ t.off \in Nat /\ t.off <= t.raw
  <2>1. KeptFrom(t) \in 0 .. t.off
    BY KeptFromIsBeforeInput
  <2> QED BY <1>2, <2>1
<1>4. t.r \in Nat /\ t.r = n + Unread(t) /\ t.failed = FALSE
  BY <1>2 DEF Sound, Scanners
<1>5. Retained(t) = t.raw - KeptFrom(t)
  BY DEF Retained
<1>6. Retained(t) \in Nat /\ Retained(t) <= Cap(t)
  BY <1>2, <1>3, <1>5
<1>7. Cap(u) = Refillable(t).cap /\ Cap(u) \in Nat /\ Cap(t) <= Cap(u)
  <2>1. Refillable(t).cap = Cap(t) \/ Refillable(t).cap = 2 * Cap(t)
    BY RefillableShape
  <2>2. Cap(u) = Refillable(t).cap
    BY <1>1 DEF Cap
  <2>3. Cap(t) \in Nat
    BY <1>2
  <2> QED BY <2>1, <2>2, <2>3
<1>8. Room(t) \in Nat /\ Cap(u) = Retained(t) + Room(t)
  <2>1. Room(t) = Cap(u) - Retained(t)
    BY <1>7 DEF Room
  <2> QED BY <1>2, <1>6, <1>7, <2>1
<1>9. sent \in Nat /\ sent <= Room(t)
  <2>1. sent \in 0 .. Room(t)
    BY <1>1
  <2> QED BY <1>8, <2>1
<1>10. u.raw = Retained(t) + sent /\ u.off = t.off - KeptFrom(t) /\ Unread(u) = u.raw - u.off
  BY <1>1 DEF Unread
<1>11. /\ u.raw \in Nat /\ u.off \in Nat /\ u.off <= u.raw /\ u.raw <= Cap(u)
       /\ Unread(u) = Unread(t) + sent /\ Unread(u) \in Nat
  <2>1. t.raw \in Nat /\ Unread(t) = t.raw - t.off
    BY <1>2
  <2> QED BY <1>3, <1>5, <1>6, <1>8, <1>9, <1>10, <2>1
<1>12. t.r + sent <= Len(doc) /\ u.failed = FALSE
  BY <1>1, <1>4
<1> QED BY <1>3, <1>4, <1>5, <1>6, <1>7, <1>8, <1>9, <1>10, <1>11, <1>12

\* Where it has then read to, and what the buffer is
LEMMA ReadCells ==
  ASSUME NEW t, NEW n, Sound(t, n), t.r # NoReader, ~ReadFails(t, Room(t)),
         NEW u, u = Refilled(t), NEW sent, sent = Arrive(t, Room(t))
  PROVE  /\ sent < Room(t) => u.r = NoReader /\ t.r + sent = Len(doc)
         /\ sent = Room(t) => u.r = t.r + sent
         /\ Grows(t) => Cap(u) = 2 * Cap(t)
         /\ ~Grows(t) => Cap(u) = Cap(t)
         /\ \A i \in 0 .. Retained(t) - 1 : Cells(u)[i] = Cells(t)[KeptFrom(t) + i]
         /\ \A i \in Retained(t) .. u.raw - 1 : Cells(u)[i] = t.r + 1 + (i - Retained(t))
<1>1. /\ u.r = (IF sent < Room(t) THEN NoReader ELSE t.r + sent)
      /\ sent < Room(t) => t.r + sent = Len(doc)
      /\ Last(u.mem).cap = Refillable(t).cap
      /\ u.raw = Retained(t) + sent
  BY RefillThatReads
<1>2. sent \in Nat /\ Room(t) \in Nat
  BY ReadNumbers
<1>3. \A i \in 0 .. Retained(t) - 1 : Cells(u)[i] = Cells(t)[KeptFrom(t) + i]
  BY RefillThatReads DEF Cells
<1>4. Cap(u) = IF Grows(t) THEN 2 * Cap(t) ELSE Cap(t)
  BY <1>1, RefillableShape DEF Cap
<1>5. sent = Room(t) => u.r = t.r + sent
  <2>1. sent = Room(t) => ~(sent < Room(t))
    BY <1>2
  <2> QED BY <1>1, <2>1
<1>6. sent < Room(t) => u.r = NoReader /\ t.r + sent = Len(doc)
  BY <1>1
<1>7. ASSUME NEW i \in Retained(t) .. u.raw - 1
      PROVE  Cells(u)[i] = t.r + 1 + (i - Retained(t))
  <2>1. /\ u.raw = Retained(t) + sent
        /\ u.raw \in Nat /\ Retained(t) \in Nat /\ sent \in Nat
    BY ReadNumbers, ZenonT(60)
  <2>2. i \in Retained(t) .. Retained(t) + sent - 1
    BY <2>1
  <2> QED BY <2>2, RefillThatReads DEF Cells
<1>8. (Grows(t) => Cap(u) = 2 * Cap(t)) /\ (~Grows(t) => Cap(u) = Cap(t))
  BY <1>4
<1> QED BY <1>3, <1>5, <1>6, <1>7, <1>8

LEMMA RuneShape ==
  ASSUME NEW q \in Seq(Rune)
  PROVE  /\ Len(q) \in Nat /\ (q # << >> <=> 1 \in 1 .. Len(q))
         /\ \A i \in 1 .. Len(q) : q[i] \in Rune /\ q[i].size \in Nat \ {0} /\ q[i].size <= UTFMax
<1>1. Len(q) \in Nat /\ (q # << >> <=> 1 \in 1 .. Len(q))
  BY EmptySeq, LenProperties
<1>2. ASSUME NEW i \in 1 .. Len(q)
      PROVE  q[i] \in Rune /\ q[i].size \in Nat \ {0} /\ q[i].size <= UTFMax
  <2>1. q[i] \in Rune
    BY ElementOfSeq
  <2>2. q[i].size \in 1 .. UTFMax
    BY <2>1 DEF Rune
  <2> QED BY <2>1, <2>2, UTFMaxAssumption
<1> QED BY <1>1, <1>2

\* What is peeked at fits as well where there is as much to read or more.
LEMMA PeekedStillFit ==
  ASSUME NEW t, NEW n, Sound(t, n), NEW u, u.peeked = t.peeked,
         u.off \in Nat, u.raw \in Nat, Unread(t) <= Unread(u)
  PROVE  PeekedFit(u)
<1>1. /\ t.raw \in Nat /\ t.off \in Nat /\ Unread(t) = t.raw - t.off
      /\ t.peeked \in Seq(Rune) /\ PeekedFit(t)
  BY SoundNumbers DEF Sound
<1>2. Unread(u) = u.raw - u.off
  BY DEF Unread
<1>3. \A x \in Nat : t.off + x <= t.raw => u.off + x <= u.raw
  BY <1>1, <1>2
<1>4. u.peeked # << >> => u.off + u.peeked[1].size <= u.raw
  BY <1>1, <1>3, RuneShape DEF PeekedFit
<1>5. ASSUME Len(u.peeked) = 2 PROVE u.off + u.peeked[1].size + u.peeked[2].size <= u.raw
  <2>1. t.peeked[1].size \in Nat /\ t.peeked[2].size \in Nat
    BY <1>1, <1>5, RuneShape
  <2>2. t.off + (t.peeked[1].size + t.peeked[2].size) <= t.raw
    BY <1>1, <1>5, <2>1 DEF PeekedFit
  <2>3. u.off + (t.peeked[1].size + t.peeked[2].size) <= u.raw
    BY <1>3, <2>1, <2>2
  <2> QED BY <2>1, <2>3
<1> QED BY <1>1, <1>4, <1>5 DEF PeekedFit

LEMMA ReadRefillIsSound ==
  ASSUME NEW t, NEW n, Sound(t, n), t.r # NoReader, ~ReadFails(t, Room(t)),
         NEW u, u = Refilled(t), NEW sent, sent = Arrive(t, Room(t))
  PROVE  Sound(u, n)
<1>1. /\ KeptFrom(t) \in Nat /\ KeptFrom(t) <= t.off /\ Retained(t) = t.raw - KeptFrom(t)
      /\ Retained(t) \in Nat
  BY ReadNumbers
<1>2. /\ sent \in Nat /\ u.raw = Retained(t) + sent /\ u.off = t.off - KeptFrom(t)
      /\ u.raw \in Nat /\ u.off \in Nat /\ u.off <= u.raw
  BY ReadNumbers, ZenonT(60)
<1>3. /\ Unread(u) = Unread(t) + sent /\ Unread(u) \in Nat
      /\ t.r \in Nat /\ t.r = n + Unread(t) /\ t.r + sent <= Len(doc)
  BY ReadNumbers, ZenonT(60)
<1>4. u.raw <= Cap(u) /\ u.failed = FALSE /\ Cap(u) = Retained(t) + Room(t)
  BY ReadNumbers
<1>5. u \in Scanners /\ u.mem # << >> /\ u.peeked = t.peeked /\ u.marks = Shifted(t)
  BY RefillThatReads
<1>6. /\ t.raw \in Nat /\ t.off \in Nat /\ t.off <= t.raw /\ Cap(t) \in Nat /\ Len(doc) \in Nat
      /\ Unread(t) = t.raw - t.off /\ Unread(t) \in Nat /\ n \in Nat
      /\ BufferSize \in Nat /\ BufferSize <= Cap(t) /\ doc \in Documents
  BY SoundNumbers
<1>7. u.r = NoReader \/ u.r = t.r + sent
  <2>1. sent <= Room(t) /\ sent \in Nat /\ Room(t) \in Nat
    BY ReadNumbers
  <2>2. sent < Room(t) \/ sent = Room(t)
    BY <2>1
  <2> QED BY <2>2, ReadCells
<1>8. BufferSize <= Cap(u)
  <2>1. Cap(u) = Cap(t) \/ Cap(u) = 2 * Cap(t)
    BY ReadCells
  <2>2. Cap(t) \in Nat /\ BufferSize \in Nat /\ BufferSize <= Cap(t)
    BY <1>6
  <2> QED BY <2>1, <2>2
<1>9. n + Unread(u) <= Len(doc) /\ (u.r # NoReader => u.r = n + Unread(u))
  <2>1. n \in Nat /\ Unread(t) \in Nat /\ sent \in Nat
    BY <1>2, <1>6
  <2>2. n + Unread(u) = t.r + sent
    BY <1>3, <2>1
  <2> QED BY <1>3, <1>7, <2>2
<1>10. PeekedFit(u)
  <2>1. Unread(t) \in Nat /\ sent \in Nat
    BY <1>2, <1>6
  <2>2. Unread(t) <= Unread(u)
    BY <1>3, <2>1
  <2> QED BY <1>2, <1>5, <2>2, PeekedStillFit
<1>11. MarksInOrder(u, n)
  BY <1>2, <1>5, ShiftedInOrder
<1>12. ASSUME NEW i \in 0 .. u.raw - 1 PROVE Cells(u)[i] \in 1 .. Len(doc)
  <2>0. i \in Nat /\ i <= u.raw - 1
    BY <1>2
  <2>1. CASE i < Retained(t)
    <3>1. i \in 0 .. Retained(t) - 1
      BY <1>1, <2>0, <2>1
    <3>2. KeptFrom(t) + i \in 0 .. t.raw - 1
      <4>1. t.raw \in Nat
        BY <1>6
      <4> QED BY <1>1, <2>0, <2>1, <4>1
    <3>3. Cells(t)[KeptFrom(t) + i] \in 1 .. Len(doc)
      BY <3>2 DEF Sound
    <3>4. Cells(u)[i] = Cells(t)[KeptFrom(t) + i]
      BY <3>1, ReadCells
    <3> QED BY <3>3, <3>4
  <2>2. CASE ~(i < Retained(t))
    <3>1. i \in Retained(t) .. u.raw - 1
      BY <1>1, <1>2, <2>0, <2>2
    <3>2. Cells(u)[i] = t.r + 1 + (i - Retained(t))
      BY <3>1, ReadCells
    <3>3. Len(doc) \in Nat
      BY <1>6
    <3>4. \A a, b, c, d, e \in Nat :
            ~(a < b) /\ a <= b + c - 1 /\ d + c <= e => d + 1 + (a - b) \in 1 .. e
      OBVIOUS
    <3>5. Retained(t) \in Nat /\ sent \in Nat /\ t.r \in Nat /\ t.r + sent <= Len(doc)
      BY <1>1, <1>2, <1>3
    <3>6. i <= Retained(t) + sent - 1
      BY <1>1, <1>2, <2>0
    <3> QED BY <2>0, <2>2, <3>2, <3>3, <3>4, <3>5, <3>6, SMTT(30)
  <2> QED BY <2>1, <2>2
<1> QED
  <2>1. u.r # NoReader => ~u.failed /\ u.r = n + Unread(u)
    BY <1>4, <1>9
  <2> QED BY <1>2, <1>4, <1>5, <1>6, <1>8, <1>9, <1>10, <1>11, <1>12, <2>1 DEF Sound

\* After a refill that leaves the reader there is more than the low-water mark.
LEMMA ReadRefillReachesFar ==
  ASSUME NEW t, NEW n, Sound(t, n), Unread(t) > UTFMax, t.r # NoReader,
         ~ReadFails(t, Room(t)), NEW u, u = Refilled(t), u.r # NoReader
  PROVE  Unread(u) > LowWater
<1> DEFINE sent == Arrive(t, Room(t))
<1>1. /\ Retained(t) \in Nat /\ Room(t) \in Nat /\ Cap(u) \in Nat
      /\ Cap(u) = Retained(t) + Room(t) /\ Unread(u) = Unread(t) + sent
      /\ sent \in Nat /\ sent <= Room(t) /\ Retained(t) = t.raw - KeptFrom(t)
  BY ReadNumbers, ZenonT(60)
<1>2. /\ Unread(t) \in Nat /\ Cap(t) \in Nat /\ t.raw \in Nat /\ t.raw <= Cap(t)
      /\ UTFMax \in Nat \ {0} /\ BufferSize \in Nat /\ 4 * UTFMax <= BufferSize
      /\ BufferSize <= Cap(t) /\ Unread(t) = t.raw - t.off
  BY SoundNumbers
<1>3. sent = Room(t)
  <2>1. ~(sent < Room(t))
    BY ReadCells
  <2>2. sent \in Nat /\ Room(t) \in Nat /\ sent <= Room(t)
    BY <1>1
  <2> HIDE DEF sent
  <2> QED BY <2>1, <2>2
<1> HIDE DEF sent
<1>4. Unread(u) = Unread(t) + Cap(u) - Retained(t)
  <2>1. Room(t) = Cap(u) - Retained(t)
    BY <1>1
  <2> QED BY <1>1, <1>2, <1>3, <2>1
<1>5. Cap(t) >= 4 * UTFMax
  <2>1. 4 * UTFMax <= BufferSize /\ BufferSize <= Cap(t) /\ UTFMax \in Nat /\ BufferSize \in Nat /\ Cap(t) \in Nat
    BY <1>2
  <2> QED BY <2>1
<1>6. (Grows(t) => Cap(u) = 2 * Cap(t)) /\ (~Grows(t) => Cap(u) = Cap(t))
  BY ReadCells
<1>7. Retained(t) <= t.raw
  BY KeptFromIsBeforeInput
<1>8. UTFMax \in Nat /\ UTFMax > 0 /\ Unread(t) \in Nat /\ Cap(t) \in Nat /\ Retained(t) \in Nat
  BY <1>1, <1>2
<1>9. Retained(t) <= Cap(t)
  <2>1. t.raw \in Nat /\ t.raw <= Cap(t)
    BY <1>2
  <2> QED BY <1>7, <1>8, <2>1
<1>10. CASE Grows(t)
  <2>1. Cap(u) = 2 * Cap(t)
    BY <1>6, <1>10
  <2>2. Unread(u) = Unread(t) + 2 * Cap(t) - Retained(t)
    BY <1>4, <2>1
  <2> QED BY <1>5, <1>8, <1>9, <2>2 DEF LowWater
<1>11. CASE ~Grows(t) /\ t.marks = << >>
  <2>1. Retained(t) = Unread(t)
    BY <1>11 DEF Retained, KeptFrom, Unread
  <2>2. Unread(u) = Unread(t) + Cap(t) - Unread(t)
    BY <1>4, <1>6, <1>11, <2>1
  <2> QED BY <1>5, <1>8, <2>2 DEF LowWater
<1>12. CASE ~Grows(t) /\ t.marks # << >>
  <2>1. ~(4 * Retained(t) > 3 * Cap(t))
    BY <1>12 DEF Grows, Cap
  <2>2. Unread(u) = Unread(t) + Cap(t) - Retained(t)
    BY <1>4, <1>6, <1>12
  <2>3. \A a, b, c, d \in Nat : a > d /\ ~(4 * c > 3 * b) /\ b >= 4 * d => a + b - c > 2 * d
    OBVIOUS
  <2> QED BY <1>5, <1>8, <2>1, <2>2, <2>3 DEF LowWater
<1> QED BY <1>10, <1>11, <1>12

LEMMA ReadRefillIsExact ==
  ASSUME NEW t, NEW n, Sound(t, n), Exact(t, n), t.r # NoReader, ~ReadFails(t, Room(t)),
         NEW u, u = Refilled(t)
  PROVE  Exact(u, n) /\ (u.r # NoReader => Unread(u) > LowWater)
<1> DEFINE sent == Arrive(t, Room(t))
<1>1. /\ KeptFrom(t) \in Nat /\ KeptFrom(t) <= t.off /\ Retained(t) \in Nat
      /\ Retained(t) = t.raw - KeptFrom(t) /\ sent \in Nat
      /\ u.raw = Retained(t) + sent /\ u.off = t.off - KeptFrom(t)
  BY ReadNumbers, ZenonT(60)
<1>2. /\ u.raw \in Nat /\ u.off \in Nat /\ Unread(u) = Unread(t) + sent
      /\ t.r \in Nat /\ t.r = n + Unread(t) /\ Room(t) \in Nat /\ sent <= Room(t)
      /\ Unread(u) \in Nat
  BY ReadNumbers, ZenonT(60)
<1>3. /\ t.raw \in Nat /\ t.off \in Nat /\ Unread(t) = t.raw - t.off /\ n \in Nat
      /\ Unread(t) \in Nat /\ UTFMax \in Nat \ {0}
  BY SoundNumbers
<1>4. ASSUME NEW i \in 0 .. u.raw - 1 PROVE Cells(u)[i] = i + 1 + n - u.off
  <2>0. i \in Nat /\ i <= u.raw - 1
    BY <1>2
  <2>1. CASE i < Retained(t)
    <3>1. i \in 0 .. Retained(t) - 1
      BY <1>1, <2>0, <2>1
    <3>2. KeptFrom(t) + i \in 0 .. t.raw - 1
      <4>1. t.raw \in Nat
        BY <1>3
      <4> QED BY <1>1, <2>0, <2>1, <4>1
    <3>3. Cells(t)[KeptFrom(t) + i] = (KeptFrom(t) + i) + 1 + n - t.off
      BY <3>2 DEF Exact, MarksExact
    <3>4. Cells(u)[i] = Cells(t)[KeptFrom(t) + i]
      BY <3>1, ReadCells
    <3>5. (KeptFrom(t) + i) + 1 + n - t.off = i + 1 + n - u.off
      BY <1>1, <1>3, <2>0
    <3> QED BY <3>3, <3>4, <3>5
  <2>2. CASE ~(i < Retained(t))
    <3>1. i \in Retained(t) .. u.raw - 1
      BY <1>1, <1>2, <2>0, <2>2
    <3>2. Cells(u)[i] = t.r + 1 + (i - Retained(t))
      BY <3>1, ReadCells
    <3>3. t.r + 1 + (i - Retained(t)) = i + 1 + n - u.off
      <4>1. t.r = n + (t.raw - t.off)
        BY <1>2, <1>3
      <4> QED BY <1>1, <1>3, <2>0, <4>1, SMTT(30)
    <3> QED BY <3>2, <3>3
  <2> QED BY <2>1, <2>2
<1>5. u.r = NoReader => n + Unread(u) = Len(doc)
  <2>1. n + Unread(u) = t.r + sent
    BY <1>1, <1>2, <1>3
  <2>2. CASE sent < Room(t)
    BY <2>1, <2>2, ReadCells
  <2>3. CASE sent = Room(t)
    <3>1. u.r = t.r + sent
      BY <2>3, ReadCells
    <3>2. t.r \in Nat /\ sent \in Nat
      BY <1>1, <1>2
    <3> HIDE DEF sent
    <3> QED BY <3>1, <3>2 DEF NoReader
  <2>4. sent < Room(t) \/ sent = Room(t)
    BY <1>1, <1>2
  <2> QED BY <2>2, <2>3, <2>4
<1>6. u.r # NoReader => Unread(u) > LowWater
  <2>1. Unread(t) > UTFMax
    BY DEF Exact, MarksExact
  <2> QED BY <2>1, ReadRefillReachesFar
<1>7. u.r # NoReader => Unread(u) > UTFMax
  BY <1>2, <1>3, <1>6 DEF LowWater
<1>8. u.peeked = t.peeked /\ u.marks = Shifted(t)
  BY RefillThatReads
<1>9. /\ u.peeked # << >> => u.peeked[1] = CharacterAfter(n)
      /\ Len(u.peeked) = 2 => u.peeked[2] = CharacterAfter(n + u.peeked[1].size)
  BY <1>8 DEF Exact, MarksExact
<1>10. ASSUME NEW k \in DOMAIN u.marks PROVE u.off - u.marks[k].off = n - u.marks[k].pos
  <2>1. k \in DOMAIN t.marks
    BY <1>8, ShiftedShape
  <2>2. u.marks[k].off = t.marks[k].off - KeptFrom(t) /\ u.marks[k].pos = t.marks[k].pos
    BY <1>8, <2>1, ShiftedShape
  <2>3. t.off - t.marks[k].off = n - t.marks[k].pos
    BY <2>1 DEF Exact, MarksExact
  <2>4. t.marks[k].off \in Nat /\ t.marks[k].pos \in Nat
    BY <2>1, MarkShape, SoundNumbers
  <2>5. u.off - u.marks[k].off = t.off - t.marks[k].off
    BY <1>1, <1>3, <2>2, <2>4
  <2> QED BY <2>2, <2>3, <2>5
<1> QED BY <1>4, <1>5, <1>6, <1>7, <1>9, <1>10 DEF Exact, MarksExact

(***************************************************************************)
(* refill, whatever it gets, and get's call of it                          *)
(***************************************************************************)
LEMMA RefillKeepsPeeked ==
  ASSUME NEW t, NEW n, Sound(t, n)
  PROVE  Refill(t).peeked = t.peeked /\ (t.failed => Refill(t).failed)
<1>1. CASE t.r = NoReader
  BY <1>1 DEF Refill
<1>2. CASE t.r # NoReader /\ ReadFails(t, Room(t))
  BY <1>2, RefillThatFails DEF Refill
<1>3. CASE t.r # NoReader /\ ~ReadFails(t, Room(t))
  BY <1>3, RefillThatReads DEF Refill
<1> QED BY <1>1, <1>2, <1>3

LEMMA RefillIsSound ==
  ASSUME NEW t, NEW n, Sound(t, n)
  PROVE  Sound(Refill(t), n)
<1>1. CASE t.r = NoReader
  BY <1>1 DEF Refill
<1>2. CASE t.r # NoReader /\ ReadFails(t, Room(t))
  BY <1>2, FailedRefillIsSound DEF Refill
<1>3. CASE t.r # NoReader /\ ~ReadFails(t, Room(t))
  BY <1>3, ReadRefillIsSound DEF Refill
<1> QED BY <1>1, <1>2, <1>3

LEMMA RefillIsExact ==
  ASSUME NEW t, NEW n, Sound(t, n), Exact(t, n), ~Refill(t).failed
  PROVE  Exact(Refill(t), n) /\ (Refill(t).r # NoReader => Unread(Refill(t)) > LowWater)
<1>1. CASE t.r = NoReader
  BY <1>1 DEF Refill
<1>2. CASE t.r # NoReader /\ ReadFails(t, Room(t))
  BY <1>2, RefillThatFails DEF Refill
<1>3. CASE t.r # NoReader /\ ~ReadFails(t, Room(t))
  BY <1>3, ReadRefillIsExact DEF Refill
<1> QED BY <1>1, <1>2, <1>3

LEMMA TopUpIsSound ==
  ASSUME NEW t, NEW n, Sound(t, n)
  PROVE  Sound(TopUp(t), n) /\ TopUp(t).peeked = t.peeked /\ (t.failed => TopUp(t).failed)
BY RefillIsSound, RefillKeepsPeeked DEF TopUp

LEMMA TopUpIsExact ==
  ASSUME NEW t, NEW n, Sound(t, n), Exact(t, n), ~TopUp(t).failed
  PROVE  /\ Exact(TopUp(t), n)
         /\ TopUp(t).r # NoReader => Unread(TopUp(t)) > LowWater
<1>1. Unread(t) \in Nat /\ UTFMax \in Nat
  BY SoundNumbers
<1>2. CASE Unread(t) <= LowWater
  BY <1>2, RefillIsExact DEF TopUp
<1>3. CASE ~(Unread(t) <= LowWater)
  BY <1>1, <1>3 DEF TopUp, LowWater
<1> QED BY <1>2, <1>3

-----------------------------------------------------------------------------
(* The characters *)

LEMMA DecodeShape ==
  ASSUME NEW t, NEW n, Sound(t, n), NEW p \in Nat, Ok(Decode(t, p))
  PROVE  Decode(t, p) \in Rune /\ p + Decode(t, p).size <= t.raw
<1> DEFINE w == doc[Cells(t)[p]]
<1>1. ~(p >= t.raw)
  BY DEF Decode, Ok, EndOfBuffer
<1>2. w > 0 /\ p + w <= t.raw /\ Decode(t, p) = [byte |-> Cells(t)[p], size |-> w]
  BY <1>1 DEF Decode, Ok, InvalidRune, Cells
<1>3. t.raw \in Nat /\ Len(doc) \in Nat /\ UTFMax \in Nat /\ doc \in Documents
  BY SoundNumbers
<1>4. p \in 0 .. t.raw - 1
  BY <1>1, <1>3
<1>5. Cells(t)[p] \in 1 .. Len(doc)
  BY <1>4 DEF Sound
<1>6. w \in 0 .. UTFMax
  BY <1>3, <1>5, DocumentShape
<1> HIDE DEF w
<1>7. w \in 1 .. UTFMax /\ Cells(t)[p] \in Nat
  BY <1>2, <1>3, <1>5, <1>6
<1> QED BY <1>2, <1>7 DEF Rune

\* With enough to read, or no reader, what is decoded is the document's.
LEMMA DecodeIsCharacter ==
  ASSUME NEW t, NEW n, Sound(t, n), Exact(t, n), NEW k \in Nat,
         t.r = NoReader \/ k + UTFMax <= Unread(t)
  PROVE  Decode(t, t.off + k) = CharacterAfter(n + k)
<1> DEFINE p == t.off + k
           m == n + k
           w == doc[m + 1]
<1>1. /\ t.raw \in Nat /\ t.off \in Nat /\ Unread(t) = t.raw - t.off /\ n \in Nat
      /\ Unread(t) \in Nat /\ UTFMax \in Nat \ {0} /\ Len(doc) \in Nat
      /\ n + Unread(t) <= Len(doc)
  BY SoundNumbers
<1>2. t.r = NoReader => n + Unread(t) = Len(doc)
  BY DEF Exact, MarksExact
<1>3. \A i \in Nat : i < t.raw => Cells(t)[i] = i + 1 + n - t.off
  <2>1. \A i \in Nat : i < t.raw => i \in 0 .. t.raw - 1
    BY <1>1
  <2> QED BY <2>1 DEF Exact, MarksExact
<1>4. CASE p >= t.raw
  <2>1. t.r = NoReader
    BY <1>1, <1>4
  <2>2. m >= Len(doc)
    BY <1>1, <1>2, <1>4, <2>1
  <2> QED BY <1>4, <2>2 DEF Decode, CharacterAfter
<1>5. CASE ~(p >= t.raw)
  <2>1. p \in Nat /\ m \in Nat /\ p < t.raw
    BY <1>1, <1>5
  <2>2. Cells(t)[p] = m + 1
    <3>1. Cells(t)[p] = p + 1 + n - t.off
      BY <1>3, <2>1
    <3> QED BY <1>1, <3>1
  <2>3. m + 1 \in 1 .. Len(doc) /\ ~(m >= Len(doc))
    BY <1>1, <2>1
  <2>4. w \in 0 .. UTFMax
    BY <2>3, SoundNumbers, DocumentShape
  <2>5. \A j \in Nat : p + j < t.raw => Cells(t)[p + j] = m + 1 + j
    <3>1. ASSUME NEW j \in Nat, p + j < t.raw PROVE Cells(t)[p + j] = m + 1 + j
      <4>1. p + j \in Nat
        BY <2>1
      <4>2. Cells(t)[p + j] = (p + j) + 1 + n - t.off
        BY <1>3, <3>1, <4>1
      <4> QED BY <1>1, <4>2
    <3> QED BY <3>1
  <2> HIDE DEF w
  <2>6. p + w <= t.raw <=> m + w <= Len(doc)
    <3>1. w \in Nat /\ w <= UTFMax /\ UTFMax \in Nat
      BY <1>1, <2>4
    <3>2. n + (t.raw - t.off) <= Len(doc) /\ t.raw \in Nat /\ t.off \in Nat /\ n \in Nat /\ Len(doc) \in Nat
      BY <1>1
    <3>3. CASE t.r = NoReader
      <4>1. n + (t.raw - t.off) = Len(doc)
        BY <1>1, <1>2, <3>3
      <4> QED BY <3>1, <3>2, <4>1
    <3>4. CASE k + UTFMax <= Unread(t)
      <4>1. k + UTFMax <= t.raw - t.off
        BY <1>1, <3>4
      <4> QED BY <3>1, <3>2, <4>1
    <3> QED BY <3>3, <3>4
  <2>7. ASSUME p + w <= t.raw
        PROVE  (\A j \in 1 .. w - 1 : doc[Cells(t)[p + j]] = 0) <=> (\A j \in 2 .. w : doc[m + j] = 0)
    <3>1. \A j \in 1 .. w - 1 : doc[Cells(t)[p + j]] = doc[m + (j + 1)]
      <4>1. ASSUME NEW j \in 1 .. w - 1 PROVE Cells(t)[p + j] = m + (j + 1)
        <5>1. j \in Nat /\ p + j < t.raw
          BY <1>1, <2>1, <2>4, <2>7, SMTT(30)
        <5>2. Cells(t)[p + j] = m + 1 + j
          BY <2>5, <5>1
        <5> QED BY <2>1, <5>1, <5>2
      <4> QED BY <4>1
    <3>2. \A j \in 1 .. w - 1 : j + 1 \in 2 .. w
      BY <2>4, <1>1
    <3>3. \A j \in 2 .. w : j - 1 \in 1 .. w - 1 /\ (j - 1) + 1 = j
      BY <2>4, <1>1
    <3> QED BY <3>1, <3>2, <3>3
  <2>8. Decode(t, p) = IF w > 0 /\ p + w <= t.raw /\ \A j \in 1 .. w - 1 : doc[Cells(t)[p + j]] = 0
                       THEN [byte |-> m + 1, size |-> w] ELSE InvalidRune
    BY <1>5, <2>2 DEF Decode, Cells, w
  <2>9. CharacterAfter(m) = IF w > 0 /\ m + w <= Len(doc) /\ \A j \in 2 .. w : doc[m + j] = 0
                            THEN [byte |-> m + 1, size |-> w] ELSE InvalidRune
    BY <2>3 DEF CharacterAfter, w
  <2> HIDE DEF p, m
  <2>10. Decode(t, p) = CharacterAfter(m)
    BY <2>6, <2>7, <2>8, <2>9
  <2> QED BY <2>10 DEF p, m
<1> QED BY <1>4, <1>5

LEMMA PeekShape ==
  ASSUME NEW t, NEW n, Sound(t, n), Ok(Peek(t))
  PROVE  Peek(t) \in Rune /\ t.off + Peek(t).size <= t.raw
<1>1. t.off \in Nat /\ t.peeked \in Seq(Rune) /\ PeekedFit(t)
  BY SoundNumbers DEF Sound
<1>2. CASE t.peeked # << >>
  BY <1>1, <1>2, RuneShape DEF Peek, PeekedFit
<1>3. CASE t.peeked = << >>
  BY <1>1, <1>3, DecodeShape DEF Peek
<1> QED BY <1>2, <1>3

LEMMA PeekSize ==
  ASSUME NEW t, NEW n, Sound(t, n), Ok(Peek(t))
  PROVE  /\ Peek(t).size \in Nat /\ Peek(t).size > 0 /\ Peek(t).size <= UTFMax
         /\ Peek(t).size <= Unread(t)
<1>1. Peek(t) \in Rune /\ t.off + Peek(t).size <= t.raw
  BY PeekShape
<1>2. Peek(t).size \in 1 .. UTFMax
  BY <1>1 DEF Rune
<1>3. t.off \in Nat /\ t.raw \in Nat /\ UTFMax \in Nat /\ Unread(t) = t.raw - t.off
  BY SoundNumbers
<1> QED BY <1>1, <1>2, <1>3

LEMMA PeekTwoShape ==
  ASSUME NEW t, NEW n, Sound(t, n), Ok(Peek(t)), Ok(PeekTwo(t))
  PROVE  PeekTwo(t) \in Rune /\ t.off + Peek(t).size + PeekTwo(t).size <= t.raw
<1>1. t.off \in Nat /\ t.peeked \in Seq(Rune) /\ PeekedFit(t) /\ Peek(t).size \in Nat
  BY SoundNumbers, PeekSize DEF Sound
<1>2. CASE Len(t.peeked) = 2
  <2>1. t.peeked # << >> /\ Peek(t) = t.peeked[1] /\ PeekTwo(t) = t.peeked[2] /\ t.peeked[2] \in Rune
    BY <1>1, <1>2, RuneShape DEF Peek, PeekTwo
  <2> QED BY <1>1, <1>2, <2>1 DEF PeekedFit
<1>3. CASE Len(t.peeked) # 2
  <2>1. PeekTwo(t) = Decode(t, t.off + Peek(t).size)
    BY <1>3 DEF PeekTwo
  <2>2. t.off + Peek(t).size \in Nat
    BY <1>1
  <2> QED BY <2>1, <2>2, DecodeShape
<1> QED BY <1>2, <1>3

LEMMA PeekIsCharacter ==
  ASSUME NEW t, NEW n, Sound(t, n), Exact(t, n)
  PROVE  Peek(t) = CharacterAfter(n)
<1>1. /\ t.off \in Nat /\ n \in Nat /\ Unread(t) \in Nat /\ UTFMax \in Nat
  BY SoundNumbers
<1>2. CASE t.peeked # << >>
  BY <1>2 DEF Peek, Exact
<1>3. CASE t.peeked = << >>
  <2>1. t.r = NoReader \/ 0 + UTFMax <= Unread(t)
    BY <1>1 DEF Exact, MarksExact
  <2>2. Decode(t, t.off + 0) = CharacterAfter(n + 0)
    BY <2>1, DecodeIsCharacter
  <2>3. t.off + 0 = t.off /\ n + 0 = n
    BY <1>1
  <2> QED BY <1>3, <2>2, <2>3 DEF Peek
<1> QED BY <1>2, <1>3

LEMMA PeekTwoIsCharacter ==
  ASSUME NEW t, NEW n, Sound(t, n), Exact(t, n), Peek(t).size = 1
  PROVE  PeekTwo(t) = CharacterAfter(n + 1)
<1>1. /\ t.off \in Nat /\ n \in Nat /\ Unread(t) \in Nat /\ UTFMax \in Nat
      /\ t.peeked \in Seq(Rune)
  BY SoundNumbers
<1>2. CASE Len(t.peeked) = 2
  <2>1. t.peeked # << >>
    BY <1>2, EmptySeq
  <2>2. Peek(t) = t.peeked[1] /\ PeekTwo(t) = t.peeked[2]
    BY <1>2, <2>1 DEF Peek, PeekTwo
  <2> QED BY <1>2, <2>1, <2>2 DEF Exact, MarksExact
<1>3. CASE Len(t.peeked) # 2
  <2>1. t.r = NoReader \/ 1 + UTFMax <= Unread(t)
    BY <1>1 DEF Exact, MarksExact
  <2>2. Decode(t, t.off + 1) = CharacterAfter(n + 1)
    BY <2>1, DecodeIsCharacter
  <2> QED BY <1>3, <2>2 DEF PeekTwo, Ok
<1> QED BY <1>2, <1>3

-----------------------------------------------------------------------------
(* Peeking, getting and marking *)

LEMMA PeekedUpdate ==
  ASSUME NEW t, NEW n, Sound(t, n), NEW q \in Seq(Rune), NEW u, u = [t EXCEPT !.peeked = q],
         PeekedFit(u)
  PROVE  /\ Sound(u, n) /\ u.peeked = q /\ u.failed = t.failed
         /\ Exact(t, n)
            /\ (q # << >> => q[1] = CharacterAfter(n))
            /\ (Len(q) = 2 => q[2] = CharacterAfter(n + q[1].size))
            => Exact(u, n)
<1>1. t \in Scanners /\ t.off \in Nat /\ t.marks \in Seq([off : Nat, pos : Nat])
  BY DEF Sound, Scanners
<1>2. u = [mem |-> t.mem, raw |-> t.raw, off |-> t.off, peeked |-> q,
           marks |-> t.marks, r |-> t.r, failed |-> t.failed]
  BY <1>1 DEF Scanners
<1>3. /\ u \in Scanners /\ u.mem = t.mem /\ u.raw = t.raw /\ u.off = t.off
      /\ u.peeked = q /\ u.marks = t.marks /\ u.r = t.r /\ u.failed = t.failed
      /\ Cap(u) = Cap(t) /\ Cells(u) = Cells(t) /\ Unread(u) = Unread(t)
  <2>1. u \in Scanners
    BY <1>1, <1>2 DEF Scanners
  <2> QED BY <1>2, <2>1 DEF Cap, Cells, Unread
<1>4. MarksInOrder(u, n)
  BY <1>3 DEF Sound, MarksInOrder
<1>5. Sound(u, n)
  BY <1>3, <1>4 DEF Sound
<1> QED BY <1>3, <1>5 DEF Exact, MarksExact

LEMMA PeekedIsSound ==
  ASSUME NEW t, NEW n, Sound(t, n), Ok(Peek(t))
  PROVE  /\ Sound(Peeked(t), n) /\ Peeked(t).failed = t.failed
         /\ Peeked(t).peeked # << >> /\ Peeked(t).peeked[1] = Peek(t)
         /\ t.peeked = << >> => Peeked(t).peeked = <<Peek(t)>>
         /\ t.peeked # << >> => Peeked(t) = t
         /\ Exact(t, n) => Exact(Peeked(t), n)
<1> DEFINE u == Peeked(t)
<1>1. CASE t.peeked # << >>
  BY <1>1 DEF Peeked, Peek
<1>2. CASE t.peeked = << >>
  <2> DEFINE q == <<Peek(t)>>
  <2>1. u = [t EXCEPT !.peeked = q]
    BY <1>2 DEF Peeked
  <2>2. Peek(t) \in Rune /\ t.off + Peek(t).size <= t.raw
    BY PeekShape
  <2>3. q \in Seq(Rune) /\ q # << >> /\ q[1] = Peek(t) /\ Len(q) = 1
    BY <2>2
  <2>4. t \in Scanners
    BY DEF Sound
  <2>5. u.off = t.off /\ u.raw = t.raw /\ u.peeked = q
    BY <2>1, <2>4 DEF Scanners
  <2> HIDE DEF u, q
  <2>6. PeekedFit(u)
    <3>1. Len(u.peeked) = 1 /\ u.peeked[1] = Peek(t)
      BY <2>3, <2>5
    <3>2. u.off + u.peeked[1].size <= u.raw
      BY <2>2, <2>5, <3>1
    <3> QED BY <3>1, <3>2 DEF PeekedFit
  <2>7. Exact(t, n) => q[1] = CharacterAfter(n)
    BY <2>3, PeekIsCharacter
  <2>8. Sound(u, n) /\ u.failed = t.failed /\ (Exact(t, n) => Exact(u, n))
    BY <2>1, <2>3, <2>6, <2>7, PeekedUpdate
  <2> QED BY <1>2, <2>3, <2>5, <2>8 DEF u, q
<1> QED BY <1>1, <1>2

LEMMA PeekedTwoIsSound ==
  ASSUME NEW t, NEW n, Sound(t, n), Peek(t).size = 1
  PROVE  /\ Sound(PeekedTwo(t), n) /\ PeekedTwo(t).failed = t.failed
         /\ PeekedTwo(t).peeked # << >> /\ PeekedTwo(t).peeked[1] = Peek(t)
         /\ Ok(PeekTwo(t)) => Len(PeekedTwo(t).peeked) = 2 /\ PeekedTwo(t).peeked[2] = PeekTwo(t)
         /\ Exact(t, n) => Exact(PeekedTwo(t), n)
<1> DEFINE v == Peeked(t)
           u == PeekedTwo(t)
<1>1. Ok(Peek(t))
  BY DEF Ok
<1>2. /\ Sound(v, n) /\ v.failed = t.failed /\ v.peeked # << >> /\ v.peeked[1] = Peek(t)
      /\ t.peeked = << >> => v.peeked = <<Peek(t)>>
      /\ t.peeked # << >> => v = t
      /\ Exact(t, n) => Exact(v, n)
  BY <1>1, PeekedIsSound
<1>3. v.peeked \in Seq(Rune) /\ Len(v.peeked) \in Nat /\ Len(v.peeked) <= 2 /\ Len(v.peeked) # 0
  BY <1>2, SoundNumbers, RuneShape, EmptySeq DEF Sound, PeekedFit
<1>4. CASE Len(v.peeked) = 1 /\ Ok(PeekTwo(t))
  <2> DEFINE q == Append(v.peeked, PeekTwo(t))
  <2>1. u = [t EXCEPT !.peeked = q]
    BY <1>4 DEF PeekedTwo
  <2>2. PeekTwo(t) \in Rune /\ t.off + Peek(t).size + PeekTwo(t).size <= t.raw
    BY <1>1, <1>4, PeekTwoShape
  <2>3. q \in Seq(Rune) /\ Len(q) = 2 /\ q[1] = Peek(t) /\ q[2] = PeekTwo(t)
    BY <1>2, <1>3, <1>4, <2>2, AppendProperties
  <2>4. q # << >>
    BY <2>3, EmptySeq
  <2>5. t \in Scanners
    BY DEF Sound
  <2>6. u.off = t.off /\ u.raw = t.raw /\ u.peeked = q
    BY <2>1, <2>5 DEF Scanners
  <2> HIDE DEF u, q, v
  <2>7. PeekedFit(u)
    <3>1. Len(u.peeked) = 2 /\ u.peeked[1] = Peek(t) /\ u.peeked[2] = PeekTwo(t)
      BY <2>3, <2>6
    <3>2. u.off + u.peeked[1].size + u.peeked[2].size <= u.raw
      BY <2>2, <2>6, <3>1
    <3>3. u.off + u.peeked[1].size <= u.raw
      BY <1>1, <2>6, <3>1, PeekShape
    <3> QED BY <3>1, <3>2, <3>3 DEF PeekedFit
  <2>8. Exact(t, n) => q[1] = CharacterAfter(n) /\ q[2] = CharacterAfter(n + q[1].size)
    BY <2>3, PeekIsCharacter, PeekTwoIsCharacter
  <2>9. Sound(u, n) /\ u.failed = t.failed /\ (Exact(t, n) => Exact(u, n))
    BY <2>1, <2>3, <2>7, <2>8, PeekedUpdate
  <2> QED BY <2>3, <2>4, <2>6, <2>9 DEF u
<1>5. CASE ~(Len(v.peeked) = 1 /\ Ok(PeekTwo(t)))
  <2>1. u = v
    BY <1>5 DEF PeekedTwo
  <2>2. ASSUME Ok(PeekTwo(t)) PROVE Len(v.peeked) = 2 /\ v.peeked[2] = PeekTwo(t)
    <3>1. Len(v.peeked) = 2
      <4>1. \A x \in Nat : x <= 2 /\ x # 0 /\ x # 1 => x = 2
        OBVIOUS
      <4>2. Len(v.peeked) # 1
        BY <1>5, <2>2
      <4> HIDE DEF v
      <4> QED BY <1>3, <4>1, <4>2
    <3>2. t.peeked # << >>
      <4>1. Len(<<Peek(t)>>) = 1
        OBVIOUS
      <4> HIDE DEF v
      <4> QED BY <1>2, <3>1, <4>1
    <3> QED BY <1>2, <3>1, <3>2 DEF PeekTwo
  <2> QED BY <1>2, <2>1, <2>2
<1> QED BY <1>4, <1>5

\* What get leaves of the characters peeked at
LEMMA PeekedRest ==
  ASSUME NEW q \in Seq(Rune), q # << >>, Len(q) <= 2
  PROVE  /\ Tail(q) \in Seq(Rune) /\ Len(Tail(q)) <= 1
         /\ Tail(q) # << >> => Len(q) = 2 /\ Tail(q)[1] = q[2]
         /\ Len(q) = 2 => Tail(q) # << >>
<1>1. Len(q) \in Nat /\ Len(q) # 0
  BY LenProperties, EmptySeq
<1>2. Tail(q) \in Seq(Rune) /\ Len(Tail(q)) = Len(q) - 1
  BY HeadTailProperties
<1>3. \A i \in 1 .. Len(Tail(q)) : Tail(q)[i] = q[i + 1]
  BY HeadTailProperties
<1>4. Len(Tail(q)) \in Nat /\ (Tail(q) # << >> <=> Len(Tail(q)) # 0)
  BY <1>2, LenProperties, EmptySeq
<1>5. Len(Tail(q)) <= 1
  BY <1>1, <1>2
<1>6. ASSUME Tail(q) # << >> PROVE Len(q) = 2 /\ Tail(q)[1] = q[2]
  <2>1. Len(Tail(q)) # 0
    BY <1>4, <1>6
  <2>2. Len(q) = 2 /\ 1 \in 1 .. Len(Tail(q)) /\ 1 + 1 = 2
    BY <1>1, <1>2, <2>1
  <2> QED BY <1>3, <2>2
<1>7. Len(q) = 2 => Len(Tail(q)) # 0
  BY <1>2
<1> QED BY <1>2, <1>4, <1>5, <1>6, <1>7

\* What get does to a scanner that is topped up
LEMMA Advanced ==
  ASSUME NEW u, NEW n, Sound(u, n), NEW size \in Nat,
         size > 0, size <= UTFMax, size <= Unread(u), NEW v \in Scanners,
         v.mem = u.mem, v.raw = u.raw, v.off = u.off + size, v.marks = u.marks,
         v.r = u.r, v.failed = u.failed, Len(v.peeked) <= 1,
         v.peeked # << >> => /\ Len(u.peeked) = 2 /\ u.peeked # << >>
                             /\ v.peeked[1] = u.peeked[2] /\ size = u.peeked[1].size
  PROVE  /\ Sound(v, n + size)
         /\ Exact(u, n) /\ (u.r # NoReader => Unread(u) > LowWater) => Exact(v, n + size)
<1>1. /\ u.off \in Nat /\ u.raw \in Nat /\ n \in Nat /\ Unread(u) = u.raw - u.off
      /\ UTFMax \in Nat \ {0} /\ Len(doc) \in Nat /\ Unread(u) \in Nat
  BY SoundNumbers
<1>2. size \in Nat /\ size > 0 /\ size <= UTFMax /\ size <= Unread(u)
  OBVIOUS
<1>3. PeekedFit(u) /\ MarksInOrder(u, n)
  BY DEF Sound
<1>4. Len(v.peeked) # 2
  <2>1. Len(v.peeked) \in Nat
    BY LenProperties DEF Scanners
  <2>2. \A x \in Nat : x <= 1 => x # 2
    OBVIOUS
  <2> QED BY <2>1, <2>2
<1>5. \A a, b, c, d, z \in Nat :
        /\ a - b = c - d => (a + z) - b = (c + z) - d
        /\ a <= b /\ c <= d => a <= b + z /\ c <= d + z
        /\ z <= a - b => b + z <= a
        /\ z <= a - b => a - (b + z) = (a - b) - z /\ (c + z) + (a - (b + z)) = c + (a - b)
  OBVIOUS
<1>6. Cap(v) = Cap(u) /\ Cells(v) = Cells(u) /\ v.off \in Nat
  BY DEF Cap, Cells, Scanners
<1>7. /\ Unread(v) = Unread(u) - size /\ v.off <= v.raw
      /\ n + size \in Nat /\ (n + size) + Unread(v) = n + Unread(u)
  <2>1. Unread(v) = v.raw - v.off
    BY DEF Unread
  <2>2. n + size \in Nat
    BY <1>1
  <2>3. size <= u.raw - u.off
    BY <1>1
  <2>4. /\ u.off + size <= u.raw /\ u.raw - (u.off + size) = (u.raw - u.off) - size
        /\ (n + size) + (u.raw - (u.off + size)) = n + (u.raw - u.off)
    BY <1>1, <1>5, <2>3
  <2> QED BY <1>1, <2>1, <2>2, <2>4
<1>8. PeekedFit(v)
  <2>1. SUFFICES ASSUME v.peeked # << >> PROVE v.off + v.peeked[1].size <= v.raw
    BY <1>4 DEF PeekedFit
  <2> QED BY <1>3, <2>1 DEF PeekedFit
<1>9. MarksInOrder(v, n + size)
  <2>1. ASSUME NEW k \in DOMAIN u.marks
        PROVE  u.marks[k].off <= v.off /\ u.marks[k].pos <= n + size
    <3>1. u.marks[k].off <= u.off /\ u.marks[k].pos <= n
      BY <1>3 DEF MarksInOrder
    <3>2. u.marks[k].off \in Nat /\ u.marks[k].pos \in Nat
      BY MarkShape, SoundNumbers
    <3> QED BY <1>1, <3>1, <3>2, SMTT(30)
  <2> QED BY <1>3, <2>1 DEF MarksInOrder
<1>10. Sound(v, n + size)
  <2>1. v.mem # << >> /\ BufferSize <= Cap(v) /\ v.raw <= Cap(v) /\ doc \in Documents
    BY <1>6 DEF Sound
  <2>2. \A i \in 0 .. v.raw - 1 : Cells(v)[i] \in 1 .. Len(doc)
    BY <1>6 DEF Sound
  <2>3. v.r # NoReader => ~v.failed /\ v.r = n + Unread(u)
    BY <1>6 DEF Sound
  <2>4. n + Unread(u) <= Len(doc)
    BY DEF Sound
  <2> QED BY <1>6, <1>7, <1>8, <1>9, <2>1, <2>2, <2>3, <2>4 DEF Sound
<1>11. ASSUME Exact(u, n), u.r # NoReader => Unread(u) > LowWater PROVE Exact(v, n + size)
  <2>1. ASSUME NEW i \in 0 .. v.raw - 1 PROVE Cells(v)[i] = i + 1 + (n + size) - v.off
    <3>1. Cells(v)[i] = i + 1 + n - u.off
      BY <1>6, <1>11 DEF Exact, MarksExact
    <3>2. i \in Int
      OBVIOUS
    <3> QED BY <1>1, <3>1, <3>2
  <2>2. v.r = NoReader => (n + size) + Unread(v) = Len(doc)
    BY <1>6, <1>7, <1>11 DEF Exact, MarksExact
  <2>3. v.r # NoReader => Unread(v) > UTFMax
    <3>1. SUFFICES ASSUME v.r # NoReader PROVE Unread(v) > UTFMax
      OBVIOUS
    <3>2. Unread(u) > 2 * UTFMax
      BY <1>6, <1>11, <3>1 DEF LowWater
    <3>3. Unread(v) = Unread(u) - size
      BY <1>7
    <3> QED BY <1>1, <1>2, <3>2, <3>3
  <2>4. v.peeked # << >> => v.peeked[1] = CharacterAfter(n + size)
    BY <1>11 DEF Exact, MarksExact
  <2>5. ASSUME NEW k \in DOMAIN v.marks
        PROVE  v.off - v.marks[k].off = (n + size) - v.marks[k].pos
    <3> DEFINE a == u.off
               b == u.marks[k].off
               d == u.marks[k].pos
    <3>1. a - b = n - d
      BY <1>11 DEF Exact, MarksExact
    <3>2. a \in Nat /\ b \in Nat /\ d \in Nat /\ n \in Nat
      BY <1>1, MarkShape, SoundNumbers
    <3>3. v.off = a + size /\ v.marks[k].off = b /\ v.marks[k].pos = d
      OBVIOUS
    <3> HIDE DEF a, b, d
    <3>4. (a + size) - b = (n + size) - d
      BY <3>1, <3>2
    <3> QED BY <3>3, <3>4
  <2> QED BY <1>4, <2>1, <2>2, <2>3, <2>4, <2>5 DEF Exact, MarksExact
<1> QED BY <1>10, <1>11

LEMMA GetShape ==
  ASSUME NEW t, NEW n, Sound(t, n), Ok(Peek(TopUp(t)))
  PROVE  /\ Get(t) \in Scanners /\ Get(t).mem = TopUp(t).mem /\ Get(t).raw = TopUp(t).raw
         /\ Get(t).off = TopUp(t).off + Peek(TopUp(t)).size /\ Get(t).marks = TopUp(t).marks
         /\ Get(t).r = TopUp(t).r /\ Get(t).failed = TopUp(t).failed
         /\ Get(t).peeked = IF t.peeked = << >> THEN t.peeked ELSE Tail(t.peeked)
<1> DEFINE u == TopUp(t)
           q == IF u.peeked = << >> THEN u.peeked ELSE Tail(u.peeked)
           o == u.off + Peek(u).size
           v == Get(t)
<1>1. v = [u EXCEPT !.off = o, !.peeked = q]
  BY DEF Get
<1>2. Sound(u, n) /\ u.peeked = t.peeked
  BY TopUpIsSound
<1>3. u \in Scanners /\ u.off \in Nat /\ u.peeked \in Seq(Rune) /\ Peek(u).size \in Nat
  BY <1>2, SoundNumbers, PeekSize
<1>4. o \in Nat
  BY <1>3
<1>5. q \in Seq(Rune)
  BY <1>3, HeadTailProperties
<1>6. q = IF t.peeked = << >> THEN t.peeked ELSE Tail(t.peeked)
  BY <1>2
<1> HIDE DEF u, q, o, v
<1>7. u \in Scanners
  BY <1>3
<1>8. v = [mem |-> u.mem, raw |-> u.raw, off |-> o, peeked |-> q,
           marks |-> u.marks, r |-> u.r, failed |-> u.failed]
  BY <1>1, <1>7 DEF Scanners
<1>9. v \in Scanners
  BY <1>4, <1>5, <1>7, <1>8 DEF Scanners
<1> QED BY <1>6, <1>8, <1>9 DEF u, o, v

LEMMA GetIsSound ==
  ASSUME NEW t, NEW n, Sound(t, n), Ok(Peek(TopUp(t)))
  PROVE  /\ Sound(Get(t), n + Peek(TopUp(t)).size)
         /\ t.failed => Get(t).failed
         /\ Exact(t, n) /\ ~Get(t).failed => Exact(Get(t), n + Peek(TopUp(t)).size)
<1> DEFINE u == TopUp(t)
           v == Get(t)
<1>1. Sound(u, n) /\ u.peeked = t.peeked /\ (t.failed => u.failed)
  BY TopUpIsSound
<1>2. /\ v \in Scanners /\ v.mem = u.mem /\ v.raw = u.raw
      /\ v.off = u.off + Peek(u).size /\ v.marks = u.marks
      /\ v.r = u.r /\ v.failed = u.failed
  BY GetShape
<1>3. v.peeked = IF u.peeked = << >> THEN u.peeked ELSE Tail(u.peeked)
  BY <1>1, GetShape
<1>4. Exact(t, n) /\ ~u.failed => Exact(u, n) /\ (u.r # NoReader => Unread(u) > LowWater)
  BY TopUpIsExact
<1>5. Ok(Peek(u))
  OBVIOUS
<1> HIDE DEF u, v
<1>6. Peek(u).size \in Nat /\ Peek(u).size > 0 /\ Peek(u).size <= UTFMax /\ Peek(u).size <= Unread(u)
  BY <1>1, <1>5, PeekSize
<1>7. u.peeked \in Seq(Rune) /\ PeekedFit(u)
  BY <1>1, SoundNumbers DEF Sound
<1>8. /\ Len(v.peeked) <= 1
      /\ v.peeked # << >> => /\ Len(u.peeked) = 2 /\ u.peeked # << >>
                             /\ v.peeked[1] = u.peeked[2] /\ Peek(u).size = u.peeked[1].size
  <2>1. CASE u.peeked = << >>
    BY <1>3, <2>1, EmptySeq
  <2>2. CASE u.peeked # << >>
    BY <1>3, <1>7, <2>2, PeekedRest DEF PeekedFit, Peek
  <2> QED BY <2>1, <2>2
<1>9. /\ Sound(v, n + Peek(u).size)
      /\ Exact(u, n) /\ (u.r # NoReader => Unread(u) > LowWater) => Exact(v, n + Peek(u).size)
  BY <1>1, <1>2, <1>6, <1>8, Advanced
<1> QED BY <1>1, <1>2, <1>4, <1>9 DEF u, v

LEMMA MarksUpdate ==
  ASSUME NEW t, NEW n, Sound(t, n), NEW m \in Seq([off : Nat, pos : Nat]),
         NEW v, v = [t EXCEPT !.marks = m], MarksInOrder(v, n)
  PROVE  /\ Sound(v, n) /\ v.failed = t.failed /\ v.marks = m /\ v.mem = t.mem /\ v.r = t.r
         /\ v.off = t.off
         /\ Exact(t, n) /\ MarksExact(v, n) => Exact(v, n)
<1>1. t \in Scanners
  BY DEF Sound
<1>2. v = [mem |-> t.mem, raw |-> t.raw, off |-> t.off, peeked |-> t.peeked,
           marks |-> m, r |-> t.r, failed |-> t.failed]
  BY <1>1 DEF Scanners
<1>3. v \in Scanners
  BY <1>1, <1>2 DEF Scanners
<1>4. /\ v.mem = t.mem /\ v.raw = t.raw /\ v.off = t.off
      /\ v.peeked = t.peeked /\ v.marks = m /\ v.r = t.r /\ v.failed = t.failed
      /\ Cap(v) = Cap(t) /\ Cells(v) = Cells(t) /\ Unread(v) = Unread(t)
  BY <1>2 DEF Cap, Cells, Unread
<1>5. PeekedFit(v)
  BY <1>4 DEF Sound, PeekedFit
<1>6. Sound(v, n)
  BY <1>3, <1>4, <1>5 DEF Sound
<1>7. ASSUME Exact(t, n), MarksExact(v, n) PROVE Exact(v, n)
  BY <1>4, <1>7 DEF Exact
<1> QED BY <1>4, <1>6, <1>7

LEMMA MarksUpdated ==
  ASSUME NEW t \in Scanners, NEW m, NEW v, v = [t EXCEPT !.marks = m]
  PROVE  v.marks = m /\ v.off = t.off
BY DEF Scanners

LEMMA PushMarkIsSound ==
  ASSUME NEW t, Sound(t, read)
  PROVE  /\ Sound(PushMark(t), read) /\ PushMark(t).failed = t.failed
         /\ PushMark(t).mem = t.mem /\ PushMark(t).r = t.r
         /\ Exact(t, read) => Exact(PushMark(t), read)
<1> DEFINE e == [off |-> t.off, pos |-> read]
           m == Append(t.marks, e)
           l == Len(t.marks)
<1>1. t.off \in Nat /\ read \in Nat /\ t.marks \in Seq([off : Nat, pos : Nat])
  BY SoundNumbers
<1>2. e \in [off : Nat, pos : Nat] /\ e.off = t.off /\ e.pos = read
  BY <1>1
<1>3. l \in Nat /\ DOMAIN t.marks = 1 .. l
  BY <1>1, LenProperties
<1> HIDE DEF e
<1>4. /\ m \in Seq([off : Nat, pos : Nat]) /\ Len(m) = l + 1
      /\ \A i \in 1 .. l : m[i] = t.marks[i]
      /\ m[l + 1] = e
  BY <1>1, <1>2, AppendProperties
<1> HIDE DEF m, l
<1>5. DOMAIN m = 1 .. l + 1
  BY <1>4, LenProperties
<1>6. MarksInOrder(t, read)
  BY DEF Sound
<1>7. ASSUME NEW k \in 1 .. l
      PROVE  /\ m[k].off <= t.off /\ m[k].pos <= read
             /\ \A j \in 1 .. k : m[j].off <= m[k].off
  <2>1. \A j \in 1 .. k : j \in 1 .. l
    BY <1>3
  <2> QED BY <1>3, <1>4, <1>6, <2>1 DEF MarksInOrder
<1>8. /\ m[l + 1].off <= t.off /\ m[l + 1].pos <= read
      /\ \A j \in 1 .. l + 1 : m[j].off <= m[l + 1].off
  <2>1. t.off <= t.off /\ read <= read
    BY <1>1
  <2>2. \A j \in 1 .. l + 1 : j \in 1 .. l \/ j = l + 1
    BY <1>3
  <2> QED BY <1>2, <1>4, <1>7, <2>1, <2>2
<1>9. \A k \in 1 .. l + 1 : k \in 1 .. l \/ k = l + 1
  BY <1>3
<1>10. \A k \in DOMAIN m : /\ m[k].off <= t.off /\ m[k].pos <= read
                           /\ \A j \in 1 .. k : m[j].off <= m[k].off
  BY <1>5, <1>7, <1>8, <1>9
<1>11. ASSUME Exact(t, read), NEW k \in DOMAIN m PROVE t.off - m[k].off = read - m[k].pos
  <2>1. CASE k \in 1 .. l
    BY <1>3, <1>4, <1>11, <2>1 DEF Exact, MarksExact
  <2>2. CASE k = l + 1
    BY <1>1, <1>2, <1>4, <2>2
  <2> QED BY <1>5, <1>9, <2>1, <2>2
<1> DEFINE v == PushMark(t)
<1>12. v = [t EXCEPT !.marks = m]
  BY DEF PushMark, m, e
<1> HIDE DEF v
<1>13. v.marks = m /\ v.off = t.off
  BY <1>12, MarksUpdated DEF Sound
<1>14. MarksInOrder(v, read)
  BY <1>10, <1>13 DEF MarksInOrder
<1>15. Exact(t, read) => MarksExact(v, read)
  BY <1>11, <1>13 DEF MarksExact
<1>16. m \in Seq([off : Nat, pos : Nat])
  BY <1>4
<1>17. /\ Sound(v, read) /\ v.failed = t.failed /\ v.mem = t.mem /\ v.r = t.r
       /\ Exact(t, read) /\ MarksExact(v, read) => Exact(v, read)
  BY <1>12, <1>14, <1>16, MarksUpdate
<1> QED BY <1>15, <1>17 DEF v

LEMMA PopMarkIsSound ==
  ASSUME NEW t, NEW n, Sound(t, n), t.marks # << >>
  PROVE  /\ Sound(PopMark(t), n) /\ PopMark(t).failed = t.failed
         /\ PopMark(t).mem = t.mem /\ PopMark(t).r = t.r
         /\ Exact(t, n) => Exact(PopMark(t), n)
<1> DEFINE m == Front(t.marks)
           l == Len(t.marks)
<1>1. t.marks \in Seq([off : Nat, pos : Nat]) /\ MarksInOrder(t, n)
  BY SoundNumbers DEF Sound
<1>2. l \in Nat \ {0} /\ DOMAIN t.marks = 1 .. l
  BY <1>1, LastIsElement
<1>3. /\ m \in Seq([off : Nat, pos : Nat]) /\ DOMAIN m = 1 .. l - 1
      /\ \A k \in 1 .. l - 1 : m[k] = t.marks[k]
  <2>1. m = SubSeq(t.marks, 1, l - 1)
    BY DEF Front
  <2>2. l \in Nat /\ l - 1 \in Nat
    BY <1>2
  <2>3. \A k \in 1 .. l - 1 : t.marks[k] \in [off : Nat, pos : Nat]
    <3>1. \A k \in 1 .. l - 1 : k \in 1 .. l
      BY <2>2
    <3> QED BY <1>1, <1>2, <3>1, ElementOfSeq
  <2> HIDE DEF m, l
  <2>4. /\ m \in Seq([off : Nat, pos : Nat]) /\ Len(m) = IF 1 <= l - 1 THEN (l - 1) - 1 + 1 ELSE 0
        /\ \A k \in 1 .. (l - 1) - 1 + 1 : m[k] = t.marks[1 + k - 1]
    BY <2>1, <2>2, <2>3, SubSeqProperties
  <2>5. (l - 1) - 1 + 1 = l - 1 /\ \A k \in 1 .. l - 1 : 1 + k - 1 = k
    BY <2>2
  <2>6. Len(m) = l - 1
    BY <2>2, <2>4
  <2> QED BY <2>4, <2>5, <2>6, LenProperties
<1> HIDE DEF m, l
<1>4. ASSUME NEW k \in DOMAIN m
      PROVE  /\ m[k].off <= t.off /\ m[k].pos <= n
             /\ \A j \in 1 .. k : m[j].off <= m[k].off
  <2>1. k \in 1 .. l /\ \A j \in 1 .. k : j \in 1 .. l - 1
    BY <1>2, <1>3
  <2> QED BY <1>1, <1>2, <1>3, <2>1 DEF MarksInOrder
<1>5. ASSUME Exact(t, n), NEW k \in DOMAIN m PROVE t.off - m[k].off = n - m[k].pos
  <2>1. k \in 1 .. l
    BY <1>2, <1>3
  <2> QED BY <1>2, <1>3, <1>5, <2>1 DEF Exact, MarksExact
<1> DEFINE v == PopMark(t)
<1>6. v = [t EXCEPT !.marks = m]
  BY DEF PopMark, m
<1> HIDE DEF v
<1>7. v.marks = m /\ v.off = t.off
  BY <1>6, MarksUpdated DEF Sound
<1>8. MarksInOrder(v, n)
  BY <1>4, <1>7 DEF MarksInOrder
<1>9. Exact(t, n) => MarksExact(v, n)
  BY <1>5, <1>7 DEF MarksExact
<1>10. m \in Seq([off : Nat, pos : Nat])
  BY <1>3
<1>11. /\ Sound(v, n) /\ v.failed = t.failed /\ v.mem = t.mem /\ v.r = t.r
       /\ Exact(t, n) /\ MarksExact(v, n) => Exact(v, n)
  BY <1>6, <1>8, <1>10, MarksUpdate
<1> QED BY <1>9, <1>11 DEF v

LEMMA NoMarksIsSound ==
  ASSUME NEW t, NEW n, Sound(t, n), NEW v, v = [t EXCEPT !.marks = << >>]
  PROVE  Sound(v, n) /\ v.failed = t.failed /\ v.mem = t.mem /\ v.r = t.r /\ (Exact(t, n) => Exact(v, n))
<1>1. v.marks = << >>
  BY MarksUpdated DEF Sound
<1>2. MarksInOrder(v, n) /\ MarksExact(v, n)
  BY <1>1 DEF MarksInOrder, MarksExact
<1> DEFINE m == << >>
<1>3. m \in Seq([off : Nat, pos : Nat]) /\ v = [t EXCEPT !.marks = m]
  OBVIOUS
<1> HIDE DEF m
<1> QED BY <1>2, <1>3, MarksUpdate

-----------------------------------------------------------------------------
(* The same, once for all of it *)

LEMMA GoodPeeked ==
  ASSUME NEW t, NEW n, Good(t, n)
  PROVE  Good(Peeked(t), n)
<1>1. CASE Ok(Peek(t))
  BY <1>1, PeekedIsSound DEF Good
<1>2. CASE ~Ok(Peek(t))
  BY <1>2 DEF Peeked
<1> QED BY <1>1, <1>2

LEMMA GoodPeekedTwo ==
  ASSUME NEW t, NEW n, Good(t, n), Peek(t).size = 1
  PROVE  Good(PeekedTwo(t), n)
BY PeekedTwoIsSound DEF Good

LEMMA GoodGet ==
  ASSUME NEW t, NEW n, Good(t, n), NEW size, size = Peek(TopUp(t)).size, Ok(Peek(TopUp(t)))
  PROVE  Good(Get(t), n + size)
BY GetIsSound DEF Good

\* A character that was peeked at is what get returns, refill or not.
LEMMA GetReturnsPeeked ==
  ASSUME NEW t, NEW n, Good(t, n), t.peeked # << >>
  PROVE  Peek(TopUp(t)) = t.peeked[1] /\ Ok(Peek(TopUp(t)))
<1>1. Sound(t, n)
  BY DEF Good
<1>2. TopUp(t).peeked = t.peeked
  BY <1>1, TopUpIsSound
<1>3. t.peeked \in Seq(Rune)
  BY <1>1, SoundNumbers
<1>4. t.peeked[1].size \in Nat \ {0}
  BY <1>3, RuneShape
<1>5. Peek(TopUp(t)) = t.peeked[1]
  BY <1>2 DEF Peek
<1> QED BY <1>4, <1>5 DEF Ok

LEMMA GoodGetPeeked ==
  ASSUME NEW t, NEW n, Good(t, n), t.peeked # << >>
  PROVE  Good(Get(t), n + t.peeked[1].size)
BY GetReturnsPeeked, GoodGet

LEMMA GoodOneCharacter ==
  ASSUME NEW t, NEW n, Good(t, n), Ok(Peek(t))
  PROVE  /\ Good(Get(Peeked(t)), n + Peek(t).size)
         /\ Peek(t).size = 1 => Good(Get(PeekedTwo(t)), n + Peek(t).size)
<1>1. Sound(t, n)
  BY DEF Good
<1>2. Good(Peeked(t), n) /\ Peeked(t).peeked # << >> /\ Peeked(t).peeked[1] = Peek(t)
  BY <1>1, GoodPeeked, PeekedIsSound
<1>3. ASSUME Peek(t).size = 1
      PROVE  /\ Good(PeekedTwo(t), n) /\ PeekedTwo(t).peeked # << >>
             /\ PeekedTwo(t).peeked[1] = Peek(t)
  BY <1>1, <1>3, GoodPeekedTwo, PeekedTwoIsSound
<1> QED BY <1>2, <1>3, GoodGetPeeked

LEMMA GoodTwoCharacters ==
  ASSUME NEW t, NEW n, Good(t, n), Peek(t).size = 1, PeekTwo(t).size = 1
  PROVE  Good(Get(Get(PeekedTwo(t))), n + 2)
<1> DEFINE u == PeekedTwo(t)
           v == Get(u)
<1>1. Sound(t, n) /\ n \in Nat
  BY SoundNumbers DEF Good
<1>2. Ok(PeekTwo(t))
  BY DEF Ok
<1>3. /\ Good(u, n) /\ u.peeked # << >> /\ u.peeked[1] = Peek(t)
      /\ Len(u.peeked) = 2 /\ u.peeked[2] = PeekTwo(t)
  BY <1>1, <1>2, GoodPeekedTwo, PeekedTwoIsSound
<1> HIDE DEF u
<1>4. Good(v, n + 1)
  BY <1>3, GoodGetPeeked
<1>5. v.peeked = Tail(u.peeked)
  BY <1>3, GetReturnsPeeked, GetShape DEF Good
<1>6. v.peeked # << >> /\ v.peeked[1] = PeekTwo(t)
  <2>1. u.peeked \in Seq(Rune) /\ Len(u.peeked) <= 2
    BY <1>3, SoundNumbers DEF Good
  <2> QED BY <1>3, <1>5, <2>1, PeekedRest
<1> HIDE DEF v
<1>7. Good(Get(v), (n + 1) + 1)
  BY <1>4, <1>6, GoodGetPeeked
<1>8. (n + 1) + 1 = n + 2
  BY <1>1
<1> QED BY <1>7, <1>8 DEF u, v

LEMMA GoodPushMark ==
  ASSUME NEW t, Good(t, read)
  PROVE  Good(PushMark(t), read)
BY PushMarkIsSound DEF Good

LEMMA GoodPopMark ==
  ASSUME NEW t, NEW n, Good(t, n), t.marks # << >>
  PROVE  Good(PopMark(t), n)
BY PopMarkIsSound DEF Good

LEMMA GoodTopUp ==
  ASSUME NEW t, NEW n, Good(t, n)
  PROVE  Good(TopUp(t), n)
BY TopUpIsSound, TopUpIsExact DEF Good

-----------------------------------------------------------------------------
(* The actions *)

LEMMA GoodAfterInit ==
  ASSUME Init
  PROVE  Good(s, read)
<1> DEFINE n     == IF Len(doc) < BufferSize THEN Len(doc) ELSE BufferSize
           at    == [i \in 0 .. BufferSize - 1 |-> 0]
           empty == [cap |-> BufferSize, at |-> at]
           a     == Filled(empty, 0, n, 0)
           fails == n < BufferSize /\ (readerFails \/ n = 0)
           raw   == IF fails THEN 0 ELSE n
           r     == IF n < BufferSize THEN NoReader ELSE n
<1>1. doc \in Documents /\ Len(doc) \in Nat /\ readerFails \in BOOLEAN
  BY DocumentShape DEF Init
<1>2. BufferSize \in Nat /\ UTFMax \in Nat /\ UTFMax > 0 /\ 4 * UTFMax <= BufferSize
  BY UTFMaxAssumption, BufferSizeAssumption
<1>3. n \in Nat /\ n <= BufferSize /\ n <= Len(doc) /\ (n < BufferSize => n = Len(doc))
  BY <1>1, <1>2
<1>4. at \in [0 .. BufferSize - 1 -> 0 .. Len(doc)]
  BY <1>1
<1>5. empty \in ByteArrays /\ empty.cap = BufferSize
  <2> HIDE DEF at
  <2> QED BY <1>2, <1>4, ShapeOfArray
<1>6. read = 0 /\ s = [mem |-> <<a>>, raw |-> raw, off |-> 0, peeked |-> << >>,
                       marks |-> << >>, r |-> r, failed |-> fails]
  BY DEF Init
<1> HIDE DEF n, at, empty
<1>7. /\ a \in ByteArrays /\ a.cap = BufferSize
      /\ \A i \in 0 .. n - 1 : a.at[i] = i + 1
  <2>1. 0 + n <= empty.cap /\ 0 + n <= Len(doc)
    BY <1>3, <1>5
  <2>2. a \in ByteArrays
    BY <1>1, <1>3, <1>5, <2>1, FilledShape
  <2>3. a.cap = BufferSize
    BY <1>1, <1>3, <1>5, <2>1, FilledShape
  <2>4. \A i \in 0 .. 0 + n - 1 : a.at[i] = 0 + 1 + (i - 0)
    BY <1>1, <1>3, <1>5, <2>1, FilledShape
  <2>5. \A i \in 0 .. n - 1 : i \in 0 .. 0 + n - 1 /\ 0 + 1 + (i - 0) = i + 1
    BY <1>3
  <2> QED BY <2>2, <2>3, <2>4, <2>5
<1> HIDE DEF a
<1>8. fails \in BOOLEAN /\ raw \in Nat /\ raw <= n /\ (~fails => raw = n)
  BY <1>1, <1>3
<1>9. r \in {NoReader} \cup 0 .. Len(doc) /\ (r # NoReader => ~fails /\ r = n /\ n = BufferSize)
  BY <1>2, <1>3
<1>10. r = NoReader => n = Len(doc)
  <2>1. CASE n < BufferSize
    BY <1>3, <2>1
  <2>2. CASE ~(n < BufferSize)
    <3>1. r = n /\ n # -1
      BY <1>3, <2>2
    <3> QED BY <3>1 DEF NoReader
  <2> QED BY <2>1, <2>2
<1> HIDE DEF fails, raw, r
<1>11. <<a>> \in Seq(ByteArrays) /\ <<a>> # << >> /\ Last(<<a>>) = a
  <2>1. <<a>> \in Seq(ByteArrays) /\ Len(<<a>>) = 1 /\ <<a>>[1] = a
    BY <1>7
  <2> QED BY <2>1 DEF Last
<1>12. /\ s.mem = <<a>> /\ s.raw = raw /\ s.off = 0 /\ s.peeked = << >>
       /\ s.marks = << >> /\ s.r = r /\ s.failed = fails
  BY <1>6
<1>13. s \in Scanners
  <2>1. << >> \in Seq(Rune) /\ << >> \in Seq([off : Nat, pos : Nat]) /\ 0 \in Nat
    OBVIOUS
  <2> QED BY <1>6, <1>8, <1>9, <1>11, <2>1 DEF Scanners
<1>14. Cap(s) = BufferSize /\ Cells(s) = a.at
  BY <1>7, <1>11, <1>12 DEF Cap, Cells
<1>15. Unread(s) = raw /\ read = 0
  BY <1>6, <1>8, <1>12 DEF Unread
<1>16. PeekedFit(s) /\ MarksInOrder(s, read) /\ MarksExact(s, read)
  BY <1>12 DEF PeekedFit, MarksInOrder, MarksExact
<1>17. \A i \in 0 .. s.raw - 1 : Cells(s)[i] = i + 1 /\ i + 1 \in 1 .. Len(doc)
  <2>1. \A i \in 0 .. raw - 1 : i \in 0 .. n - 1 /\ i + 1 \in 1 .. Len(doc)
    BY <1>1, <1>3, <1>8
  <2> QED BY <1>7, <1>12, <1>14, <2>1
<1>18. Sound(s, read)
  <2>1. 0 + raw <= Len(doc) /\ raw <= BufferSize /\ BufferSize <= BufferSize
    BY <1>1, <1>2, <1>3, <1>8
  <2>2. r # NoReader => ~fails /\ r = 0 + raw
    BY <1>3, <1>8, <1>9
  <2> QED BY <1>1, <1>8, <1>11, <1>12, <1>13, <1>14, <1>15, <1>16, <1>17, <2>1, <2>2 DEF Sound
<1>19. ASSUME ~fails PROVE Exact(s, read)
  <2>1. \A i \in 0 .. s.raw - 1 : Cells(s)[i] = i + 1 + read - s.off
    <3>1. \A i \in 0 .. s.raw - 1 : i + 1 = i + 1 + 0 - 0
      OBVIOUS
    <3> QED BY <1>12, <1>15, <1>17, <3>1
  <2>2. s.r = NoReader => read + Unread(s) = Len(doc)
    BY <1>8, <1>10, <1>12, <1>15, <1>19
  <2>3. s.r # NoReader => Unread(s) > UTFMax
    BY <1>2, <1>8, <1>9, <1>12, <1>15, <1>19
  <2> QED BY <1>12, <1>16, <2>1, <2>2, <2>3 DEF Exact
<1> QED BY <1>12, <1>18, <1>19 DEF Good

LEMMA GoodAfterStep ==
  ASSUME Good(s, read), Next
  PROVE  Good(s', read')
<1>1. CASE ScanEnd
  BY <1>1 DEF ScanEnd, Ends
<1>2. CASE ScanEndsAfterOne
  BY <1>2, GoodPeekedTwo DEF ScanEndsAfterOne, Ends
<1>3. CASE OneCharacter
  BY <1>3, GoodOneCharacter DEF OneCharacter
<1>4. CASE TwoCharacters
  BY <1>4, GoodTwoCharacters DEF TwoCharacters
<1>5. CASE Begin
  BY <1>5, GoodPeeked, GoodPeekedTwo, GoodPushMark DEF Begin
<1>6. CASE Consume
  BY <1>6, GoodGet DEF Consume
<1>7. CASE LookAhead
  BY <1>7, GoodPeeked DEF LookAhead
<1>8. CASE Nest
  BY <1>8, GoodPushMark DEF Nest
<1>9. CASE Unnest
  BY <1>9, GoodPopMark DEF Unnest, InToken
<1>10. CASE Finish
  BY <1>10, GoodPopMark DEF Finish, InToken
<1>11. CASE Unfinished
  <2>1. PICK t \in {s, TopUp(s)} : s' = [t EXCEPT !.marks = << >>]
    BY <1>11 DEF Unfinished
  <2>2. Good(t, read)
    BY <2>1, GoodTopUp
  <2>3. read' = read
    BY <1>11 DEF Unfinished, Ends
  <2> QED BY <2>1, <2>2, <2>3, NoMarksIsSound DEF Good
<1> QED BY <1>1, <1>2, <1>3, <1>4, <1>5, <1>6, <1>7, <1>8, <1>9, <1>10, <1>11 DEF Next

\* No step changes the document.
LEMMA GoodOfTheSameDocument ==
  ASSUME doc' = doc
  PROVE  Good(s, read)' <=> Good(s', read')
BY DEF Good, Sound, Exact, Scanners, ByteArrays, Cap, Cells, Unread, PeekedFit, MarksInOrder,
       MarksExact, CharacterAfter

-----------------------------------------------------------------------------
(* A document that fits the buffer *)

\* Without a reader nothing touches the arrays.
Settled(t, u) == u.mem = t.mem /\ u.r = t.r /\ u.failed = t.failed

LEMMA PeekedSettled ==
  ASSUME NEW t, NEW n, Sound(t, n)
  PROVE  Settled(t, Peeked(t)) /\ (Peek(t).size = 1 => Settled(t, PeekedTwo(t)))
<1>1. t \in Scanners
  BY DEF Sound
<1>2. \A q : Settled(t, [t EXCEPT !.peeked = q])
  BY <1>1 DEF Scanners, Settled
<1>3. Settled(t, t)
  BY DEF Settled
<1> QED BY <1>2, <1>3 DEF Peeked, PeekedTwo

LEMMA GetSettled ==
  ASSUME NEW t, NEW n, Sound(t, n), t.r = NoReader
  PROVE  TopUp(t) = t /\ Settled(t, Get(t))
<1>1. TopUp(t) = t
  BY DEF TopUp, Refill
<1>2. CASE Ok(Peek(TopUp(t)))
  BY <1>1, <1>2, GetShape DEF Settled
<1>3. CASE ~Ok(Peek(TopUp(t)))
  BY <1>1, <1>3 DEF Get, Settled
<1> QED BY <1>1, <1>2, <1>3

LEMMA MarkSettled ==
  ASSUME NEW t, NEW n, Sound(t, n)
  PROVE  /\ Settled(t, PushMark(t)) /\ Settled(t, PopMark(t))
         /\ Settled(t, [t EXCEPT !.marks = << >>])
<1>1. t \in Scanners
  BY DEF Sound
<1>2. \A m : Settled(t, [t EXCEPT !.marks = m])
  BY <1>1 DEF Scanners, Settled
<1> QED BY <1>2 DEF PushMark, PopMark

LEMMA SettledAgain ==
  ASSUME NEW t, NEW u, NEW v, Settled(t, u), Settled(u, v)
  PROVE  Settled(t, v)
BY DEF Settled

LEMMA StepSettled ==
  ASSUME Good(s, read), s.r = NoReader, Next
  PROVE  Settled(s, s')
<1>1. Sound(s, read)
  BY DEF Good
<1>2. CASE ScanEnd
  BY <1>2 DEF ScanEnd, Settled
<1>3. CASE ScanEndsAfterOne
  BY <1>1, <1>3, PeekedSettled DEF ScanEndsAfterOne
<1>4. CASE OneCharacter
  <2>1. Settled(s, Peeked(s)) /\ (Peek(s).size = 1 => Settled(s, PeekedTwo(s)))
    BY <1>1, PeekedSettled
  <2>2. Sound(Peeked(s), read) /\ (Peek(s).size = 1 => Sound(PeekedTwo(s), read))
    BY GoodPeeked, GoodPeekedTwo DEF Good
  <2>3. Settled(Peeked(s), Get(Peeked(s)))
    BY <2>1, <2>2, GetSettled DEF Settled
  <2>4. Peek(s).size = 1 => Settled(PeekedTwo(s), Get(PeekedTwo(s)))
    BY <2>1, <2>2, GetSettled DEF Settled
  <2> QED BY <1>4, <2>1, <2>3, <2>4, SettledAgain DEF OneCharacter
<1>5. CASE TwoCharacters
  <2> DEFINE u == PeekedTwo(s)
             v == Get(u)
  <2>1. Peek(s).size = 1 /\ PeekTwo(s).size = 1 /\ s' = Get(v)
    BY <1>5 DEF TwoCharacters
  <2>2. Settled(s, u) /\ Good(u, read) /\ u.peeked # << >>
    BY <1>1, <2>1, PeekedSettled, GoodPeekedTwo, PeekedTwoIsSound
  <2> HIDE DEF u
  <2>3. Settled(u, v) /\ Good(v, read + u.peeked[1].size)
    BY <2>2, GetSettled, GoodGetPeeked DEF Good, Settled
  <2> HIDE DEF v
  <2>4. Settled(v, Get(v))
    BY <2>2, <2>3, GetSettled DEF Good, Settled
  <2> QED BY <2>1, <2>2, <2>3, <2>4, SettledAgain
<1>6. CASE Begin
  <2>1. Settled(s, Peeked(s)) /\ Settled(Peeked(s), PushMark(Peeked(s)))
    BY <1>1, PeekedSettled, GoodPeeked, MarkSettled DEF Good
  <2>2. Peek(s).size = 1 => Settled(s, PeekedTwo(s)) /\ Settled(PeekedTwo(s), PushMark(PeekedTwo(s)))
    BY <1>1, PeekedSettled, GoodPeekedTwo, MarkSettled DEF Good
  <2> QED BY <1>6, <2>1, <2>2, SettledAgain DEF Begin
<1>7. CASE Consume
  BY <1>1, <1>7, GetSettled DEF Consume
<1>8. CASE LookAhead
  BY <1>1, <1>8, PeekedSettled DEF LookAhead
<1>9. CASE Nest
  BY <1>1, <1>9, MarkSettled DEF Nest
<1>10. CASE Unnest
  BY <1>1, <1>10, MarkSettled DEF Unnest
<1>11. CASE Finish
  BY <1>1, <1>11, MarkSettled DEF Finish
<1>12. CASE Unfinished
  BY <1>1, <1>12, MarkSettled, GetSettled DEF Unfinished
<1> QED BY <1>2, <1>3, <1>4, <1>5, <1>6, <1>7, <1>8, <1>9, <1>10, <1>11, <1>12 DEF Next

LEMMA OneArray ==
  ASSUME NEW t, NEW n, Sound(t, n), Len(t.mem) = 1
  PROVE  t.mem[1] = Last(t.mem)
BY DEF Last

\* The buffer holds the document, from any offset.
LEMMA BufferHolds ==
  ASSUME NEW t, NEW n, Sound(t, n), Exact(t, n), NEW lo \in Nat, NEW hi \in Nat, hi <= t.raw,
         NEW from \in Nat, t.off - lo = n - from
  PROVE  Holds(Last(t.mem), lo, hi, from)
<1>1. t.off \in Nat /\ t.raw \in Nat /\ n \in Nat
  BY SoundNumbers
<1>2. ASSUME NEW i \in lo .. hi - 1 PROVE Last(t.mem).at[i] = from + 1 + (i - lo)
  <2>1. i \in 0 .. t.raw - 1
    BY <1>1
  <2>2. Last(t.mem).at[i] = i + 1 + n - t.off
    BY <2>1 DEF Exact, Cells
  <2>3. i \in Int
    OBVIOUS
  <2>4. i + 1 + n - t.off = from + 1 + (i - lo)
    BY <1>1, <2>3
  <2> QED BY <2>2, <2>4
<1> QED BY <1>2 DEF Holds

LEMMA MarkedText ==
  ASSUME NEW t, NEW n, Sound(t, n), Exact(t, n), NEW k \in DOMAIN t.marks
  PROVE  /\ t.marks[k].off \in Nat /\ t.marks[k].pos \in Nat
         /\ t.off - t.marks[k].off = n - t.marks[k].pos
         /\ Holds(Last(t.mem), t.marks[k].off, t.off, t.marks[k].pos)
<1>1. t.marks[k].off \in Nat /\ t.marks[k].pos \in Nat
  BY MarkShape, SoundNumbers
<1>2. t.off - t.marks[k].off = n - t.marks[k].pos
  BY DEF Exact, MarksExact
<1>3. t.off \in Nat /\ t.off <= t.raw
  BY SoundNumbers
<1> QED BY <1>1, <1>2, <1>3, BufferHolds

\* The tokens that are handed out
LEMMA MarkedSlice ==
  ASSUME Good(s, read), ~s.failed, Len(s.mem) = 1, s.marks # << >>
  PROVE  CopyFromMark(s) \in Slice /\ HasItsText(CopyFromMark(s))
<1> DEFINE m == Last(s.marks)
           k == Len(s.marks)
           token == CopyFromMark(s)
<1>1. Sound(s, read) /\ Exact(s, read)
  BY DEF Good
<1>2. s.off \in Nat /\ read \in Nat /\ s.marks \in Seq([off : Nat, pos : Nat])
  BY <1>1, SoundNumbers
<1>3. k \in DOMAIN s.marks /\ m = s.marks[k]
  <2>1. k \in Nat \ {0} /\ DOMAIN s.marks = 1 .. k
    BY <1>2, LastIsElement
  <2> QED BY <2>1 DEF Last
<1> HIDE DEF k
<1>4. /\ m.off \in Nat /\ m.pos \in Nat /\ s.off - m.off = read - m.pos
      /\ Holds(s.mem[1], m.off, s.off, m.pos)
  BY <1>1, <1>3, MarkedText, OneArray
<1> HIDE DEF m
<1>5. token = [array |-> 1, lo |-> m.off, hi |-> s.off, copy |-> << >>,
               from |-> m.pos, to |-> read]
  BY DEF CopyFromMark, m
<1> HIDE DEF token
<1>6. token \in Slice
  BY <1>2, <1>4, <1>5 DEF Slice
<1>7. /\ token.array = 1 /\ token.lo = m.off /\ token.hi = s.off
      /\ token.from = m.pos /\ token.to = read
  BY <1>5
<1>8. HasItsText(token)
  BY <1>4, <1>7 DEF HasItsText
<1> QED BY <1>6, <1>8 DEF token

LEMMA InputSlice ==
  ASSUME Good(s, read), ~s.failed, Len(s.mem) = 1, s.r = NoReader,
         NEW size \in Nat, s.off + size <= s.raw
  PROVE  CopyInput(s, size) \in Slice /\ HasItsText(CopyInput(s, size))
<1> DEFINE token == CopyInput(s, size)
<1>1. Sound(s, read) /\ Exact(s, read)
  BY DEF Good
<1>2. s.off \in Nat /\ s.raw \in Nat /\ read \in Nat
  BY <1>1, SoundNumbers
<1>3. /\ s.off + size \in Nat /\ read + size \in Nat
      /\ s.off - s.off = read - read
      /\ (s.off + size) - s.off = (read + size) - read
  BY <1>2
<1>4. Holds(s.mem[1], s.off, s.off + size, read)
  BY <1>1, <1>2, <1>3, BufferHolds, OneArray
<1>5. token = [array |-> 1, lo |-> s.off, hi |-> s.off + size, copy |-> << >>,
               from |-> read, to |-> read + size]
  BY DEF CopyInput
<1> HIDE DEF token
<1>6. token \in Slice
  BY <1>2, <1>3, <1>5 DEF Slice
<1>7. /\ token.array = 1 /\ token.lo = s.off /\ token.hi = s.off + size
      /\ token.from = read /\ token.to = read + size
  BY <1>5
<1>8. HasItsText(token)
  BY <1>3, <1>4, <1>7 DEF HasItsText
<1> QED BY <1>6, <1>8 DEF token

LEMMA Delivered ==
  ASSUME held \in Seq(Slice), HeldTokensHaveTheirText, s'.mem = s.mem,
         NEW token \in Slice, HasItsText(token), Deliver(token)
  PROVE  held' \in Seq(Slice) /\ HeldTokensHaveTheirText'
<1> DEFINE all == Append(held, token)
<1>1. /\ all \in Seq(Slice) /\ Len(all) = Len(held) + 1 /\ Len(held) \in Nat
      /\ \A i \in 1 .. Len(held) : all[i] = held[i]
      /\ all[Len(held) + 1] = token
  BY AppendProperties, LenProperties
<1>2. DOMAIN held = 1 .. Len(held)
  BY LenProperties
<1>3. \A i \in 1 .. Len(all) : HasItsText(all[i])
  <2>1. \A i \in 1 .. Len(all) : i \in 1 .. Len(held) \/ i = Len(held) + 1
    BY <1>1
  <2> HIDE DEF all
  <2> QED BY <1>1, <1>2, <2>1 DEF HeldTokensHaveTheirText
<1>4. all # << >>
  BY <1>1, EmptySeq
<1> HIDE DEF all
<1>5. Tail(all) \in Seq(Slice) /\ \A i \in 1 .. Len(Tail(all)) : HasItsText(Tail(all)[i])
  <2>1. /\ Tail(all) \in Seq(Slice) /\ Len(Tail(all)) = Len(all) - 1
        /\ \A i \in 1 .. Len(Tail(all)) : Tail(all)[i] = all[i + 1]
    BY <1>1, <1>4, HeadTailProperties
  <2>2. Len(all) \in Nat
    BY <1>1, LenProperties
  <2>3. \A i \in 1 .. Len(Tail(all)) : i + 1 \in 1 .. Len(all)
    BY <2>1, <2>2
  <2> QED BY <1>3, <2>1, <2>3
<1>6. held' = all \/ held' = Tail(all)
  BY DEF Deliver, all
<1>7. held' \in Seq(Slice) /\ \A i \in 1 .. Len(held') : HasItsText(held'[i])
  BY <1>1, <1>3, <1>5, <1>6
<1>8. DOMAIN held' = 1 .. Len(held')
  BY <1>7, LenProperties
<1> QED BY <1>7, <1>8 DEF HeldTokensHaveTheirText, HasItsText, Holds

LEMMA SmallAfterInit ==
  ASSUME Init
  PROVE  SmallDocument
<1>1. SUFFICES ASSUME Len(doc) < BufferSize
      PROVE  /\ s.r = NoReader /\ Len(s.mem) = 1 /\ (Scanning => ~s.failed)
             /\ held \in Seq(Slice) /\ HeldTokensHaveTheirText
  BY DEF SmallDocument
<1>2. s.r = NoReader /\ Len(s.mem) = 1
  BY <1>1 DEF Init
<1>3. Scanning => ~s.failed
  BY <1>1 DEF Init, Scanning
<1>4. held = << >>
  BY DEF Init
<1>5. held \in Seq(Slice) /\ HeldTokensHaveTheirText
  BY <1>4 DEF HeldTokensHaveTheirText
<1> QED BY <1>2, <1>3, <1>5

LEMMA SmallAfterStep ==
  ASSUME IInv, Next
  PROVE  SmallDocument'
<1>1. SUFFICES ASSUME Len(doc) < BufferSize
      PROVE  /\ s'.r = NoReader /\ Len(s'.mem) = 1 /\ (Scanning' => ~s'.failed)
             /\ held' \in Seq(Slice) /\ HeldTokensHaveTheirText'
  <2>1. doc' = doc
    BY DEF Next, ScanEnd, ScanEndsAfterOne, OneCharacter, TwoCharacters, Begin, Consume,
           LookAhead, Nest, Unnest, Finish, Unfinished, Unchanged
  <2> QED BY <2>1 DEF SmallDocument
<1>2. /\ Good(s, read) /\ s.r = NoReader /\ Len(s.mem) = 1
      /\ held \in Seq(Slice) /\ HeldTokensHaveTheirText
  BY <1>1 DEF IInv, SmallDocument
<1>3. Settled(s, s')
  BY <1>2, StepSettled
<1>4. Scanning
  BY DEF Next, ScanEnd, ScanEndsAfterOne, OneCharacter, TwoCharacters, Begin, Consume,
         LookAhead, Nest, Unnest, Finish, Unfinished, Between, InToken
<1>5. ~s.failed
  BY <1>1, <1>4 DEF IInv, SmallDocument
<1>6. s'.r = NoReader /\ Len(s'.mem) = 1 /\ s'.mem = s.mem /\ ~s'.failed
  BY <1>2, <1>3, <1>5 DEF Settled
<1>7. held' = held => held' \in Seq(Slice) /\ HeldTokensHaveTheirText'
  BY <1>2, <1>6 DEF HeldTokensHaveTheirText, HasItsText, Holds
<1>8. Sound(s, read) /\ s.off \in Nat /\ s.raw \in Nat
  BY <1>2, SoundNumbers DEF Good
<1>9. CASE OneCharacter
  <2>1. Ok(Peek(s)) /\ Deliver(CopyInput(s, Peek(s).size))
    BY <1>9 DEF OneCharacter
  <2>2. Peek(s).size \in Nat /\ s.off + Peek(s).size <= s.raw
    BY <1>8, <2>1, PeekShape, PeekSize
  <2>3. CopyInput(s, Peek(s).size) \in Slice /\ HasItsText(CopyInput(s, Peek(s).size))
    BY <1>2, <1>5, <2>2, InputSlice
  <2> QED BY <1>2, <1>6, <2>1, <2>3, Delivered
<1>10. CASE TwoCharacters
  <2>1. Peek(s).size = 1 /\ PeekTwo(s).size = 1 /\ Deliver(CopyInput(s, 2))
    BY <1>10 DEF TwoCharacters
  <2>2. s.off + Peek(s).size + PeekTwo(s).size <= s.raw
    BY <1>8, <2>1, PeekTwoShape DEF Ok
  <2>3. s.off + 2 <= s.raw
    BY <1>8, <2>1, <2>2
  <2>4. CopyInput(s, 2) \in Slice /\ HasItsText(CopyInput(s, 2))
    BY <1>2, <1>5, <2>3, InputSlice
  <2> QED BY <1>2, <1>6, <2>1, <2>4, Delivered
<1>11. CASE Finish
  <2>1. s.marks # << >> /\ Deliver(CopyFromMark(s))
    BY <1>11 DEF Finish, InToken
  <2>2. CopyFromMark(s) \in Slice /\ HasItsText(CopyFromMark(s))
    BY <1>2, <1>5, <2>1, MarkedSlice
  <2> QED BY <1>2, <1>6, <2>1, <2>2, Delivered
<1>12. CASE ~(OneCharacter \/ TwoCharacters \/ Finish)
  <2>1. held' = held
    BY <1>12 DEF Next, ScanEnd, ScanEndsAfterOne, Begin, Consume, LookAhead, Nest, Unnest,
                 Unfinished, Ends
  <2> QED BY <1>6, <1>7, <2>1
<1> QED BY <1>9, <1>10, <1>11, <1>12

-----------------------------------------------------------------------------
(* The theorems *)

LEMMA Invariance == Spec => []IInv
<1>1. Init => IInv
  BY GoodAfterInit, SmallAfterInit DEF IInv, Init
<1>2. IInv /\ [Next]_vars => IInv'
  <2>1. SUFFICES ASSUME IInv, [Next]_vars PROVE IInv'
    OBVIOUS
  <2>2. CASE UNCHANGED vars
    BY <2>1, <2>2, GoodOfTheSameDocument
    DEF vars, IInv, SmallDocument, Scanning, HeldTokensHaveTheirText, HasItsText, Holds
  <2>3. CASE Next
    <3>1. doc' = doc /\ readerFails' = readerFails
      BY <2>3 DEF Next, ScanEnd, ScanEndsAfterOne, OneCharacter, TwoCharacters, Begin, Consume,
                  LookAhead, Nest, Unnest, Finish, Unfinished, Unchanged
    <3>2. outcome' \in {"scanning", "end", "error"}
      BY <2>1, <2>3 DEF IInv, Next, ScanEnd, ScanEndsAfterOne, OneCharacter, TwoCharacters,
                        Begin, Consume, LookAhead, Nest, Unnest, Finish, Unfinished, Ends, Deliver
    <3>3. Good(s, read)'
      BY <2>1, <2>3, <3>1, GoodAfterStep, GoodOfTheSameDocument DEF IInv
    <3>4. SmallDocument'
      BY <2>1, <2>3, SmallAfterStep
    <3> QED BY <2>1, <3>1, <3>2, <3>3, <3>4 DEF IInv
  <2> QED BY <2>1, <2>2, <2>3
<1> QED BY <1>1, <1>2, PTL DEF Spec

(***************************************************************************)
(* The scanner keeps its type, for every document, also one that is not    *)
(* UTF-8, and whatever the reader does: s.input never leaves s.raw, the    *)
(* marks never pass it, and no more is consumed than was delivered.        *)
(***************************************************************************)
THEOREM TypeCorrect == Spec => []TypeOK
<1>1. IInv => TypeOK
  <2>1. SUFFICES ASSUME IInv PROVE TypeOK
    OBVIOUS
  <2>2. Sound(s, read)
    BY <2>1 DEF IInv, Good
  <2>3. /\ doc \in Documents /\ read \in Nat /\ Len(doc) \in Nat
        /\ s.raw \in Nat /\ s.off \in 0 .. s.raw /\ s.raw <= Cap(s) /\ Cap(s) \in Nat
        /\ Unread(s) \in Nat /\ read + Unread(s) <= Len(doc)
    BY <2>2, SoundNumbers
  <2>4. s.raw \in 0 .. Buffer.cap /\ s.off \in 0 .. s.raw /\ read \in 0 .. Len(doc)
    BY <2>3 DEF Cap, Buffer
  <2>5. s.mem # << >> /\ s.peeked \in Seq(Rune) /\ Len(s.peeked) <= 2
        /\ s.r \in {NoReader} \cup 0 .. Len(doc) /\ s.failed \in BOOLEAN
    BY <2>2 DEF Sound, Scanners, PeekedFit
  <2>6. ASSUME NEW a \in DOMAIN s.mem
        PROVE  /\ s.mem[a].cap \in Nat
               /\ s.mem[a].at \in [0 .. s.mem[a].cap - 1 -> 0 .. Len(doc)]
    <3>1. s.mem \in Seq(ByteArrays)
      BY <2>2, SoundNumbers
    <3>2. s.mem[a] \in ByteArrays
      BY <3>1, LenProperties, ElementOfSeq
    <3> QED BY <3>2, ArrayShape
  <2>7. ASSUME NEW k \in DOMAIN s.marks
        PROVE  /\ s.marks[k].off \in 0 .. s.off /\ s.marks[k].pos \in 0 .. read
               /\ k > 1 => s.marks[k - 1].off <= s.marks[k].off
    <3>1. s.marks \in Seq([off : Nat, pos : Nat])
      BY <2>2, SoundNumbers
    <3>2. /\ s.marks[k].off <= s.off /\ s.marks[k].pos <= read
          /\ \A j \in 1 .. k : s.marks[j].off <= s.marks[k].off
      BY <2>2 DEF Sound, MarksInOrder
    <3>3. s.marks[k].off \in Nat /\ s.marks[k].pos \in Nat /\ k \in Nat
      BY <3>1, MarkShape, LenProperties
    <3>4. k > 1 => k - 1 \in 1 .. k
      BY <3>3
    <3>5. s.marks[k].off \in 0 .. s.off /\ s.marks[k].pos \in 0 .. read
      BY <2>3, <3>2, <3>3
    <3> QED BY <3>2, <3>4, <3>5
  <2> QED BY <2>1, <2>3, <2>4, <2>5, <2>6, <2>7 DEF IInv, TypeOK
<1> QED BY <1>1, Invariance, PTL

(***************************************************************************)
(* As long as no refill came back with nothing, the characters peek shows  *)
(* are those of the document, one after the other, up to its end and not   *)
(* before, however long the tokens and wherever the buffer ends.           *)
(***************************************************************************)
THEOREM CharactersAreDelivered == Spec => []PeekIsNextCharacter
<1>1. IInv => PeekIsNextCharacter
  BY PeekIsCharacter, PeekTwoIsCharacter DEF IInv, Good, PeekIsNextCharacter
<1> QED BY <1>1, Invariance, PTL

(***************************************************************************)
(* Moving, enlarging and filling the buffer keep the text of the token     *)
(* being read, from every mark a recogniser has set.                       *)
(***************************************************************************)
THEOREM MarkedTextSurvives == Spec => []RefillKeepsMarkedText
<1>1. IInv => RefillKeepsMarkedText
  BY MarkedText DEF IInv, Good, RefillKeepsMarkedText, MarkedTextKept
<1> QED BY <1>1, Invariance, PTL

(***************************************************************************)
(* A document that fits the buffer is never moved under its tokens: the    *)
(* Data of every token stays the text it was read from, for as long as     *)
(* anyone holds it.                                                        *)
(***************************************************************************)
THEOREM SmallDocumentsAreStable == Spec => []SmallDocumentsKeepTheirTokens
<1>1. IInv => SmallDocumentsKeepTheirTokens
  BY DEF IInv, SmallDocument, SmallDocumentsKeepTheirTokens
<1> QED BY <1>1, Invariance, PTL
=============================================================================
