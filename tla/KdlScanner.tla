------------------------------ MODULE KdlScanner ------------------------------
(***************************************************************************)
(* The input side of internal/tokenizer/scanner.go: the buffer a Scanner   *)
(* reads runes from, which is moved, enlarged and filled again from an     *)
(* io.Reader while a token is being read; the marks that remember where a  *)
(* token began; the characters peeked ahead; and Scan's view of an error.  *)
(*                                                                         *)
(* Abstractions.  A byte is its position in the document, so a buffer says *)
(* which part of the document it holds.  What a character is, and so which *)
(* recogniser (readtype.go) reads it and how far, is a free choice: the    *)
(* actions are the calls recognisers make on the buffer.  s.len is always  *)
(* len(s.input), and is Unread here.                                       *)
(***************************************************************************)
EXTENDS Integers, Sequences, SequencesExt

CONSTANTS
  UTFMax,       \* the longest rune in bytes; the source has 4
  BufferSize,   \* the buffer New allocates; the source has 64 KiB
  Documents,    \* the inputs
  MaxMarks,     \* bound for TLC: nesting of recognisers
  MaxHeld       \* the tokens the caller still uses

\* A document: each byte, as the width of the rune it starts, or 0.  Not every
\* document is UTF-8.  The buffer must hold more than a few runes, since what is
\* unread may be all that a refill has room for.
ASSUME UTFMaxAssumption == UTFMax \in Nat \ {0}
ASSUME BufferSizeAssumption == BufferSize \in Nat /\ BufferSize >= 4 * UTFMax
ASSUME DocumentsAssumption == \A d \in Documents : d \in Seq(0 .. UTFMax)
ASSUME BoundsAssumption == MaxMarks \in Nat \ {0} /\ MaxHeld \in Nat

VARIABLES
  doc,          \* what the reader delivers
  readerFails,  \* whether it then fails, rather than end
  s,            \* the Scanner
  read,         \* history: the bytes consumed so far
  held,         \* the tokens the caller holds, oldest first
  outcome       \* "scanning"; then what Scan and Err tell the caller

vars == <<doc, readerFails, s, read, held, outcome>>

NoReader == -1

(***************************************************************************)
(* The fields of s: mem, every array s.raw has been, the last one being    *)
(* the current; raw, len(s.raw); off, where s.input starts in it; peeked;  *)
(* marks (pos is history: the document position marked); r, the bytes read *)
(* from the reader so far; failed, history: a refill got nothing.          *)
(***************************************************************************)
Rune == [byte : Nat, size : 1 .. UTFMax]

Buffer == Last(s.mem)
Unread(t) == t.raw - t.off

-----------------------------------------------------------------------------
(* Decoding and peeking *)

\* What DecodeRune finds at offset p of the buffer of t.
EndOfBuffer == [byte |-> 0, size |-> 0]
InvalidRune == [byte |-> -1, size |-> 0]

Decode(t, p) ==
  LET at == Last(t.mem).at
  IN  IF p >= t.raw THEN EndOfBuffer
      ELSE LET w == doc[at[p]]
           IN  IF /\ w > 0 /\ p + w <= t.raw
                  /\ \A k \in 1 .. w - 1 : doc[at[p + k]] = 0
               THEN [byte |-> at[p], size |-> w] ELSE InvalidRune

Ok(rune) == rune.size > 0

\* peekSize: what it returns, and the scanner after it
Peek(t) == IF t.peeked # << >> THEN t.peeked[1] ELSE Decode(t, t.off)

Peeked(t) ==
  IF t.peeked = << >> /\ Ok(Peek(t)) THEN [t EXCEPT !.peeked = <<Peek(t)>>] ELSE t

\* peekTwoSize: the second character, and the scanner after it
PeekTwo(t) ==
  IF Len(t.peeked) = 2 THEN t.peeked[2]
  ELSE IF Ok(Peek(t)) THEN Decode(t, t.off + Peek(t).size) ELSE Peek(t)

PeekedTwo(t) ==
  IF Len(Peeked(t).peeked) = 1 /\ Ok(PeekTwo(t))
  THEN [t EXCEPT !.peeked = Append(Peeked(t).peeked, PeekTwo(t))] ELSE Peeked(t)

-----------------------------------------------------------------------------
(* refill *)

\* io.ReadFull of n bytes: how many arrive, and whether that is an error
\* which ends the refill (anything but "fewer than asked, then the end").
Arrive(t, n) == IF Len(doc) - t.r < n THEN Len(doc) - t.r ELSE n

ReadFails(t, n) ==
  Arrive(t, n) < n /\ (readerFails \/ Arrive(t, n) = 0)

(***************************************************************************)
(* The buffer keeps what follows the oldest mark, or else what is unread,  *)
(* at its start; it doubles when that fills three quarters of it.  Moving  *)
(* the bytes and the marks comes before reading, and a read that fails     *)
(* returns then and there, with s.raw and s.input as they were.            *)
(***************************************************************************)
\* Mutant of KeptFrom: keep from the newest mark.
KeptFromNewest(t) == IF t.marks = << >> THEN t.off ELSE Last(t.marks).off

KeptFrom(t) == IF t.marks = << >> THEN t.off ELSE t.marks[1].off

\* Mutant of Moved: leave the bytes where they are.
MovedNowhere(array, from, retain) == array

Moved(array, from, retain) ==
  [array EXCEPT !.at = [i \in DOMAIN @ |-> IF i < retain THEN @[from + i] ELSE @[i]]]

Enlarged(array) ==
  [cap |-> 2 * array.cap,
   at |-> [i \in 0 .. 2 * array.cap - 1 |-> IF i < array.cap THEN array.at[i] ELSE 0]]

Filled(array, retain, n, sent) ==
  [array EXCEPT !.at = [i \in DOMAIN @ |-> IF i \in retain .. retain + n - 1
                                           THEN sent + 1 + (i - retain) ELSE @[i]]]

\* How many bytes a refill keeps, the buffer it reads into, how many bytes it
\* asks for, and where the marks are then
Retained(t)    == t.raw - KeptFrom(t)
MovedBuffer(t) == Moved(Last(t.mem), KeptFrom(t), Retained(t))
Grows(t)       == t.marks # << >> /\ 4 * Retained(t) > 3 * Last(t.mem).cap
Refillable(t)  == IF Grows(t) THEN Enlarged(MovedBuffer(t)) ELSE MovedBuffer(t)
Room(t)        == Refillable(t).cap - Retained(t)
Shifted(t)     == [k \in DOMAIN t.marks |-> [t.marks[k] EXCEPT !.off = @ - KeptFrom(t)]]

Refilled(t) ==
  LET n      == Arrive(t, Room(t))
      kept   == Front(t.mem) \o <<MovedBuffer(t)>>
      filled == Filled(Refillable(t), Retained(t), n, t.r)
  IN  IF ReadFails(t, Room(t))
      THEN [t EXCEPT !.mem = kept, !.marks = Shifted(t), !.r = NoReader, !.failed = TRUE]
      ELSE [t EXCEPT !.mem = (IF Grows(t) THEN kept ELSE Front(t.mem)) \o <<filled>>,
                     !.marks = Shifted(t),
                     !.r = IF n < Room(t) THEN NoReader ELSE @ + n,
                     !.raw = Retained(t) + n,
                     !.off = @ - KeptFrom(t)]

\* Mutant of Refill: compact the buffer although there is no reader.
RefillAlways(t) ==
  IF t.r = NoReader
  THEN [t EXCEPT !.mem = Front(@) \o <<MovedBuffer(t)>>, !.marks = Shifted(t),
                 !.raw = Retained(t), !.off = @ - KeptFrom(t)]
  ELSE Refilled(t)

Refill(t) == IF t.r = NoReader THEN t ELSE Refilled(t)

-----------------------------------------------------------------------------
(* get, and the marks *)

LowWater == 2 * UTFMax

\* Mutant of TopUp: off by one.
TopUpLate(t) == IF Unread(t) < LowWater THEN Refill(t) ELSE t

TopUp(t) == IF Unread(t) <= LowWater THEN Refill(t) ELSE t

\* The scanner after get: a failing get consumes nothing.
Get(t) ==
  LET u == TopUp(t)
  IN  IF Ok(Peek(u))
      THEN [u EXCEPT !.off = @ + Peek(u).size,
                     !.peeked = IF @ = << >> THEN @ ELSE Tail(@)]
      ELSE u

PushMark(t) == [t EXCEPT !.marks = Append(@, [off |-> t.off, pos |-> read])]
PopMark(t)  == [t EXCEPT !.marks = Front(@)]

(***************************************************************************)
(* A token: its Data, and from and to, the part of the document it was     *)
(* read from.  Data is a slice of an array the scanner may still use, or a *)
(* copy (array 0).                                                         *)
(***************************************************************************)
CopyFromMark(t) ==
  [array |-> Len(t.mem), lo |-> Last(t.marks).off, hi |-> t.off, copy |-> << >>,
   from |-> Last(t.marks).pos, to |-> read]

CopyInput(t, size) ==
  LET slice == [array |-> Len(t.mem), lo |-> t.off, hi |-> t.off + size, copy |-> << >>,
                from |-> read, to |-> read + size]
  IN  IF t.r = NoReader THEN slice
      ELSE [slice EXCEPT !.array = 0,
                         !.copy = [i \in 1 .. size |-> Last(t.mem).at[t.off + i - 1]]]

-----------------------------------------------------------------------------
(* Scan and the recognisers *)

Scanning  == outcome = "scanning"
Between   == Scanning /\ s.marks = << >>
InToken   == Scanning /\ s.marks # << >>
Unchanged == UNCHANGED <<doc, readerFails>>

\* Scan stores the error of readNext over whatever refill left in s.err, and
\* takes io.EOF from any recogniser for the end of the input.
Ends(how) == outcome' = how /\ UNCHANGED <<held, read>>

Deliver(token) ==
  /\ held' = LET all == Append(held, token)
             IN  IF Len(all) > MaxHeld THEN Tail(all) ELSE all
  /\ UNCHANGED outcome

\* No character is left, or none can be decoded.
ScanEnd ==
  /\ Between /\ Unchanged
  /\ ~Ok(Peek(s))
  /\ UNCHANGED s
  /\ Ends(IF Peek(s) = EndOfBuffer THEN "end" ELSE "error")

\* '/', '+', '-' and '0' need a second character to be recognised.
ScanEndsAfterOne ==
  /\ Between /\ Unchanged
  /\ Peek(s).size = 1 /\ ~Ok(PeekTwo(s))
  /\ s' = PeekedTwo(s)
  /\ Ends(IF PeekTwo(s) = EndOfBuffer THEN "end" ELSE "error")

\* A token of one or two characters: copyInput, then skip each of them.
OneCharacter ==
  /\ Between /\ Unchanged
  /\ Ok(Peek(s))
  /\ Deliver(CopyInput(s, Peek(s).size))
  /\ \/ s' = Get(Peeked(s))
     \/ Peek(s).size = 1 /\ s' = Get(PeekedTwo(s))
  /\ read' = read + Peek(s).size

TwoCharacters ==
  /\ Between /\ Unchanged
  /\ Peek(s).size = 1 /\ PeekTwo(s).size = 1
  /\ Deliver(CopyInput(s, 2))
  /\ s' = Get(Get(PeekedTwo(s)))
  /\ read' = read + 2

\* A longer token: the position is marked, after one or two peeks.
Begin ==
  /\ Between /\ Unchanged
  /\ Ok(Peek(s))
  /\ \/ s' = PushMark(Peeked(s))
     \/ Peek(s).size = 1 /\ s' = PushMark(PeekedTwo(s))
  /\ UNCHANGED <<read, held, outcome>>

Consume ==
  /\ InToken /\ Unchanged
  /\ Ok(Peek(TopUp(s)))
  /\ s' = Get(s)
  /\ read' = read + Peek(TopUp(s)).size
  /\ UNCHANGED <<held, outcome>>

LookAhead ==
  /\ InToken /\ Unchanged
  /\ s' = Peeked(s)
  /\ UNCHANGED <<read, held, outcome>>

\* A recogniser calls another, which marks its own start and returns.
Nest ==
  /\ InToken /\ Unchanged
  /\ Len(s.marks) < MaxMarks
  /\ s' = PushMark(s)
  /\ UNCHANGED <<read, held, outcome>>

Unnest ==
  /\ InToken /\ Unchanged
  /\ Len(s.marks) > 1
  /\ s' = PopMark(s)
  /\ UNCHANGED <<read, held, outcome>>

\* The recogniser has its token: what is between the mark and here.
Finish ==
  /\ InToken /\ Unchanged
  /\ Len(s.marks) = 1 /\ read > s.marks[1].pos
  /\ Deliver(CopyFromMark(s))
  /\ s' = PopMark(s)
  /\ UNCHANGED read

\* The input stops, or cannot be decoded, inside a token that needs more.  Such
\* a token is refused here; the few whose reader returns io.EOF itself, like a
\* number that stops after its "e" (readtype.go:444), end the document without
\* an error instead.  Which they are is KdlLexer's, where tokens have a grammar.
Unfinished ==
  /\ InToken /\ Unchanged
  /\ \E t \in {s, TopUp(s)} : ~Ok(Peek(t)) /\ s' = [t EXCEPT !.marks = << >>]
  /\ Ends("error")

(***************************************************************************)
(* NewBuffer: a full buffer keeps the reader, anything less has it all.    *)
(***************************************************************************)
Init ==
  /\ doc \in Documents
  /\ readerFails \in BOOLEAN
  /\ LET n == IF Len(doc) < BufferSize THEN Len(doc) ELSE BufferSize
         empty == [cap |-> BufferSize, at |-> [i \in 0 .. BufferSize - 1 |-> 0]]
         fails == n < BufferSize /\ (readerFails \/ n = 0)
     IN  /\ s = [mem |-> <<Filled(empty, 0, n, 0)>>, raw |-> IF fails THEN 0 ELSE n,
                 off |-> 0, peeked |-> << >>, marks |-> << >>,
                 r |-> IF n < BufferSize THEN NoReader ELSE n, failed |-> fails]
         /\ outcome = IF ~fails THEN "scanning"
                      ELSE IF readerFails THEN "error" ELSE "end"
  /\ read = 0 /\ held = << >>

Next ==
  \/ ScanEnd \/ ScanEndsAfterOne \/ OneCharacter \/ TwoCharacters
  \/ Begin \/ Consume \/ LookAhead \/ Nest \/ Unnest \/ Finish \/ Unfinished

Spec == Init /\ [][Next]_vars

-----------------------------------------------------------------------------
(* Properties *)

(***************************************************************************)
(* The scanner keeps its type: s.input is the end of s.raw, s.raw the      *)
(* start of its array, and the marks lie before s.input in the order they  *)
(* were made.                                                              *)
(***************************************************************************)
TypeOK ==
  /\ doc \in Documents /\ readerFails \in BOOLEAN /\ read \in 0 .. Len(doc)
  /\ outcome \in {"scanning", "end", "error"}
  /\ \A a \in DOMAIN s.mem : /\ s.mem[a].cap \in Nat
                            /\ s.mem[a].at \in [0 .. s.mem[a].cap - 1 -> 0 .. Len(doc)]
  /\ s.mem # << >> /\ s.raw \in 0 .. Buffer.cap /\ s.off \in 0 .. s.raw
  /\ s.peeked \in Seq(Rune) /\ Len(s.peeked) <= 2
  /\ s.r \in {NoReader} \cup 0 .. Len(doc)
  /\ \A k \in DOMAIN s.marks :
       /\ s.marks[k].off \in 0 .. s.off /\ s.marks[k].pos \in 0 .. read
       /\ k > 1 => s.marks[k - 1].off <= s.marks[k].off
  /\ s.failed \in BOOLEAN

\* The next character of the document after n bytes, which may not be one
CharacterAfter(n) ==
  IF n >= Len(doc) THEN EndOfBuffer
  ELSE LET w == doc[n + 1]
       IN  IF /\ w > 0 /\ n + w <= Len(doc)
              /\ \A k \in 2 .. w : doc[n + k] = 0
           THEN [byte |-> n + 1, size |-> w] ELSE InvalidRune

(***************************************************************************)
(* However the buffer was moved, enlarged and filled, the characters peek  *)
(* returns are the next ones of the document: none is lost, repeated or    *)
(* cut at the end of the buffer, and the end is reported at the end only.  *)
(* A second character is asked for after a one-byte one (readNext).        *)
(***************************************************************************)
PeekIsNextCharacter ==
  Scanning /\ ~s.failed =>
    /\ Peek(s) = CharacterAfter(read)
    /\ Peek(s).size = 1 => PeekTwo(s) = CharacterAfter(read + 1)

\* Offsets lo to hi of an array hold the document from the byte after from.
Holds(array, lo, hi, from) ==
  \A i \in lo .. hi - 1 : array.at[i] = from + 1 + (i - lo)

MarkedTextKept(t) ==
  \A k \in DOMAIN t.marks :
    /\ t.off - t.marks[k].off = read - t.marks[k].pos
    /\ Holds(Last(t.mem), t.marks[k].off, t.off, t.marks[k].pos)

(***************************************************************************)
(* The text of the token being read, and of every part of it a recogniser  *)
(* marked, survives each refill, whatever the token's length.              *)
(***************************************************************************)
RefillKeepsMarkedText == ~s.failed => MarkedTextKept(s)

HasItsText(t) ==
  IF t.array = 0 THEN t.copy = [i \in 1 .. t.to - t.from |-> t.from + i]
  ELSE t.hi - t.lo = t.to - t.from /\ Holds(s.mem[t.array], t.lo, t.hi, t.from)

HeldTokensHaveTheirText == \A k \in DOMAIN held : HasItsText(held[k])

(***************************************************************************)
(* A document that fits the buffer is read once and its tokens are slices  *)
(* of it: they stay what they were for as long as anyone holds them.       *)
(***************************************************************************)
SmallDocumentsKeepTheirTokens ==
  Len(doc) < BufferSize => HeldTokensHaveTheirText

-----------------------------------------------------------------------------
(* What the source says of the scanner and the scanner does not do *)

(***************************************************************************)
(* Data is "a subslice of the input buffer (if the entire stream could be  *)
(* read into a single buffer) or a copy of data from the input buffer", so *)
(* a later refill cannot change it.  copyFromMark always slices.           *)
(***************************************************************************)
TokenDataIsStable == ~s.failed => HeldTokensHaveTheirText

(***************************************************************************)
(* copyFromMark "returns a slice of bytes starting from the most recently  *)
(* marked position and ending at the current input buffer position".  With *)
(* a reader that ends at the end of the buffer the bytes and the marks are *)
(* moved and the position is not.                                          *)
(***************************************************************************)
CopyFromMarkIsTheMarkedText == ~readerFails /\ InToken => HasItsText(CopyFromMark(s))

(***************************************************************************)
(* "If Scan returns false, Err will return an error indicating the nature  *)
(* of the failure": a reader that fails is never taken for the end.        *)
(***************************************************************************)
ReaderErrorIsReported == readerFails => outcome # "end"
=============================================================================
