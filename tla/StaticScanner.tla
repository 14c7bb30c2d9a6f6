----------------------------- MODULE StaticScanner -----------------------------
(***************************************************************************)
(* tokenizer.ScanOne: one static Scanner for the whole program, behind a   *)
(* mutex.  A call lays the scanner out on the caller's bytes and runs      *)
(* readNext on it; the characters an earlier call had peeked at and the    *)
(* end of another text must not show in the token's ID and Data.           *)
(*                                                                         *)
(* Abstractions.  Characters are one byte long (KdlScanner models wider    *)
(* ones) and the scanner has no reader, so get never refills.  The five    *)
(* assignments that lay it out are one step, of the holder of the mutex.   *)
(* The token is a slice of the caller's own bytes, which no one overwrites *)
(* (s.r is nil): it is written as the characters it holds.                 *)
(*                                                                         *)
(* Left out, because it does show: the token's Line and Column.  ScanOne   *)
(* resets neither s.line nor s.column, get advances them (scanner.go:143), *)
(* and readNext copies them into the token, so what a caller finds there   *)
(* depends on every call made before.  The one caller in the repository,   *)
(* marshalTextValue (marshal.go:469), reads ID and Data only.              *)
(***************************************************************************)
EXTENDS ScanCalls

CONSTANT Nobody   \* the mutex is free

ASSUME NobodyAssumption == Nobody \notin Callers

VARIABLES
  call,    \* what each caller asked, has been shown and was answered
  lock,    \* staticScan.mu
  ready,   \* its holder has laid out the scanner
  s        \* staticScan.s: raw, off (where s.input starts in it), peeked, marks

vars == <<call, lock, ready, s>>

NewScanner == [raw |-> << >>, off |-> 0, peeked |-> << >>, marks |-> << >>]

Init ==
  /\ call = [p \in Callers |-> Idle]
  /\ lock = Nobody /\ ready = FALSE
  /\ s = NewScanner

Becomes(p, c) == call' = [call EXCEPT ![p] = c]

-----------------------------------------------------------------------------
(* The Scanner: peekSize, peekTwoSize, get *)

\* The character i places into s.input
Input(i) == IF s.off + i \in 1 .. Len(s.raw) THEN s.raw[s.off + i] ELSE End

First  == IF s.peeked # << >> THEN s.peeked[1] ELSE Input(1)
Second == IF Len(s.peeked) = 2 THEN s.peeked[2] ELSE Input(2)

\* The characters a peek at one or two leaves in s.peeked
PeekedAt(one)      == IF one = End THEN << >> ELSE <<one>>
PeekedAtTwo(one, two) == PeekedAt(one) \o IF one = End THEN << >> ELSE PeekedAt(two)

-----------------------------------------------------------------------------
(* ScanOne *)

Call(p) ==
  /\ call[p].phase = "idle"
  /\ \E t \in Texts : Becomes(p, Asked(t))
  /\ UNCHANGED <<lock, ready, s>>

\* Mutant of Acquire: no mutex.
AcquireAnyway(p) ==
  /\ call[p].phase = "scanning" /\ lock # p
  /\ lock' = p /\ ready' = FALSE
  /\ UNCHANGED <<call, s>>

Acquire(p) ==
  /\ call[p].phase = "scanning" /\ lock = Nobody
  /\ lock' = p /\ ready' = FALSE
  /\ UNCHANGED <<call, s>>

\* Mutant of LayOut: keep what was peeked at.
LayOutKeepingPeeked(p) ==
  /\ lock = p /\ ~ready
  /\ s' = [s EXCEPT !.raw = call[p].text, !.off = 0, !.marks = << >>]
  /\ ready' = TRUE
  /\ UNCHANGED <<call, lock>>

\* All that ScanOne resets: s.line and s.column it leaves as they are.
LayOut(p) ==
  /\ lock = p /\ ~ready
  /\ s' = [raw |-> call[p].text, off |-> 0, peeked |-> << >>, marks |-> << >>]
  /\ ready' = TRUE
  /\ UNCHANGED <<call, lock>>

Wants(p, what) ==
  lock = p /\ ready /\ Recognise(call[p].got, call[p].ahead) = what

Peek(p) ==
  /\ Wants(p, "peek")
  /\ Becomes(p, Shown(call[p], <<First>>))
  /\ s' = IF s.peeked = << >> THEN [s EXCEPT !.peeked = PeekedAt(First)] ELSE s
  /\ UNCHANGED <<lock, ready>>

PeekTwo(p) ==
  /\ Wants(p, "peekTwo")
  /\ Becomes(p, Shown(call[p], IF First = End THEN <<End>> ELSE <<First, Second>>))
  /\ s' = [s EXCEPT !.peeked = PeekedAtTwo(First, Second)]
  /\ UNCHANGED <<lock, ready>>

\* The token starts where the first character is got: pushMark, or copyInput
\* of what follows.
Get(p) ==
  /\ Wants(p, "get")
  /\ LET c == First
     IN  IF c = End THEN Becomes(p, Shown(call[p], <<End>>)) /\ UNCHANGED s
         ELSE /\ Becomes(p, Given(call[p], c))
              /\ s' = [s EXCEPT !.off = @ + 1,
                                !.peeked = IF @ = << >> THEN @ ELSE Tail(@),
                                !.marks = IF @ = << >> THEN <<s.off>> ELSE @]
  /\ UNCHANGED <<lock, ready>>

\* copyFromMark
FromMark == SubSeq(s.raw, s.marks[Len(s.marks)] + 1, s.off)

\* Mutant of Return: the mutex is not released.
ReturnLocked(p, a) ==
  /\ Becomes(p, Answered(call[p], a))
  /\ s' = [s EXCEPT !.marks = << >>]
  /\ UNCHANGED <<lock, ready>>

\* The deferred Unlock follows the deferred popMark.
Return(p, a) ==
  /\ Becomes(p, Answered(call[p], a))
  /\ s' = [s EXCEPT !.marks = << >>]
  /\ lock' = Nobody /\ ready' = FALSE

Stop(p) == Wants(p, "stop") /\ Return(p, Token(FromMark))
Fail(p) == Wants(p, "fail") /\ Return(p, Error)

\* What the holder of the mutex does
Holder(p) == LayOut(p) \/ Peek(p) \/ PeekTwo(p) \/ Get(p) \/ Stop(p) \/ Fail(p)

Next == \E p \in Callers : Call(p) \/ Acquire(p) \/ Holder(p)

Spec == Init /\ [][Next]_vars

(***************************************************************************)
(* A goroutine that can run runs; a sync.Mutex hands itself to a waiter    *)
(* that has been passed over for a millisecond, so nobody who waits for it *)
(* is passed over for ever.                                                *)
(***************************************************************************)
Fairness == \A p \in Callers : WF_vars(Holder(p)) /\ SF_vars(Acquire(p))

FairSpec == Spec /\ Fairness

-----------------------------------------------------------------------------
(* Properties *)

(***************************************************************************)
(* The scanner keeps its type, peeks at most two characters ahead, and its *)
(* mutex is held only from within a call of ScanOne: it is released before *)
(* the call returns.                                                       *)
(***************************************************************************)
TypeOK ==
  /\ call \in [Callers -> CallType]
  /\ lock \in Callers \cup {Nobody} /\ ready \in BOOLEAN
  /\ s \in [raw : Seq(Chars), off : Nat, peeked : Seq(Chars), marks : Seq(Nat)]
  /\ Len(s.peeked) <= 2
  /\ lock # Nobody => call[lock].phase = "scanning"

(***************************************************************************)
(* Sharing the scanner does not show in the ID and the Data of a token:    *)
(* whatever the other goroutines do, and whatever earlier calls left of    *)
(* their text, their look-ahead and their marks, each caller is answered   *)
(* the characters and the verdict a scanner of its own would have given,   *)
(* and is answered.  The token's Line and Column do depend on earlier      *)
(* calls and are no part of the answer here.                               *)
(***************************************************************************)
Private == INSTANCE PrivateScanner WITH call <- call

ImplementsPrivateScanner == Private!FairSpec
=============================================================================
