------------------------------- MODULE ScanCalls -------------------------------
(***************************************************************************)
(* Calls of tokenizer.ScanOne, as their callers and a recogniser           *)
(* (readtype.go) see them.  What a recogniser does next depends on the     *)
(* characters it has been given and on nothing else: Recognise is that     *)
(* decision, from the characters got so far and those peeked at since.     *)
(* An answer is an error or a token's Data; Line and Column are left out.  *)
(***************************************************************************)
EXTENDS Integers, Sequences

CONSTANTS
  Callers,          \* the goroutines that call ScanOne
  Texts,            \* the byte slices they call it with
  Chars, End,       \* characters, and the answer that there is none
  Recognise(_, _)   \* "peek", "peekTwo", "get", "stop" or "fail"

ASSUME EndAssumption == End \notin Chars
ASSUME TextsAssumption == \A t \in Texts : t \in Seq(Chars)

\* What one peek can show
Views == LET C == Chars \cup {End}
         IN  {<< >>} \cup {<<c>> : c \in C} \cup {<<c, d>> : c \in C, d \in C}

\* There is no token before a character was got.
ASSUME RecogniseAssumption == \A v \in Views : Recognise(<< >>, v) # "stop"

Answers == [kind : {"none", "error", "token"}, token : Seq(Chars)]

NoAnswer == [kind |-> "none", token |-> << >>]
Error    == [kind |-> "error", token |-> << >>]
Token(characters) == [kind |-> "token", token |-> characters]

\* A call, as its caller and the recogniser see it
CallType == [phase : {"idle", "scanning"}, text : Seq(Chars), got : Seq(Chars),
             ahead : Views, answer : Answers]

\* A caller that is not in a call, or has just made one
Idle     == [phase |-> "idle", text |-> << >>, got |-> << >>, ahead |-> << >>,
             answer |-> NoAnswer]
Asked(t) == [phase |-> "scanning", text |-> t, got |-> << >>, ahead |-> << >>,
             answer |-> NoAnswer]

\* What a call becomes when a peek shows it v, get gives it c, or it ends with a
Shown(c, v)    == [c EXCEPT !.ahead = v]
Given(c, char) == [c EXCEPT !.got = Append(@, char), !.ahead = << >>]
Answered(c, a) == [c EXCEPT !.phase = "idle", !.answer = a]
=============================================================================
