---------------------------- MODULE PrivateScanner ----------------------------
(***************************************************************************)
(* What tokenizer.ScanOne promises its callers: each of them reads the     *)
(* first token of its own bytes as if it had a scanner of its own, and     *)
(* gets an answer.  The answer is the token's Data, from which its ID      *)
(* follows, or an error; its Line and Column are not promised.             *)
(***************************************************************************)
EXTENDS ScanCalls

VARIABLE call   \* what each caller asked, has been shown and was answered

vars == <<call>>

Init == call = [p \in Callers |-> Idle]

Becomes(p, c) == call' = [call EXCEPT ![p] = c]

Call(p) == call[p].phase = "idle" /\ \E t \in Texts : Becomes(p, Asked(t))

Wants(p, what) == call[p].phase = "scanning" /\ Recognise(call[p].got, call[p].ahead) = what

\* The i-th character of the caller's text after those it got
Upcoming(p, i) ==
  LET at == Len(call[p].got) + i
  IN  IF at \in 1 .. Len(call[p].text) THEN call[p].text[at] ELSE End

Peek(p) == Wants(p, "peek") /\ Becomes(p, Shown(call[p], <<Upcoming(p, 1)>>))

PeekTwo(p) ==
  /\ Wants(p, "peekTwo")
  /\ Becomes(p, Shown(call[p], IF Upcoming(p, 1) = End THEN <<End>>
                               ELSE <<Upcoming(p, 1), Upcoming(p, 2)>>))

Get(p) ==
  /\ Wants(p, "get")
  /\ Becomes(p, IF Upcoming(p, 1) = End THEN Shown(call[p], <<End>>)
                ELSE Given(call[p], Upcoming(p, 1)))

Stop(p) == Wants(p, "stop") /\ Becomes(p, Answered(call[p], Token(call[p].got)))
Fail(p) == Wants(p, "fail") /\ Becomes(p, Answered(call[p], Error))

Scan(p) == Peek(p) \/ PeekTwo(p) \/ Get(p) \/ Stop(p) \/ Fail(p)

Next == \E p \in Callers : Call(p) \/ Scan(p)

Spec == Init /\ [][Next]_vars

\* Nobody waits for anybody.
FairSpec == Spec /\ \A p \in Callers : WF_vars(Scan(p))
=============================================================================
