--------------------------- MODULE MCStaticScanner ---------------------------
EXTENDS StaticScanner

(***************************************************************************)
(* A small readNext: comments, which need two characters to be recognised, *)
(* numbers and words.                                                      *)
(***************************************************************************)
MCChars == {"a", "1", "/", " "}

MCTexts == { <<"a", "1">>, <<"1", "1">>, <<"1", "a">>, <<"a", " ", "a">>,
             <<"/">>, <<"/", "a">>, <<"/", "/", "1">>, <<" ">> }

WordRest   == {"a", "1"}
NumberRest == {"1"}

Longer(rest, ahead) ==
  IF ahead = << >> THEN "peek" ELSE IF ahead[1] \in rest THEN "get" ELSE "stop"

MCRecognise(got, ahead) ==
  IF got = << >>
  THEN CASE ahead = << >> -> "peek"
         [] ahead = <<"/">> -> "peekTwo"
         [] ahead \in {<<"a">>, <<"1">>, <<"/", "/">>} -> "get"
         [] OTHER -> "fail"
  ELSE CASE got[1] = "a" -> Longer(WordRest, ahead)
         [] got[1] = "/" -> Longer(MCChars, ahead)
         [] OTHER -> IF ahead = <<"a">> THEN "fail" ELSE Longer(NumberRest, ahead)
=============================================================================
