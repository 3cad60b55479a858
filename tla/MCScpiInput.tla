---------------------------- MODULE MCScpiInput ----------------------------
(* Instances of ScpiInput: a few chunks in any order, and whole lines.     *)
EXTENDS ScpiInput

(* Commands A (no result), A:B? (a result), A:B:B (fails), *A (a           *)
(* parameter).                                                             *)
MCKnown ==
  LET a == <<"a">> ab == <<"a", ":", "b">> abb == ab \o <<":", "b">>
      sa == <<"*", "a">>
  IN  [h \in {a, ab, abb, sa} |->
         CASE h = a -> "quiet" [] h = ab -> "answer"
           [] h = abb -> "fail" [] h = sa -> "param"]

ShortTexts ==
  {<<"a">>, <<":", "b">>, <<":">>, <<"*", "a">>, <<"p">>, <<";">>, <<"n">>,
   <<"!">>, <<"b", "n", "a">>, <<"n", "n", "n">>}

UnitTexts ==
  {<<"a">>, <<"a", "p">>, <<"b">>, <<"a", ":", "b">>, <<":", "a">>,
   <<"a", ":", "b", ":", "b">>, <<"*", "a">>, <<"*", "a", "p", "a">>,
   <<"a", "!", "b">>, <<":">>}

(* Lines of three units, the last of which is relative, fails, is invalid  *)
(* or empty, with and without the next line behind them.                   *)
LastTexts ==
  {<<>>, <<"a">>, <<"b">>, <<"a", ":", "b", ":", "b">>, <<"a", "!", "b">>}

WholeLines ==
  {u \o <<";">> \o v \o <<";">> \o w \o t :
     u \in UnitTexts, v \in UnitTexts, w \in LastTexts,
     t \in {<<"n">>, <<"n", "a", ":", "b", "n">>}}

(* A small buffer gets short texts, a large one whole lines.               *)
MCChunks(n) == IF n < 10 THEN ShortTexts ELSE WholeLines
=============================================================================
