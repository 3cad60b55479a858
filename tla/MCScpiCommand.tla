--------------------------- MODULE MCScpiCommand ---------------------------
(* Patterns and headers of up to three words, and texts of the kinds of    *)
(* program data, for TLC.                                                  *)
EXTENDS ScpiCommand

MCForms(w) == IF w = "N#" THEN {"N", "N1", "N2"} ELSE {w}

Word1(w, opt) == [word |-> w, opt |-> opt]
Orders == {<<"A">>, <<"N#">>, <<"*I">>, <<"A", "N#">>, <<"N#", "A">>, <<"A", "N#", "C">>, <<"N#", "C", "A">>}
MCPatterns ==
  {[words |-> [i \in DOMAIN o |-> Word1(o[i], opt[i])], query |-> q] :
     <<o, opt, q>> \in UNION {{o} \X [DOMAIN o -> BOOLEAN] \X BOOLEAN : o \in Orders}}

Words(n) == UNION {[1 .. k -> {"A", "N", "N2", "C"}] : k \in 1 .. n} \cup {<<"*I">>}
Joint1(words) == FlattenSeq([i \in DOMAIN words |-> IF i = 1 THEN <<words[1]>> ELSE <<":", words[i]>>])
Headers ==
  {lead \o Joint1(w) \o end : lead \in {<<>>, <<":">>}, w \in Words(3), end \in {<<>>, <<"?">>}}
    \cup {Joint1(w) \o <<":">> : w \in Words(2)}

Upto(C, n) == UNION {[1 .. k -> C] : k \in 0 .. n}
Brackets(S) == {<<"(">> \o w \o <<")">> : w \in S}
Texts ==
  {w \in Upto({"1", "-", ".", "E", " ", "/"}, 5)
      \cup Upto({"#", "H", "Q", "1", "8", "2"}, 4)
      \cup Upto({"\"", "'", "A", "8bit"}, 5)
      \cup {<<"\"">> \o v \o <<"\"">> : v \in Upto({"\"", "A"}, 6)}
      \cup Upto({"1", "A", " ", ","}, 6)
      \cup {<<"#">> \o v : v \in Upto({"1", "2", ","}, 5)}
      \cup {<<"1", " ", ",">> \o v : v \in Upto({"#", "1", " ", "("}, 4)}
      \cup Upto({"(", ")", "1", "#", ","}, 4)
      \cup Brackets(Upto({"1", ",", ":"}, 5))
      \cup Brackets({<<"@">> \o v : v \in Upto({"1", ",", ":", "!"}, 5)})
   : At(w, 0) # " "}

Plain == [words |-> <<Word1("A", FALSE)>>, query |-> FALSE]
MCUnits ==
  [pattern : MCPatterns, header : Headers, data : {<<>>}]
    \cup [pattern : {Plain}, header : {<<"A">>}, data : Texts]

MCReads ==
  [kind : {"any", "number", "text", "block", "choice", "scaled"}, mandatory : {TRUE}]
    \cup [kind : {"any"}, mandatory : {FALSE}]
MCOptions == {<<"A">>}
MCUnitNames == {<<"E">>, <<"A">>}
=============================================================================
