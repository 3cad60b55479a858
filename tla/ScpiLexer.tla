----------------------------- MODULE ScpiLexer -----------------------------
(***************************************************************************)
(* The tokens of program data (Utilities/Scpi/Src/lexer.c) and the         *)
(* functions of parser.c and expression.c that are made of them.  s is the *)
(* text from state->buffer on, p the number of characters in front of      *)
(* state->pos.  A skip operator is the new position, a token operator is   *)
(* the token together with the new position and the returned length.       *)
(*                                                                         *)
(* A few characters stand for their kinds; "8bit" is any character that is *)
(* not in the 7-bit code.                                                  *)
(***************************************************************************)
EXTENDS Integers, Sequences

Digit == {"0", "1", "2", "8"}
Bin == {"0", "1"}
Oct == {"0", "1", "2"}
Alpha == {"A", "B", "E", "H", "Q", "V"}
Hex == Digit \cup {"A", "B", "E"}
Quote == {"\"", "'"}
DigitValue(c) == CASE c = "0" -> 0 [] c = "1" -> 1 [] c = "2" -> 2 [] c = "8" -> 8

Comma == ","
Space == " "

(* state->pos[0], or Eos at the end, which is no character: every read is  *)
(* behind a test of iseos.                                                 *)
Eos == "eos"
At(s, p) == IF p < Len(s) THEN s[p + 1] ELSE Eos

skipOne(s, p, C) == IF At(s, p) \in C THEN p + 1 ELSE p
skipAll(s, p, C) ==
  CHOOSE q \in p .. Len(s) : At(s, q) \notin C /\ \A i \in p .. q - 1 : At(s, i) \in C
skipWs(s, p) == skipAll(s, p, {Space})

Token(type, ptr, len, pos, ret) ==
  [type |-> type, ptr |-> ptr, len |-> len, pos |-> pos, ret |-> ret]
Found(type, p, q) ==
  IF q > p THEN Token(type, p, q - p, q, q - p) ELSE Token("UNKNOWN", p, 0, p, 0)

-----------------------------------------------------------------------------
skipProgramMnemonic(s, p) ==
  IF At(s, p) \in Alpha THEN skipAll(s, p + 1, Alpha \cup Digit \cup {"_"}) ELSE p

scpiLex_CharacterProgramData(s, p) ==
  Found("PROGRAM_MNEMONIC", p, skipProgramMnemonic(s, p))

(* skipMantisa: the position behind it, or p if there was no digit.        *)
skipMantisa(s, p) ==
  LET a == skipOne(s, p, {"+", "-"})
      b == skipAll(s, a, Digit)
      c == skipOne(s, b, {"."})
      d == IF c > b THEN skipAll(s, c, Digit) ELSE b
  IN  IF b > a \/ d > c THEN d ELSE p

(* Bug form: an 'E' without digits behind it is kept.                      *)
skipExponentAlone(s, p) ==
  LET a == skipWs(s, p) IN
  IF At(s, a) # "E" THEN p
  ELSE skipAll(s, skipOne(s, skipWs(s, a + 1), {"+", "-"}), Digit)

(* White space and skipExponent, rolled back if there was no digit.        *)
skipExponent(s, p) ==
  LET a == skipWs(s, p)
      b == skipOne(s, skipWs(s, a + 1), {"+", "-"})
      c == skipAll(s, b, Digit)
  IN  IF At(s, a) = "E" /\ c > b THEN c ELSE p

scpiLex_DecimalNumericProgramData(s, p) ==
  LET q == skipMantisa(s, p) IN
  Found("DECIMAL_NUMERIC_PROGRAM_DATA", p, IF q > p THEN skipExponent(s, q) ELSE p)

(* One name of a suffix, and the names behind a slash or a dot.            *)
skipUnit(s, p) == skipOne(s, skipOne(s, skipAll(s, p, Alpha), {"-"}), Digit)

skipUnits(s, p) ==
  LET Sep(q) == skipOne(s, q, {"/", "."})
      units[q \in 0 .. Len(s)] == IF Sep(q) = q THEN q ELSE units[skipUnit(s, Sep(q))]
  IN  units[p]

scpiLex_SuffixProgramData(s, p) ==
  LET q == skipOne(s, p, {"/"}) IN
  Found("SUFFIX_PROGRAM_DATA", p, IF At(s, q) \in Alpha THEN skipUnits(s, skipUnit(s, q)) ELSE q)

scpiLex_NondecimalNumericData(s, p) ==
  LET base == IF At(s, p) = "#" THEN At(s, p + 1) ELSE Eos
      q == CASE base = "H" -> skipAll(s, p + 2, Hex)
             [] base = "Q" -> skipAll(s, p + 2, Oct)
             [] base = "B" -> skipAll(s, p + 2, Bin)
             [] OTHER -> p + 2
      type == CASE base = "H" -> "HEXNUM" [] base = "Q" -> "OCTNUM" [] OTHER -> "BINNUM"
  IN  IF q > p + 2 THEN Token(type, p + 2, q - p - 2, q, q - p)
      ELSE Token("UNKNOWN", p, 0, p, 0)

(* Where skipQuoteProgramData stops: at the closing quote or at the end of *)
(* the text.  Its loop does not advance on a character of 8 bits: Never.   *)
Never == -1

(* Bug form: a doubled quote ends the string.                              *)
skipQuoteSingle(s, p, quote) ==
  LET skip[q \in 0 .. Len(s)] ==
        CASE At(s, q) \in {Eos, quote} -> q
          [] At(s, q) = "8bit" -> Never
          [] OTHER -> skip[q + 1]
  IN  skip[p]

(* Bug form: a doubled quote is looked at again and again.                 *)
skipQuoteStuck(s, p, quote) ==
  LET skip[q \in 0 .. Len(s)] ==
        CASE At(s, q) = Eos -> q
          [] At(s, q) = quote -> IF At(s, q + 1) = quote THEN Never ELSE q
          [] At(s, q) = "8bit" -> Never
          [] OTHER -> skip[q + 1]
  IN  skip[p]

skipQuoteProgramData(s, p, quote) ==
  LET skip[q \in 0 .. Len(s)] ==
        CASE At(s, q) = Eos -> q
          [] At(s, q) = quote -> IF At(s, q + 1) = quote THEN skip[q + 2] ELSE q
          [] At(s, q) = "8bit" -> Never
          [] OTHER -> skip[q + 1]
  IN  skip[p]

scpiLex_StringProgramData(s, p) ==
  LET q == skipQuoteProgramData(s, p + 1, At(s, p)) IN
  CASE At(s, p) \notin Quote -> Token("UNKNOWN", p, 0, p, 0)
    [] At(s, p) \in Quote /\ q = Never -> Token("NEVER", p, 0, p, 0)
    [] At(s, p) \in Quote /\ q # Never ->
         Found("QUOTE_PROGRAM_DATA", p, IF q < Len(s) THEN q + 1 ELSE p)

Number(digits) ==
  LET value[n \in 0 .. Len(digits)] ==
        IF n = 0 THEN 0 ELSE 10 * value[n - 1] + DigitValue(digits[n])
  IN  value[Len(digits)]

(* A block whose announced length reaches behind the text is invalid; one  *)
(* whose length is cut off is incomplete and takes the rest of the text.   *)
scpiLex_ArbitraryBlockProgramData(s, p) ==
  LET n == IF At(s, p) = "#" /\ At(s, p + 1) \in Digit THEN DigitValue(At(s, p + 1)) ELSE 0
      q == skipAll(s, p + 2, Digit)
      from == p + 2 + n
      to == from + Number(SubSeq(s, p + 3, from))
  IN  CASE n > 0 /\ q >= from /\ to <= Len(s) ->
             Token("ARBITRARY_BLOCK_PROGRAM_DATA", from, to - from, to, to - p)
        [] \/ n > 0 /\ q < from /\ q = Len(s)
           \/ At(s, p) = "#" /\ p + 1 = Len(s) ->
             Token("UNKNOWN", p, 0, Len(s), 0)
        [] OTHER -> Token("UNKNOWN", p, 0, p, 0)

isProgramExpression(c) == c \notin Quote \cup {Eos, "#", "(", ")", ";", "8bit"}

scpiLex_ProgramExpression(s, p) ==
  LET q == CHOOSE q \in p + 1 .. Len(s) :
             ~isProgramExpression(At(s, q)) /\ \A i \in p + 1 .. q - 1 : isProgramExpression(At(s, i))
  IN  Found("PROGRAM_EXPRESSION", p, IF At(s, p) = "(" /\ At(s, q) = ")" THEN q + 1 ELSE p)

-----------------------------------------------------------------------------
(* A number and its unit.  White space behind a number without a unit is   *)
(* skipped, and not part of the returned length.                           *)
NumberWithSuffix(s, p) ==
  LET With(t, u) ==
        CASE t.ret = 0 -> t
          [] t.ret > 0 /\ u.ret > 0 ->
               Token("DECIMAL_NUMERIC_PROGRAM_DATA_WITH_SUFFIX", p, u.pos - p, u.pos, u.pos - p)
          [] t.ret > 0 /\ u.ret = 0 -> [t EXCEPT !.pos = u.pos]
      WithSuffixOf(t) == With(t, scpiLex_SuffixProgramData(s, skipWs(s, t.pos)))
  IN  WithSuffixOf(scpiLex_DecimalNumericProgramData(s, p))

(* The alternatives in the order they are tried; one that does not apply   *)
(* leaves the position alone, but for an incomplete block.                 *)
scpiParser_parseProgramData(s, p) ==
  LET a == skipWs(s, p)
      Tried == <<scpiLex_NondecimalNumericData(s, a), scpiLex_CharacterProgramData(s, a),
                 NumberWithSuffix(s, a), scpiLex_StringProgramData(s, a),
                 scpiLex_ArbitraryBlockProgramData(s, a), scpiLex_ProgramExpression(s, a)>>
      Applied == {i \in DOMAIN Tried : Tried[i].type # "UNKNOWN" \/ Tried[i].pos > a}
      Spaced(t, b) == [t EXCEPT !.pos = b, !.ret = t.ret + (a - p) + (b - t.pos)]
      Taken(t) == Spaced(t, skipWs(s, t.pos))
  IN  Taken(IF Applied = {} THEN Token("UNKNOWN", a, 0, a, 0)
            ELSE Tried[CHOOSE i \in Applied : \A j \in Applied : i <= j])

(* scpiParser_parseAllProgramData from a position on.                      *)
AllData(s, p) ==
  LET And(t, rest) ==   \* a parameter, its comma and what follows
        IF rest.type = "ALL_PROGRAM_DATA"
        THEN [rest EXCEPT !.len = t.ret + 1 + @, !.count = @ + 1] ELSE rest
      From(q, t, all) ==
        CASE t.type = "NEVER" -> [type |-> "NEVER", len |-> 0, count |-> 0, pos |-> q]
          [] t.type = "UNKNOWN" -> [type |-> "UNKNOWN", len |-> 0, count |-> -1, pos |-> t.pos]
          [] t.type \notin {"NEVER", "UNKNOWN"} /\ At(s, t.pos) = Comma -> And(t, all[t.pos + 1])
          [] OTHER -> [type |-> "ALL_PROGRAM_DATA", len |-> t.ret, count |-> 1, pos |-> t.pos]
      datas[q \in 0 .. Len(s)] == From(q, scpiParser_parseProgramData(s, q), datas)
  IN  datas[p]

scpiParser_parseAllProgramData(s) == AllData(s, 0)
=============================================================================
