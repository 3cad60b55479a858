---------------------------- MODULE ScpiCommand ----------------------------
(***************************************************************************)
(* One unit of a line, from its detection to its result: matchCommand      *)
(* compares the header with the pattern of a command turn by turn          *)
(* (Utilities/Scpi/Src/utils.c), processCommand calls the command, and the *)
(* command reads its parameters with SCPI_Parameter and the functions      *)
(* built on it (parser.c, units.c).                                        *)
(*                                                                         *)
(* A pattern and a header are sequences of words and of the separators     *)
(* ":", "[", "]" and "?"; that a word of a pattern stands for a long and a *)
(* short form in any case is left to Forms.  The data is text, as          *)
(* ScpiLexer reads it.                                                     *)
(*                                                                         *)
(* External: the command, which reads any number of parameters of any      *)
(* kind, mandatory or not.                                                 *)
(***************************************************************************)
EXTENDS ScpiLexer, FiniteSets, SequencesExt

CONSTANTS Forms(_),   \* the mnemonics a word of a pattern stands for
          Numbered,   \* the words that end in '#'
          Common,     \* the mnemonics that start with '*'
          Units,      \* <<pattern, header, data>> considered
          Reads,      \* the parameters a command may read
          Options,    \* the texts of the options of a choice
          UnitNames,  \* the suffixes context->units knows
          BufLen,     \* buffer_len of SCPI_ParamCopyText
          MaxLen      \* of the texts checked against the grammar of numbers

(* Data is text; buffer_len leaves room for the zero; MaxLen is a length.  *)
ASSUME UnitsAssumption == \A u \in Units : u.data \in Seq(STRING \ {Eos})
ASSUME BufLenAssumption == BufLen \in Nat \ {0}
ASSUME MaxLenAssumption == MaxLen \in Nat

Default == -1         \* default_value
Unset == -2           \* a number that matchCommand has not written
NumberIn(m) == CASE m = "N1" -> 1 [] m = "N2" -> 2 [] OTHER -> Default

VARIABLES pc,         \* "detect", "match", "call" or "done"
          spec,       \* the pattern as a sequence of [word, opt], and its query mark
          pattern, header, text,
          pp, cp,     \* pattern_ptr and cmd_ptr as offsets
          brackets,
          numbers,    \* one for each numbered word of the pattern
          idx,        \* numbers_idx
          data,       \* what parseAllProgramData returned
          pos,        \* param_list.lex_state.pos
          count,      \* input_count
          got,        \* the parameters the command has got
          error,      \* the error pushed
          failed,     \* the command was refused a parameter
          result      \* of processCommand, or "undefined header"

match == <<pp, cp, brackets, numbers, idx>>
params == <<pos, count, got, error, failed>>
given == <<spec, pattern, header, text>>
vars == <<pc, given, match, data, params, result>>

Separator == {":", "[", "]", "?"}

(* The pattern of a command as its table has it, e.g. MEAS[:VOLT]:DC?      *)
Rendered(s) ==
  LET Part(i) == CASE s.words[i].opt -> <<"[", ":", s.words[i].word, "]">>
                   [] ~s.words[i].opt /\ i = 1 -> <<s.words[i].word>>
                   [] ~s.words[i].opt /\ i > 1 -> <<":", s.words[i].word>>
  IN  FlattenSeq([i \in DOMAIN s.words |-> Part(i)]) \o (IF s.query THEN <<"?">> ELSE <<>>)

Init ==
  /\ pc = "detect"
  /\ \E u \in Units : /\ spec = u.pattern
                      /\ pattern = Rendered(u.pattern)
                      /\ header = u.header
                      /\ text = u.data
  /\ pp = 0 /\ cp = 0 /\ brackets = 0 /\ idx = 0
  /\ numbers = [i \in 1 .. Cardinality({j \in DOMAIN spec.words : spec.words[j].word \in Numbered}) |-> Unset]
  /\ data = [type |-> "UNKNOWN", len |-> 0, count |-> 0, pos |-> 0]
  /\ pos = 0 /\ count = 0 /\ got = <<>> /\ error = <<>> /\ failed = FALSE /\ result = TRUE

-----------------------------------------------------------------------------
(* scpiParser_detectProgramMessageUnit, as far as the data goes: without   *)
(* white space behind the header there is none.  What is left over makes   *)
(* the unit invalid.  Nothing happens while a quoted string is never left. *)
DetectData ==
  IF text = <<>> THEN data ELSE scpiParser_parseAllProgramData(text)

QueryEnd(s) == IF s # <<>> /\ Last(s) = "?" THEN 1 ELSE 0

(* The patterns and headers without a common query mark, and where they    *)
(* start: behind a '[' and a ':'.                                          *)
PatternEnd == Len(pattern) - QueryEnd(pattern)
HeaderEnd == Len(header) - QueryEnd(pattern)
PatternStart == skipOne(pattern, skipOne(pattern, 0, {"["}), {":"})

(* matchCommand tells at once: a query or ":*".                             *)
NoMatch ==
  \/ QueryEnd(pattern) > QueryEnd(header)
  \/ HeaderEnd >= 2 /\ At(header, 0) = ":" /\ At(header, 1) \in Common

detectProgramMessageUnit ==
  /\ pc = "detect"
  /\ DetectData.type # "NEVER"
  /\ data' = DetectData
  /\ IF data'.pos < Len(text)
     THEN /\ pc' = "done" /\ result' = FALSE /\ error' = <<"INVALID_CHARACTER">>
          /\ UNCHANGED match
     ELSE /\ pc' = IF NoMatch THEN "done" ELSE "match"
          /\ result' = (pc' = "match")
          /\ error' = IF result' THEN <<>> ELSE <<"UNDEFINED_HEADER">>
          /\ pp' = PatternStart
          /\ brackets' = IF At(pattern, 0) = "[" THEN 1 ELSE 0
          /\ cp' = IF HeaderEnd >= 2 THEN skipOne(header, 0, {":"}) ELSE 0
          /\ UNCHANGED <<numbers, idx>>
  /\ UNCHANGED <<given, pos, count, got, failed>>

(* The word at p, or "" if a separator or the end is there.                *)
Word(s, p, end) == IF p >= end \/ At(s, p) \in Separator THEN "" ELSE At(s, p)
Behind(s, p, end) == IF Word(s, p, end) = "" THEN p ELSE p + 1

matchPattern(w, m) == IF w = "" THEN m = "" ELSE m \in Forms(w)

(* Bug form: any optional word is taken to be the last.                    *)
RestOptionalOnce(p, b) == At(pattern, p) \in {"[", "]"}

(* The header is complete: all that is left of the pattern is optional.    *)
RestOptional(p, b) ==
  LET Change(c) == CASE c = "[" -> 1 [] c = "]" -> -1 [] OTHER -> 0
      rest[q \in Nat, depth \in Int] ==
        LET sep == Behind(pattern, q, PatternEnd)
            c == depth + Change(At(pattern, sep))
        IN  CASE q = PatternEnd -> TRUE
              [] q < PatternEnd /\ c = 0 /\ ~(sep + 1 < PatternEnd /\ At(pattern, sep + 1) = "[") ->
                   sep + 1 = PatternEnd
              [] OTHER -> rest[sep + 1, c]
  IN  rest[p, b]

(* Bug form: an omitted word leaves its number as it was.                  *)
NumbersNoDefault(w, m) ==
  IF w \in Numbered /\ m \in Forms(w)
  THEN [numbers EXCEPT ![idx + 1] = NumberIn(m)]
  ELSE numbers

(* The number of a numbered word: set to the default before the word is    *)
(* compared, and to the number behind it if there is one.                  *)
NumbersSet(w, m) ==
  IF w \in Numbered
  THEN [numbers EXCEPT ![idx + 1] = IF m \in Forms(w) THEN NumberIn(m) ELSE Default]
  ELSE numbers

(* What stands between two words of the pattern: the number of separators  *)
(* to skip, 0 if the pattern goes on in no way the code knows.             *)
Joint(p) ==
  CASE At(pattern, p) = ":" -> 1
    [] At(pattern, p) \in {"[", "]"} /\ At(pattern, p + 1) = ":" -> 2
    [] At(pattern, p) = "]" /\ At(pattern, p + 1) = "[" /\ At(pattern, p + 2) = ":" -> 3
    [] OTHER -> 0

(* A word that does not match is skipped if its group ends behind it.      *)
SkipsGroup(p) == At(pattern, p) = "]" /\ Joint(p) > 0

BracketsBehind(p) ==
  CASE Joint(p) = 2 /\ At(pattern, p) = "[" -> brackets + 1
    [] Joint(p) = 2 /\ At(pattern, p) = "]" -> brackets - 1
    [] OTHER -> brackets

(* One turn of the loop of matchCommand.                                   *)
MatchTurn ==
  LET w == Word(pattern, pp, PatternEnd)
      m == Word(header, cp, HeaderEnd)
      p == Behind(pattern, pp, PatternEnd)
      c == Behind(header, cp, HeaderEnd)
      Ends(ok) == /\ pc' = IF ok THEN "call" ELSE "done"
                  /\ result' = ok
                  /\ error' = IF ok THEN <<>> ELSE <<"UNDEFINED_HEADER">>
                  /\ UNCHANGED <<pp, cp, brackets>>
      Skips(skipped) == /\ pp' = p + Joint(p)
                        /\ cp' = skipped
                        /\ brackets' = BracketsBehind(p)
                        /\ UNCHANGED <<pc, result, error>>
  IN
  /\ pc = "match"
  /\ numbers' = NumbersSet(w, m)
  /\ idx' = IF w \in Numbered THEN idx + 1 ELSE idx
  /\ \/ matchPattern(w, m) /\ p = PatternEnd /\ Ends(c = HeaderEnd)
     \/ matchPattern(w, m) /\ p < PatternEnd /\ c = HeaderEnd /\ Ends(RestOptional(p, brackets))
     \/ /\ matchPattern(w, m) /\ p < PatternEnd /\ c < HeaderEnd
        /\ IF Joint(p) > 0 /\ At(header, c) = ":" THEN Skips(c + 1) ELSE Ends(FALSE)
     \/ /\ ~matchPattern(w, m)
        /\ IF SkipsGroup(p) THEN Skips(cp) ELSE Ends(FALSE)
  /\ UNCHANGED <<given, data, pos, count, got, failed>>

-----------------------------------------------------------------------------
(* The text param_list.lex_state spans: programData.len characters.        *)
ParamText == SubSeq(text, 1, data.len)

(* SCPI_Parameter: the error it pushes, or the parameter it reads.         *)
Parameter(mandatory) ==
  LET Fails(err, at, n) ==
        [ok |-> FALSE, error |-> err, pos |-> at, count |-> n, token |-> Token("UNKNOWN", 0, 0, 0, 0)]
      Takes(t) ==
        IF t.type = "UNKNOWN" THEN Fails(<<"INVALID_STRING_DATA">>, t.pos, count + 1)
        ELSE [ok |-> TRUE, error |-> <<>>, pos |-> t.pos, count |-> count + 1, token |-> t]
      comma == At(ParamText, pos) = Comma
  IN  CASE pos >= Len(ParamText) ->
             Fails(IF mandatory THEN <<"MISSING_PARAMETER">> ELSE <<>>, pos, count)
        [] pos < Len(ParamText) /\ count > 0 /\ ~comma -> Fails(<<"INVALID_SEPARATOR">>, pos, count)
        [] OTHER -> Takes(scpiParser_parseProgramData(ParamText, IF count = 0 THEN pos ELSE pos + 1))

NumberTypes == {"HEXNUM", "OCTNUM", "BINNUM", "DECIMAL_NUMERIC_PROGRAM_DATA"}
WithSuffix == "DECIMAL_NUMERIC_PROGRAM_DATA_WITH_SUFFIX"

(* The unit of a number with a suffix, as SCPI_ParamNumber finds it.       *)
SuffixOf(w) ==
  LET t == scpiLex_SuffixProgramData(w, skipWs(w, scpiLex_DecimalNumericProgramData(w, 0).pos))
  IN  SubSeq(w, t.ptr + 1, t.ptr + t.len)

(* What the functions on top of SCPI_Parameter make of a parameter w of a  *)
(* type: the error they push.                                              *)
TypeError(kind, type, w) ==
  CASE kind = "number" /\ type = WithSuffix -> <<"SUFFIX_NOT_ALLOWED">>
    [] kind = "number" /\ type \notin NumberTypes \cup {WithSuffix} -> <<"DATA_TYPE_ERROR">>
    [] kind = "text" /\ type # "QUOTE_PROGRAM_DATA" -> <<"DATA_TYPE_ERROR">>
    [] kind = "block" /\ type # "ARBITRARY_BLOCK_PROGRAM_DATA" -> <<"DATA_TYPE_ERROR">>
    [] kind = "choice" /\ type # "PROGRAM_MNEMONIC" -> <<"DATA_TYPE_ERROR">>
    [] kind \in {"choice", "scaled"} /\ type = "PROGRAM_MNEMONIC" /\ w \notin Options ->
         <<"ILLEGAL_PARAMETER_VALUE">>
    [] kind = "scaled" /\ type = WithSuffix /\ SuffixOf(w) \notin UnitNames -> <<"INVALID_SUFFIX">>
    [] OTHER -> <<>>

(* SCPI_ParamNumber refuses data that is no number without an error.       *)
Refused(kind, type) ==
  kind = "scaled" /\ type \notin NumberTypes \cup {WithSuffix, "PROGRAM_MNEMONIC"}

(* Bug form: the room is counted in characters written.                    *)
CopyTextTight(w) ==
  LET copied[from \in Nat, to \in Nat] ==
        IF from >= Len(w) - 1 \/ to > BufLen THEN <<>>
        ELSE <<At(w, from)>> \o copied[IF At(w, from) = At(w, 0) THEN from + 2 ELSE from + 1, to + 1]
  IN  copied[1, 0]

(* SCPI_ParamCopyText: what it copies of a quoted string into a buffer of  *)
(* BufLen characters, from the character at from on.                       *)
CopyText(w) ==
  LET copied[from \in 0 .. Len(w)] ==
        IF from >= Len(w) - 1 \/ from >= BufLen THEN <<>>
        ELSE <<At(w, from)>> \o copied[IF At(w, from) = At(w, 0) THEN from + 2 ELSE from + 1]
  IN  copied[1]

(* The command reads one parameter of some kind, and stops at the first    *)
(* one it is refused.                                                      *)
ReadParameter(read) ==
  \E r \in {Parameter(read.mandatory)} :
    LET w == SubSeq(text, r.token.ptr + 1, r.token.ptr + r.token.len)
        errs == IF r.ok THEN TypeError(read.kind, r.token.type, w) ELSE r.error
    IN
    /\ pc = "call"
    /\ ~failed
    /\ r.ok \/ r.error # <<>>    \* an absent optional parameter changes nothing
    /\ pos' = r.pos
    /\ count' = r.count
    /\ error' = errs
    /\ failed' = ~(r.ok /\ error' = <<>> /\ ~Refused(read.kind, r.token.type))
    /\ got' = IF failed' THEN got ELSE Append(got, [kind |-> read.kind, type |-> r.token.type, text |-> w])
    /\ UNCHANGED <<pc, given, match, data, result>>

(* Bug form: what the command has not read is not reported.                *)
ReturnAllowsRest(ok) == ~ok /\ error = <<>>

(* The errors pushed when the command returns: EXECUTION_ERROR if it       *)
(* failed without one, PARAMETER_NOT_ALLOWED if it left parameters and     *)
(* there was none.                                                         *)
ReturnPushes(ok) == error = <<>> /\ (~ok \/ pos < Len(ParamText))

(* The command returns; processCommand ends.                               *)
CommandReturns(ok) ==
  /\ pc = "call"
  /\ failed => ~ok
  /\ pc' = "done"
  /\ error' = IF ReturnPushes(ok)
              THEN <<IF ok THEN "PARAMETER_NOT_ALLOWED" ELSE "EXECUTION_ERROR">>
              ELSE error
  /\ result' = (ok /\ error' = <<>>)
  /\ UNCHANGED <<given, match, data, pos, count, got, failed>>

Next ==
  \/ detectProgramMessageUnit
  \/ MatchTurn
  \/ \E read \in Reads : ReadParameter(read)
  \/ \E ok \in BOOLEAN : CommandReturns(ok)

(* The main loop goes on, and a command returns at last: weak fairness of  *)
(* Next, with the states that enable no step written out.                  *)
GoesOn ==
  \/ []<>(pc = "done" \/ (pc = "detect" /\ DetectData.type = "NEVER"))
  \/ []<><<Next>>_vars
Spec == Init /\ [][Next]_vars /\ GoesOn
-----------------------------------------------------------------------------
(* expression.c.  One range of a numeric list, its numbers and where it    *)
(* ends.                                                                   *)
numericRange(s, p) ==
  LET Value(t) == SubSeq(s, t.ptr + 1, t.ptr + t.len)
      To(a, b) == [res |-> IF b.ret > 0 THEN "OK" ELSE "ERROR", pos |-> b.pos, values |-> <<Value(a), Value(b)>>]
      From(a) ==
        CASE a.ret = 0 -> [res |-> "NO_MORE", pos |-> p, values |-> <<>>]
          [] a.ret > 0 /\ At(s, a.pos) # ":" -> [res |-> "OK", pos |-> a.pos, values |-> <<Value(a)>>]
          [] a.ret > 0 /\ At(s, a.pos) = ":" -> To(a, scpiLex_DecimalNumericProgramData(s, a.pos + 1))
  IN  From(scpiLex_DecimalNumericProgramData(s, p))

(* One channel, e.g. 1!5!8: as many numbers as it has dimensions.          *)
channelSpec(s, p) ==
  LET Value(t) == SubSeq(s, t.ptr + 1, t.ptr + t.len)
      And(a, rest) == [res |-> IF rest.res = "OK" THEN "OK" ELSE "ERROR", pos |-> rest.pos,
                       value |-> <<Value(a)>> \o rest.value]
      channel[q \in 0 .. Len(s)] ==
        LET First(a) ==
              CASE a.ret = 0 -> [res |-> "NO_MORE", pos |-> q, value |-> <<>>]
                [] a.ret > 0 /\ At(s, a.pos) # "!" -> [res |-> "OK", pos |-> a.pos, value |-> <<Value(a)>>]
                [] a.ret > 0 /\ At(s, a.pos) = "!" -> And(a, channel[a.pos + 1])
        IN  First(scpiLex_DecimalNumericProgramData(s, q))
  IN  channel[p]

(* Bug form: the channels of a range may have different dimensions.        *)
channelRangeAny(s, p) ==
  LET To(a, b) == [res |-> IF b.res = "OK" THEN "OK" ELSE "ERROR", pos |-> b.pos, values |-> <<a.value, b.value>>]
      From(a) ==
        CASE a.res # "OK" -> [res |-> a.res, pos |-> a.pos, values |-> <<>>]
          [] a.res = "OK" /\ At(s, a.pos) # ":" -> [res |-> "OK", pos |-> a.pos, values |-> <<a.value>>]
          [] a.res = "OK" /\ At(s, a.pos) = ":" -> To(a, channelSpec(s, a.pos + 1))
  IN  From(channelSpec(s, p))

channelRange(s, p) ==
  LET To(a, b) == [res |-> IF b.res = "OK" /\ Len(a.value) = Len(b.value) THEN "OK" ELSE "ERROR",
                   pos |-> b.pos, values |-> <<a.value, b.value>>]
      From(a) ==
        CASE a.res # "OK" -> [res |-> a.res, pos |-> a.pos, values |-> <<>>]
          [] a.res = "OK" /\ At(s, a.pos) # ":" -> [res |-> "OK", pos |-> a.pos, values |-> <<a.value>>]
          [] a.res = "OK" /\ At(s, a.pos) = ":" -> To(a, channelSpec(s, a.pos + 1))
  IN  From(channelSpec(s, p))

(* Entry k, from 0, of the list that starts at p: the loop over the        *)
(* entries in front of it.                                                 *)
ListEntry(channels, s, p, k) ==
  LET entry[q \in 0 .. Len(s), n \in 0 .. k] ==
        LET From(r) ==
              CASE r.res # "OK" \/ n = 0 -> r
                [] r.res = "OK" /\ n > 0 /\ At(s, r.pos) = Comma -> entry[r.pos + 1, n - 1]
                [] OTHER -> [r EXCEPT !.res = IF r.pos = Len(s) THEN "NO_MORE" ELSE "ERROR"]
        IN  From(IF channels THEN channelRange(s, q) ELSE numericRange(s, q))
  IN  entry[p, k]

SCPI_ExprNumericListEntry(s, k) == ListEntry(FALSE, s, 0, k)

(* A channel list that ends in front of something else is an error.        *)
SCPI_ExprChannelListEntry(s, k) ==
  LET Whole(r) == IF r.res = "NO_MORE" /\ r.pos < Len(s) THEN [r EXCEPT !.res = "ERROR"] ELSE r
  IN  IF At(s, 0) = "@" THEN Whole(ListEntry(TRUE, s, 1, k)) ELSE [res |-> "ERROR", pos |-> 0, values |-> <<>>]

-----------------------------------------------------------------------------
(* The headers a pattern stands for: the mandatory words and some of the   *)
(* optional ones, in order, behind an optional ":" unless it is a common   *)
(* command.                                                                *)
Accepts(s, h) ==
  LET words == SelectSeq(h, LAMBDA m : m \notin Separator)
      lead == IF At(h, 0) = ":" THEN <<":">> ELSE <<>>
      Joined == lead \o FlattenSeq([i \in DOMAIN words |-> IF i = 1 THEN <<words[1]>> ELSE <<":", words[i]>>])
  IN  /\ h = Joined \o (IF s.query THEN <<"?">> ELSE <<>>)
      /\ lead # <<>> => words[1] \notin Common
      /\ \E S \in SUBSET DOMAIN s.words :
           LET kept == SetToSortSeq(S, <) IN
           /\ \A i \in DOMAIN s.words \ S : s.words[i].opt
           /\ Len(kept) = Len(words)
           /\ \A i \in DOMAIN kept : words[i] \in Forms(s.words[kept[i]].word)

(* matchCommand, which goes through pattern and header once and never      *)
(* tries a second way, accepts exactly the headers the pattern stands for, *)
(* if no word occurs twice in the pattern.                                 *)
MatchIsRight ==
  /\ pc = "call" => Accepts(spec, header)
  /\ error = <<"UNDEFINED_HEADER">> => ~Accepts(spec, header)

(* A command that is called finds in numbers[] the number of every numbered *)
(* word up to the last word of its header, and the default value for those *)
(* without one, words that are left out included.                          *)
NumbersAreRight ==
  LET seen == SelectSeq(spec.words, LAMBDA w : w.word \in Numbered)
      Given(w) == {m \in Range(header) : m \in Forms(w)}
  IN  pc = "call" =>
        \A i \in 1 .. idx :
          numbers[i] = IF Given(seen[i].word) = {} THEN Default
                       ELSE NumberIn(CHOOSE m \in Given(seen[i].word) : TRUE)

-----------------------------------------------------------------------------
(* The grammar of IEEE 488.2 the comments of lexer.c refer to, as sets of  *)
(* texts no longer than MaxLen: chapter 7.7.2 for numbers and 7.7.3 for    *)
(* suffixes.                                                               *)
Cat(A, B) == {w \in {a \o b : a \in A, b \in B} : Len(w) <= MaxLen}
Opt(A) == A \cup {<<>>}
Plus(C) == UNION {[1 .. n -> C] : n \in 1 .. MaxLen}
One(C) == {<<c>> : c \in C}
Ws == Opt(Plus({Space}))
DIGITS == Plus({"1"})
MANTISSA == Cat(Opt(One({"+", "-"})),
                Cat(DIGITS, Opt(Cat(One({"."}), Opt(DIGITS)))) \cup Cat(One({"."}), DIGITS))
EXPONENT == Cat(Ws, Cat(One({"E"}), Cat(Ws, Cat(Opt(One({"+", "-"})), DIGITS))))
DECIMAL == Cat(MANTISSA, Opt(EXPONENT))

(* SLASH? (ALPHA+ (MINUS? DIGIT)?) ((SLASH | DOT) (ALPHA+ (MINUS? DIGIT)?))* *)
UNITNAME == Cat(Plus({"E"}), Opt(Cat(Opt(One({"-"})), One({"1"}))))
SUFFIX == Cat(Opt(One({"/"})), Cat(UNITNAME, Opt(Cat(One({"/", "."}), Cat(UNITNAME, Opt(Cat(One({"/", "."}), UNITNAME)))))))

(* The longest text of L that s starts with, 0 if there is none.           *)
Longest(s, L) ==
  LET lens == {n \in 1 .. Len(s) : SubSeq(s, 1, n) \in L}
  IN  IF lens = {} THEN 0 ELSE CHOOSE n \in lens : \A m \in lens : m <= n

(* The lexer takes the longest number there is, though it decides on every *)
(* character as it comes and rolls back at most one exponent; and a suffix *)
(* of the strict grammar, which the code quotes and does not follow, is    *)
(* taken as one.                                                           *)
NumbersAreLongest ==
  pc = "detect" /\ Len(text) <= MaxLen /\ Range(text) \subseteq {"1", "+", "-", ".", "E", "/", Space} =>
    /\ scpiLex_DecimalNumericProgramData(text, 0).len = Longest(text, DECIMAL)
    /\ text \in SUFFIX => scpiLex_SuffixProgramData(text, 0).len = Len(text)

(* Every run of quotes between the first and the n-th character of a       *)
(* string is made of pairs.                                                *)
PairedQuotes(s, n) ==
  \A i \in 2 .. n - 1 : \A j \in i .. n - 1 :
    /\ \A k \in i .. j : s[k] = s[1]
    /\ (i = 2 \/ s[i-1] # s[1]) /\ (j = n - 1 \/ s[j+1] # s[1])
    => (j - i) % 2 = 1

StringEnds(s) ==
  {n \in 2 .. Len(s) : /\ s[n] = s[1] /\ At(s, n) # s[1] /\ PairedQuotes(s, n)
                       /\ \A i \in 1 .. n : s[i] # "8bit"}

(* What a quoted string ends with is the first single quote behind it, a   *)
(* doubled one is part of it; without one there is no string.  With a      *)
(* character of 8 bits in the string the lexer does not return.            *)
StringsEnd ==
  LET t == scpiLex_StringProgramData(text, 0)
  IN  pc = "detect" /\ text # <<>> /\ At(text, 0) \in Quote =>
        IF StringEnds(text) # {} THEN t.len \in StringEnds(text)
        ELSE t.len = 0 /\ (t.type = "NEVER" <=> "8bit" \in Range(text))

(* s split at the character c.                                             *)
Split(s, c) ==
  LET Ends(from) == {i \in from + 1 .. Len(s) : s[i] = c}
      split[from \in 0 .. Len(s)] ==
        IF Ends(from) = {} THEN <<SubSeq(s, from + 1, Len(s))>>
        ELSE <<SubSeq(s, from + 1, Min(Ends(from)) - 1)>> \o split[Min(Ends(from))]
  IN  split[0]

IsNumber(w) == w # <<>> /\ \A i \in DOMAIN w : w[i] = "1"

(* Entries are read until the first that is not SCPI_EXPR_OK.  Each one in *)
(* front of another, and the last one too if the list then ends as         *)
(* SCPI_EXPR_NO_MORE, is what stands between two commas; a well-formed     *)
(* list is read to its end.  A numeric list also ends so where something   *)
(* that starts no number follows a comma, as in (1,) or (1,:1), and a      *)
(* channel list where nothing does, as in (@1,); everything else that is   *)
(* not well-formed is an error.                                            *)
ListsAreRead ==
  \A g \in Range(got) : g.type = "PROGRAM_EXPRESSION" =>
    LET s == SubSeq(g.text, 2, Len(g.text) - 1)
        channels == At(s, 0) = "@"
        items == Split(IF channels THEN SubSeq(s, 2, Len(s)) ELSE s, Comma)
        Ends(k) == Split(items[k], ":")
        Spec1(w) == IF channels THEN Split(w, "!") ELSE w
        Fits(w) == IF channels THEN \A d \in Range(Split(w, "!")) : IsNumber(d) ELSE IsNumber(w)
        Good(k) == /\ Len(Ends(k)) <= 2
                   /\ \A w \in Range(Ends(k)) : Fits(w)
                   /\ channels => \A v, w \in Range(Ends(k)) : Len(Split(v, "!")) = Len(Split(w, "!"))
        Entry(k) == IF channels THEN SCPI_ExprChannelListEntry(s, k) ELSE SCPI_ExprNumericListEntry(s, k)
        NoEntry(n) == IF channels THEN items[n] = <<>> /\ n = Len(items) ELSE At(items[n], 0) # "1"
    IN  \E n \in 0 .. Len(items), end \in {"NO_MORE", "ERROR"} :
          /\ Entry(n).res = end
          /\ \A k \in 1 .. n :
               LET e == Entry(k - 1)
               IN  /\ e.res = "OK"
                   /\ k < n \/ end = "NO_MORE" =>
                        Good(k) /\ e.values = [i \in DOMAIN Ends(k) |-> Spec1(Ends(k)[i])]
          /\ (\A k \in DOMAIN items : Good(k)) => n = Len(items) /\ end = "NO_MORE"
          /\ end = "NO_MORE" <=>
               (\A k \in 1 .. n : Good(k)) /\ (n = Len(items) \/ NoEntry(n + 1))

(* The length programData is given reaches to the end of the parameters    *)
(* (test_lexer_parser.c:243: the length of "ahoj" , #12AB is 14, all of    *)
(* it).  The code leaves out white space behind a number, so that the end  *)
(* of the list is cut off.                                                 *)
LengthIsSpan ==
  data.type = "ALL_PROGRAM_DATA" => \A i \in data.len + 1 .. data.pos : text[i] = Space

(* What is cut off is white space, and cannot be the end of a block: 1 ,#11 *)
(* with a space behind it is cut off inside the block.                     *)
NothingIsLost ==
  /\ LengthIsSpan
  /\ data.type = "ALL_PROGRAM_DATA" /\ data.len < data.pos => "#" \notin Range(text)

(* Text without strings, blocks, numbers of other bases and expressions,   *)
(* in which every comma is between two parameters.                         *)
SimpleText == Range(text) \cap (Quote \cup {"#", "("}) = {}

(* The part x of the text s is w with white space around it.               *)
Padded(s, x, w) ==
  \E a, b \in 0 .. Len(s) : x = [j \in 1 .. a |-> Space] \o w \o [j \in 1 .. b |-> Space]

(* Detection measures the data, the command reads it again piece by piece  *)
(* within that length.  Of data that detection gave up (a count of -1, as  *)
(* for 1, with nothing behind the comma) the command gets nothing, and it  *)
(* succeeds if it wants nothing.  Of simple text, whatever it has lost, a  *)
(* parameter with another one behind it is what stands between the commas  *)
(* of the text that is left, and a command that succeeds has read all of   *)
(* that.  Where nothing is lost and the count is right, reading refuses    *)
(* nothing that detection accepted, a command that succeeds has read every *)
(* parameter counted, and what it got is what stands between the commas.   *)
DetectedIsRead ==
  LET left == Split(ParamText, Comma)
      succeeded == pc = "done" /\ result
  IN  /\ data.count < 0 => got = <<>>
      /\ SimpleText =>
           /\ \A i \in DOMAIN got : i < Len(got) \/ succeeded => Padded(text, left[i], got[i].text)
           /\ succeeded => Len(got) = IF data.len = 0 THEN 0 ELSE Len(left)
      /\ NothingIsLost /\ data.count >= 0 =>
           /\ error \notin {<<"INVALID_SEPARATOR">>, <<"INVALID_STRING_DATA">>}
           /\ succeeded => Len(got) = data.count
           /\ SimpleText => \A i \in DOMAIN got : Padded(text, Split(text, Comma)[i], got[i].text)

(* s with every quote c doubled.                                           *)
Doubled(s, c) ==
  LET doubled[n \in 0 .. Len(s)] ==
        IF n = Len(s) THEN <<>>
        ELSE (IF s[n+1] = c THEN <<c, c>> ELSE <<s[n+1]>>) \o doubled[n + 1]
  IN  doubled[0]

(* A string is copied without its quotes and with doubled quotes made      *)
(* single; what is copied is a prefix of it, leaves room for the zero, and *)
(* is all of it if the string with its doubled quotes is short enough.     *)
TextIsCopied ==
  \A g \in Range(got) : g.kind = "text" =>
    LET copy == CopyText(g.text)
        inner == SubSeq(g.text, 2, Len(g.text) - 1)
        doubled == Doubled(copy, g.text[1])
    IN  /\ doubled = SubSeq(inner, 1, Len(doubled))
        /\ Len(copy) < BufLen
        /\ Len(inner) < BufLen => doubled = inner

(* Every unit of 7-bit text comes to its end: matchCommand leaves its loop *)
(* for any pattern and header, the lexer and the command theirs.           *)
UnitEnds == ("8bit" \notin Range(text)) ~> (pc = "done")
=============================================================================
