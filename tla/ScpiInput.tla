----------------------------- MODULE ScpiInput -----------------------------
(***************************************************************************)
(* The input side of the SCPI library: SCPI_Input collects chunks of text  *)
(* in context->buffer until a line is terminated, SCPI_Parse executes the  *)
(* line unit by unit, composeCompoundCommand resolves a relative header    *)
(* against the previous one inside the buffer itself                       *)
(* (Utilities/Scpi/Src/parser.c, lexer.c, utils.c).                        *)
(*                                                                         *)
(* Text is a sequence over a small alphabet: "*" ":" ";" stand for         *)
(* themselves, "n" for the line ending, "p" for white space and a digit,   *)
(* "!" for a character no token starts with, and every other character is  *)
(* a letter.                                                               *)
(***************************************************************************)
EXTENDS Integers, Sequences

CONSTANTS Lengths,    \* the sizes of context->buffer considered
          Chunks(_),  \* the data SCPI_Input is given, by the size of the buffer
          Known       \* the command table: a function from headers to kinds

Kind == {"quiet",   \* returns SCPI_RES_OK and writes nothing
         "answer",  \* writes one result
         "fail",    \* returns SCPI_RES_ERR and pushes no error
         "param"}   \* reads one mandatory parameter

ASSUME LengthAssumption == Lengths \subseteq Nat \ {0}
ASSUME KnownAssumption == \A h \in DOMAIN Known : Known[h] \in Kind
ASSUME ChunksAssumption == \A n \in Lengths : Chunks(n) \subseteq Seq(STRING)

VARIABLES pc,        \* "idle", "scan" and "done" (SCPI_Input), "parse" and
                     \* "flush" (SCPI_Parse)
          length,    \* buffer.length, set once by the user of the library
          buf,       \* buffer.data[0 .. position - 1]
          tot,       \* totcmdlen while scanning, then the len of SCPI_Parse
          off,       \* how far SCPI_Parse has advanced data
          prev,      \* cmd_prev: offset and length in buf
          answered,  \* output_count > 0
          result,    \* what SCPI_Parse, and then SCPI_Input, returns
          errors,    \* errors pushed by the current line
          out,       \* what the current call has written
          headers,   \* composed headers of the current line
          given,     \* buffer contents the current call started to scan
          taken,     \* characters of given already executed and removed
          turn       \* changes with every turn of a loop, to tell a turn that
                     \* does nothing from no turn

parse == <<off, prev, answered, result, errors, headers>>
vars == <<pc, length, buf, tot, parse, out, given, taken, turn>>

Letter(c) == c \notin {"*", ":", ";", "n", "p", "!"}
NoToken == [ptr |-> 0, len |-> 0]
From(s, n) == SubSeq(s, n + 1, Len(s))

-----------------------------------------------------------------------------
(* skipCommonProgramHeader and skipCompoundProgramHeader accept incomplete *)
(* headers, so what they skip is closed under prefixes.                    *)
IsHeader(s) ==
  /\ \A i \in 1 .. Len(s) : Letter(s[i]) \/ s[i] \in {"*", ":"}
  /\ \A i \in 2 .. Len(s) : /\ s[i] # "*"
                            /\ s[i] = ":" => s[i-1] # ":" /\ s[1] # "*"

scpiLex_ProgramHeader(s) ==
  CHOOSE n \in 0 .. Len(s) :
    /\ IsHeader(SubSeq(s, 1, n))
    /\ n < Len(s) => ~IsHeader(SubSeq(s, 1, n + 1))

(* The data of a unit is one number, which takes the letters behind it for *)
(* its unit; without a header in front of it a digit is no token at all.   *)
DataLen(s, h) ==
  IF h = 0 \/ h = Len(s) \/ s[h+1] # "p" THEN 0
  ELSE CHOOSE n \in 1 .. Len(s) - h :
         /\ \A i \in 2 .. n : Letter(s[h+i])
         /\ h + n < Len(s) => ~Letter(s[h+n+1])

(* The unit at the start of s up to its terminator: how much of s it uses, *)
(* the type and length of its header, whether data follows, what ends it.  *)
(* Of an unexpected character in its place, skip characters are used.      *)
UnitAt(s, skip) ==
  LET h == scpiLex_ProgramHeader(s)
      n == h + DataLen(s, h)
      term == IF n < Len(s) /\ s[n+1] \in {";", "n"} THEN s[n+1] ELSE "none"
      bad == n < Len(s) /\ term = "none"
  IN  [used |-> CASE bad -> n + skip [] term # "none" -> n + 1 [] OTHER -> n,
       type |-> CASE bad -> "invalid" [] h > 0 /\ ~bad -> "header" [] OTHER -> "unknown",
       header |-> IF bad THEN 1 ELSE h,
       data |-> n > h /\ ~bad,
       term |-> term]

(* Bug form: an unexpected character is reported but not skipped.          *)
DetectStuck(s) == UnitAt(s, 0)

scpiParser_detectProgramMessageUnit(s) == UnitAt(s, 1)

Text(b, token) == SubSeq(b, token.ptr + 1, token.ptr + token.len)

(* The length of the path of header h: up to and with its last ':'.        *)
PathLen(h) ==
  CHOOSE n \in 0 .. Len(h) : /\ n > 0 => h[n] = ":"
                             /\ \A i \in n + 1 .. Len(h) : h[i] # ":"

(* The buffer after the n characters at from have been moved to to.        *)
memmove(b, to, from, n) ==
  SubSeq(b, 1, to) \o SubSeq(b, from + 1, from + n) \o From(b, to + n)

IsRelative(p, h) ==
  p # <<>> /\ h[1] \notin {"*", ":"} /\ p[1] # "*" /\ PathLen(p) > 0

(* Bug form: the path of the previous command is taken without its ':'.    *)
ComposeShort(b, p, cur) ==
  LET i == PathLen(Text(b, p)) - 1
      moved == [ptr |-> cur.ptr - i, len |-> cur.len + i]
  IN  IF IsRelative(Text(b, p), Text(b, cur))
      THEN [buf |-> memmove(b, moved.ptr, p.ptr, i), cur |-> moved]
      ELSE [buf |-> b, cur |-> cur]

(* Bug form: the path is written from the start of the header on.          *)
ComposeOver(b, p, cur) ==
  LET i == PathLen(Text(b, p))
  IN  IF IsRelative(Text(b, p), Text(b, cur))
      THEN [buf |-> memmove(b, cur.ptr, p.ptr, i), cur |-> cur]
      ELSE [buf |-> b, cur |-> cur]

(* The path of the previous command is written in front of a relative      *)
(* header, over whatever the buffer holds there.                           *)
composeCompoundCommand(b, p, cur) ==
  LET i == PathLen(Text(b, p))
      moved == [ptr |-> cur.ptr - i, len |-> cur.len + i]
  IN  IF IsRelative(Text(b, p), Text(b, cur))
      THEN [buf |-> memmove(b, moved.ptr, p.ptr, i), cur |-> moved]
      ELSE [buf |-> b, cur |-> cur]

(* matchCommand skips a ':' in front of the header.                        *)
Entry(h) == IF h[1] = ":" THEN Tail(h) ELSE h
findCommandHeader(h) == Entry(h) \in DOMAIN Known

-----------------------------------------------------------------------------
Init ==
  /\ pc = "idle"
  /\ length \in Lengths
  /\ buf = <<>>
  /\ tot = 0
  /\ off = 0
  /\ prev = NoToken
  /\ answered = FALSE
  /\ result = TRUE
  /\ errors = <<>>
  /\ out = <<>>
  /\ headers = <<>>
  /\ given = <<>>
  /\ taken = 0
  /\ turn = FALSE

(* The start of SCPI_Parse.  output_count is not cleared by SCPI_Input.    *)
BeginParse ==
  /\ off' = 0
  /\ prev' = NoToken
  /\ answered' = FALSE
  /\ result' = TRUE
  /\ errors' = <<>>
  /\ headers' = <<>>

Call(data) ==
  /\ pc = "idle"
  /\ given' = buf \o data
  /\ taken' = 0
  /\ out' = <<>>

(* len = 0: what is in the buffer is executed as it stands.                *)
InputFlush ==
  /\ Call(<<>>)
  /\ BeginParse
  /\ pc' = "flush"
  /\ tot' = Len(buf)
  /\ UNCHANGED buf

(* Bug form: no room is kept for the terminating zero.                     *)
TooLongByOne(data) == Len(data) > length - Len(buf)

(* len > buffer_free - 1                                                   *)
TooLong(data) == Len(data) > length - Len(buf) - 1

InputOverrun(data) ==
  /\ Call(data)
  /\ data # <<>>
  /\ TooLong(data)
  /\ buf' = <<>>
  /\ errors' = <<"INPUT_BUFFER_OVERRUN">>
  /\ result' = FALSE
  /\ pc' = "done"
  /\ UNCHANGED <<tot, off, prev, answered, headers>>

InputAppend(data) ==
  /\ Call(data)
  /\ data # <<>>
  /\ ~TooLong(data)
  /\ buf' = buf \o data
  /\ tot' = 0
  /\ pc' = "scan"
  /\ UNCHANGED parse

(* One turn of the loop of SCPI_Input, on the unit at totcmdlen, that      *)
(* finds the end of the line: the line goes to SCPI_Parse.                 *)
ScanLine(unit) ==
  /\ pc = "scan"
  /\ unit.term = "n"
  /\ tot' = tot + unit.used
  /\ pc' = "parse"
  /\ BeginParse
  /\ UNCHANGED <<buf, out, given, taken>>

(* Bug form: the loop ends at an invalid character, too.                   *)
ScanUnitStops(unit) ==
  /\ pc = "scan"
  /\ unit.term # "n"
  /\ tot' = tot + unit.used
  /\ pc' = IF unit.type # "header" \/ tot' >= Len(buf) THEN "done" ELSE "scan"
  /\ UNCHANGED <<buf, parse, out, given, taken>>

(* A turn that does not: the loop ends at an empty unit, or when all that  *)
(* has been received is scanned.                                           *)
ScanUnit(unit) ==
  /\ pc = "scan"
  /\ unit.term # "n"
  /\ tot' = tot + unit.used
  /\ pc' = IF unit.type = "unknown" \/ tot' >= Len(buf) THEN "done" ELSE "scan"
  /\ UNCHANGED <<buf, parse, out, given, taken>>

-----------------------------------------------------------------------------
(* SCPI_Parse: one turn of its loop, on the unit at off.                   *)
Parsing(unit) ==
  /\ pc \in {"parse", "flush"}
  /\ off < tot
  /\ off' = off + unit.used
  /\ UNCHANGED <<pc, tot, given, taken>>

UnitInvalid(unit) ==
  /\ Parsing(unit)
  /\ unit.type = "invalid"
  /\ errors' = Append(errors, "INVALID_CHARACTER")
  /\ result' = FALSE
  /\ UNCHANGED <<buf, prev, answered, headers, out>>

UnitEmpty(unit) ==
  /\ Parsing(unit)
  /\ unit.type = "unknown"
  /\ UNCHANGED <<buf, prev, answered, result, errors, headers, out>>

Composed(unit) == composeCompoundCommand(buf, prev, [ptr |-> off, len |-> unit.header])

UnitUndefined(unit) ==
  /\ Parsing(unit)
  /\ unit.type = "header"
  /\ \E c \in {Composed(unit)} : \E h \in {Text(c.buf, c.cur)} :
       /\ ~findCommandHeader(h)
       /\ buf' = c.buf
       /\ headers' = Append(headers, h)
  /\ errors' = Append(errors, "UNDEFINED_HEADER")
  /\ result' = FALSE
  /\ UNCHANGED <<prev, answered, out>>

(* The error a command leaves, <<>> if none: pushed by its callback, by    *)
(* processCommand when the callback failed without one, or, if there was   *)
(* none so far, because a parameter was not read.                          *)
CommandError(kind, data) ==
  CASE kind = "param" /\ ~data -> <<"MISSING_PARAMETER">>
    [] kind = "fail" -> <<"EXECUTION_ERROR">>
    [] kind \in {"quiet", "answer"} /\ data -> <<"PARAMETER_NOT_ALLOWED">>
    [] OTHER -> <<>>

(* Bug form: ';' is written only when there is something to follow it.     *)
ProcessLateSemicolon(kind, data) ==
  LET err == CommandError(kind, data) IN
  /\ out' = out \o (IF kind = "answer" THEN <<"r">> ELSE <<>>)
  /\ answered' = (kind = "answer")
  /\ errors' = errors \o err
  /\ result' = (result /\ err = <<>>)

processCommand(kind, data) ==
  LET err == CommandError(kind, data) IN
  /\ out' = out \o (IF answered THEN <<";">> ELSE <<>>)
                \o (IF kind = "answer" THEN <<"r">> ELSE <<>>)
  /\ answered' = (kind = "answer")
  /\ errors' = errors \o err
  /\ result' = (result /\ err = <<>>)

UnitCommand(unit) ==
  /\ Parsing(unit)
  /\ unit.type = "header"
  /\ \E c \in {Composed(unit)} : \E h \in {Text(c.buf, c.cur)} :
       /\ findCommandHeader(h)
       /\ buf' = c.buf
       /\ headers' = Append(headers, h)
       /\ processCommand(Known[Entry(h)], unit.data)
       /\ prev' = c.cur

(* writeNewLine                                                            *)
EndOfResponse ==
  /\ off = tot
  /\ out' = IF answered THEN Append(out, "nl") ELSE out

(* Bug form: the scan goes on from where it was before the line was taken  *)
(* out of the buffer.                                                      *)
EndLineNoReset ==
  /\ pc = "parse"
  /\ EndOfResponse
  /\ buf' = From(buf, tot)
  /\ taken' = taken + tot
  /\ pc' = "scan"
  /\ UNCHANGED <<tot, parse, given>>

(* SCPI_Parse returns to the loop of SCPI_Input, which moves what follows  *)
(* the line to the front and scans it.                                     *)
EndLine ==
  /\ pc = "parse"
  /\ EndOfResponse
  /\ buf' = From(buf, tot)
  /\ taken' = taken + tot
  /\ tot' = 0
  /\ pc' = "scan"
  /\ UNCHANGED <<parse, given>>

EndFlush ==
  /\ pc = "flush"
  /\ EndOfResponse
  /\ buf' = <<>>
  /\ taken' = tot
  /\ pc' = "done"
  /\ UNCHANGED <<tot, parse, given>>

(* SCPI_Input returns result; only the context outlives the call.          *)
Return ==
  /\ pc = "done"
  /\ pc' = "idle"
  /\ tot' = 0 /\ off' = 0 /\ taken' = 0
  /\ prev' = NoToken
  /\ result' = TRUE
  /\ errors' = <<>> /\ out' = <<>> /\ headers' = <<>> /\ given' = <<>>
  /\ UNCHANGED <<buf, answered>>

(* What scpiParser_detectProgramMessageUnit finds in this turn, in either  *)
(* loop; \E x \in {e} below only names the value of e.                     *)
Unit ==
  scpiParser_detectProgramMessageUnit(
    IF pc = "scan" THEN From(buf, tot) ELSE SubSeq(buf, off + 1, tot))

Inside ==
  \/ \E unit \in {Unit} :
       \/ ScanLine(unit)
       \/ ScanUnit(unit)
       \/ UnitInvalid(unit)
       \/ UnitEmpty(unit)
       \/ UnitUndefined(unit)
       \/ UnitCommand(unit)
  \/ EndLine
  \/ EndFlush
  \/ Return

Calls ==
  \/ InputFlush
  \/ \E data \in Chunks(length) : InputOverrun(data)
  \/ \E data \in Chunks(length) : InputAppend(data)

Turn == Inside /\ turn' = (pc' # "idle" /\ ~turn)

Next == ((Calls /\ UNCHANGED turn) \/ Turn) /\ UNCHANGED length

(* The calls are made from one loop and nothing in them waits.  This is    *)
(* weak fairness of Turn, written without ENABLED: Turn is enabled exactly *)
(* when pc # "idle", no other step is then, and it always changes turn.    *)
CallsGoOn == []<>(pc = "idle") \/ []<><<Turn>>_vars

Spec == Init /\ [][Next]_vars /\ CallsGoOn

-----------------------------------------------------------------------------
(* SCPI_Input stays inside the buffer: there is room for the zero it       *)
(* writes behind the text, data[position] = 0, whatever was received       *)
(* before; totcmdlen never passes position, from which it is subtracted as *)
(* an unsigned number; and cmd_prev lies in what has been parsed.          *)
InBuffer ==
  /\ Len(buf) < length
  /\ pc \in {"scan", "parse", "flush"} => tot \in 0 .. Len(buf)
  /\ pc \in {"parse", "flush"} =>
       /\ off \in 0 .. tot
       /\ prev.ptr \in 0 .. off /\ prev.len \in 0 .. off - prev.ptr

(* What has not been executed yet is exactly what was received: executing  *)
(* a unit, which writes into the buffer in composeCompoundCommand, never   *)
(* touches the units and lines behind it.                                  *)
RestUntouched ==
  pc \in {"scan", "parse", "flush"} =>
    LET done == IF pc = "scan" THEN 0 ELSE off
    IN  From(buf, done) = From(given, taken + done)

(* SCPI_Parse gets one whole line: its only line ending is its last        *)
(* character.                                                              *)
LineIsWhole ==
  pc = "parse" => \A i \in 1 .. tot : (given[taken + i] = "n") <=> (i = tot)

(* In a response the results of a line, and those of successive lines of   *)
(* one call, are kept apart by exactly one ';' or line ending, however     *)
(* commands without a result and rejected units lie between them.          *)
ResultsApart ==
  \A i \in 1 .. Len(out) : (out[i] = "r") <=> (i % 2 = 1)

(* Every call of SCPI_Input returns: neither its loop nor that of          *)
(* SCPI_Parse can turn for ever on any text over the alphabet above (which *)
(* has no quoted strings: their lexer has a loop of its own).              *)
InputReturns == (pc # "idle") ~> (pc = "idle")

(* The headers of a line, resolved without touching its text: a relative   *)
(* header follows the path of the last command that was found.             *)
Resolve(p, h) == IF IsRelative(p, h) THEN SubSeq(p, 1, PathLen(p)) \o h ELSE h

CloseUnit(s) ==
  IF s.cur = <<>> THEN s
  ELSE LET h == Resolve(s.prev, s.cur)
       IN  [s EXCEPT !.cur = <<>>, !.done = Append(@, h),
                     !.prev = IF findCommandHeader(h) THEN h ELSE s.prev]

ReadChar(s, c) ==
  CASE c \in {";", "n"} -> [CloseUnit(s) EXCEPT !.part = "header"]
    [] c = "p" -> [s EXCEPT !.part = "data"]
    [] OTHER -> IF s.part = "data" THEN s ELSE [s EXCEPT !.cur = Append(@, c)]

(* What reading the line leaves after each number of characters.           *)
Read(line) ==
  LET start == [cur |-> <<>>, part |-> "header", prev |-> <<>>, done |-> <<>>]
      read[n \in 0 .. Len(line)] ==
        IF n = 0 THEN start ELSE ReadChar(read[n - 1], line[n])
  IN  read

LineHeaders(line) == CloseUnit(Read(line)[Len(line)]).done

Line == SubSeq(given, taken + 1, taken + tot)
LineDone == pc \in {"parse", "flush"} /\ off = tot
Has(err) == \E i \in 1 .. Len(errors) : errors[i] = err

(* The headers a line is executed with are those its text says: composing  *)
(* them in place, over the text of earlier units, gives what composing     *)
(* them from copies would, as long as every header of the line is defined. *)
(* (An undefined one may be composed over the command in front of it, from *)
(* which the next one is then composed.)                                   *)
ComposedInPlace ==
  LineDone /\ ~Has("INVALID_CHARACTER") /\ ~Has("UNDEFINED_HEADER")
    => headers = LineHeaders(Line)

(* A unit as it is written: a header, with or without a number behind it.  *)
IsUnit(s) ==
  \E h \in 1 .. Len(s) :
    /\ IsHeader(SubSeq(s, 1, h))
    /\ \A i \in h + 1 .. Len(s) : IF i = h + 1 THEN s[i] = "p" ELSE Letter(s[i])

(* Character i is the first of text b, read from behind character k, that  *)
(* does not continue a unit: what ends it, or a character out of place.    *)
EndsAt(b, k, i) ==
  /\ i = k + 1 \/ IsUnit(SubSeq(b, k + 1, i - 1))
  /\ ~IsUnit(SubSeq(b, k + 1, i))

(* A unit starts behind character n of b: n is in every set that has 0 and *)
(* is closed under going on to where a unit ends.                          *)
StartsBehind(b, n) ==
  \A S \in SUBSET (0 .. Len(b)) :
    0 \in S /\ (\A k \in S : \A i \in k + 1 .. Len(b) : EndsAt(b, k, i) => i \in S)
      => n \in S

(* What is left between calls is text without a line ending, or it stops   *)
(* the scan because a ';' in front of the first line ending ends an empty  *)
(* unit: nothing stands between it and the previous ';', the start of the  *)
(* text or a character that was out of place.  No unit with a header, with *)
(* or without data, and no refused character ever makes a line wait.       *)
OnlyEmptyUnitsWait ==
  pc = "idle" =>
    \A i \in 1 .. Len(buf) :
      buf[i] = "n" => \E j \in 1 .. i - 1 : buf[j] = ";" /\ StartsBehind(buf, j - 1)
=============================================================================
