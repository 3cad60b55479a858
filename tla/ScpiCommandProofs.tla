------------------------- MODULE ScpiCommandProofs -------------------------
(***************************************************************************)
(* Proofs about ScpiLexer.tla and ScpiCommand.tla: for every text the      *)
(* lexer stays inside it, a quoted string ends where it should,            *)
(* SCPI_ParamCopyText copies a prefix of the string that fits its buffer,  *)
(* a command reads the parameters that detection found, and the number     *)
(* found is the longest one of the grammar.                                *)
(***************************************************************************)
EXTENDS ScpiCommand, SequenceTheorems, WellFoundedInduction, TLAPS

(* Induction from the end of an interval to its start.                     *)
LEMMA UpInduction ==
  ASSUME NEW n \in Nat, NEW T,
         \A q \in 0 .. n : (\A r \in q + 1 .. n : r \in T) => q \in T
  PROVE  0 .. n \subseteq T
<1> DEFINE R == OpToRel(<, Nat)
           S == {k \in 0 .. n : n - k \notin T}
<1>1. \A x, y \in Nat : y < x => <<y, x>> \in R
  BY DEF OpToRel
<1>2. IsWellFoundedOn(R, Nat)
  BY NatLessThanWellFounded
<1>3. S \subseteq Nat
  OBVIOUS
<1> HIDE DEF R
<1>4. S = {}
  <2> SUFFICES ASSUME S # {} PROVE FALSE
    OBVIOUS
  <2> HIDE DEF S
  <2>1. PICK x \in S : \A y \in S : ~(<<y, x>> \in R)
    BY <1>2, <1>3, WFMin
  <2>2. x \in 0 .. n /\ n - x \notin T
    BY DEF S
  <2>3. ASSUME NEW r \in (n - x) + 1 .. n
        PROVE  r \in T
    <3>1. n - r \in 0 .. n /\ n - r < x /\ n - (n - r) = r
      BY <2>2
    <3>2. n - r \notin S
      BY <1>1, <1>3, <2>1, <3>1
    <3> QED
      BY <3>1, <3>2 DEF S
  <2>4. n - x \in 0 .. n
    BY <2>2
  <2> QED
    BY <2>2, <2>3, <2>4
<1>5. ASSUME NEW i \in 0 .. n
      PROVE  i \in T
  <2>1. n - i \in 0 .. n /\ n - (n - i) = i
    OBVIOUS
  <2> QED
    BY <1>4, <2>1
<1> QED
  BY <1>5

(* Induction from 0 on.                                                    *)
LEMMA DownInduction ==
  ASSUME NEW n \in Nat, NEW T, 0 \in T,
         \A k \in 0 .. n - 1 : k \in T => k + 1 \in T
  PROVE  0 .. n \subseteq T
<1> DEFINE U == {q \in 0 .. n : n - q \in T}
<1>1. ASSUME NEW q \in 0 .. n, \A r \in q + 1 .. n : r \in U
      PROVE  q \in U
  <2>1. CASE q = n
    <3>1. n - q = 0
      BY <2>1
    <3> QED
      BY <3>1
  <2>2. CASE q # n
    <3>1. /\ q + 1 \in q + 1 .. n
          /\ n - (q + 1) \in 0 .. n - 1 /\ (n - (q + 1)) + 1 = n - q
      BY <2>2
    <3>2. n - (q + 1) \in T
      BY <1>1, <3>1
    <3> QED
      BY <3>1, <3>2
  <2> QED
    BY <2>1, <2>2
<1>2. 0 .. n \subseteq U
  <2> HIDE DEF U
  <2> QED
    BY <1>1, UpInduction
<1>3. ASSUME NEW i \in 0 .. n
      PROVE  i \in T
  <2>1. n - i \in 0 .. n /\ n - (n - i) = i
    OBVIOUS
  <2> QED
    BY <1>2, <2>1
<1> QED
  BY <1>3

(* A recursive function exists if its body B, at q, uses the function only *)
(* at the larger arguments, or only at the smaller ones: applying B often  *)
(* enough to any function gives it.                                        *)
UsesLarger(n, V, B) ==
  /\ B \in [[0 .. n -> V] -> [0 .. n -> V]]
  /\ \A g, h \in [0 .. n -> V], q \in 0 .. n : (\A r \in q + 1 .. n : g[r] = h[r]) => B[g][q] = B[h][q]
UsesSmaller(n, V, B) ==
  /\ B \in [[0 .. n -> V] -> [0 .. n -> V]]
  /\ \A g, h \in [0 .. n -> V], q \in 0 .. n : (\A r \in 0 .. q - 1 : g[r] = h[r]) => B[g][q] = B[h][q]
HasSolution(n, V, B) == \E f \in [0 .. n -> V] : f = B[f]

(* A recursion from the end of the text to its start defines a function.   *)
LEMMA UpRecursion ==
  ASSUME NEW n \in Nat, NEW V, V # {}, NEW B, UsesLarger(n, V, B)
  PROVE  HasSolution(n, V, B)
<1> DEFINE F == [0 .. n -> V]
           T == {k \in 0 .. n + 1 : \E f \in F : \A q \in 0 .. n : n - q < k => f[q] = B[f][q]}
<1>1. 0 \in T
  <2>1. \A q \in 0 .. n : ~(n - q < 0)
    OBVIOUS
  <2>2. PICK v \in V : TRUE
    OBVIOUS
  <2>3. PICK f \in F : TRUE
    <3>1. [q \in 0 .. n |-> v] \in F
      OBVIOUS
    <3> QED
      BY <3>1
  <2> QED
    BY <2>1, <2>3
<1>2. ASSUME NEW k \in 0 .. n, k \in T
      PROVE  k + 1 \in T
  <2>1. PICK f \in F : \A q \in 0 .. n : n - q < k => f[q] = B[f][q]
    BY <1>2
  <2> DEFINE g == B[f]
  <2>2. g \in F
    BY DEF UsesLarger
  <2>3. ASSUME NEW q \in 0 .. n, n - q < k + 1
        PROVE  g[q] = B[g][q]
    <3>1. ASSUME NEW r \in q + 1 .. n
          PROVE  f[r] = g[r]
      <4>1. r \in 0 .. n /\ n - r < k
        BY <2>3
      <4> QED
        BY <2>1, <4>1
    <3> QED
      BY <2>2, <3>1 DEF UsesLarger
  <2> HIDE DEF g
  <2> QED
    BY <2>2, <2>3
<1>3. n + 1 \in T
  <2>1. n + 1 \in Nat /\ (n + 1) - 1 = n /\ n + 1 \in 0 .. n + 1
    OBVIOUS
  <2> HIDE DEF T
  <2> QED
    BY <1>1, <1>2, <2>1, DownInduction
<1>4. PICK f \in F : \A q \in 0 .. n : n - q < n + 1 => f[q] = B[f][q]
  BY <1>3
<1>5. \A q \in 0 .. n : f[q] = B[f][q]
  BY <1>4
<1>6. B[f] \in F
  BY DEF UsesLarger
<1>7. f = B[f]
  BY <1>5, <1>6
<1> QED
  BY <1>7 DEF HasSolution

(* So does one from its start to its end.                                  *)
LEMMA DownRecursion ==
  ASSUME NEW n \in Nat, NEW V, V # {}, NEW B, UsesSmaller(n, V, B)
  PROVE  HasSolution(n, V, B)
<1> DEFINE F == [0 .. n -> V]
           T == {k \in 0 .. n + 1 : \E f \in F : \A q \in 0 .. n : q < k => f[q] = B[f][q]}
<1>1. 0 \in T
  <2>1. \A q \in 0 .. n : ~(q < 0)
    OBVIOUS
  <2>2. PICK v \in V : TRUE
    OBVIOUS
  <2>3. PICK f \in F : TRUE
    <3>1. [q \in 0 .. n |-> v] \in F
      OBVIOUS
    <3> QED
      BY <3>1
  <2> QED
    BY <2>1, <2>3
<1>2. ASSUME NEW k \in 0 .. n, k \in T
      PROVE  k + 1 \in T
  <2>1. PICK f \in F : \A q \in 0 .. n : q < k => f[q] = B[f][q]
    BY <1>2
  <2> DEFINE g == B[f]
  <2>2. g \in F
    BY DEF UsesSmaller
  <2>3. ASSUME NEW q \in 0 .. n, q < k + 1
        PROVE  g[q] = B[g][q]
    <3>1. ASSUME NEW r \in 0 .. q - 1
          PROVE  f[r] = g[r]
      <4>1. r \in 0 .. n /\ r < k
        BY <2>3
      <4> QED
        BY <2>1, <4>1
    <3> QED
      BY <2>2, <3>1 DEF UsesSmaller
  <2> HIDE DEF g
  <2> QED
    BY <2>2, <2>3
<1>3. n + 1 \in T
  <2>1. n + 1 \in Nat /\ (n + 1) - 1 = n /\ n + 1 \in 0 .. n + 1
    OBVIOUS
  <2> HIDE DEF T
  <2> QED
    BY <1>1, <1>2, <2>1, DownInduction
<1>4. PICK f \in F : \A q \in 0 .. n : q < n + 1 => f[q] = B[f][q]
  BY <1>3
<1>5. \A q \in 0 .. n : f[q] = B[f][q]
  BY <1>4
<1>6. B[f] \in F
  BY DEF UsesSmaller
<1>7. f = B[f]
  BY <1>5, <1>6
<1> QED
  BY <1>7 DEF HasSolution

-----------------------------------------------------------------------------
(* Text, and what At reads of it.                                          *)
Char == STRING \ {Eos}
CharText == Seq(Char)

LEMMA AtFacts ==
  ASSUME NEW s \in CharText, NEW p \in Nat
  PROVE  /\ Len(s) \in Nat
         /\ p < Len(s) => At(s, p) = s[p + 1] /\ At(s, p) \in STRING /\ At(s, p) # Eos
         /\ p >= Len(s) => At(s, p) = Eos
<1>1. Len(s) \in Nat
  BY DEF CharText
<1>2. p < Len(s) => s[p + 1] \in Char
  <2> SUFFICES ASSUME p < Len(s) PROVE s[p + 1] \in Char
    OBVIOUS
  <2>1. p + 1 \in 1 .. Len(s)
    BY <1>1
  <2> QED
    BY <2>1, ElementOfSeq DEF CharText
<1> QED
  BY <1>1, <1>2 DEF At, Char

(* Where there is a character the text goes on.                            *)
LEMMA InText ==
  ASSUME NEW s \in CharText, NEW p \in Nat, At(s, p) # Eos
  PROVE  p < Len(s) /\ p + 1 \in 0 .. Len(s)
<1>1. Len(s) \in Nat /\ (p >= Len(s) => At(s, p) = Eos)
  BY AtFacts
<1> QED
  BY <1>1

(* skipChr and its kind move by at most one character, inside the text.    *)
LEMMA SkipOneFacts ==
  ASSUME NEW s \in CharText, NEW p \in 0 .. Len(s), NEW C, Eos \notin C
  PROVE  /\ skipOne(s, p, C) \in p .. Len(s) /\ skipOne(s, p, C) \in p .. p + 1
         /\ skipOne(s, p, C) = p \/ At(s, p) \in C
<1>1. p \in Nat /\ Len(s) \in Nat
  BY DEF CharText
<1>2. At(s, p) \in C => p < Len(s)
  BY <1>1, AtFacts
<1> QED
  BY <1>1, <1>2 DEF skipOne

(* skipNumbers and its kind stop at the first other character, inside the  *)
(* text.                                                                   *)
LEMMA SkipAllFacts ==
  ASSUME NEW s \in CharText, NEW p \in 0 .. Len(s), NEW C, Eos \notin C
  PROVE  /\ skipAll(s, p, C) \in p .. Len(s)
         /\ At(s, skipAll(s, p, C)) \notin C
         /\ \A i \in p .. skipAll(s, p, C) - 1 : At(s, i) \in C
<1> DEFINE Stops(q) == At(s, q) \notin C /\ \A i \in p .. q - 1 : At(s, i) \in C
           T == {k \in Nat : \A i \in p .. (p + k) - 1 : At(s, i) \in C}
<1>1. p \in Nat /\ Len(s) \in Nat /\ Len(s) - p \in Nat
  BY DEF CharText
<1>2. \E q \in p .. Len(s) : Stops(q)
  <2> SUFFICES ASSUME \A q \in p .. Len(s) : ~Stops(q) PROVE FALSE
    OBVIOUS
  <2>1. 0 \in T
    BY <1>1
  <2>2. ASSUME NEW k \in 0 .. (Len(s) - p) - 1, k \in T
        PROVE  k + 1 \in T
    <3>1. p + k \in p .. Len(s) /\ (p + (k + 1)) - 1 = p + k
      BY <1>1
    <3>2. \A i \in p .. (p + k) - 1 : At(s, i) \in C
      BY <2>2
    <3>3. At(s, p + k) \in C
      BY <3>1, <3>2
    <3>4. \A i \in p .. p + k : At(s, i) \in C
      BY <1>1, <3>2, <3>3
    <3> QED
      BY <3>1, <3>4
  <2>3. Len(s) - p \in T
    <3>1. Len(s) - p \in 0 .. Len(s) - p
      BY <1>1
    <3> HIDE DEF T
    <3> QED
      BY <1>1, <2>1, <2>2, <3>1, DownInduction
  <2>4. \A i \in p .. Len(s) - 1 : At(s, i) \in C
    <3>1. (p + (Len(s) - p)) - 1 = Len(s) - 1
      BY <1>1
    <3> QED
      BY <2>3, <3>1
  <2>5. Len(s) \in p .. Len(s) /\ At(s, Len(s)) = Eos
    BY <1>1, AtFacts
  <2> QED
    BY <2>4, <2>5
<1>3. skipAll(s, p, C) = CHOOSE q \in p .. Len(s) : Stops(q)
  BY DEF skipAll
<1> DEFINE e == CHOOSE q \in p .. Len(s) : Stops(q)
<1>4. e \in p .. Len(s) /\ Stops(e)
  <2> HIDE DEF Stops
  <2> QED
    BY <1>2
<1> HIDE DEF e
<1> QED
  BY <1>3, <1>4 DEF e

(* No set of characters holds the end of the text.                         *)
LEMMA CharSets ==
  /\ Eos \notin Digit /\ Eos \notin Alpha /\ Eos \notin Hex /\ Eos \notin Oct /\ Eos \notin Bin
  /\ Eos \notin Alpha \cup Digit \cup {"_"}
  /\ Eos \notin {"+", "-"} /\ Eos \notin {"."} /\ Eos \notin {"-"} /\ Eos \notin {"/", "."} /\ Eos \notin {"/"}
  /\ Eos # "E" /\ Eos # "#" /\ Eos # "8bit" /\ Eos # "("
<1>1. Eos \notin Hex
  BY Zenon DEF Eos, Digit, Hex
<1>2. Eos \notin Alpha \cup Digit \cup {"_"}
  BY Zenon DEF Eos, Digit, Alpha
<1>3. Eos \notin Oct /\ Eos \notin Bin
  BY Zenon DEF Eos, Oct, Bin
<1>4. Eos \notin {"+", "-"} /\ Eos \notin {"."} /\ Eos \notin {"-"} /\ Eos \notin {"/", "."} /\ Eos \notin {"/"}
  BY Zenon DEF Eos
<1>5. Eos # "E" /\ Eos # "#" /\ Eos # "8bit" /\ Eos # "("
  BY Zenon DEF Eos
<1> QED
  BY <1>1, <1>2, <1>3, <1>4, <1>5, Zenon

(* White space is skipped inside the text.                                 *)
LEMMA SkipWsFacts ==
  ASSUME NEW s \in CharText, NEW p \in 0 .. Len(s)
  PROVE  skipWs(s, p) \in p .. Len(s)
<1>1. Eos \notin {Space}
  BY Zenon DEF Eos, Space
<1> QED
  BY <1>1, SkipAllFacts, Zenon DEF skipWs

-----------------------------------------------------------------------------
(* A token found at p lies in the text between p and the new position, and *)
(* the length returned is no more than was passed.                         *)
Spans(s, p, t) ==
  /\ t = Token(t.type, t.ptr, t.len, t.pos, t.ret)
  /\ t.pos \in p .. Len(s) /\ t.ptr \in p .. t.pos /\ t.len \in Nat /\ t.ptr + t.len <= t.pos
  /\ t.ret \in 0 .. t.pos - p
  /\ (t.type \in {"UNKNOWN", "NEVER"} \/ t.ret > 0)

(* The fields of a token.                                                  *)
LEMMA TokenFacts ==
  ASSUME NEW type, NEW ptr, NEW len, NEW at, NEW ret, NEW t, t = Token(type, ptr, len, at, ret)
  PROVE  /\ t.type = type /\ t.ptr = ptr /\ t.len = len /\ t.pos = at /\ t.ret = ret
         /\ t = Token(t.type, t.ptr, t.len, t.pos, t.ret)
BY DEF Token

(* Found is a token of the text between p and q.                           *)
LEMMA FoundFacts ==
  ASSUME NEW s \in CharText, NEW p \in 0 .. Len(s), NEW q \in p .. Len(s), NEW type
  PROVE  /\ Spans(s, p, Found(type, p, q))
         /\ Found(type, p, q).type \in {type, "UNKNOWN"} /\ (q > p => Found(type, p, q).type = type)
         /\ Found(type, p, q).ptr = p /\ Found(type, p, q).len = q - p
         /\ Found(type, p, q).pos = q /\ Found(type, p, q).ret = q - p
<1> DEFINE t == Found(type, p, q)
<1>1. p \in Nat /\ q \in Nat /\ Len(s) \in Nat
  BY DEF CharText
<1>2. CASE q > p
  <2>1. t = Token(type, p, q - p, q, q - p)
    BY <1>2 DEF Found
  <2> HIDE DEF t
  <2>2. /\ t.type = type /\ t.ptr = p /\ t.len = q - p /\ t.pos = q /\ t.ret = q - p
        /\ t = Token(t.type, t.ptr, t.len, t.pos, t.ret)
    BY <2>1, TokenFacts
  <2> QED
    BY <1>1, <1>2, <2>2 DEF Spans, t
<1>3. CASE ~(q > p)
  <2>1. t = Token("UNKNOWN", p, 0, p, 0)
    BY <1>3 DEF Found
  <2> HIDE DEF t
  <2>2. /\ t.type = "UNKNOWN" /\ t.ptr = p /\ t.len = 0 /\ t.pos = p /\ t.ret = 0
        /\ t = Token(t.type, t.ptr, t.len, t.pos, t.ret)
    BY <2>1, TokenFacts
  <2>3. q = p
    BY <1>1, <1>3
  <2> QED
    BY <1>1, <2>2, <2>3 DEF Spans, t
<1> QED
  BY <1>2, <1>3

(* A token that is not there.                                              *)
LEMMA NoTokenFacts ==
  ASSUME NEW s \in CharText, NEW p \in 0 .. Len(s), NEW q \in p .. Len(s), NEW type \in {"UNKNOWN", "NEVER"}
  PROVE  Spans(s, p, Token(type, p, 0, q, 0))
<1> DEFINE t == Token(type, p, 0, q, 0)
<1>1. /\ t.type = type /\ t.ptr = p /\ t.len = 0 /\ t.pos = q /\ t.ret = 0
      /\ t = Token(t.type, t.ptr, t.len, t.pos, t.ret)
  BY TokenFacts
<1> HIDE DEF t
<1>2. Spans(s, p, t)
  BY <1>1 DEF Spans, CharText
<1> QED
  BY <1>2 DEF t

(* skipProgramMnemonic stays inside the text.                              *)
LEMMA MnemonicFacts ==
  ASSUME NEW s \in CharText, NEW p \in 0 .. Len(s)
  PROVE  skipProgramMnemonic(s, p) \in p .. Len(s)
<1> DEFINE C == Alpha \cup Digit \cup {"_"}
<1>1. p \in Nat /\ Len(s) \in Nat /\ p \in p .. Len(s)
  BY DEF CharText
<1>2. CASE At(s, p) \in Alpha
  <2>1. At(s, p) # Eos
    BY <1>2, CharSets, Zenon
  <2>2. p + 1 \in 0 .. Len(s)
    BY <1>1, <2>1, InText
  <2>3. skipAll(s, p + 1, C) \in p + 1 .. Len(s)
    BY <2>2, CharSets, SkipAllFacts
  <2>4. skipProgramMnemonic(s, p) = skipAll(s, p + 1, C)
    BY <1>2 DEF skipProgramMnemonic
  <2> HIDE DEF C
  <2> QED
    BY <1>1, <2>3, <2>4
<1>3. CASE At(s, p) \notin Alpha
  BY <1>1, <1>3 DEF skipProgramMnemonic
<1> QED
  BY <1>2, <1>3

(* skipMantisa stays inside the text.                                      *)
LEMMA MantisaFacts ==
  ASSUME NEW s \in CharText, NEW p \in 0 .. Len(s)
  PROVE  skipMantisa(s, p) \in p .. Len(s)
<1> DEFINE a == skipOne(s, p, {"+", "-"})
           b == skipAll(s, a, Digit)
           c == skipOne(s, b, {"."})
           d == IF c > b THEN skipAll(s, c, Digit) ELSE b
<1>1. p \in Nat /\ Len(s) \in Nat
  BY DEF CharText
<1>2. a \in p .. Len(s)
  BY CharSets, SkipOneFacts
<1>3. a \in 0 .. Len(s)
  BY <1>1, <1>2
<1>4. b \in a .. Len(s)
  <2> HIDE DEF a
  <2> QED
    BY <1>3, CharSets, SkipAllFacts
<1>5. b \in 0 .. Len(s)
  <2> HIDE DEF a, b
  <2> QED
    BY <1>3, <1>4
<1>6. c \in b .. Len(s)
  <2> HIDE DEF b
  <2> QED
    BY <1>5, CharSets, SkipOneFacts
<1>7. c \in 0 .. Len(s)
  <2> HIDE DEF b, c
  <2> QED
    BY <1>5, <1>6
<1>8. d \in b .. Len(s)
  <2>1. skipAll(s, c, Digit) \in c .. Len(s)
    <3> HIDE DEF c
    <3> QED
      BY <1>7, CharSets, SkipAllFacts
  <2> HIDE DEF b, c
  <2> QED
    BY <1>5, <1>6, <1>7, <2>1
<1>9. skipMantisa(s, p) = IF b > a \/ d > c THEN d ELSE p
  BY DEF skipMantisa
<1> HIDE DEF a, b, c, d
<1> QED
  BY <1>1, <1>2, <1>4, <1>8, <1>9

(* skipExponent stays inside the text.                                     *)
LEMMA ExponentFacts ==
  ASSUME NEW s \in CharText, NEW p \in 0 .. Len(s)
  PROVE  skipExponent(s, p) \in p .. Len(s)
<1> DEFINE a == skipWs(s, p)
           w == skipWs(s, a + 1)
           b == skipOne(s, w, {"+", "-"})
           c == skipAll(s, b, Digit)
<1>1. p \in Nat /\ Len(s) \in Nat /\ a \in p .. Len(s)
  BY SkipWsFacts DEF CharText
<1>2. skipExponent(s, p) = IF At(s, a) = "E" /\ c > b THEN c ELSE p
  BY DEF skipExponent
<1>3. CASE At(s, a) = "E"
  <2>1. a + 1 \in 0 .. Len(s) /\ a \in Nat
    <3> HIDE DEF a
    <3>1. a \in Nat
      BY <1>1
    <3>2. At(s, a) # Eos
      BY <1>3, CharSets, Zenon
    <3> QED
      BY <3>1, <3>2, InText
  <2>2. w \in a + 1 .. Len(s)
    <3> HIDE DEF a
    <3> QED
      BY <2>1, SkipWsFacts
  <2>3. w \in 0 .. Len(s)
    <3> HIDE DEF a, w
    <3> QED
      BY <2>1, <2>2
  <2>4. b \in w .. Len(s)
    <3> HIDE DEF w
    <3> QED
      BY <2>3, CharSets, SkipOneFacts
  <2>5. b \in 0 .. Len(s)
    <3> HIDE DEF b, w
    <3> QED
      BY <2>3, <2>4
  <2>6. c \in b .. Len(s)
    <3> HIDE DEF b
    <3> QED
      BY <2>5, CharSets, SkipAllFacts
  <2> HIDE DEF a, b, c, w
  <2>7. c \in p .. Len(s) /\ p \in p .. Len(s)
    BY <1>1, <2>1, <2>2, <2>3, <2>4, <2>5, <2>6
  <2> QED
    BY <1>2, <2>7
<1>4. CASE At(s, a) # "E"
  BY <1>1, <1>2, <1>4
<1> QED
  BY <1>3, <1>4

(* A decimal number is a token of the text.                                *)
LEMMA DecimalFacts ==
  ASSUME NEW s \in CharText, NEW p \in 0 .. Len(s), NEW t, t = scpiLex_DecimalNumericProgramData(s, p)
  PROVE  Spans(s, p, t) /\ t.type \in {"DECIMAL_NUMERIC_PROGRAM_DATA", "UNKNOWN"}
<1> DEFINE q == skipMantisa(s, p)
           e == IF q > p THEN skipExponent(s, q) ELSE p
<1>1. p \in Nat /\ Len(s) \in Nat /\ q \in p .. Len(s)
  BY MantisaFacts DEF CharText
<1>2. t = Found("DECIMAL_NUMERIC_PROGRAM_DATA", p, e)
  BY DEF scpiLex_DecimalNumericProgramData
<1> HIDE DEF q
<1>3. q \in 0 .. Len(s)
  BY <1>1
<1>4. skipExponent(s, q) \in q .. Len(s)
  BY <1>3, ExponentFacts
<1>5. e \in p .. Len(s)
  BY <1>1, <1>3, <1>4
<1> HIDE DEF e
<1> QED
  BY <1>2, <1>5, FoundFacts

(* One name of a suffix stays inside the text.                             *)
LEMMA UnitFacts ==
  ASSUME NEW s \in CharText, NEW p \in 0 .. Len(s)
  PROVE  skipUnit(s, p) \in p .. Len(s)
<1> DEFINE a == skipAll(s, p, Alpha)
           b == skipOne(s, a, {"-"})
           c == skipOne(s, b, Digit)
<1>1. p \in Nat /\ Len(s) \in Nat /\ a \in p .. Len(s)
  <2>1. a \in p .. Len(s)
    BY CharSets, SkipAllFacts
  <2> QED
    BY <2>1 DEF CharText
<1>2. a \in 0 .. Len(s)
  <2> HIDE DEF a
  <2> QED
    BY <1>1
<1>3. b \in a .. Len(s)
  <2> HIDE DEF a
  <2> QED
    BY <1>2, CharSets, SkipOneFacts
<1>4. b \in 0 .. Len(s)
  <2> HIDE DEF a, b
  <2> QED
    BY <1>2, <1>3
<1>5. c \in b .. Len(s)
  <2> HIDE DEF b
  <2> QED
    BY <1>4, CharSets, SkipOneFacts
<1>6. skipUnit(s, p) = c
  BY DEF skipUnit
<1> HIDE DEF a, b, c
<1> QED
  BY <1>1, <1>2, <1>3, <1>4, <1>5, <1>6

(* The names of a suffix are skipped one by one.                           *)
LEMMA UnitsTurn ==
  ASSUME NEW s \in CharText, NEW p \in 0 .. Len(s), NEW a, a = skipOne(s, p, {"/", "."})
  PROVE  IF a = p THEN skipUnits(s, p) = p
         ELSE skipUnit(s, a) \in p + 1 .. Len(s) /\ skipUnits(s, p) = skipUnits(s, skipUnit(s, a))
<1> DEFINE D == 0 .. Len(s)
           Sep(q) == skipOne(s, q, {"/", "."})
           N(q) == skipUnit(s, Sep(q))
           U(f) == f = [q \in D |-> IF Sep(q) = q THEN q ELSE f[N(q)]]
           units == CHOOSE f : U(f)
<1>1. Len(s) \in Nat
  BY DEF CharText
<1>2. ASSUME NEW q \in D
      PROVE  N(q) \in D /\ (Sep(q) # q => N(q) > q)
  <2>1. Sep(q) \in q .. Len(s)
    BY CharSets, SkipOneFacts
  <2> HIDE DEF Sep
  <2>2. Sep(q) \in D
    BY <1>1, <2>1
  <2>3. N(q) \in Sep(q) .. Len(s)
    BY <2>2, UnitFacts
  <2> HIDE DEF N
  <2> QED
    BY <1>1, <2>1, <2>2, <2>3
<1> HIDE DEF Sep, N
<1>3. \E f : U(f)
  <2> DEFINE B == [g \in [D -> D] |-> [q \in D |-> IF Sep(q) = q THEN q ELSE g[N(q)]]]
  <2>2. B \in [[D -> D] -> [D -> D]]
    <3> SUFFICES ASSUME NEW g \in [D -> D], NEW q \in D
                 PROVE  (IF Sep(q) = q THEN q ELSE g[N(q)]) \in D
      OBVIOUS
    <3>1. N(q) \in D
      BY <1>2
    <3> QED
      BY <3>1
  <2>3. UsesLarger(Len(s), D, B)
    <3> SUFFICES ASSUME NEW g \in [D -> D], NEW h \in [D -> D], NEW q \in D,
                        \A r \in q + 1 .. Len(s) : g[r] = h[r]
                 PROVE  B[g][q] = B[h][q]
      BY <2>2 DEF UsesLarger
    <3>1. CASE Sep(q) = q
      BY <3>1
    <3>2. CASE Sep(q) # q
      <4>1. N(q) \in q + 1 .. Len(s)
        BY <1>1, <1>2, <3>2
      <4>2. g[N(q)] = h[N(q)]
        BY <4>1
      <4> QED
        BY <3>2, <4>2
    <3> QED
      BY <3>1, <3>2
  <2>4. HasSolution(Len(s), D, B)
    <3>1. D # {}
      BY <1>1
    <3> HIDE DEF B, D
    <3> QED
      BY <1>1, <2>3, <3>1, UpRecursion
  <2>5. PICK f \in [D -> D] : f = B[f]
    BY <2>4 DEF HasSolution
  <2>6. U(f)
    BY <2>5
  <2> QED
    BY <2>6
<1>4. U(units)
  <2> HIDE DEF U
  <2> QED
    BY <1>3
<1>5. \A q : skipUnits(s, q) = units[q]
  BY DEF skipUnits, Sep, N
<1> HIDE DEF units
<1>6. \A q \in D : units[q] = IF Sep(q) = q THEN q ELSE units[N(q)]
  BY <1>4
<1>7. IF Sep(p) = p THEN skipUnits(s, p) = p
      ELSE N(p) \in p + 1 .. Len(s) /\ skipUnits(s, p) = skipUnits(s, N(p))
  <2>1. CASE Sep(p) = p
    BY <1>5, <1>6, <2>1
  <2>2. CASE Sep(p) # p
    <3>1. N(p) \in p + 1 .. Len(s)
      BY <1>1, <1>2, <2>2
    <3> QED
      BY <1>5, <1>6, <2>2, <3>1
  <2> QED
    BY <2>1, <2>2
<1> QED
  BY <1>7 DEF Sep, N

(* The names of a suffix are skipped inside the text.                      *)
LEMMA UnitsFacts ==
  ASSUME NEW s \in CharText, NEW p \in 0 .. Len(s)
  PROVE  skipUnits(s, p) \in p .. Len(s)
<1> DEFINE D == 0 .. Len(s)
           T == {q \in D : skipUnits(s, q) \in q .. Len(s)}
<1>1. Len(s) \in Nat
  BY DEF CharText
<1>2. ASSUME NEW q \in D, \A r \in q + 1 .. Len(s) : r \in T
      PROVE  q \in T
  <2> DEFINE a == skipOne(s, q, {"/", "."})
             b == skipUnit(s, a)
  <2>1. IF a = q THEN skipUnits(s, q) = q ELSE b \in q + 1 .. Len(s) /\ skipUnits(s, q) = skipUnits(s, b)
    BY UnitsTurn
  <2> HIDE DEF a, b
  <2>2. CASE a = q
    BY <1>1, <2>1, <2>2
  <2>3. CASE a # q
    <3>1. b \in q + 1 .. Len(s) /\ skipUnits(s, q) = skipUnits(s, b) /\ skipUnits(s, b) \in b .. Len(s)
      BY <1>2, <2>1, <2>3
    <3> QED
      BY <1>1, <3>1
  <2> QED
    BY <2>2, <2>3
<1>3. D \subseteq T
  <2> HIDE DEF T
  <2> QED
    BY <1>1, <1>2, UpInduction
<1> QED
  BY <1>3

(* A suffix is a token of the text.                                        *)
LEMMA SuffixFacts ==
  ASSUME NEW s \in CharText, NEW p \in 0 .. Len(s), NEW t, t = scpiLex_SuffixProgramData(s, p)
  PROVE  Spans(s, p, t)
<1> DEFINE q == skipOne(s, p, {"/"})
           u == skipUnit(s, q)
           e == IF At(s, q) \in Alpha THEN skipUnits(s, u) ELSE q
<1>1. p \in Nat /\ Len(s) \in Nat /\ q \in p .. Len(s)
  <2>1. q \in p .. Len(s)
    BY CharSets, SkipOneFacts
  <2> QED
    BY <2>1 DEF CharText
<1>2. t = Found("SUFFIX_PROGRAM_DATA", p, e)
  BY DEF scpiLex_SuffixProgramData
<1> HIDE DEF q
<1>3. q \in 0 .. Len(s)
  BY <1>1
<1>4. u \in q .. Len(s)
  BY <1>3, UnitFacts
<1> HIDE DEF u
<1>5. u \in 0 .. Len(s)
  BY <1>3, <1>4
<1>6. skipUnits(s, u) \in u .. Len(s)
  BY <1>5, UnitsFacts
<1>7. e \in p .. Len(s)
  BY <1>1, <1>3, <1>4, <1>5, <1>6
<1> HIDE DEF e
<1> QED
  BY <1>2, <1>7, FoundFacts

(* A number to another base is a token of the text.                        *)
LEMMA NondecimalFacts ==
  ASSUME NEW s \in CharText, NEW p \in 0 .. Len(s), NEW t, t = scpiLex_NondecimalNumericData(s, p)
  PROVE  Spans(s, p, t) /\ t.type \in {"HEXNUM", "OCTNUM", "BINNUM", "UNKNOWN"}
<1> DEFINE base == IF At(s, p) = "#" THEN At(s, p + 1) ELSE Eos
           q == CASE base = "H" -> skipAll(s, p + 2, Hex)
                  [] base = "Q" -> skipAll(s, p + 2, Oct)
                  [] base = "B" -> skipAll(s, p + 2, Bin)
                  [] OTHER -> p + 2
           type == CASE base = "H" -> "HEXNUM" [] base = "Q" -> "OCTNUM" [] OTHER -> "BINNUM"
<1>1. p \in Nat /\ p + 1 \in Nat /\ Len(s) \in Nat
  BY DEF CharText
<1>2. type \in {"HEXNUM", "OCTNUM", "BINNUM"}
  OBVIOUS
<1>3. t = IF q > p + 2 THEN Token(type, p + 2, q - p - 2, q, q - p) ELSE Token("UNKNOWN", p, 0, p, 0)
  BY DEF scpiLex_NondecimalNumericData
<1>4. CASE base \in {"H", "Q", "B"}
  <2>1. base # Eos
    BY <1>4 DEF Eos
  <2>2. At(s, p) # Eos /\ At(s, p + 1) # Eos
    BY <2>1 DEF Eos
  <2>3. p + 2 \in 0 .. Len(s)
    <3>1. (p + 1) + 1 \in 0 .. Len(s)
      BY <1>1, <2>2, InText
    <3> QED
      BY <1>1, <3>1
  <2>4. /\ skipAll(s, p + 2, Hex) \in p + 2 .. Len(s)
        /\ skipAll(s, p + 2, Oct) \in p + 2 .. Len(s)
        /\ skipAll(s, p + 2, Bin) \in p + 2 .. Len(s)
    <3>1. skipAll(s, p + 2, Hex) \in p + 2 .. Len(s)
      BY <2>3, CharSets, SkipAllFacts
    <3>2. skipAll(s, p + 2, Oct) \in p + 2 .. Len(s)
      BY <2>3, CharSets, SkipAllFacts
    <3>3. skipAll(s, p + 2, Bin) \in p + 2 .. Len(s)
      BY <2>3, CharSets, SkipAllFacts
    <3> QED
      BY <3>1, <3>2, <3>3
  <2>5. q \in p + 2 .. Len(s)
    <3> HIDE DEF base
    <3> QED
      BY <1>4, <2>4
  <2> HIDE DEF q, type
  <2>6. CASE q > p + 2
    <3>1. t = Token(type, p + 2, q - p - 2, q, q - p)
      BY <1>3, <2>6
    <3>2. /\ t.type = type /\ t.ptr = p + 2 /\ t.len = q - p - 2 /\ t.pos = q /\ t.ret = q - p
          /\ t = Token(t.type, t.ptr, t.len, t.pos, t.ret)
      BY <3>1, TokenFacts
    <3>3. Spans(s, p, t)
      BY <1>1, <2>5, <2>6, <3>2 DEF Spans
    <3> QED
      BY <1>2, <3>2, <3>3
  <2>7. CASE ~(q > p + 2)
    <3>1. t = Token("UNKNOWN", p, 0, p, 0) /\ p \in p .. Len(s)
      BY <1>1, <1>3, <2>7
    <3>2. t.type = "UNKNOWN"
      BY <3>1, TokenFacts
    <3> QED
      BY <3>1, <3>2, NoTokenFacts
  <2> QED
    BY <2>6, <2>7
<1>5. CASE base \notin {"H", "Q", "B"}
  <2>1. q = p + 2
    <3> HIDE DEF base
    <3> QED
      BY <1>5
  <2> HIDE DEF q, type
  <2>2. ~(q > p + 2)
    BY <1>1, <2>1
  <2>3. t = Token("UNKNOWN", p, 0, p, 0) /\ p \in p .. Len(s)
    BY <1>1, <1>3, <2>2
  <2>4. t.type = "UNKNOWN"
    BY <2>3, TokenFacts
  <2> QED
    BY <2>3, <2>4, NoTokenFacts
<1> QED
  BY <1>4, <1>5

(* A mnemonic is a token of the text.                                      *)
LEMMA CharacterFacts ==
  ASSUME NEW s \in CharText, NEW p \in 0 .. Len(s), NEW t, t = scpiLex_CharacterProgramData(s, p)
  PROVE  Spans(s, p, t) /\ t.type \in {"PROGRAM_MNEMONIC", "UNKNOWN"}
BY MnemonicFacts, FoundFacts DEF scpiLex_CharacterProgramData

(* A number and its unit are a token of the text.                          *)
LEMMA WithSuffixFacts ==
  ASSUME NEW s \in CharText, NEW p \in 0 .. Len(s), NEW t, t = NumberWithSuffix(s, p)
  PROVE  Spans(s, p, t) /\ t.type # "QUOTE_PROGRAM_DATA"
<1> DEFINE d == scpiLex_DecimalNumericProgramData(s, p)
           w == skipWs(s, d.pos)
           u == scpiLex_SuffixProgramData(s, w)
           both == Token("DECIMAL_NUMERIC_PROGRAM_DATA_WITH_SUFFIX", p, u.pos - p, u.pos, u.pos - p)
<1>1. Spans(s, p, d) /\ d.type \in {"DECIMAL_NUMERIC_PROGRAM_DATA", "UNKNOWN"}
  BY DecimalFacts
<1>2. t = CASE d.ret = 0 -> d
            [] d.ret > 0 /\ u.ret > 0 -> both
            [] d.ret > 0 /\ u.ret = 0 -> [d EXCEPT !.pos = u.pos]
  BY DEF NumberWithSuffix
<1>3. p \in Nat /\ Len(s) \in Nat
  BY DEF CharText
<1> HIDE DEF d
<1>4. d.pos \in 0 .. Len(s) /\ d.pos \in Nat
  BY <1>1, <1>3 DEF Spans
<1>5. w \in d.pos .. Len(s)
  BY <1>4, SkipWsFacts
<1> HIDE DEF w
<1>6. w \in 0 .. Len(s)
  BY <1>3, <1>4, <1>5
<1>7. Spans(s, w, u)
  BY <1>6, SuffixFacts
<1> HIDE DEF u
<1>8. /\ u.pos \in w .. Len(s) /\ u.ret \in Nat /\ d.ret \in 0 .. d.pos - p
      /\ d.pos \in p .. Len(s) /\ d.ptr \in p .. d.pos /\ d.len \in Nat /\ d.ptr + d.len <= d.pos
  BY <1>1, <1>3, <1>4, <1>6, <1>7 DEF Spans
<1>9. CASE d.ret = 0
  BY <1>1, <1>2, <1>9
<1>10. CASE d.ret > 0 /\ u.ret > 0
  <2>1. t = both
    BY <1>2, <1>10
  <2>2. /\ t.type = "DECIMAL_NUMERIC_PROGRAM_DATA_WITH_SUFFIX" /\ t.ptr = p /\ t.len = u.pos - p
        /\ t.pos = u.pos /\ t.ret = u.pos - p /\ t = Token(t.type, t.ptr, t.len, t.pos, t.ret)
    BY <2>1, TokenFacts
  <2> HIDE DEF both
  <2>3. t.pos \in p .. Len(s) /\ t.ret \in 0 .. t.pos - p /\ t.ret > 0 /\ t.len \in Nat /\ t.ptr + t.len <= t.pos
    <3>1. u.pos - p > 0 /\ u.pos \in Nat
      BY <1>3, <1>4, <1>5, <1>6, <1>8, <1>10
    <3> QED
      BY <1>3, <1>8, <2>2, <3>1
  <2>4. Spans(s, p, t)
    BY <1>3, <2>2, <2>3 DEF Spans
  <2> QED
    BY <2>2, <2>4
<1>11. CASE d.ret > 0 /\ u.ret = 0
  <2>1. t = [d EXCEPT !.pos = u.pos]
    BY <1>2, <1>11
  <2>2. d = Token(d.type, d.ptr, d.len, d.pos, d.ret)
    BY <1>1 DEF Spans
  <2>3. t = Token(d.type, d.ptr, d.len, u.pos, d.ret)
    BY <2>1, <2>2 DEF Token
  <2>4. /\ t.type = d.type /\ t.ptr = d.ptr /\ t.len = d.len
        /\ t.pos = u.pos /\ t.ret = d.ret /\ t = Token(t.type, t.ptr, t.len, t.pos, t.ret)
    BY <2>3, TokenFacts
  <2>5. t.pos \in p .. Len(s) /\ t.ptr \in p .. t.pos /\ t.ret \in 0 .. t.pos - p /\ t.ptr + t.len <= t.pos
    BY <1>3, <1>4, <1>5, <1>6, <1>8, <2>4
  <2>6. Spans(s, p, t)
    BY <1>8, <1>11, <2>4, <2>5 DEF Spans
  <2>7. t.type # "QUOTE_PROGRAM_DATA"
    BY <1>1, <2>4
  <2> QED
    BY <2>6, <2>7
<1> QED
  BY <1>8, <1>9, <1>10, <1>11

(* An expression is a token of the text.                                   *)
LEMMA ExpressionFacts ==
  ASSUME NEW s \in CharText, NEW p \in 0 .. Len(s), NEW t, t = scpiLex_ProgramExpression(s, p)
  PROVE  Spans(s, p, t) /\ t.type \in {"PROGRAM_EXPRESSION", "UNKNOWN"}
<1> DEFINE Stops(q) == ~isProgramExpression(At(s, q)) /\ \A i \in p + 1 .. q - 1 : isProgramExpression(At(s, i))
           q == CHOOSE q \in p + 1 .. Len(s) : Stops(q)
           e == IF At(s, p) = "(" /\ At(s, q) = ")" THEN q + 1 ELSE p
<1>1. p \in Nat /\ Len(s) \in Nat
  BY DEF CharText
<1>2. t = Found("PROGRAM_EXPRESSION", p, e)
  BY DEF scpiLex_ProgramExpression
<1>3. CASE At(s, p) = "("
  <2>1. At(s, p) # Eos
    BY <1>3 DEF Eos
  <2>2. p + 1 \in 0 .. Len(s)
    BY <1>1, <2>1, InText
  <2> DEFINE C == {c \in {At(s, i) : i \in Nat} : isProgramExpression(c)}
             a == skipAll(s, p + 1, C)
  <2>3. Eos \notin C
    BY Zenon DEF isProgramExpression
  <2>4. a \in p + 1 .. Len(s) /\ At(s, a) \notin C /\ \A i \in p + 1 .. a - 1 : At(s, i) \in C
    <3> HIDE DEF C
    <3> QED
      BY <2>2, <2>3, SkipAllFacts
  <2> HIDE DEF a
  <2>5. a \in Nat
    BY <1>1, <2>4
  <2>6. Stops(a)
    BY <2>4, <2>5
  <2>7. q \in p + 1 .. Len(s)
    <3> HIDE DEF Stops
    <3> QED
      BY <2>4, <2>6
  <2> HIDE DEF q
  <2>8. q \in Nat
    BY <1>1, <2>7
  <2>9. At(s, q) = ")" => q + 1 \in 0 .. Len(s)
    <3>1. At(s, q) = ")" => At(s, q) # Eos
      BY DEF Eos
    <3> QED
      BY <2>8, <3>1, InText
  <2>10. e \in p .. Len(s)
    BY <1>1, <2>7, <2>8, <2>9
  <2> HIDE DEF e
  <2> QED
    BY <1>2, <2>10, FoundFacts
<1>4. CASE At(s, p) # "("
  <2>1. e = p /\ p \in p .. Len(s)
    BY <1>1, <1>4
  <2> HIDE DEF e
  <2> QED
    BY <1>2, <2>1, FoundFacts
<1> QED
  BY <1>3, <1>4

(* The length of a block is a number.                                      *)
LEMMA NumberFacts ==
  ASSUME NEW digits \in Seq(Digit)
  PROVE  Number(digits) \in Nat
<1> DEFINE n == Len(digits)
           N(f) == f = [k \in 0 .. n |-> IF k = 0 THEN 0 ELSE 10 * f[k - 1] + DigitValue(digits[k])]
           value == CHOOSE f : N(f)
<1>1. n \in Nat
  OBVIOUS
<1>2. \A k \in 0 .. n : k # 0 => k - 1 \in 0 .. n /\ DigitValue(digits[k]) \in Nat
  <2> SUFFICES ASSUME NEW k \in 0 .. n, k # 0
               PROVE  k - 1 \in 0 .. n /\ DigitValue(digits[k]) \in Nat
    OBVIOUS
  <2>1. k \in 1 .. n /\ k - 1 \in 0 .. n
    BY <1>1
  <2>2. digits[k] \in Digit
    BY <2>1, ElementOfSeq
  <2>3. DigitValue(digits[k]) \in Nat
    BY <2>2 DEF Digit, DigitValue
  <2> QED
    BY <2>1, <2>3
<1> HIDE DEF n
<1>3. \E f : N(f)
  <2> DEFINE B == [g \in [0 .. n -> Nat] |-> [k \in 0 .. n |-> IF k = 0 THEN 0 ELSE 10 * g[k - 1] + DigitValue(digits[k])]]
  <2>1. B \in [[0 .. n -> Nat] -> [0 .. n -> Nat]]
    <3> SUFFICES ASSUME NEW g \in [0 .. n -> Nat], NEW k \in 0 .. n
                 PROVE  (IF k = 0 THEN 0 ELSE 10 * g[k - 1] + DigitValue(digits[k])) \in Nat
      OBVIOUS
    <3>1. k # 0 => g[k - 1] \in Nat /\ DigitValue(digits[k]) \in Nat
      BY <1>2
    <3> QED
      BY <3>1
  <2>2. UsesSmaller(n, Nat, B)
    <3> SUFFICES ASSUME NEW g \in [0 .. n -> Nat], NEW h \in [0 .. n -> Nat], NEW q \in 0 .. n,
                        \A r \in 0 .. q - 1 : g[r] = h[r]
                 PROVE  B[g][q] = B[h][q]
      BY <2>1 DEF UsesSmaller
    <3>1. q # 0 => g[q - 1] = h[q - 1]
      BY <1>1
    <3> QED
      BY <3>1
  <2>3. HasSolution(n, Nat, B)
    <3> HIDE DEF B
    <3> QED
      BY <1>1, <2>2, DownRecursion
  <2>4. PICK f \in [0 .. n -> Nat] : f = B[f]
    BY <2>3 DEF HasSolution
  <2>5. N(f)
    BY <2>4
  <2> QED
    BY <2>5
<1>4. N(value)
  <2> HIDE DEF N
  <2> QED
    BY <1>3
<1>5. Number(digits) = value[n]
  BY DEF Number, n
<1> HIDE DEF value
<1>6. \A k \in 0 .. n : value[k] = IF k = 0 THEN 0 ELSE 10 * value[k - 1] + DigitValue(digits[k])
  BY <1>4
<1> DEFINE T == {k \in 0 .. n : value[k] \in Nat}
<1>7. 0 \in T
  BY <1>1, <1>6
<1>8. ASSUME NEW k \in 0 .. n - 1, k \in T
      PROVE  k + 1 \in T
  <2>1. k + 1 \in 0 .. n /\ k + 1 # 0 /\ (k + 1) - 1 = k /\ value[k] \in Nat
    BY <1>1, <1>8
  <2>2. value[k + 1] = 10 * value[k] + DigitValue(digits[k + 1]) /\ DigitValue(digits[k + 1]) \in Nat
    BY <1>2, <1>6, <2>1
  <2>3. value[k + 1] \in Nat
    <3> DEFINE v == value[k]
               x == DigitValue(digits[k + 1])
    <3>1. v \in Nat /\ x \in Nat
      BY <2>1, <2>2
    <3> HIDE DEF v, x
    <3>2. 10 * v + x \in Nat
      BY <3>1
    <3> QED
      BY <2>2, <3>2 DEF v, x
  <2> QED
    BY <2>1, <2>3
<1>9. 0 .. n \subseteq T
  <2> HIDE DEF T
  <2> QED
    BY <1>1, <1>7, <1>8, DownInduction
<1>10. n \in 0 .. n
  BY <1>1
<1> QED
  BY <1>5, <1>9, <1>10

(* The part of a text behind m characters, up to the n-th.                 *)
LEMMA PartFacts ==
  ASSUME NEW S, NEW s \in CharText, NEW n \in 0 .. Len(s), NEW m \in 0 .. n,
         \A i \in m + 1 .. n : s[i] \in S
  PROVE  /\ SubSeq(s, m + 1, n) \in Seq(S)
         /\ Len(SubSeq(s, m + 1, n)) = n - m
         /\ \A i \in 1 .. n - m : SubSeq(s, m + 1, n)[i] = s[m+i]
<1>1. Len(s) \in Nat
  BY DEF CharText
<1>2. m + 1 \in Int /\ n \in Int /\ n - (m + 1) + 1 = n - m
  BY <1>1
<1>3. /\ SubSeq(s, m + 1, n) \in Seq(S)
      /\ Len(SubSeq(s, m + 1, n)) = IF m + 1 <= n THEN n - (m + 1) + 1 ELSE 0
      /\ \A i \in 1 .. n - (m + 1) + 1 : SubSeq(s, m + 1, n)[i] = s[(m + 1) + i - 1]
  BY <1>2, SubSeqProperties
<1> QED
  BY <1>1, <1>2, <1>3

(* A block is a token of the text; one that is cut off takes the rest.     *)
LEMMA BlockFacts ==
  ASSUME NEW s \in CharText, NEW p \in 0 .. Len(s), NEW t, t = scpiLex_ArbitraryBlockProgramData(s, p)
  PROVE  Spans(s, p, t) /\ t.type \in {"ARBITRARY_BLOCK_PROGRAM_DATA", "UNKNOWN"}
<1> DEFINE n == IF At(s, p) = "#" /\ At(s, p + 1) \in Digit THEN DigitValue(At(s, p + 1)) ELSE 0
           q == skipAll(s, p + 2, Digit)
           from == p + 2 + n
           to == from + Number(SubSeq(s, p + 3, from))
           whole == n > 0 /\ q >= from /\ to <= Len(s)
           short == (n > 0 /\ q < from /\ q = Len(s)) \/ (At(s, p) = "#" /\ p + 1 = Len(s))
<1>1. p \in Nat /\ p + 1 \in Nat /\ Len(s) \in Nat
  BY DEF CharText
<1>2. t = CASE whole -> Token("ARBITRARY_BLOCK_PROGRAM_DATA", from, to - from, to, to - p)
            [] short -> Token("UNKNOWN", p, 0, Len(s), 0)
            [] OTHER -> Token("UNKNOWN", p, 0, p, 0)
  BY DEF scpiLex_ArbitraryBlockProgramData
<1>3. n \in Nat
  <2>1. At(s, p + 1) \in Digit => DigitValue(At(s, p + 1)) \in Nat
    BY DEF Digit, DigitValue
  <2> QED
    BY <2>1
<1>4. CASE n > 0
  <2>1. At(s, p) = "#" /\ At(s, p + 1) \in Digit
    BY <1>4
  <2>2. p + 2 \in 0 .. Len(s)
    <3>1. At(s, p + 1) # Eos
      BY <2>1, CharSets, Zenon
    <3>2. (p + 1) + 1 \in 0 .. Len(s)
      BY <1>1, <3>1, InText
    <3> QED
      BY <1>1, <3>2
  <2>3. q \in p + 2 .. Len(s) /\ \A i \in p + 2 .. q - 1 : At(s, i) \in Digit
    BY <2>2, CharSets, SkipAllFacts
  <2>4. ~(p + 1 = Len(s)) /\ Len(s) \in p .. Len(s) /\ p \in p .. Len(s)
    BY <1>1, <2>2
  <2> HIDE DEF n, q
  <2>5. CASE whole
    <3>1. ~short
      BY <1>1, <1>3, <2>3, <2>4, <2>5
    <3>2. t = Token("ARBITRARY_BLOCK_PROGRAM_DATA", from, to - from, to, to - p)
      <4> HIDE DEF whole, short, from, to
      <4> QED
        BY <1>2, <2>5, <3>1
    <3>3. from \in 0 .. Len(s) /\ p + 2 \in 0 .. from /\ (p + 2) + 1 = p + 3
      BY <1>1, <1>3, <2>3, <2>5
    <3>4. ASSUME NEW i \in (p + 2) + 1 .. from
          PROVE  s[i] \in Digit
      <4>1. i - 1 \in p + 2 .. q - 1 /\ i - 1 \in Nat /\ i - 1 < Len(s) /\ (i - 1) + 1 = i
        BY <1>1, <1>3, <2>3, <2>5
      <4>2. At(s, i - 1) \in Digit /\ At(s, i - 1) = s[(i - 1) + 1]
        BY <2>3, <4>1, AtFacts
      <4> QED
        BY <4>1, <4>2
    <3> DEFINE digits == SubSeq(s, p + 3, from)
               num == Number(digits)
    <3>5. digits \in Seq(Digit)
      <4> HIDE DEF from
      <4>1. SubSeq(s, (p + 2) + 1, from) \in Seq(Digit)
        BY <3>3, <3>4, PartFacts
      <4> QED
        BY <3>3, <4>1
    <3>6. num \in Nat
      <4> HIDE DEF digits
      <4> QED
        BY <3>5, NumberFacts
    <3>7. to = from + num
      OBVIOUS
    <3> HIDE DEF num, to, from
    <3>8. /\ t.type = "ARBITRARY_BLOCK_PROGRAM_DATA" /\ t.ptr = from /\ t.len = to - from /\ t.pos = to
          /\ t.ret = to - p /\ t = Token(t.type, t.ptr, t.len, t.pos, t.ret)
      BY <3>2, TokenFacts
    <3>9. to \in 0 .. Len(s) /\ from <= to
      BY <1>1, <2>5, <3>3, <3>6, <3>7
    <3>10. Spans(s, p, t)
      BY <1>1, <3>3, <3>8, <3>9 DEF Spans
    <3> QED
      BY <3>8, <3>10
  <2>6. CASE ~whole
    <3>1. t = Token("UNKNOWN", p, 0, Len(s), 0) \/ t = Token("UNKNOWN", p, 0, p, 0)
      <4> HIDE DEF whole, short
      <4> QED
        BY <1>2, <2>6
    <3>2. t.type = "UNKNOWN"
      BY <3>1, TokenFacts
    <3> QED
      BY <2>4, <3>1, <3>2, NoTokenFacts
  <2> QED
    BY <2>5, <2>6
<1>5. CASE ~(n > 0)
  <2>1. ~whole
    BY <1>5
  <2>2. t = Token("UNKNOWN", p, 0, Len(s), 0) \/ t = Token("UNKNOWN", p, 0, p, 0)
    <3> HIDE DEF whole, short
    <3> QED
      BY <1>2, <2>1
  <2>3. t.type = "UNKNOWN"
    BY <2>2, TokenFacts
  <2>4. Len(s) \in p .. Len(s) /\ p \in p .. Len(s)
    BY <1>1
  <2> QED
    BY <2>2, <2>3, <2>4, NoTokenFacts
<1> QED
  BY <1>4, <1>5

-----------------------------------------------------------------------------
(* A quote is neither the end of the text nor a character of 8 bits.       *)
LEMMA QuoteChars ==
  ASSUME NEW quote \in Quote
  PROVE  quote # Eos /\ quote # "8bit"
BY Zenon DEF Quote, Eos

(* The turns of the loop of skipQuoteProgramData.                          *)
Doubles(s, quote, q) == At(s, q) = quote /\ At(s, q + 1) = quote
Closes(s, quote, q) == At(s, q) = quote /\ At(s, q + 1) # quote
Passes(s, quote, q) == At(s, q) \notin {Eos, quote, "8bit"}

(* One turn of the loop for each kind of character.                        *)
LEMMA QuoteTurns ==
  ASSUME NEW s \in CharText, NEW quote \in Quote, NEW q \in 0 .. Len(s)
  PROVE  /\ At(s, q) = Eos => skipQuoteProgramData(s, q, quote) = q
         /\ Closes(s, quote, q) => skipQuoteProgramData(s, q, quote) = q
         /\ At(s, q) = "8bit" => skipQuoteProgramData(s, q, quote) = Never
         /\ Doubles(s, quote, q) =>
              q + 2 \in 0 .. Len(s) /\ skipQuoteProgramData(s, q, quote) = skipQuoteProgramData(s, q + 2, quote)
         /\ Passes(s, quote, q) =>
              q + 1 \in 0 .. Len(s) /\ skipQuoteProgramData(s, q, quote) = skipQuoteProgramData(s, q + 1, quote)
<1> DEFINE D == 0 .. Len(s)
           S(f) == f = [i \in D |->
                          CASE At(s, i) = Eos -> i
                            [] At(s, i) = quote -> IF At(s, i + 1) = quote THEN f[i + 2] ELSE i
                            [] At(s, i) = "8bit" -> Never
                            [] OTHER -> f[i + 1]]
           skip == CHOOSE f : S(f)
           More(i) == Doubles(s, quote, i) \/ Passes(s, quote, i)
           Nx(i) == IF Doubles(s, quote, i) THEN i + 2 ELSE i + 1
           Val(i) == IF At(s, i) = "8bit" THEN Never ELSE i
           Body(g, i) == CASE At(s, i) = Eos -> i
                           [] At(s, i) = quote -> IF At(s, i + 1) = quote THEN g[i + 2] ELSE i
                           [] At(s, i) = "8bit" -> Never
                           [] OTHER -> g[i + 1]
<1>1. Len(s) \in Nat
  BY DEF CharText
<1>2. quote # Eos /\ quote # "8bit" /\ "8bit" # Eos
  <2>1. "8bit" # Eos
    BY DEF Eos
  <2> QED
    BY <2>1, QuoteChars
<1>3. \A g, i : Body(g, i) = IF More(i) THEN g[Nx(i)] ELSE Val(i)
  <2> SUFFICES ASSUME NEW g, NEW i
               PROVE  Body(g, i) = IF More(i) THEN g[Nx(i)] ELSE Val(i)
    OBVIOUS
  <2> USE DEF Doubles, Passes
  <2>1. CASE At(s, i) = Eos
    BY <1>2, <2>1
  <2>2. CASE At(s, i) = quote
    BY <1>2, <2>2
  <2>3. CASE At(s, i) = "8bit"
    BY <1>2, <2>3
  <2>4. CASE At(s, i) \notin {Eos, quote, "8bit"}
    BY <2>4
  <2> QED
    BY <2>1, <2>2, <2>3, <2>4
<1>4. ASSUME NEW i \in D, More(i)
      PROVE  Nx(i) \in i + 1 .. Len(s)
  <2>1. i \in Nat /\ i + 1 \in Nat
    BY <1>1
  <2>2. CASE Doubles(s, quote, i)
    <3>1. (i + 1) + 1 \in 0 .. Len(s)
      BY <1>2, <2>1, <2>2, InText DEF Doubles
    <3>2. Nx(i) = i + 2
      BY <2>2
    <3> QED
      BY <2>1, <3>1, <3>2
  <2>3. CASE ~Doubles(s, quote, i)
    <3>1. i + 1 \in 0 .. Len(s)
      BY <1>4, <2>1, <2>3, InText DEF Passes
    <3>2. Nx(i) = i + 1
      BY <2>3
    <3> QED
      BY <2>1, <3>1, <3>2
  <2> QED
    BY <2>2, <2>3
<1>5. \A f : S(f) <=> f = [i \in D |-> IF More(i) THEN f[Nx(i)] ELSE Val(i)]
  <2> SUFFICES ASSUME NEW f
               PROVE  [i \in D |-> Body(f, i)] = [i \in D |-> IF More(i) THEN f[Nx(i)] ELSE Val(i)]
    OBVIOUS
  <2> HIDE DEF Body, More, Nx, Val
  <2> QED
    BY <1>3
<1>6. \A i \in D : Val(i) \in Int
  BY <1>1 DEF Never
<1> HIDE DEF More, Nx, Val, S
<1>7. \E f : S(f)
  <2> DEFINE B == [g \in [D -> Int] |-> [i \in D |-> IF More(i) THEN g[Nx(i)] ELSE Val(i)]]
  <2>1. \A i \in D : More(i) => Nx(i) \in D
    BY <1>1, <1>4
  <2>2. B \in [[D -> Int] -> [D -> Int]]
    <3> SUFFICES ASSUME NEW g \in [D -> Int], NEW i \in D
                 PROVE  (IF More(i) THEN g[Nx(i)] ELSE Val(i)) \in Int
      OBVIOUS
    <3> QED
      BY <1>6, <2>1
  <2>3. UsesLarger(Len(s), Int, B)
    <3> SUFFICES ASSUME NEW g \in [D -> Int], NEW h \in [D -> Int], NEW i \in D,
                        \A r \in i + 1 .. Len(s) : g[r] = h[r]
                 PROVE  B[g][i] = B[h][i]
      BY <2>2 DEF UsesLarger
    <3>1. More(i) => g[Nx(i)] = h[Nx(i)]
      BY <1>4
    <3> QED
      BY <3>1
  <2>4. HasSolution(Len(s), Int, B)
    <3> HIDE DEF B
    <3> QED
      BY <1>1, <2>3, UpRecursion
  <2>5. PICK f \in [D -> Int] : f = B[f]
    BY <2>4 DEF HasSolution
  <2>6. S(f)
    BY <1>5, <2>5
  <2> QED
    BY <2>6
<1>8. S(skip)
  BY <1>7
<1>9. \A i \in D : skipQuoteProgramData(s, i, quote) = skip[i]
  BY DEF skipQuoteProgramData, S
<1> HIDE DEF skip
<1>10. \A i \in D : skip[i] = IF More(i) THEN skip[Nx(i)] ELSE Val(i)
  BY <1>5, <1>8
<1>11. CASE Doubles(s, quote, q)
  <2>1. More(q) /\ Nx(q) = q + 2
    BY <1>11 DEF More, Nx
  <2>2. q + 2 \in D
    BY <1>1, <1>4, <2>1
  <2>3. skipQuoteProgramData(s, q, quote) = skipQuoteProgramData(s, q + 2, quote)
    BY <1>9, <1>10, <2>1, <2>2
  <2>4. ~Closes(s, quote, q) /\ ~Passes(s, quote, q) /\ At(s, q) # Eos /\ At(s, q) # "8bit"
    BY <1>2, <1>11 DEF Doubles, Closes, Passes
  <2> QED
    BY <2>2, <2>3, <2>4
<1>12. CASE Passes(s, quote, q)
  <2>1. More(q) /\ Nx(q) = q + 1
    BY <1>12 DEF More, Nx, Passes, Doubles
  <2>2. q + 1 \in D
    BY <1>1, <1>4, <2>1
  <2>3. skipQuoteProgramData(s, q, quote) = skipQuoteProgramData(s, q + 1, quote)
    BY <1>9, <1>10, <2>1, <2>2
  <2>4. ~Closes(s, quote, q) /\ ~Doubles(s, quote, q) /\ At(s, q) # Eos /\ At(s, q) # "8bit"
    BY <1>2, <1>12 DEF Doubles, Closes, Passes
  <2> QED
    BY <2>2, <2>3, <2>4
<1>13. CASE ~Doubles(s, quote, q) /\ ~Passes(s, quote, q)
  <2>1. skipQuoteProgramData(s, q, quote) = Val(q)
    BY <1>9, <1>10, <1>13 DEF More
  <2> QED
    BY <1>2, <1>13, <2>1 DEF Val, Closes
<1> QED
  BY <1>11, <1>12, <1>13

(* Where the loop may stop, and what it returns then.                      *)
StopsAt(s, quote, e, r) ==
  \/ e = Len(s) /\ r = e
  \/ e < Len(s) /\ Closes(s, quote, e) /\ r = e
  \/ e < Len(s) /\ At(s, e) = "8bit" /\ r = Never

(* Whatever holds of a position and is kept by the turns of the loop holds *)
(* where it stops.                                                         *)
KeptByTurns(s, quote, G) ==
  \A q \in 0 .. Len(s) : q \in G => /\ Doubles(s, quote, q) => q + 2 \in G
                                    /\ Passes(s, quote, q) => q + 1 \in G

LEMMA QuoteScan ==
  ASSUME NEW s \in CharText, NEW quote \in Quote, NEW G, KeptByTurns(s, quote, G),
         NEW p \in 0 .. Len(s), p \in G
  PROVE  \E e \in p .. Len(s) : e \in G /\ StopsAt(s, quote, e, skipQuoteProgramData(s, p, quote))
<1> DEFINE R(q) == skipQuoteProgramData(s, q, quote)
           Ends(q) == \E e \in q .. Len(s) : e \in G /\ StopsAt(s, quote, e, R(q))
           T == {q \in 0 .. Len(s) : q \in G => Ends(q)}
<1>1. Len(s) \in Nat
  BY DEF CharText
<1>2. ASSUME NEW q \in 0 .. Len(s), \A r \in q + 1 .. Len(s) : r \in T
      PROVE  q \in T
  <2> SUFFICES ASSUME q \in G PROVE Ends(q)
    OBVIOUS
  <2>1. q \in Nat /\ q \in q .. Len(s)
    BY <1>1
  <2>2. ASSUME NEW n \in q + 1 .. Len(s), n \in G, R(q) = R(n)
        PROVE  Ends(q)
    <3>1. Ends(n)
      BY <1>2, <2>2
    <3>2. PICK e \in n .. Len(s) : e \in G /\ StopsAt(s, quote, e, R(n))
      BY <3>1
    <3>3. e \in q .. Len(s)
      BY <1>1, <3>2
    <3> QED
      BY <2>2, <3>2, <3>3
  <2>3. CASE Doubles(s, quote, q)
    <3>1. q + 2 \in 0 .. Len(s) /\ R(q) = R(q + 2)
      BY <2>3, QuoteTurns
    <3>2. q + 2 \in q + 1 .. Len(s) /\ q + 2 \in G
      BY <2>1, <2>3, <3>1 DEF KeptByTurns
    <3> HIDE DEF Ends, R
    <3> QED
      BY <2>2, <3>1, <3>2
  <2>4. CASE Passes(s, quote, q)
    <3>1. q + 1 \in 0 .. Len(s) /\ R(q) = R(q + 1)
      BY <2>4, QuoteTurns
    <3>2. q + 1 \in q + 1 .. Len(s) /\ q + 1 \in G
      BY <2>1, <2>4, <3>1 DEF KeptByTurns
    <3> HIDE DEF Ends, R
    <3> QED
      BY <2>2, <3>1, <3>2
  <2>5. CASE ~Doubles(s, quote, q) /\ ~Passes(s, quote, q)
    <3>1. At(s, q) = Eos \/ Closes(s, quote, q) \/ At(s, q) = "8bit"
      BY <2>5 DEF Doubles, Passes, Closes
    <3>2. (q < Len(s) => At(s, q) # Eos) /\ (~(q < Len(s)) => At(s, q) = Eos)
      BY <1>1, <2>1, AtFacts
    <3>3. CASE At(s, q) = Eos
      <4>1. q = Len(s) /\ R(q) = q
        BY <1>1, <3>2, <3>3, QuoteTurns
      <4> QED
        BY <2>1, <4>1 DEF StopsAt
    <3>4. CASE At(s, q) # Eos
      <4>1. q < Len(s)
        BY <3>2, <3>4
      <4>2. StopsAt(s, quote, q, R(q))
        BY <3>1, <3>4, <4>1, QuoteTurns DEF StopsAt
      <4> QED
        BY <2>1, <4>2
    <3> QED
      BY <3>3, <3>4
  <2> QED
    BY <2>3, <2>4, <2>5
<1>3. 0 .. Len(s) \subseteq T
  <2> HIDE DEF T
  <2> QED
    BY <1>1, <1>2, UpInduction
<1> QED
  BY <1>3

(* A run of quotes that ends with the n-th character has a start.          *)
LEMMA RunStart ==
  ASSUME NEW s \in CharText, NEW n \in 2 .. Len(s), s[n] = s[1]
  PROVE  \E i \in 2 .. n : (\A k \in i .. n : s[k] = s[1]) /\ (i = 2 \/ s[i-1] # s[1])
<1> DEFINE Start(i) == (\A k \in i .. n : s[k] = s[1]) /\ (i = 2 \/ s[i-1] # s[1])
           T == {m \in Nat : \A k \in n - m .. n : s[k] = s[1]}
<1>1. n \in Nat /\ n - 2 \in Nat
  BY DEF CharText
<1> SUFFICES ASSUME \A i \in 2 .. n : ~Start(i) PROVE FALSE
  OBVIOUS
<1>2. 0 \in T
  BY <1>1
<1>3. ASSUME NEW m \in 0 .. (n - 2) - 1, m \in T
      PROVE  m + 1 \in T
  <2>1. n - m \in 2 .. n /\ n - m # 2 /\ n - (m + 1) = (n - m) - 1
    BY <1>1
  <2>2. \A k \in n - m .. n : s[k] = s[1]
    BY <1>3
  <2>3. s[(n - m) - 1] = s[1]
    BY <2>1, <2>2
  <2>4. \A k \in (n - m) - 1 .. n : s[k] = s[1]
    BY <1>1, <2>1, <2>2, <2>3
  <2> QED
    BY <2>1, <2>4
<1>4. n - 2 \in T
  <2>1. n - 2 \in 0 .. n - 2
    BY <1>1
  <2> HIDE DEF T
  <2> QED
    BY <1>1, <1>2, <1>3, <2>1, DownInduction
<1>5. \A k \in 2 .. n : s[k] = s[1]
  <2>1. n - (n - 2) = 2
    BY <1>1
  <2> QED
    BY <1>4, <2>1
<1>6. 2 \in 2 .. n
  BY <1>1
<1> QED
  BY <1>5, <1>6

(* Behind the first character the loop leaves paired quotes only, and no   *)
(* character of 8 bits.                                                    *)
PairedUpTo(s) == {q \in 1 .. Len(s) : PairedQuotes(s, q + 1) /\ \A i \in 1 .. q : s[i] # "8bit"}

LEMMA PairedKept ==
  ASSUME NEW s \in CharText, NEW quote \in Quote, quote = s[1]
  PROVE  KeptByTurns(s, quote, PairedUpTo(s))
<1> DEFINE G == PairedUpTo(s)
<1>1. Len(s) \in Nat
  BY DEF CharText
<1> SUFFICES ASSUME NEW q \in 0 .. Len(s), q \in G
             PROVE  /\ Doubles(s, quote, q) => q + 2 \in G
                    /\ Passes(s, quote, q) => q + 1 \in G
  BY DEF KeptByTurns
<1>2. /\ q \in Nat /\ q + 1 \in Nat /\ q \in 1 .. Len(s)
      /\ PairedQuotes(s, q + 1) /\ \A i \in 1 .. q : s[i] # "8bit"
  BY <1>1 DEF PairedUpTo
<1> HIDE DEF G
<1>3. ASSUME Doubles(s, quote, q)
      PROVE  q + 2 \in G
  <2>1. quote # Eos /\ quote # "8bit"
    BY QuoteChars
  <2>2. q + 1 < Len(s) /\ q < Len(s)
    <3>1. q + 1 < Len(s)
      BY <1>2, <1>3, <2>1, InText DEF Doubles
    <3> QED
      BY <1>1, <1>2, <3>1
  <2>3. s[q + 1] = s[1] /\ s[q + 2] = s[1]
    <3>1. At(s, q) = s[q + 1]
      BY <1>2, <2>2, AtFacts
    <3>2. At(s, q + 1) = s[(q + 1) + 1]
      BY <1>2, <2>2, AtFacts
    <3>3. (q + 1) + 1 = q + 2
      BY <1>2
    <3> QED
      BY <1>3, <3>1, <3>2, <3>3 DEF Doubles
  <2>4. q + 2 \in 1 .. Len(s) /\ (q + 2) + 1 = q + 3
    BY <1>1, <1>2, <2>2
  <2>5. ASSUME NEW i \in 1 .. q + 2
        PROVE  s[i] # "8bit"
    <3>1. i \in 1 .. q \/ i = q + 1 \/ i = q + 2
      BY <1>2
    <3> QED
      BY <1>2, <2>1, <2>3, <3>1
  <2>6. PairedQuotes(s, q + 3)
    <3> SUFFICES ASSUME NEW i \in 2 .. (q + 3) - 1, NEW j \in i .. (q + 3) - 1,
                        \A k \in i .. j : s[k] = s[1], i = 2 \/ s[i-1] # s[1],
                        j = (q + 3) - 1 \/ s[j+1] # s[1]
                 PROVE  (j - i) % 2 = 1
      BY DEF PairedQuotes
    <3>1. i \in Nat /\ j \in Nat /\ (q + 3) - 1 = q + 2 /\ (q + 1) - 1 = q
      BY <1>2
    <3>2. CASE j <= q
      <4>1. j # q /\ j # q + 2
        BY <1>2, <2>3, <3>1, <3>2
      <4>2. i \in 2 .. (q + 1) - 1 /\ j \in i .. (q + 1) - 1
        BY <1>2, <3>1, <3>2
      <4> QED
        BY <1>2, <3>1, <4>1, <4>2 DEF PairedQuotes
    <3>3. CASE j = q + 1
      <4>1. j + 1 = q + 2 /\ j # q + 2
        BY <1>2, <3>3
      <4> QED
        BY <2>3, <3>1, <4>1
    <3>4. CASE j = q + 2
      <4>1. i # q + 2
        <5> SUFFICES ASSUME i = q + 2 PROVE FALSE
          OBVIOUS
        <5>1. i # 2 /\ i - 1 = q + 1
          BY <1>2
        <5> QED
          BY <2>3, <5>1
      <4>2. CASE i = q + 1
        <5>1. j - i = 1
          BY <1>2, <3>4, <4>2
        <5> QED
          BY <5>1
      <4>3. CASE i # q + 1
        <5>1. i \in 2 .. (q + 1) - 1 /\ q \in i .. (q + 1) - 1 /\ q = (q + 1) - 1
          BY <1>2, <3>1, <3>4, <4>1, <4>3
        <5>2. \A k \in i .. q : s[k] = s[1]
          BY <1>2, <3>1, <3>4
        <5>3. (q - i) % 2 = 1
          BY <1>2, <5>1, <5>2 DEF PairedQuotes
        <5>4. (j - i) % 2 = (q - i) % 2
          BY <1>2, <3>1, <3>4
        <5> QED
          BY <5>3, <5>4
      <4> QED
        BY <4>2, <4>3
    <3>5. j <= q \/ j = q + 1 \/ j = q + 2
      BY <1>2, <3>1
    <3> QED
      BY <3>2, <3>3, <3>4, <3>5
  <2> QED
    BY <2>4, <2>5, <2>6 DEF G, PairedUpTo
<1>4. ASSUME Passes(s, quote, q)
      PROVE  q + 1 \in G
  <2>1. At(s, q) # Eos
    BY <1>4 DEF Passes
  <2>2. q < Len(s)
    BY <1>2, <2>1, InText
  <2>3. s[q + 1] # s[1] /\ s[q + 1] # "8bit"
    <3>1. At(s, q) = s[q + 1]
      BY <1>2, <2>2, AtFacts
    <3> QED
      BY <1>4, <3>1 DEF Passes
  <2>4. q + 1 \in 1 .. Len(s) /\ (q + 1) + 1 = q + 2
    BY <1>1, <1>2, <2>2
  <2>5. ASSUME NEW i \in 1 .. q + 1
        PROVE  s[i] # "8bit"
    <3>1. i \in 1 .. q \/ i = q + 1
      BY <1>2
    <3> QED
      BY <1>2, <2>3, <3>1
  <2>6. PairedQuotes(s, q + 2)
    <3> SUFFICES ASSUME NEW i \in 2 .. (q + 2) - 1, NEW j \in i .. (q + 2) - 1,
                        \A k \in i .. j : s[k] = s[1], i = 2 \/ s[i-1] # s[1],
                        j = (q + 2) - 1 \/ s[j+1] # s[1]
                 PROVE  (j - i) % 2 = 1
      BY DEF PairedQuotes
    <3>1. i \in Nat /\ j \in Nat /\ (q + 2) - 1 = q + 1 /\ (q + 1) - 1 = q
      BY <1>2
    <3>2. j # q + 1
      BY <2>3, <3>1
    <3>3. i \in 2 .. (q + 1) - 1 /\ j \in i .. (q + 1) - 1
      BY <1>2, <3>1, <3>2
    <3> QED
      BY <1>2, <3>1, <3>2, <3>3 DEF PairedQuotes
  <2> QED
    BY <2>4, <2>5, <2>6 DEF G, PairedUpTo
<1> QED
  BY <1>3, <1>4

(* Where the loop has left paired quotes only, no string has ended.        *)
LEMMA NotEnded ==
  ASSUME NEW s \in CharText, NEW e \in PairedUpTo(s), NEW n \in StringEnds(s), n <= e
  PROVE  FALSE
<1>1. /\ Len(s) \in Nat /\ e \in 1 .. Len(s) /\ PairedQuotes(s, e + 1)
      /\ n \in 2 .. Len(s) /\ s[n] = s[1] /\ At(s, n) # s[1] /\ PairedQuotes(s, n)
  BY DEF PairedUpTo, StringEnds, CharText
<1>2. PICK i \in 2 .. n : (\A k \in i .. n : s[k] = s[1]) /\ (i = 2 \/ s[i-1] # s[1])
  BY <1>1, RunStart
<1>3. i \in Nat /\ n \in Nat /\ e \in Nat /\ (e + 1) - 1 = e
  BY <1>1
<1>4. n = e \/ s[n+1] # s[1]
  <2>1. CASE n < Len(s)
    <3>1. At(s, n) = s[n+1]
      BY <1>3, <2>1, AtFacts
    <3> QED
      BY <1>1, <3>1
  <2>2. CASE ~(n < Len(s))
    BY <1>1, <1>3, <2>2
  <2> QED
    BY <2>1, <2>2
<1>5. (n - i) % 2 = 1
  <2>1. i \in 2 .. (e + 1) - 1 /\ n \in i .. (e + 1) - 1
    BY <1>2, <1>3
  <2> QED
    BY <1>1, <1>2, <1>3, <1>4, <2>1 DEF PairedQuotes
<1>6. i # n
  BY <1>3, <1>5
<1>7. ((n - 1) - i) % 2 = 1
  <2>1. i \in 2 .. n - 1 /\ n - 1 \in i .. n - 1
    BY <1>2, <1>3, <1>6
  <2>2. \A k \in i .. n - 1 : s[k] = s[1]
    BY <1>2, <1>3
  <2> QED
    BY <1>1, <1>2, <2>1, <2>2 DEF PairedQuotes
<1> QED
  BY <1>3, <1>5, <1>7

(* A quoted string ends where StringEnds says, or there is none.           *)
LEMMA StringEndsFacts ==
  ASSUME NEW s \in CharText, s # <<>>, At(s, 0) \in Quote, NEW t, t = scpiLex_StringProgramData(s, 0)
  PROVE  IF StringEnds(s) # {} THEN t.len \in StringEnds(s)
         ELSE t.len = 0 /\ (t.type = "NEVER" <=> "8bit" \in Range(s))
<1> DEFINE quote == s[1]
           r == skipQuoteProgramData(s, 0 + 1, At(s, 0))
<1>1. Len(s) \in Nat /\ 0 < Len(s) /\ 1 \in 0 .. Len(s) /\ 0 \in Nat /\ 0 \in 0 .. Len(s)
  <2>1. Len(s) \in Nat /\ Len(s) # 0
    BY EmptySeq DEF CharText
  <2> QED
    BY <2>1
<1>2. At(s, 0) = s[1] /\ quote \in Quote /\ quote # Eos /\ quote # "8bit"
  <2>1. At(s, 0) = s[0 + 1] /\ 0 + 1 = 1
    BY <1>1, AtFacts
  <2> QED
    BY <2>1, QuoteChars
<1>3. 1 \in PairedUpTo(s)
  <2>1. PairedQuotes(s, 1 + 1)
    BY DEF PairedQuotes
  <2>2. \A i \in 1 .. 1 : s[i] # "8bit"
    BY <1>2
  <2> QED
    BY <1>1, <2>1, <2>2 DEF PairedUpTo
<1>4. PICK e \in 1 .. Len(s) : e \in PairedUpTo(s) /\ StopsAt(s, quote, e, r)
  <2>1. r = skipQuoteProgramData(s, 1, quote)
    BY <1>2
  <2>2. KeptByTurns(s, quote, PairedUpTo(s))
    BY <1>2, PairedKept
  <2> HIDE DEF r, quote
  <2> QED
    BY <1>1, <1>2, <1>3, <2>1, <2>2, QuoteScan
<1>5. t = IF r = Never THEN Token("NEVER", 0, 0, 0, 0)
          ELSE Found("QUOTE_PROGRAM_DATA", 0, IF r < Len(s) THEN r + 1 ELSE 0)
  <2>1. At(s, 0) \in Quote
    OBVIOUS
  <2> HIDE DEF r
  <2>2. t = CASE At(s, 0) \notin Quote -> Token("UNKNOWN", 0, 0, 0, 0)
              [] At(s, 0) \in Quote /\ r = Never -> Token("NEVER", 0, 0, 0, 0)
              [] At(s, 0) \in Quote /\ r # Never ->
                   Found("QUOTE_PROGRAM_DATA", 0, IF r < Len(s) THEN r + 1 ELSE 0)
    BY DEF scpiLex_StringProgramData, r
  <2> QED
    BY <2>1, <2>2
<1> HIDE DEF r
<1>6. /\ e \in Nat /\ e # Never /\ e \in 1 .. Len(s) /\ PairedQuotes(s, e + 1)
      /\ \A i \in 1 .. e : s[i] # "8bit"
  BY <1>1, <1>4 DEF PairedUpTo, Never
<1>7. ASSUME NEW n \in StringEnds(s)
      PROVE  n \in Nat /\ n > e
  <2>1. n \in Nat
    BY <1>1 DEF StringEnds
  <2>2. ~(n <= e)
    BY <1>4, NotEnded
  <2> QED
    BY <1>6, <2>1, <2>2
<1>8. CASE e < Len(s) /\ Closes(s, quote, e) /\ r = e
  <2>1. At(s, e) = s[e + 1] /\ s[e + 1] = quote /\ At(s, e + 1) # quote
    BY <1>6, <1>8, AtFacts DEF Closes
  <2>2. e + 1 \in 2 .. Len(s) /\ e + 1 \in 0 .. Len(s) /\ e + 1 > 0 /\ (e + 1) - 0 = e + 1
    BY <1>1, <1>6, <1>8
  <2>3. ASSUME NEW i \in 1 .. e + 1
        PROVE  s[i] # "8bit"
    <3>1. i \in 1 .. e \/ i = e + 1
      BY <1>6
    <3> QED
      BY <1>2, <1>6, <2>1, <3>1
  <2>4. e + 1 \in StringEnds(s)
    BY <1>6, <2>1, <2>2, <2>3 DEF StringEnds
  <2>5. t = Found("QUOTE_PROGRAM_DATA", 0, e + 1)
    BY <1>5, <1>6, <1>8
  <2>6. t.len = (e + 1) - 0
    BY <1>1, <2>2, <2>5, FoundFacts
  <2>7. StringEnds(s) # {} /\ t.len \in StringEnds(s)
    BY <2>2, <2>4, <2>6
  <2> QED
    BY <2>7
<1>9. CASE e = Len(s) /\ r = e
  <2>1. StringEnds(s) = {}
    <3> SUFFICES ASSUME NEW n \in StringEnds(s) PROVE FALSE
      OBVIOUS
    <3>1. n <= Len(s)
      BY <1>1 DEF StringEnds
    <3> QED
      BY <1>1, <1>7, <1>9, <3>1
  <2>2. t = Found("QUOTE_PROGRAM_DATA", 0, 0)
    BY <1>1, <1>5, <1>6, <1>9
  <2>3. t.len = 0 - 0 /\ t.type \in {"QUOTE_PROGRAM_DATA", "UNKNOWN"} /\ 0 - 0 = 0
    BY <1>1, <2>2, FoundFacts
  <2>4. "8bit" \notin Range(s)
    <3>1. DOMAIN s = 1 .. e
      BY <1>1, <1>9 DEF CharText
    <3> QED
      BY <1>6, <3>1 DEF Range
  <2>5. t.len = 0 /\ t.type # "NEVER"
    BY <2>3
  <2> QED
    BY <2>1, <2>4, <2>5
<1>10. CASE e < Len(s) /\ At(s, e) = "8bit" /\ r = Never
  <2>1. s[e + 1] = "8bit" /\ e + 1 \in 1 .. Len(s)
    <3>1. At(s, e) = s[e + 1]
      BY <1>6, <1>10, AtFacts
    <3> QED
      BY <1>1, <1>6, <1>10, <3>1
  <2>2. StringEnds(s) = {}
    <3> SUFFICES ASSUME NEW n \in StringEnds(s) PROVE FALSE
      OBVIOUS
    <3>1. \A i \in 1 .. n : s[i] # "8bit"
      BY DEF StringEnds
    <3>2. e + 1 \in 1 .. n
      BY <1>6, <1>7
    <3> QED
      BY <2>1, <3>1, <3>2
  <2>3. t = Token("NEVER", 0, 0, 0, 0)
    BY <1>5, <1>10
  <2>4. t.len = 0 /\ t.type = "NEVER"
    BY <2>3, TokenFacts
  <2>5. "8bit" \in Range(s)
    <3>1. DOMAIN s = 1 .. Len(s)
      BY DEF CharText
    <3> QED
      BY <2>1, <3>1 DEF Range
  <2> QED
    BY <2>2, <2>4, <2>5
<1> QED
  BY <1>4, <1>8, <1>9, <1>10 DEF StopsAt

(* The loop over a string alone goes as it does over the text it is part   *)
(* of.                                                                     *)
StringIn(s, quote, a, e, w) ==
  /\ e \in a + 1 .. Len(s) - 1 /\ skipQuoteProgramData(s, a + 1, quote) = e
  /\ w = SubSeq(s, a + 1, e + 1)

(* It ends at the same quote.                                              *)
LEMMA ScanPart ==
  ASSUME NEW s \in CharText, NEW quote \in Quote, NEW a \in Nat, NEW e, NEW w, StringIn(s, quote, a, e, w)
  PROVE  /\ w \in CharText /\ Len(w) = (e + 1) - a
         /\ \A i \in 0 .. e - a : At(w, i) = At(s, a + i)
         /\ skipQuoteProgramData(w, 1, quote) = e - a
<1>0. /\ e \in a + 1 .. Len(s) - 1 /\ skipQuoteProgramData(s, a + 1, quote) = e
      /\ w = SubSeq(s, a + 1, e + 1)
  BY DEF StringIn
<1> DEFINE R(q) == skipQuoteProgramData(s, q, quote)
           W(q) == skipQuoteProgramData(w, q, quote)
           T == {q \in 0 .. Len(s) : (q \in a + 1 .. e /\ R(q) = e) => W(q - a) = e - a}
<1>1. Len(s) \in Nat /\ e \in Nat /\ e + 1 \in 0 .. Len(s) /\ a \in 0 .. e + 1 /\ e > a
  BY <1>0 DEF CharText
<1>2. w \in CharText /\ Len(w) = (e + 1) - a /\ \A i \in 1 .. (e + 1) - a : w[i] = s[a + i]
  <2>1. ASSUME NEW i \in a + 1 .. e + 1
        PROVE  s[i] \in Char
    <3>1. i \in 1 .. Len(s)
      BY <1>1
    <3> QED
      BY <3>1, ElementOfSeq DEF CharText
  <2>2. w \in Seq(Char) /\ Len(w) = (e + 1) - a /\ \A i \in 1 .. (e + 1) - a : w[i] = s[a + i]
    BY <1>0, <1>1, <2>1, PartFacts
  <2> QED
    BY <2>2 DEF CharText
<1>3. ASSUME NEW i \in 0 .. e - a
      PROVE  At(w, i) = At(s, a + i)
  <2>1. /\ i \in Nat /\ i < Len(w) /\ a + i \in Nat /\ a + i < Len(s) /\ i + 1 \in 1 .. (e + 1) - a
        /\ (a + i) + 1 = a + (i + 1)
    BY <1>1, <1>2
  <2>2. At(w, i) = w[i + 1] /\ At(s, a + i) = s[(a + i) + 1]
    BY <1>2, <2>1, AtFacts
  <2> QED
    BY <1>2, <2>1, <2>2
<1>4. At(w, (e - a) + 1) = Eos
  <2>1. (e - a) + 1 \in Nat /\ (e - a) + 1 >= Len(w)
    BY <1>1, <1>2
  <2> QED
    BY <1>2, <2>1, AtFacts
<1>5. quote # Eos /\ quote # "8bit"
  BY QuoteChars
<1>6. ASSUME NEW q \in 0 .. Len(s), \A r \in q + 1 .. Len(s) : r \in T
      PROVE  q \in T
  <2> SUFFICES ASSUME q \in a + 1 .. e, R(q) = e
               PROVE  W(q - a) = e - a
    OBVIOUS
  <2> DEFINE k == q - a
  <2>1. /\ q \in Nat /\ k \in 0 .. e - a /\ a + k = q /\ k \in 0 .. Len(w)
        /\ (k < e - a => k + 1 \in 0 .. e - a /\ a + (k + 1) = q + 1)
    BY <1>1, <1>2
  <2>2. At(w, k) = At(s, q) /\ (k < e - a => At(w, k + 1) = At(s, q + 1))
    <3> HIDE DEF k
    <3>1. At(w, k) = At(s, q)
      BY <1>3, <2>1
    <3>2. k < e - a => At(w, k + 1) = At(s, q + 1)
      BY <1>3, <2>1
    <3> QED
      BY <3>1, <3>2
  <2>3. \E f \in q .. Len(s) : StopsAt(s, quote, f, R(q))
    <3>1. KeptByTurns(s, quote, Nat) /\ q \in Nat
      BY <1>1 DEF KeptByTurns
    <3>2. \E f \in q .. Len(s) : f \in Nat /\ StopsAt(s, quote, f, R(q))
      BY <3>1, QuoteScan
    <3> QED
      BY <3>2
  <2>4. ASSUME NEW m \in q + 1 .. Len(s), R(m) = e
        PROVE  m \in a + 1 .. e /\ W(m - a) = e - a
    <3>1. m \in 0 .. Len(s) /\ m \in Nat
      BY <1>1, <2>1
    <3>2. KeptByTurns(s, quote, Nat)
      BY <1>1 DEF KeptByTurns
    <3>3. PICK f \in m .. Len(s) : f \in Nat /\ StopsAt(s, quote, f, R(m))
      BY <3>1, <3>2, QuoteScan
    <3>4. f = e
      BY <1>1, <2>4, <3>3 DEF StopsAt, Never
    <3>5. m \in a + 1 .. e
      BY <1>1, <2>1, <3>1, <3>3, <3>4
    <3> QED
      BY <1>6, <2>4, <3>5
  <2>5. CASE Doubles(s, quote, q)
    <3>1. q + 2 \in 0 .. Len(s) /\ R(q) = R(q + 2)
      BY <2>5, QuoteTurns
    <3>2. q + 2 \in q + 1 .. Len(s) /\ R(q + 2) = e
      BY <2>1, <3>1
    <3>3. q + 2 \in a + 1 .. e /\ W((q + 2) - a) = e - a
      BY <2>4, <3>2
    <3>4. k < e - a /\ (q + 2) - a = k + 2
      BY <1>1, <2>1, <3>3
    <3>5. Doubles(w, quote, k)
      BY <2>2, <2>5, <3>4 DEF Doubles
    <3> HIDE DEF k
    <3>6. W(k) = W(k + 2)
      BY <1>2, <2>1, <3>5, QuoteTurns
    <3> QED
      BY <3>3, <3>4, <3>6 DEF k
  <2>6. CASE Passes(s, quote, q)
    <3>1. q + 1 \in 0 .. Len(s) /\ R(q) = R(q + 1)
      BY <2>6, QuoteTurns
    <3>2. q + 1 \in q + 1 .. Len(s) /\ R(q + 1) = e
      BY <2>1, <3>1
    <3>3. q + 1 \in a + 1 .. e /\ W((q + 1) - a) = e - a
      BY <2>4, <3>2
    <3>4. (q + 1) - a = k + 1
      BY <1>1, <2>1, <3>3
    <3>5. Passes(w, quote, k)
      BY <2>2, <2>6 DEF Passes
    <3> HIDE DEF k
    <3>6. W(k) = W(k + 1)
      BY <1>2, <2>1, <3>5, QuoteTurns
    <3> QED
      BY <3>3, <3>4, <3>6 DEF k
  <2>7. CASE ~Doubles(s, quote, q) /\ ~Passes(s, quote, q)
    <3>1. At(s, q) = Eos \/ Closes(s, quote, q) \/ At(s, q) = "8bit"
      BY <2>7 DEF Doubles, Passes, Closes
    <3>2. At(s, q) # Eos /\ At(s, q) # "8bit"
      <4>1. q < Len(s)
        BY <1>1, <2>1
      <4>2. At(s, q) # Eos
        BY <2>1, <4>1, AtFacts
      <4>3. e # Never
        BY <1>1 DEF Never
      <4> QED
        BY <4>2, <4>3, QuoteTurns
    <3>3. q = e /\ At(s, q) = quote
      BY <3>1, <3>2, QuoteTurns DEF Closes
    <3>4. k = e - a /\ At(w, k + 1) = Eos
      BY <1>4, <3>3
    <3>5. Closes(w, quote, k)
      BY <1>5, <2>2, <3>3, <3>4 DEF Closes
    <3> HIDE DEF k
    <3>6. W(k) = k
      BY <1>2, <2>1, <3>5, QuoteTurns
    <3> QED
      BY <3>4, <3>6 DEF k
  <2> QED
    BY <2>5, <2>6, <2>7
<1>7. 0 .. Len(s) \subseteq T
  <2> HIDE DEF T
  <2> QED
    BY <1>1, <1>6, UpInduction
<1>8. a + 1 \in 0 .. Len(s) /\ a + 1 \in a + 1 .. e /\ (a + 1) - a = 1
  BY <1>1
<1>9. W(1) = e - a
  BY <1>0, <1>7, <1>8
<1> QED
  BY <1>2, <1>3, <1>9

(* A quoted string, of which the loop over its characters leaves only the  *)
(* last quote.                                                             *)
Quoted(w) ==
  /\ w \in CharText /\ Len(w) >= 2 /\ w[1] \in Quote
  /\ skipQuoteProgramData(w, 1, w[1]) = Len(w) - 1

(* A string is a token of the text, and quoted.                            *)
LEMMA StringFacts ==
  ASSUME NEW s \in CharText, NEW p \in 0 .. Len(s), NEW t, t = scpiLex_StringProgramData(s, p)
  PROVE  /\ Spans(s, p, t)
         /\ t.type = "QUOTE_PROGRAM_DATA" => Quoted(SubSeq(s, t.ptr + 1, t.ptr + t.len))
<1> DEFINE quote == At(s, p)
           r == skipQuoteProgramData(s, p + 1, quote)
           f == IF r < Len(s) THEN r + 1 ELSE p
<1>1. p \in Nat /\ Len(s) \in Nat /\ p \in p .. Len(s)
  BY DEF CharText
<1>2. t = CASE quote \notin Quote -> Token("UNKNOWN", p, 0, p, 0)
            [] quote \in Quote /\ r = Never -> Token("NEVER", p, 0, p, 0)
            [] quote \in Quote /\ r # Never -> Found("QUOTE_PROGRAM_DATA", p, f)
  BY DEF scpiLex_StringProgramData
<1> HIDE DEF r, f
<1>3. CASE quote \notin Quote
  <2>1. t = Token("UNKNOWN", p, 0, p, 0)
    BY <1>2, <1>3
  <2>2. t.type = "UNKNOWN"
    BY <2>1, TokenFacts
  <2> QED
    BY <1>1, <2>1, <2>2, NoTokenFacts
<1>4. CASE quote \in Quote /\ r = Never
  <2>1. t = Token("NEVER", p, 0, p, 0)
    BY <1>2, <1>4
  <2>2. t.type = "NEVER"
    BY <2>1, TokenFacts
  <2> QED
    BY <1>1, <2>1, <2>2, NoTokenFacts
<1>5. CASE quote \in Quote /\ r # Never
  <2>1. t = Found("QUOTE_PROGRAM_DATA", p, f)
    BY <1>2, <1>5
  <2>2. quote # Eos
    BY <1>5, QuoteChars
  <2>3. p < Len(s) /\ p + 1 \in 0 .. Len(s) /\ p + 1 \in Nat
    BY <1>1, <2>2, InText
  <2>4. PICK e \in p + 1 .. Len(s) : StopsAt(s, quote, e, r)
    <3>1. KeptByTurns(s, quote, Nat)
      BY <1>1 DEF KeptByTurns
    <3> HIDE DEF quote
    <3> QED
      BY <1>5, <2>3, <3>1, QuoteScan DEF r
  <2>5. r = e /\ e \in Nat
    BY <1>1, <1>5, <2>4 DEF StopsAt
  <2>6. CASE r < Len(s)
    <3>1. f = e + 1 /\ f \in p .. Len(s) /\ f > p /\ e \in p + 1 .. Len(s) - 1
      BY <1>1, <2>4, <2>5, <2>6 DEF f
    <3>2. Spans(s, p, t) /\ t.ptr = p /\ t.len = f - p
      BY <2>1, <3>1, FoundFacts
    <3>3. t.ptr + t.len = e + 1
      BY <1>1, <2>5, <3>1, <3>2
    <3> DEFINE w == SubSeq(s, p + 1, e + 1)
    <3>4. skipQuoteProgramData(s, p + 1, quote) = e /\ p + 1 \in p + 1 .. e
      BY <2>3, <2>5, <3>1 DEF r
    <3>5. /\ w \in CharText /\ Len(w) = (e + 1) - p
          /\ \A i \in 0 .. e - p : At(w, i) = At(s, p + i)
          /\ skipQuoteProgramData(w, 1, quote) = e - p
      <4>1. StringIn(s, quote, p, e, w)
        BY <3>1, <3>4 DEF StringIn
      <4> HIDE DEF quote, w
      <4> QED
        BY <1>1, <1>5, <4>1, ScanPart
    <3>6. /\ Len(w) - 1 = e - p /\ Len(w) >= 2
          /\ 0 \in 0 .. e - p /\ p + 0 = p /\ 0 < Len(w)
      BY <1>1, <2>5, <3>1, <3>5
    <3>7. w[1] = quote
      <4> HIDE DEF w
      <4>1. At(w, 0) = w[0 + 1] /\ 0 + 1 = 1
        BY <3>5, <3>6, AtFacts
      <4>2. At(w, 0) = At(s, p)
        BY <3>5, <3>6
      <4> QED
        BY <4>1, <4>2
    <3>8. Quoted(w)
      <4> HIDE DEF w
      <4> QED
        BY <1>5, <3>5, <3>6, <3>7 DEF Quoted
    <3> QED
      BY <3>2, <3>3, <3>8
  <2>7. CASE ~(r < Len(s))
    <3>1. f = p
      BY <2>7 DEF f
    <3>2. t = Token("UNKNOWN", p, 0, p, 0)
      BY <1>1, <2>1, <3>1 DEF Found
    <3>3. t.type = "UNKNOWN"
      BY <3>2, TokenFacts
    <3> QED
      BY <1>1, <3>2, <3>3, NoTokenFacts
  <2> QED
    BY <2>6, <2>7
<1> QED
  BY <1>3, <1>4, <1>5

(* Program data: a token of the text and, if it is a string, quoted.       *)
IsData(s, p, t) ==
  Spans(s, p, t) /\ (t.type = "QUOTE_PROGRAM_DATA" => Quoted(SubSeq(s, t.ptr + 1, t.ptr + t.len)))

(* The alternatives scpiParser_parseProgramData tries at a, and the one it *)
(* takes.                                                                  *)
Alternatives(s, a) ==
  <<scpiLex_NondecimalNumericData(s, a), scpiLex_CharacterProgramData(s, a),
    NumberWithSuffix(s, a), scpiLex_StringProgramData(s, a),
    scpiLex_ArbitraryBlockProgramData(s, a), scpiLex_ProgramExpression(s, a)>>
Apply(s, a) ==
  {i \in DOMAIN Alternatives(s, a) : Alternatives(s, a)[i].type # "UNKNOWN" \/ Alternatives(s, a)[i].pos > a}
FirstOf(s, a) ==
  IF Apply(s, a) = {} THEN Token("UNKNOWN", a, 0, a, 0)
  ELSE Alternatives(s, a)[CHOOSE i \in Apply(s, a) : \A j \in Apply(s, a) : i <= j]

(* It is the first one that applies.                                       *)
LEMMA FirstIsLeast ==
  ASSUME NEW s, NEW a, Apply(s, a) # {}
  PROVE  \E k \in Apply(s, a) : (\A j \in Apply(s, a) : k <= j) /\ FirstOf(s, a) = Alternatives(s, a)[k]
<1> DEFINE First(i) == \A j \in Apply(s, a) : i <= j
           k == CHOOSE i \in Apply(s, a) : First(i)
<1>1. FirstOf(s, a) = Alternatives(s, a)[k]
  BY DEF FirstOf
<1>2. \E i \in Apply(s, a) : First(i)
  <2>1. Apply(s, a) \subseteq 1 .. 6
    BY DEF Apply, Alternatives
  <2>2. PICK i \in Apply(s, a) : TRUE
    OBVIOUS
  <2>3. i = 1 \/ i = 2 \/ i = 3 \/ i = 4 \/ i = 5 \/ i = 6
    BY <2>1, <2>2
  <2>4. \/ 1 \in Apply(s, a) \/ 2 \in Apply(s, a) \/ 3 \in Apply(s, a)
        \/ 4 \in Apply(s, a) \/ 5 \in Apply(s, a) \/ 6 \in Apply(s, a)
    BY <2>2, <2>3
  <2> QED
    BY <2>1, <2>4
<1>3. k \in Apply(s, a) /\ First(k)
  <2> HIDE DEF First
  <2> QED
    BY <1>2
<1> HIDE DEF k
<1> QED
  BY <1>1, <1>3

(* What is taken is data.                                                  *)
LEMMA FirstFacts ==
  ASSUME NEW s \in CharText, NEW a \in 0 .. Len(s), NEW x, x = FirstOf(s, a)
  PROVE  IsData(s, a, x)
<1> DEFINE Tried == Alternatives(s, a)
<1>0. a \in Nat /\ Len(s) \in Nat /\ a \in a .. Len(s)
  BY DEF CharText
<1>1. \A i \in 1 .. 6 : IsData(s, a, Tried[i])
  <2>1. IsData(s, a, Tried[1])
    <3>1. Spans(s, a, Tried[1]) /\ Tried[1].type \in {"HEXNUM", "OCTNUM", "BINNUM", "UNKNOWN"}
      BY NondecimalFacts DEF Alternatives
    <3> QED
      BY <3>1 DEF IsData
  <2>2. IsData(s, a, Tried[2])
    <3>1. Spans(s, a, Tried[2]) /\ Tried[2].type \in {"PROGRAM_MNEMONIC", "UNKNOWN"}
      BY CharacterFacts DEF Alternatives
    <3> QED
      BY <3>1 DEF IsData
  <2>3. IsData(s, a, Tried[3])
    <3>1. Spans(s, a, Tried[3]) /\ Tried[3].type # "QUOTE_PROGRAM_DATA"
      BY WithSuffixFacts DEF Alternatives
    <3> QED
      BY <3>1 DEF IsData
  <2>4. IsData(s, a, Tried[4])
    BY StringFacts DEF IsData, Alternatives
  <2>5. IsData(s, a, Tried[5])
    <3>1. Spans(s, a, Tried[5]) /\ Tried[5].type \in {"ARBITRARY_BLOCK_PROGRAM_DATA", "UNKNOWN"}
      BY BlockFacts DEF Alternatives
    <3> QED
      BY <3>1 DEF IsData
  <2>6. IsData(s, a, Tried[6])
    <3>1. Spans(s, a, Tried[6]) /\ Tried[6].type \in {"PROGRAM_EXPRESSION", "UNKNOWN"}
      BY ExpressionFacts DEF Alternatives
    <3> QED
      BY <3>1 DEF IsData
  <2> HIDE DEF Tried
  <2> QED
    BY <2>1, <2>2, <2>3, <2>4, <2>5, <2>6
<1>2. CASE Apply(s, a) = {}
  <2>1. x = Token("UNKNOWN", a, 0, a, 0)
    BY <1>2 DEF FirstOf
  <2>2. Spans(s, a, x)
    BY <1>0, <2>1, NoTokenFacts
  <2>3. x.type = "UNKNOWN"
    BY <2>1, TokenFacts
  <2> QED
    BY <2>2, <2>3 DEF IsData
<1>3. CASE Apply(s, a) # {}
  <2>1. PICK k \in Apply(s, a) : x = Tried[k]
    BY <1>3, FirstIsLeast
  <2>2. k \in 1 .. 6
    BY DEF Apply, Alternatives
  <2> HIDE DEF Tried
  <2> QED
    BY <1>1, <2>1, <2>2
<1> QED
  BY <1>2, <1>3

(* t is the token x, found at a, with the white space around it.           *)
Around(s, p, t, a, x) ==
  /\ a \in p .. Len(s) /\ a \in 0 .. Len(s) /\ IsData(s, a, x)
  /\ t.type = x.type /\ t.ptr = x.ptr /\ t.len = x.len /\ t.pos = skipWs(s, x.pos)
  /\ Spans(s, p, t)

(* What scpiParser_parseProgramData returns is what it takes, with the     *)
(* white space around it.                                                  *)
LEMMA TakenIsFirst ==
  ASSUME NEW s \in CharText, NEW p \in 0 .. Len(s), NEW t, t = scpiParser_parseProgramData(s, p),
         NEW a, a = skipWs(s, p), NEW x, x = FirstOf(s, a)
  PROVE  Around(s, p, t, a, x)
<1> DEFINE b == skipWs(s, x.pos)
<1>1. p \in Nat /\ Len(s) \in Nat /\ a \in p .. Len(s)
  BY SkipWsFacts DEF CharText
<1>2. t = [x EXCEPT !.pos = b, !.ret = x.ret + (a - p) + (b - x.pos)]
  <2> DEFINE A == skipWs(s, p)
             F == FirstOf(s, A)
             B == skipWs(s, F.pos)
  <2>1. t = [F EXCEPT !.pos = B, !.ret = F.ret + (A - p) + (B - F.pos)]
    BY DEF scpiParser_parseProgramData, FirstOf, Alternatives, Apply
  <2> QED
    BY <2>1
<1>3. a \in 0 .. Len(s) /\ a \in Nat /\ a \in a .. Len(s)
  BY <1>1
<1>4. IsData(s, a, x)
  BY <1>3, FirstFacts
<1>5. /\ Spans(s, a, x) /\ x.pos \in a .. Len(s) /\ x.ptr \in a .. x.pos /\ x.len \in Nat
      /\ x.ptr + x.len <= x.pos /\ x.ret \in 0 .. x.pos - a /\ x = Token(x.type, x.ptr, x.len, x.pos, x.ret)
      /\ (x.type \in {"UNKNOWN", "NEVER"} \/ x.ret > 0)
  BY <1>4 DEF IsData, Spans
<1>6. x.pos \in 0 .. Len(s) /\ x.pos \in Nat /\ x.ptr \in Nat
  BY <1>1, <1>3, <1>5
<1>7. b \in x.pos .. Len(s)
  BY <1>6, SkipWsFacts
<1> HIDE DEF b
<1> DEFINE n == x.ret + (a - p) + (b - x.pos)
<1>8. t = Token(x.type, x.ptr, x.len, b, n)
  <2>1. t = [x EXCEPT !.pos = b, !.ret = n]
    BY <1>2
  <2> HIDE DEF n
  <2> QED
    BY <1>5, <2>1 DEF Token
<1>9. n \in 0 .. b - p /\ (x.type \in {"UNKNOWN", "NEVER"} \/ n > 0)
  <2> DEFINE k == x.ret
  <2>1. k \in Nat /\ k <= x.pos - a /\ (x.type \in {"UNKNOWN", "NEVER"} \/ k > 0)
    BY <1>3, <1>5, <1>6
  <2>2. a >= p /\ b >= x.pos /\ b \in Nat
    BY <1>1, <1>6, <1>7
  <2> HIDE DEF k
  <2> DEFINE y == x.pos
             m == k + (a - p) + (b - y)
  <2>3. y \in Nat /\ k <= y - a /\ b >= y
    BY <1>6, <2>1, <2>2
  <2> HIDE DEF y
  <2>4. m \in 0 .. b - p /\ m >= k
    BY <1>1, <1>3, <2>1, <2>2, <2>3
  <2>5. m = n
    BY DEF k, y
  <2> HIDE DEF m, n
  <2> QED
    BY <2>1, <2>4, <2>5
<1> HIDE DEF n
<1>10. /\ t.type = x.type /\ t.ptr = x.ptr /\ t.len = x.len /\ t.pos = b /\ t.ret = n
       /\ t = Token(t.type, t.ptr, t.len, t.pos, t.ret)
  BY <1>8, TokenFacts
<1>11. Spans(s, p, t)
  <2>1. t.pos \in p .. Len(s) /\ t.ptr \in p .. t.pos /\ t.len \in Nat /\ t.ptr + t.len <= t.pos
    BY <1>1, <1>3, <1>5, <1>6, <1>7, <1>10
  <2> QED
    BY <1>9, <1>10, <2>1 DEF Spans
<1> QED
  BY <1>1, <1>3, <1>4, <1>10, <1>11 DEF b, Around

(* So it is data.                                                          *)
LEMMA ProgramDataFacts ==
  ASSUME NEW s \in CharText, NEW p \in 0 .. Len(s), NEW t, t = scpiParser_parseProgramData(s, p)
  PROVE  IsData(s, p, t)
<1> DEFINE a == skipWs(s, p)
           x == FirstOf(s, a)
<1>1. Around(s, p, t, a, x)
  BY TakenIsFirst
<1> HIDE DEF a, x
<1> QED
  BY <1>1 DEF IsData, Around

(* What parseAllProgramData returns, how it adds a parameter and its comma *)
(* to the result for the parameters behind them, and what it returns for a *)
(* parameter with nothing behind it.                                       *)
Data(type, len, n, at) == [type |-> type, len |-> len, count |-> n, pos |-> at]
Datas == [type : {"NEVER", "UNKNOWN", "ALL_PROGRAM_DATA"}, len : Int, count : Int, pos : Int]
AndData(t, rest) ==
  IF rest.type = "ALL_PROGRAM_DATA"
  THEN [rest EXCEPT !.len = t.ret + 1 + @, !.count = @ + 1] ELSE rest
LastData(q, t) ==
  IF t.type = "NEVER" THEN Data("NEVER", 0, 0, q)
  ELSE IF t.type = "UNKNOWN" THEN Data("UNKNOWN", 0, -1, t.pos)
  ELSE Data("ALL_PROGRAM_DATA", t.ret, 1, t.pos)

(* The sum of two results is a result.                                     *)
LEMMA AndDataFacts ==
  ASSUME NEW t, t.ret \in Int, NEW rest \in Datas, NEW d, d = AndData(t, rest)
  PROVE  /\ d \in Datas /\ d.pos = rest.pos /\ d.type = rest.type
         /\ rest.type = "ALL_PROGRAM_DATA" => d.len = t.ret + 1 + rest.len /\ d.count = rest.count + 1
         /\ rest.type # "ALL_PROGRAM_DATA" => d = rest
<1>1. CASE rest.type = "ALL_PROGRAM_DATA"
  <2> DEFINE n == t.ret + 1 + rest.len
             m == rest.count + 1
  <2>1. n \in Int /\ m \in Int
    BY DEF Datas
  <2>2. d = [rest EXCEPT !.len = n, !.count = m]
    BY <1>1 DEF AndData
  <2> HIDE DEF n, m
  <2>3. d = Data(rest.type, n, m, rest.pos)
    BY <2>2 DEF Datas, Data
  <2>4. d \in Datas /\ d.pos = rest.pos /\ d.len = n /\ d.count = m /\ d.type = rest.type
    BY <1>1, <2>1, <2>3 DEF Datas, Data
  <2> QED
    BY <1>1, <2>4 DEF n, m
<1>2. CASE rest.type # "ALL_PROGRAM_DATA"
  BY <1>2 DEF AndData
<1> QED
  BY <1>1, <1>2

(* The result for the last parameter is inside the text.                   *)
LEMMA LastDataFacts ==
  ASSUME NEW s \in CharText, NEW q \in 0 .. Len(s), NEW t, Spans(s, q, t), NEW d, d = LastData(q, t)
  PROVE  /\ d \in Datas /\ d.pos \in q .. Len(s) /\ d.len \in 0 .. d.pos - q
         /\ d.type = "ALL_PROGRAM_DATA" => d.len > 0 /\ d.count = 1 /\ d.pos = t.pos
         /\ d.type = "UNKNOWN" => d.len = 0 /\ d.count = -1
         /\ d.type = "NEVER" => d.len = 0
         /\ d.type = "ALL_PROGRAM_DATA" <=> t.type \notin {"NEVER", "UNKNOWN"}
<1> DEFINE x == t.pos
           n == t.ret
<1>1. /\ x \in q .. Len(s) /\ n \in 0 .. x - q /\ q \in Nat /\ x \in Nat /\ n \in Nat /\ q \in q .. Len(s)
      /\ (t.type \in {"UNKNOWN", "NEVER"} \/ n > 0)
  BY DEF Spans, CharText
<1> HIDE DEF x, n
<1>2. CASE t.type = "NEVER"
  <2>1. d = Data("NEVER", 0, 0, q)
    BY <1>2 DEF LastData
  <2>2. d.type = "NEVER" /\ d.len = 0 /\ d.pos = q /\ d \in Datas
    BY <1>1, <2>1 DEF Data, Datas
  <2> QED
    BY <1>1, <1>2, <2>2
<1>3. CASE t.type = "UNKNOWN"
  <2>1. d = Data("UNKNOWN", 0, -1, x)
    BY <1>3 DEF LastData, x
  <2>2. d.type = "UNKNOWN" /\ d.len = 0 /\ d.pos = x /\ d.count = -1 /\ d \in Datas
    BY <1>1, <2>1 DEF Data, Datas
  <2> QED
    BY <1>1, <1>3, <2>2
<1>4. CASE t.type \notin {"NEVER", "UNKNOWN"}
  <2>1. d = Data("ALL_PROGRAM_DATA", n, 1, x)
    BY <1>4 DEF LastData, x, n
  <2>2. d.type = "ALL_PROGRAM_DATA" /\ d.len = n /\ d.pos = x /\ d.count = 1 /\ d \in Datas
    BY <1>1, <2>1 DEF Data, Datas
  <2> QED
    BY <1>1, <1>4, <2>2 DEF x
<1> QED
  BY <1>2, <1>3, <1>4

(* One turn of parseAllProgramData.                                        *)
LEMMA AllDataTurn ==
  ASSUME NEW s \in CharText, NEW p \in 0 .. Len(s), NEW t, t = scpiParser_parseProgramData(s, p)
  PROVE  IF t.type \notin {"NEVER", "UNKNOWN"} /\ At(s, t.pos) = Comma
         THEN t.pos + 1 \in p + 1 .. Len(s) /\ AllData(s, p) = AndData(t, AllData(s, t.pos + 1))
         ELSE AllData(s, p) = LastData(p, t)
<1> DEFINE D == 0 .. Len(s)
           P(q) == scpiParser_parseProgramData(s, q)
           More(q) == P(q).type \notin {"NEVER", "UNKNOWN"} /\ At(s, P(q).pos) = Comma
           Nx(q) == P(q).pos + 1
           Val(q) == LastData(q, P(q))
           Body(g, q) == CASE P(q).type = "NEVER" -> [type |-> "NEVER", len |-> 0, count |-> 0, pos |-> q]
                           [] P(q).type = "UNKNOWN" -> [type |-> "UNKNOWN", len |-> 0, count |-> -1, pos |-> P(q).pos]
                           [] P(q).type \notin {"NEVER", "UNKNOWN"} /\ At(s, P(q).pos) = Comma ->
                                AndData(P(q), g[P(q).pos + 1])
                           [] OTHER -> [type |-> "ALL_PROGRAM_DATA", len |-> P(q).ret, count |-> 1, pos |-> P(q).pos]
           A(f) == f = [q \in D |-> Body(f, q)]
           all == CHOOSE f : A(f)
<1>1. Len(s) \in Nat /\ Comma # Eos
  <2>1. Comma # Eos
    BY Zenon DEF Comma, Eos
  <2> QED
    BY <2>1 DEF CharText
<1>2. \A g, q : Body(g, q) = IF More(q) THEN AndData(P(q), g[Nx(q)]) ELSE Val(q)
  <2> SUFFICES ASSUME NEW g, NEW q
               PROVE  Body(g, q) = IF More(q) THEN AndData(P(q), g[Nx(q)]) ELSE Val(q)
    OBVIOUS
  <2> DEFINE y == P(q)
  <2> HIDE DEF P
  <2>1. CASE y.type = "NEVER"
    BY <2>1 DEF Data, LastData
  <2>2. CASE y.type = "UNKNOWN"
    BY <2>2 DEF Data, LastData
  <2>3. CASE y.type \notin {"NEVER", "UNKNOWN"} /\ At(s, y.pos) = Comma
    BY <2>3 DEF Data, LastData
  <2>4. CASE y.type \notin {"NEVER", "UNKNOWN"} /\ At(s, y.pos) # Comma
    BY <2>4 DEF Data, LastData
  <2> QED
    BY <2>1, <2>2, <2>3, <2>4
<1>3. \A q : AllData(s, q) = all[q]
  BY DEF AllData, AndData
<1>4. ASSUME NEW q \in D
      PROVE  Spans(s, q, P(q))
  <2>1. IsData(s, q, P(q))
    BY ProgramDataFacts
  <2> HIDE DEF P
  <2> QED
    BY <2>1 DEF IsData
<1>5. t = P(p)
  OBVIOUS
<1> HIDE DEF P
<1>6. ASSUME NEW q \in D, More(q)
      PROVE  Nx(q) \in q + 1 .. Len(s) /\ Nx(q) \in D
  <2>1. P(q).pos \in Nat /\ q \in Nat /\ P(q).pos >= q
    BY <1>1, <1>4 DEF Spans
  <2>2. P(q).pos + 1 \in 0 .. Len(s)
    <3> DEFINE x == P(q).pos
    <3>1. At(s, x) # Eos
      BY <1>1, <1>6
    <3> HIDE DEF x
    <3>2. x + 1 \in 0 .. Len(s)
      BY <2>1, <3>1, InText DEF x
    <3> QED
      BY <3>2 DEF x
  <2> QED
    BY <1>1, <2>1, <2>2
<1>7. ASSUME NEW q \in D
      PROVE  Val(q) \in Datas /\ P(q).ret \in Int
  <2>1. Val(q) \in Datas
    BY <1>4, LastDataFacts
  <2>2. P(q).ret \in Int
    BY <1>1, <1>4 DEF Spans
  <2> QED
    BY <2>1, <2>2
<1>8. \A f : A(f) <=> f = [q \in D |-> IF More(q) THEN AndData(P(q), f[Nx(q)]) ELSE Val(q)]
  <2> SUFFICES ASSUME NEW f
               PROVE  [q \in D |-> Body(f, q)] = [q \in D |-> IF More(q) THEN AndData(P(q), f[Nx(q)]) ELSE Val(q)]
    OBVIOUS
  <2> HIDE DEF Body, More, Nx, Val
  <2> QED
    BY <1>2
<1> HIDE DEF More, Nx, Val, A
<1>9. \E f : A(f)
  <2> DEFINE B == [g \in [D -> Datas] |-> [q \in D |-> IF More(q) THEN AndData(P(q), g[Nx(q)]) ELSE Val(q)]]
  <2>1. B \in [[D -> Datas] -> [D -> Datas]]
    <3> SUFFICES ASSUME NEW g \in [D -> Datas], NEW q \in D
                 PROVE  (IF More(q) THEN AndData(P(q), g[Nx(q)]) ELSE Val(q)) \in Datas
      OBVIOUS
    <3>1. CASE More(q)
      <4>1. g[Nx(q)] \in Datas
        BY <1>6, <3>1
      <4> QED
        BY <1>7, <3>1, <4>1, AndDataFacts
    <3>2. CASE ~More(q)
      BY <1>7, <3>2
    <3> QED
      BY <3>1, <3>2
  <2>2. UsesLarger(Len(s), Datas, B)
    <3> SUFFICES ASSUME NEW g \in [D -> Datas], NEW h \in [D -> Datas], NEW q \in D,
                        \A r \in q + 1 .. Len(s) : g[r] = h[r]
                 PROVE  B[g][q] = B[h][q]
      BY <2>1 DEF UsesLarger
    <3>1. More(q) => g[Nx(q)] = h[Nx(q)]
      BY <1>6
    <3> QED
      BY <3>1
  <2>3. HasSolution(Len(s), Datas, B)
    <3>1. Datas # {}
      BY <1>7
    <3> HIDE DEF B
    <3> QED
      BY <1>1, <2>2, <3>1, UpRecursion
  <2>4. PICK f \in [D -> Datas] : f = B[f]
    BY <2>3 DEF HasSolution
  <2>5. A(f)
    BY <1>8, <2>4
  <2> QED
    BY <2>5
<1>10. A(all)
  BY <1>9
<1> HIDE DEF all
<1>11. \A q \in D : all[q] = IF More(q) THEN AndData(P(q), all[Nx(q)]) ELSE Val(q)
  BY <1>8, <1>10
<1>12. CASE More(p)
  <2>1. Nx(p) \in p + 1 .. Len(s) /\ AllData(s, p) = AndData(P(p), AllData(s, Nx(p)))
    BY <1>3, <1>6, <1>11, <1>12
  <2> QED
    BY <1>5, <1>12, <2>1 DEF More, Nx
<1>13. CASE ~More(p)
  <2>1. AllData(s, p) = Val(p)
    BY <1>3, <1>11, <1>13
  <2> QED
    BY <1>5, <1>13, <2>1 DEF More, Val
<1> QED
  BY <1>12, <1>13

(* The data of a unit lies inside its text: the length its parameters and  *)
(* commas add up to is no more than was passed.                            *)
LEMMA AllDataFacts ==
  ASSUME NEW s \in CharText, NEW p \in 0 .. Len(s), NEW d, d = AllData(s, p)
  PROVE  /\ d \in Datas /\ d.pos \in p .. Len(s) /\ d.len \in 0 .. d.pos - p
         /\ d.type = "ALL_PROGRAM_DATA" => d.len > 0 /\ d.count > 0
         /\ d.type = "UNKNOWN" => d.len = 0 /\ d.count = -1
         /\ d.type = "NEVER" => d.len = 0
<1> DEFINE D == 0 .. Len(s)
           Fits(q, x) == /\ x \in Datas /\ x.pos \in q .. Len(s) /\ x.len \in 0 .. x.pos - q
                         /\ x.type = "ALL_PROGRAM_DATA" => x.len > 0 /\ x.count > 0
                         /\ x.type = "UNKNOWN" => x.len = 0 /\ x.count = -1
                         /\ x.type = "NEVER" => x.len = 0
           T == {q \in D : Fits(q, AllData(s, q))}
<1>1. Len(s) \in Nat
  BY DEF CharText
<1>2. ASSUME NEW q \in D, \A r \in q + 1 .. Len(s) : r \in T
      PROVE  q \in T
  <2> DEFINE t == scpiParser_parseProgramData(s, q)
             more == t.type \notin {"NEVER", "UNKNOWN"} /\ At(s, t.pos) = Comma
             x == AllData(s, q)
             rest == AllData(s, t.pos + 1)
  <2>1. Spans(s, q, t)
    <3>1. IsData(s, q, t)
      BY ProgramDataFacts
    <3> HIDE DEF t
    <3> QED
      BY <3>1 DEF IsData
  <2>2. IF more THEN t.pos + 1 \in q + 1 .. Len(s) /\ x = AndData(t, rest) ELSE x = LastData(q, t)
    BY AllDataTurn
  <2> HIDE DEF t
  <2>3. CASE more
    <3> DEFINE b == t.pos + 1
               n == t.ret
    <3>1. b \in q + 1 .. Len(s) /\ x = AndData(t, rest) /\ Fits(b, rest)
      BY <1>2, <2>2, <2>3
    <3>2. n \in 0 .. (b - 1) - q /\ n \in Int
      <4>1. t.pos \in Int /\ (t.pos + 1) - 1 = t.pos
        BY <1>1, <2>1 DEF Spans
      <4> QED
        BY <1>1, <2>1, <4>1 DEF Spans
    <3> HIDE DEF rest
    <3> HIDE DEF x
    <3>3. /\ x \in Datas /\ x.pos = rest.pos /\ x.type = rest.type
          /\ rest.type = "ALL_PROGRAM_DATA" => x.len = n + 1 + rest.len /\ x.count = rest.count + 1
          /\ rest.type # "ALL_PROGRAM_DATA" => x = rest
      BY <3>1, <3>2, AndDataFacts
    <3> DEFINE c == rest.len
               y == rest.pos
    <3>4. y \in b .. Len(s) /\ c \in 0 .. y - b
      BY <3>1
    <3> HIDE DEF n, b
    <3>5. b \in Nat /\ n \in Nat /\ q \in Nat
      BY <1>1, <3>1, <3>2
    <3> HIDE DEF c, y
    <3>6. y \in Nat /\ c \in Nat /\ y \in q .. Len(s) /\ c \in 0 .. y - q /\ n + 1 + c \in 0 .. y - q /\ n + 1 + c > 0
      BY <1>1, <3>1, <3>2, <3>4, <3>5
    <3>7. x.pos \in q .. Len(s) /\ x.len \in 0 .. x.pos - q
      BY <3>3, <3>6 DEF c, y
    <3>8. x.type = "ALL_PROGRAM_DATA" => x.len > 0 /\ x.count > 0
      <4> DEFINE m == rest.count
      <4>1. rest \in Datas /\ (rest.type = "ALL_PROGRAM_DATA" => m > 0)
        BY <3>1
      <4>2. m \in Int
        BY <4>1 DEF Datas
      <4>3. rest.type = "ALL_PROGRAM_DATA" => m + 1 > 0
        <5> HIDE DEF m
        <5> QED
          BY <4>1, <4>2
      <4> QED
        BY <3>3, <3>6, <4>3 DEF c
    <3>9. /\ x.type = "UNKNOWN" => x.len = 0 /\ x.count = -1
          /\ x.type = "NEVER" => x.len = 0
      BY <3>1, <3>3
    <3>10. Fits(q, x)
      BY <3>3, <3>7, <3>8, <3>9
    <3> QED
      BY <3>10 DEF x
  <2>4. CASE ~more
    <3>1. x = LastData(q, t)
      BY <2>2, <2>4
    <3>2. Fits(q, x)
      <4> HIDE DEF x
      <4> QED
        BY <2>1, <3>1, LastDataFacts
    <3> QED
      BY <3>2
  <2> HIDE DEF more
  <2> QED
    BY <2>3, <2>4
<1>3. D \subseteq T
  <2> HIDE DEF T
  <2> QED
    BY <1>1, <1>2, UpInduction
<1> QED
  BY <1>3

-----------------------------------------------------------------------------
(* What the character x is in a string whose quotes are doubled.           *)
Once(x, c) == IF x = c THEN <<c, c>> ELSE <<x>>

DoubledBy(s, c, d) ==
  /\ d \in [0 .. Len(s) -> CharText] /\ Doubled(s, c) = d[0]
  /\ \A n \in 0 .. Len(s) : d[n] = IF n = Len(s) THEN <<>> ELSE Once(s[n+1], c) \o d[n + 1]

(* A character makes one or two.                                           *)
LEMMA OnceFacts ==
  ASSUME NEW x \in Char, NEW c \in Char
  PROVE  Once(x, c) \in CharText
BY DEF Once, CharText

(* The function behind Doubled.                                            *)
LEMMA DoubledFunction ==
  ASSUME NEW s \in CharText, NEW c \in Char
  PROVE  \E d : DoubledBy(s, c, d)
<1> DEFINE L == Len(s)
           D == 0 .. L
           F(f) == f = [n \in D |-> IF n = L THEN <<>> ELSE Once(s[n+1], c) \o f[n + 1]]
           doubled == CHOOSE f : F(f)
<1>1. L \in Nat
  BY DEF CharText
<1>2. ASSUME NEW n \in D, n # L
      PROVE  n + 1 \in n + 1 .. L /\ n + 1 \in D /\ Once(s[n+1], c) \in CharText
  <2>1. n + 1 \in n + 1 .. L /\ n + 1 \in D /\ n + 1 \in 1 .. L
    BY <1>1, <1>2
  <2>2. s[n+1] \in Char
    BY <2>1, ElementOfSeq DEF CharText
  <2> QED
    BY <2>1, <2>2, OnceFacts
<1>3. \A a, b \in CharText : a \o b \in CharText
  BY DEF CharText
<1>4. <<>> \in CharText
  BY DEF CharText
<1>5. Doubled(s, c) = doubled[0]
  BY DEF Doubled, Once
<1> HIDE DEF L
<1>6. PICK f \in [D -> CharText] : F(f)
  <2> DEFINE B == [g \in [D -> CharText] |-> [n \in D |-> IF n = L THEN <<>> ELSE Once(s[n+1], c) \o g[n + 1]]]
  <2>1. B \in [[D -> CharText] -> [D -> CharText]]
    <3> SUFFICES ASSUME NEW g \in [D -> CharText], NEW n \in D
                 PROVE  (IF n = L THEN <<>> ELSE Once(s[n+1], c) \o g[n + 1]) \in CharText
      OBVIOUS
    <3> QED
      BY <1>2, <1>3, <1>4
  <2>2. UsesLarger(L, CharText, B)
    <3> SUFFICES ASSUME NEW g \in [D -> CharText], NEW h \in [D -> CharText], NEW n \in D,
                        \A r \in n + 1 .. L : g[r] = h[r]
                 PROVE  B[g][n] = B[h][n]
      BY <2>1 DEF UsesLarger
    <3>1. n # L => g[n + 1] = h[n + 1]
      BY <1>2
    <3> QED
      BY <3>1
  <2>3. HasSolution(L, CharText, B)
    <3> HIDE DEF B
    <3> QED
      BY <1>1, <1>4, <2>2, UpRecursion
  <2>4. PICK f \in [D -> CharText] : f = B[f]
    BY <2>3 DEF HasSolution
  <2>5. F(f)
    BY <2>4
  <2> QED
    BY <2>5
<1>7. F(doubled)
  <2> HIDE DEF F
  <2> QED
    BY <1>6
<1> HIDE DEF doubled
<1>8. \A n \in D : doubled[n] = IF n = L THEN <<>> ELSE Once(s[n+1], c) \o doubled[n + 1]
  BY <1>7
<1> DEFINE T == {n \in D : doubled[n] \in CharText}
<1>9. ASSUME NEW n \in D, \A r \in n + 1 .. L : r \in T
      PROVE  n \in T
  BY <1>2, <1>3, <1>4, <1>8, <1>9
<1>10. D \subseteq T
  <2> HIDE DEF T
  <2> QED
    BY <1>1, <1>9, UpInduction
<1>11. doubled \in [D -> CharText]
  BY <1>7, <1>10
<1> QED
  BY <1>5, <1>8, <1>11 DEF DoubledBy, L

(* What a text is made of if it starts with the character x.               *)
LEMMA ConsFacts ==
  ASSUME NEW x \in Char, NEW s \in CharText
  PROVE  /\ <<x>> \o s \in CharText /\ Len(s) \in Nat /\ Len(<<x>> \o s) = Len(s) + 1
         /\ (<<x>> \o s)[1] = x /\ \A i \in 1 .. Len(s) : (<<x>> \o s)[i + 1] = s[i]
<1>1. <<x>> \in CharText /\ Len(<<x>>) = 1 /\ <<x>>[1] = x /\ Len(s) \in Nat
  BY DEF CharText
<1> DEFINE u == <<x>>
<1> HIDE DEF u
<1>2. /\ u \o s \in Seq(Char) /\ Len(u \o s) = Len(u) + Len(s)
      /\ \A i \in 1 .. Len(u) + Len(s) : (u \o s)[i] = IF i <= Len(u) THEN u[i] ELSE s[i - Len(u)]
  BY <1>1, ConcatProperties DEF u, CharText
<1>3. Len(u) = 1 /\ u[1] = x
  BY <1>1 DEF u
<1>4. (u \o s)[1] = x
  BY <1>1, <1>2, <1>3
<1>5. ASSUME NEW i \in 1 .. Len(s)
      PROVE  (u \o s)[i + 1] = s[i]
  <2>1. i + 1 \in 1 .. 1 + Len(s) /\ ~(i + 1 <= 1) /\ (i + 1) - 1 = i
    BY <1>1
  <2> QED
    BY <1>2, <1>3, <2>1
<1>6. u \o s \in CharText /\ Len(u \o s) = Len(s) + 1
  BY <1>1, <1>2, <1>3 DEF CharText
<1> QED
  BY <1>1, <1>4, <1>5, <1>6 DEF u

(* Doubling the quotes of a text goes character by character.              *)
LEMMA DoubledFacts ==
  ASSUME NEW c \in Char, NEW s \in CharText
  PROVE  /\ Doubled(s, c) \in CharText
         /\ s = <<>> => Doubled(s, c) = <<>>
         /\ \A x \in Char : Doubled(<<x>> \o s, c) = Once(x, c) \o Doubled(s, c)
<1>1. PICK d : DoubledBy(s, c, d)
  BY DoubledFunction
<1>2. Len(s) \in Nat /\ 0 \in 0 .. Len(s)
  BY DEF CharText
<1>3. /\ d \in [0 .. Len(s) -> CharText] /\ Doubled(s, c) = d[0]
      /\ \A n \in 0 .. Len(s) : d[n] = IF n = Len(s) THEN <<>> ELSE Once(s[n+1], c) \o d[n + 1]
  BY <1>1 DEF DoubledBy
<1>4. s = <<>> => d[0] = <<>>
  <2>1. s = <<>> => Len(s) = 0
    OBVIOUS
  <2> QED
    BY <1>2, <1>3, <2>1
<1>5. ASSUME NEW x \in Char
      PROVE  Doubled(<<x>> \o s, c) = Once(x, c) \o Doubled(s, c)
  <2> DEFINE y == <<x>> \o s
  <2>1. /\ y \in CharText /\ Len(y) = Len(s) + 1
        /\ y[1] = x /\ \A i \in 1 .. Len(s) : y[i + 1] = s[i]
    BY ConsFacts
  <2> HIDE DEF y
  <2>2. PICK e : DoubledBy(y, c, e)
    BY <2>1, DoubledFunction
  <2>3. /\ Doubled(y, c) = e[0]
        /\ \A n \in 0 .. Len(y) : e[n] = IF n = Len(y) THEN <<>> ELSE Once(y[n+1], c) \o e[n + 1]
    BY <2>2 DEF DoubledBy
  <2> DEFINE T == {n \in 0 .. Len(s) : e[n + 1] = d[n]}
  <2>4. ASSUME NEW n \in 0 .. Len(s), \A r \in n + 1 .. Len(s) : r \in T
        PROVE  n \in T
    <3>1. n + 1 \in 0 .. Len(y) /\ (n + 1 = Len(y) <=> n = Len(s))
      BY <1>2, <2>1
    <3>2. CASE n = Len(s)
      BY <1>3, <2>3, <3>1, <3>2
    <3>3. CASE n # Len(s)
      <4>1. n + 1 \in n + 1 .. Len(s) /\ n + 1 \in 1 .. Len(s)
        BY <1>2, <3>3
      <4>2. y[(n + 1) + 1] = s[n + 1] /\ e[(n + 1) + 1] = d[n + 1]
        BY <2>1, <2>4, <4>1
      <4>3. e[n + 1] = Once(y[(n + 1) + 1], c) \o e[(n + 1) + 1] /\ d[n] = Once(s[n + 1], c) \o d[n + 1]
        BY <1>3, <2>3, <3>1, <3>3
      <4> QED
        BY <4>2, <4>3
    <3> QED
      BY <3>2, <3>3
  <2>5. 0 .. Len(s) \subseteq T
    <3> HIDE DEF T
    <3> QED
      BY <1>2, <2>4, UpInduction
  <2>6. 0 \in T /\ 0 + 1 = 1
    BY <1>2, <2>5
  <2>7. e[1] = d[0]
    BY <2>6
  <2>8. 0 \in 0 .. Len(y) /\ 0 # Len(y)
    BY <1>2, <2>1
  <2>9. e[0] = Once(y[1], c) \o e[1]
    BY <2>3, <2>6, <2>8
  <2> QED
    BY <1>3, <2>1, <2>3, <2>7, <2>9 DEF y
<1> QED
  BY <1>2, <1>3, <1>4, <1>5

(* How SCPI_ParamCopyText goes on from a position of the string.           *)
CopiedBy(w, copied) ==
  /\ copied \in [0 .. Len(w) -> CharText] /\ CopyText(w) = copied[1]
  /\ \A q \in 1 .. Len(w) :
       copied[q] = IF q >= Len(w) - 1 \/ q >= BufLen THEN <<>>
                   ELSE <<At(w, q)>> \o copied[IF At(w, q) = At(w, 0) THEN q + 2 ELSE q + 1]

(* The function behind CopyText.                                           *)
LEMMA CopyFunction ==
  ASSUME NEW w \in CharText
  PROVE  \E copied : CopiedBy(w, copied)
<1> DEFINE L == Len(w)
           D == 0 .. L
           Stops(q) == q >= Len(w) - 1 \/ q >= BufLen
           Nx(q) == IF At(w, q) = At(w, 0) THEN q + 2 ELSE q + 1
           F(f) == f = [q \in D |-> IF Stops(q) THEN <<>> ELSE <<At(w, q)>> \o f[Nx(q)]]
           copied == CHOOSE f : F(f)
<1>1. L \in Nat
  BY DEF CharText
<1>2. ASSUME NEW q \in D, ~Stops(q)
      PROVE  Nx(q) \in q + 1 .. L /\ Nx(q) \in D /\ <<At(w, q)>> \in CharText
  <2>1. q \in Nat /\ q < L - 1 /\ q < L
    BY <1>1, <1>2, BufLenAssumption
  <2>2. At(w, q) \in Char
    BY <2>1, AtFacts DEF Char
  <2>3. Nx(q) \in q + 1 .. L /\ Nx(q) \in D
    BY <1>1, <2>1
  <2> QED
    BY <2>2, <2>3 DEF CharText
<1>3. \A a, b \in CharText : a \o b \in CharText
  BY DEF CharText
<1>4. <<>> \in CharText
  BY DEF CharText
<1>5. CopyText(w) = copied[1]
  BY DEF CopyText
<1> HIDE DEF L, Stops, Nx
<1>6. PICK f \in [D -> CharText] : F(f)
  <2> DEFINE B == [g \in [D -> CharText] |-> [q \in D |-> IF Stops(q) THEN <<>> ELSE <<At(w, q)>> \o g[Nx(q)]]]
  <2>1. B \in [[D -> CharText] -> [D -> CharText]]
    <3> SUFFICES ASSUME NEW g \in [D -> CharText], NEW q \in D
                 PROVE  (IF Stops(q) THEN <<>> ELSE <<At(w, q)>> \o g[Nx(q)]) \in CharText
      OBVIOUS
    <3> QED
      BY <1>2, <1>3, <1>4
  <2>2. UsesLarger(L, CharText, B)
    <3> SUFFICES ASSUME NEW g \in [D -> CharText], NEW h \in [D -> CharText], NEW q \in D,
                        \A r \in q + 1 .. L : g[r] = h[r]
                 PROVE  B[g][q] = B[h][q]
      BY <2>1 DEF UsesLarger
    <3>1. ~Stops(q) => g[Nx(q)] = h[Nx(q)]
      BY <1>2
    <3> QED
      BY <3>1
  <2>3. HasSolution(L, CharText, B)
    <3> HIDE DEF B
    <3> QED
      BY <1>1, <1>4, <2>2, UpRecursion
  <2>4. PICK f \in [D -> CharText] : f = B[f]
    BY <2>3 DEF HasSolution
  <2>5. F(f)
    BY <2>4
  <2> QED
    BY <2>5
<1>7. F(copied)
  <2> HIDE DEF F
  <2> QED
    BY <1>6
<1> HIDE DEF copied
<1>8. \A q \in D : copied[q] = IF Stops(q) THEN <<>> ELSE <<At(w, q)>> \o copied[Nx(q)]
  BY <1>7
<1> DEFINE T == {q \in D : copied[q] \in CharText}
<1>9. ASSUME NEW q \in D, \A r \in q + 1 .. L : r \in T
      PROVE  q \in T
  BY <1>2, <1>3, <1>4, <1>8, <1>9
<1>10. D \subseteq T
  <2> HIDE DEF T
  <2> QED
    BY <1>1, <1>9, UpInduction
<1>11. copied \in [D -> CharText]
  BY <1>7, <1>10
<1>12. \A q \in 1 .. Len(w) : q \in D
  BY <1>1 DEF L
<1> QED
  BY <1>5, <1>8, <1>11, <1>12 DEF CopiedBy, L, Stops, Nx

(* The copy c of a string w from its q-th character on: with its quotes    *)
(* doubled it is what stands there, as far as it goes, and it goes as far  *)
(* as the buffer allows.                                                   *)
CopiesFrom(w, q, c) ==
  LET d == Doubled(c, w[1])
      last == Len(w) - 1
  IN  /\ q + Len(d) <= last
      /\ \A i \in 1 .. Len(d) : d[i] = w[q + i]
      /\ Len(c) = 0 \/ Len(c) + q <= BufLen
      /\ last <= BufLen => q + Len(d) = last

(* One more character in front, which the loop passes or finds doubled.    *)
LEMMA CopyOneMore ==
  ASSUME NEW w \in CharText, NEW quote \in Char, quote = w[1],
         NEW q \in 1 .. Len(w) - 2, q < BufLen, NEW x \in Char, x = At(w, q),
         NEW n, n = IF x = quote THEN q + 2 ELSE q + 1, x = quote => At(w, q + 1) = quote,
         NEW c \in CharText, CopiesFrom(w, n, c)
  PROVE  CopiesFrom(w, q, <<x>> \o c)
<1> DEFINE d == Doubled(c, quote)
           o == Once(x, quote)
           e == Doubled(<<x>> \o c, quote)
           last == Len(w) - 1
<1>1. Len(w) \in Nat /\ last \in Nat /\ q \in Nat /\ n \in Nat /\ BufLen \in Nat /\ q + 1 <= last
  BY BufLenAssumption DEF CharText
<1>2. d \in CharText /\ e = o \o d /\ o \in CharText
  BY DoubledFacts, OnceFacts
<1>3. /\ Len(c) \in Nat /\ Len(<<x>> \o c) = Len(c) + 1
  BY ConsFacts
<1>4. /\ n + Len(d) <= last /\ (\A i \in 1 .. Len(d) : d[i] = w[n + i])
      /\ (Len(c) = 0 \/ Len(c) + n <= BufLen) /\ (last <= BufLen => n + Len(d) = last)
  BY DEF CopiesFrom
<1>5. o = (IF x = quote THEN <<quote, quote>> ELSE <<x>>)
  BY DEF Once
<1>6. w[q + 1] = x /\ (x = quote => w[q + 2] = quote)
  <2>1. At(w, q) = w[q + 1]
    BY <1>1, AtFacts
  <2>2. At(w, q + 1) = w[(q + 1) + 1] /\ (q + 1) + 1 = q + 2
    <3>1. q + 1 \in Nat /\ q + 1 < Len(w) /\ (q + 1) + 1 = q + 2
      BY <1>1
    <3> QED
      BY <3>1, AtFacts
  <2> QED
    BY <2>1, <2>2
<1>7. /\ Len(o) \in {1, 2} /\ n = q + Len(o)
      /\ \A i \in 1 .. Len(o) : o[i] = w[q + i]
  <2>1. CASE x = quote
    <3>1. o = <<quote, quote>> /\ n = q + 2
      BY <1>5, <2>1
    <3>2. Len(o) = 2 /\ o[1] = quote /\ o[2] = quote
      BY <3>1
    <3> QED
      BY <1>6, <2>1, <3>1, <3>2
  <2>2. CASE x # quote
    <3>1. o = <<x>> /\ n = q + 1
      BY <1>5, <2>2
    <3>2. Len(o) = 1 /\ o[1] = x
      BY <3>1
    <3> QED
      BY <1>6, <2>2, <3>1, <3>2
  <2> QED
    BY <2>1, <2>2
<1> HIDE DEF o, d
<1>8. /\ Len(d) \in Nat /\ Len(o \o d) = Len(o) + Len(d)
      /\ \A i \in 1 .. Len(o) + Len(d) : (o \o d)[i] = IF i <= Len(o) THEN o[i] ELSE d[i - Len(o)]
  BY <1>2, ConcatProperties DEF CharText
<1> HIDE DEF e
<1> DEFINE m == Len(o)
           k == Len(d)
<1>9. Len(e) = m + k /\ q + Len(e) = n + k /\ m \in Nat /\ k \in Nat
  <2>1. Len(e) = m + k
    BY <1>2, <1>8
  <2>2. m \in Nat /\ k \in Nat /\ n = q + m
    BY <1>7, <1>8
  <2> HIDE DEF m, k
  <2> QED
    BY <1>1, <2>1, <2>2
<1>10. ASSUME NEW i \in 1 .. Len(e)
       PROVE  e[i] = w[q + i]
  <2>1. i \in 1 .. Len(o) + Len(d) /\ i \in Nat
    BY <1>7, <1>8, <1>9
  <2>2. CASE i <= Len(o)
    <3>1. i \in 1 .. Len(o)
      BY <1>7, <2>1, <2>2
    <3> QED
      BY <1>2, <1>7, <1>8, <2>1, <2>2, <3>1
  <2>3. CASE ~(i <= Len(o))
    <3>1. i - m \in 1 .. k /\ n + (i - m) = q + i
      <4>1. n = q + m /\ i \in 1 .. m + k /\ ~(i <= m)
        BY <1>7, <2>1, <2>3
      <4> HIDE DEF m, k
      <4> QED
        BY <1>1, <1>9, <2>1, <4>1
    <3>2. e[i] = d[i - Len(o)]
      BY <1>2, <1>8, <2>1, <2>3
    <3> QED
      BY <1>4, <3>1, <3>2
  <2> QED
    BY <2>2, <2>3
<1>11. (Len(c) + 1) + q <= BufLen
  BY <1>1, <1>3, <1>4, <1>7
<1>12. q + Len(e) <= last /\ (last <= BufLen => q + Len(e) = last)
  BY <1>4, <1>9
<1>13. Len(<<x>> \o c) + q <= BufLen
  BY <1>3, <1>11
<1>14. e = Doubled(<<x>> \o c, w[1])
  BY DEF e
<1> HIDE DEF last
<1> DEFINE y == <<x>> \o c
<1>15. e = Doubled(y, w[1]) /\ Len(y) + q <= BufLen /\ last = Len(w) - 1
  BY <1>13, <1>14 DEF last
<1> HIDE DEF y
<1>16. CopiesFrom(w, q, y)
  BY <1>10, <1>12, <1>15 DEF CopiesFrom
<1> QED
  BY <1>16 DEF y

(* SCPI_ParamCopyText of a quoted string.                                  *)
LEMMA CopyFacts ==
  ASSUME NEW w, Quoted(w)
  PROVE  CopiesFrom(w, 1, CopyText(w))
<1> DEFINE quote == w[1]
           last == Len(w) - 1
           R(q) == skipQuoteProgramData(w, q, quote)
<1>1. /\ w \in CharText /\ Len(w) >= 2 /\ quote \in Quote /\ R(1) = last /\ Len(w) \in Nat
  BY DEF Quoted, CharText
<1>2. last \in Nat /\ last >= 1 /\ last # Never /\ 1 \in 0 .. Len(w) /\ 0 < Len(w) /\ 1 \in 1 .. Len(w)
  BY <1>1 DEF Never
<1>3. quote \in Char /\ At(w, 0) = quote
  <2>1. w[1] \in Char
    BY <1>1, <1>2, ElementOfSeq DEF CharText
  <2>2. At(w, 0) = w[0 + 1] /\ 0 + 1 = 1
    BY <1>1, <1>2, AtFacts
  <2> QED
    BY <2>1, <2>2
<1>4. PICK copied : CopiedBy(w, copied)
  BY <1>1, CopyFunction
<1>5. /\ copied \in [0 .. Len(w) -> CharText] /\ CopyText(w) = copied[1]
      /\ \A q \in 1 .. Len(w) :
           copied[q] = IF q >= last \/ q >= BufLen THEN <<>>
                       ELSE <<At(w, q)>> \o copied[IF At(w, q) = quote THEN q + 2 ELSE q + 1]
  BY <1>3, <1>4 DEF CopiedBy
<1>6. Doubled(<<>>, quote) = <<>> /\ Len(<<>>) = 0
  <2>1. <<>> \in CharText
    BY DEF CharText
  <2> QED
    BY <1>3, <2>1, DoubledFacts
<1> HIDE DEF quote
<1> DEFINE T == {q \in 0 .. Len(w) : (q \in 1 .. last /\ R(q) = last) => CopiesFrom(w, q, copied[q])}
<1>7. ASSUME NEW q \in 0 .. Len(w), \A r \in q + 1 .. Len(w) : r \in T
      PROVE  q \in T
  <2> SUFFICES ASSUME q \in 1 .. last, R(q) = last
               PROVE  CopiesFrom(w, q, copied[q])
    OBVIOUS
  <2>1. q \in Nat /\ q \in 1 .. Len(w) /\ q <= last /\ BufLen \in Nat
    BY <1>1, <1>2, BufLenAssumption
  <2>2. CASE q >= last \/ q >= BufLen
    <3>1. copied[q] = <<>>
      BY <1>5, <2>1, <2>2
    <3>2. last <= BufLen => q + 0 = last
      BY <1>2, <2>1, <2>2
    <3>3. q + 0 <= last
      BY <2>1
    <3> QED
      BY <1>6, <3>1, <3>2, <3>3 DEF CopiesFrom, quote
  <2>3. CASE ~(q >= last \/ q >= BufLen)
    <3> DEFINE x == At(w, q)
               n == IF x = quote THEN q + 2 ELSE q + 1
    <3>1. q < last /\ q < BufLen /\ q \in 1 .. Len(w) - 2 /\ q < Len(w)
      BY <1>1, <1>2, <2>1, <2>3
    <3>2. x \in Char /\ x # Eos
      BY <1>1, <2>1, <3>1, AtFacts DEF Char
    <3>3. Doubles(w, quote, q) \/ Passes(w, quote, q)
      <4>1. ~Closes(w, quote, q)
        BY <1>1, <2>1, <3>1, QuoteTurns
      <4>2. x # "8bit"
        BY <1>1, <1>2, <2>1, QuoteTurns
      <4> QED
        BY <3>2, <4>1, <4>2 DEF Doubles, Passes, Closes
    <3>4. n \in 0 .. Len(w) /\ R(n) = last /\ (x = quote => At(w, q + 1) = quote)
      <4>1. CASE Doubles(w, quote, q)
        <5>1. n = q + 2 /\ At(w, q + 1) = quote
          BY <4>1 DEF Doubles
        <5>2. q + 2 \in 0 .. Len(w) /\ R(q) = R(q + 2)
          BY <1>1, <4>1, QuoteTurns
        <5> QED
          BY <5>1, <5>2
      <4>2. CASE Passes(w, quote, q)
        <5>1. n = q + 1 /\ x # quote
          BY <4>2 DEF Passes
        <5>2. q + 1 \in 0 .. Len(w) /\ R(q) = R(q + 1)
          BY <1>1, <4>2, QuoteTurns
        <5> QED
          BY <5>1, <5>2
      <4> QED
        BY <3>3, <4>1, <4>2
    <3>5. n # Len(w)
      <4>1. At(w, Len(w)) = Eos /\ Len(w) \in 0 .. Len(w)
        BY <1>1, AtFacts
      <4>2. R(Len(w)) = Len(w)
        BY <1>1, <4>1, QuoteTurns
      <4>3. Len(w) # last
        BY <1>1
      <4> QED
        BY <3>4, <4>2, <4>3
    <3>6. n \in q + 1 .. Len(w) /\ n \in 1 .. last
      BY <1>1, <2>1, <3>4, <3>5
    <3>7. CopiesFrom(w, n, copied[n])
      <4> HIDE DEF n, R
      <4> QED
        BY <1>7, <3>4, <3>6
    <3>8. copied[q] = <<x>> \o copied[n]
      BY <1>5, <2>1, <2>3
    <3>9. copied[n] \in CharText
      BY <1>5, <3>4
    <3>10. quote = w[1]
      BY DEF quote
    <3> HIDE DEF x
    <3>11. CopiesFrom(w, q, <<x>> \o copied[n])
      <4> DEFINE c == copied[n]
      <4>1. c \in CharText /\ CopiesFrom(w, n, c) /\ n = IF x = quote THEN q + 2 ELSE q + 1
        BY <3>7, <3>9
      <4>2. x = At(w, q)
        BY DEF x
      <4> HIDE DEF c, n
      <4>3. CopiesFrom(w, q, <<x>> \o c)
        BY <1>1, <1>3, <3>1, <3>2, <3>4, <3>10, <4>1, <4>2, CopyOneMore
      <4> QED
        BY <4>3 DEF c
    <3> QED
      BY <3>8, <3>11
  <2> QED
    BY <2>2, <2>3
<1>8. 0 .. Len(w) \subseteq T
  <2> HIDE DEF T
  <2> QED
    BY <1>1, <1>7, UpInduction
<1>9. 1 \in T
  BY <1>2, <1>8
<1>10. 1 \in 1 .. last /\ R(1) = last
  BY <1>1, <1>2
<1> QED
  BY <1>5, <1>9, <1>10

(* Parts of texts, PartFacts once more for the text itself.                *)
LEMMA TextPart ==
  ASSUME NEW s \in CharText, NEW n \in 0 .. Len(s), NEW m \in 0 .. n
  PROVE  /\ SubSeq(s, m + 1, n) \in CharText /\ Len(SubSeq(s, m + 1, n)) = n - m
         /\ \A i \in 1 .. n - m : SubSeq(s, m + 1, n)[i] = s[m+i]
<1>1. ASSUME NEW i \in m + 1 .. n
      PROVE  s[i] \in Char
  <2>1. i \in 1 .. Len(s)
    BY DEF CharText
  <2> QED
    BY <2>1, ElementOfSeq DEF CharText
<1>2. /\ SubSeq(s, m + 1, n) \in Seq(Char) /\ Len(SubSeq(s, m + 1, n)) = n - m
      /\ \A i \in 1 .. n - m : SubSeq(s, m + 1, n)[i] = s[m+i]
  BY <1>1, PartFacts
<1> QED
  BY <1>2 DEF CharText

(* A part of the front of a text is that part of the text.                 *)
LEMMA PartOfFront ==
  ASSUME NEW s \in CharText, NEW n \in 0 .. Len(s), NEW b \in 0 .. n, NEW a \in 0 .. b,
         NEW u, u = SubSeq(s, 1, n)
  PROVE  SubSeq(u, a + 1, b) = SubSeq(s, a + 1, b)
<1>1. Len(s) \in Nat /\ n \in Nat /\ a \in Nat /\ b \in Nat /\ 0 \in 0 .. n /\ b \in 0 .. Len(s) /\ 0 + 1 = 1 /\ n - 0 = n
  BY DEF CharText
<1>2. u \in CharText /\ Len(u) = n /\ \A i \in 1 .. n : u[i] = s[0 + i]
  <2>1. u = SubSeq(s, 0 + 1, n)
    BY <1>1
  <2>2. u \in CharText /\ Len(u) = n - 0 /\ \A i \in 1 .. n - 0 : u[i] = s[0 + i]
    BY <1>1, <2>1, TextPart
  <2> QED
    BY <1>1, <2>2
<1> DEFINE x == SubSeq(u, a + 1, b)
           y == SubSeq(s, a + 1, b)
<1>3. x \in CharText /\ Len(x) = b - a /\ \A i \in 1 .. b - a : x[i] = u[a+i]
  <2>1. u \in CharText /\ b \in 0 .. Len(u) /\ a \in 0 .. b
    BY <1>2
  <2> HIDE DEF x
  <2>2. x = SubSeq(u, a + 1, b)
    BY DEF x
  <2> QED
    BY <2>1, <2>2, TextPart
<1>4. y \in CharText /\ Len(y) = b - a /\ \A i \in 1 .. b - a : y[i] = s[a+i]
  BY <1>1, TextPart
<1> HIDE DEF x, y
<1>5. ASSUME NEW i \in 1 .. b - a
      PROVE  x[i] = y[i]
  <2>1. a + i \in 1 .. n /\ 0 + (a + i) = a + i
    BY <1>1
  <2> QED
    BY <1>2, <1>3, <1>4, <2>1
<1>6. x = y
  BY <1>3, <1>4, <1>5, SeqEqual DEF CharText
<1> QED
  BY <1>6 DEF x, y

(* A parameter read from the front of a text is data of the text.          *)
LEMMA FrontFacts ==
  ASSUME NEW s \in CharText, NEW n \in 0 .. Len(s), NEW u, u = SubSeq(s, 1, n)
  PROVE  /\ u \in CharText /\ Len(u) = n
         /\ \A p \in 0 .. n : \A t : t = scpiParser_parseProgramData(u, p) =>
              /\ t.pos \in p .. n
              /\ t.type = "QUOTE_PROGRAM_DATA" => Quoted(SubSeq(s, t.ptr + 1, t.ptr + t.len))
<1>1. Len(s) \in Nat /\ n \in Nat /\ 0 \in 0 .. n /\ 0 + 1 = 1 /\ n - 0 = n
  BY DEF CharText
<1>2. u \in CharText /\ Len(u) = n
  BY <1>1, TextPart
<1>3. ASSUME NEW p \in 0 .. n, NEW t, t = scpiParser_parseProgramData(u, p)
      PROVE  /\ t.pos \in p .. n
             /\ t.type = "QUOTE_PROGRAM_DATA" => Quoted(SubSeq(s, t.ptr + 1, t.ptr + t.len))
  <2>1. IsData(u, p, t)
    BY <1>2, <1>3, ProgramDataFacts
  <2>2. /\ t.pos \in p .. n /\ t.ptr \in p .. t.pos /\ t.len \in Nat /\ t.ptr + t.len <= t.pos
        /\ t.type = "QUOTE_PROGRAM_DATA" => Quoted(SubSeq(u, t.ptr + 1, t.ptr + t.len))
    BY <1>2, <2>1 DEF IsData, Spans
  <2> DEFINE a == t.ptr
             b == t.ptr + t.len
  <2>3. a \in 0 .. b /\ b \in 0 .. n
    BY <1>1, <2>2
  <2> HIDE DEF a, b
  <2>4. SubSeq(u, a + 1, b) = SubSeq(s, a + 1, b)
    BY <2>3, PartOfFront
  <2> QED
    BY <2>2, <2>4 DEF a, b
<1> QED
  BY <1>2, <1>3

(* The copy of a quoted string, as TextIsCopied has it.                    *)
CopyIsRight(w) ==
  LET copy == CopyText(w)
      inner == SubSeq(w, 2, Len(w) - 1)
      doubled == Doubled(copy, w[1])
  IN  /\ doubled = SubSeq(inner, 1, Len(doubled))
      /\ Len(copy) < BufLen
      /\ Len(inner) < BufLen => doubled = inner

(* SCPI_ParamCopyText of a quoted string is right.                         *)
LEMMA QuotedIsCopied ==
  ASSUME NEW w, Quoted(w)
  PROVE  CopyIsRight(w)
<1> DEFINE copy == CopyText(w)
           inner == SubSeq(w, 2, Len(w) - 1)
           d == Doubled(copy, w[1])
           last == Len(w) - 1
<1>1. /\ w \in CharText /\ Len(w) \in Nat /\ last \in Nat /\ 1 \in 0 .. last /\ last \in 0 .. Len(w)
      /\ 1 \in 1 .. Len(w) /\ BufLen \in Nat \ {0} /\ 1 + 1 = 2
  BY BufLenAssumption DEF Quoted, CharText
<1>2. CopiesFrom(w, 1, copy)
  BY CopyFacts
<1>3. copy \in CharText /\ Len(copy) \in Nat
  <2>1. PICK copied : CopiedBy(w, copied)
    BY <1>1, CopyFunction
  <2>2. copied \in [0 .. Len(w) -> CharText] /\ copy = copied[1] /\ 1 \in 0 .. Len(w)
    BY <1>1, <2>1 DEF CopiedBy
  <2>3. copy \in CharText
    BY <2>2
  <2> QED
    BY <2>3 DEF CharText
<1>4. d \in CharText /\ Len(d) \in Nat
  <2>1. w[1] \in Char
    BY <1>1, ElementOfSeq DEF CharText
  <2>2. d \in CharText
    BY <1>3, <2>1, DoubledFacts
  <2> QED
    BY <2>2 DEF CharText
<1>5. /\ 1 + Len(d) <= last /\ (\A i \in 1 .. Len(d) : d[i] = w[1 + i])
      /\ (Len(copy) = 0 \/ Len(copy) + 1 <= BufLen) /\ (last <= BufLen => 1 + Len(d) = last)
  BY <1>2 DEF CopiesFrom
<1>6. inner \in CharText /\ Len(inner) = last - 1 /\ \A i \in 1 .. last - 1 : inner[i] = w[1 + i]
  <2>1. inner = SubSeq(w, 1 + 1, last)
    BY <1>1
  <2> HIDE DEF inner, last
  <2> QED
    BY <1>1, <2>1, TextPart
<1> HIDE DEF copy, inner, d, last
<1> DEFINE x == SubSeq(inner, 1, Len(d))
<1>7. x \in CharText /\ Len(x) = Len(d) /\ \A i \in 1 .. Len(d) : x[i] = inner[0 + i]
  <2>1. Len(d) \in 0 .. Len(inner) /\ 0 \in 0 .. Len(d) /\ 0 + 1 = 1 /\ Len(d) - 0 = Len(d)
    BY <1>1, <1>4, <1>5, <1>6
  <2> QED
    BY <1>6, <2>1, TextPart
<1>8. ASSUME NEW i \in 1 .. Len(d)
      PROVE  d[i] = x[i] /\ d[i] = inner[i]
  <2>1. i \in 1 .. last - 1 /\ 0 + i = i
    BY <1>1, <1>4, <1>5
  <2> QED
    BY <1>5, <1>6, <1>7, <2>1
<1>9. d = x
  <2> HIDE DEF x
  <2> QED
    BY <1>4, <1>7, <1>8, SeqEqual DEF CharText
<1>10. Len(copy) < BufLen
  BY <1>1, <1>3, <1>5
<1>11. Len(inner) < BufLen => d = inner
  <2> SUFFICES ASSUME Len(inner) < BufLen PROVE d = inner
    OBVIOUS
  <2>1. Len(d) = Len(inner)
    BY <1>1, <1>4, <1>5, <1>6
  <2> QED
    BY <1>4, <1>6, <1>8, <2>1, SeqEqual DEF CharText
<1> QED
  BY <1>9, <1>10, <1>11 DEF CopyIsRight, copy, inner, d, last

-----------------------------------------------------------------------------
(* What the unit at hand keeps: its text, data inside the text, a position *)
(* inside the data, and quoted strings for the texts the command has got.  *)
QuotedTexts(S) == \A g \in S : g.kind = "text" => Quoted(g.text)
GotInv == \E S : got \in Seq(S) /\ QuotedTexts(S)
DataInv ==
  /\ text \in CharText
  /\ data.pos \in 0 .. Len(text) /\ data.len \in 0 .. data.pos
  /\ count \in Nat
  /\ pos \in 0 .. data.len
  /\ pc = "detect" => pos = 0
CommandInv == DataInv /\ GotInv

(* A parameter of kind "text" is a quoted string.                          *)
LEMMA TextIsQuote ==
  ASSUME NEW type, NEW w, TypeError("text", type, w) = <<>>
  PROVE  type = "QUOTE_PROGRAM_DATA"
BY DEF TypeError

(* SCPI_Parameter stays inside the data, and a string it reads is quoted.  *)
LEMMA ParameterFacts ==
  ASSUME DataInv, NEW mandatory, NEW r, r = Parameter(mandatory)
  PROVE  /\ r.pos \in 0 .. data.len /\ r.count \in Nat
         /\ r.ok /\ r.token.type = "QUOTE_PROGRAM_DATA" =>
              Quoted(SubSeq(text, r.token.ptr + 1, r.token.ptr + r.token.len))
<1> DEFINE u == ParamText
           n == data.len
           p == IF count = 0 THEN pos ELSE pos + 1
           t == scpiParser_parseProgramData(u, p)
<1>1. text \in CharText /\ n \in 0 .. Len(text) /\ n \in Nat /\ pos \in 0 .. n /\ count \in Nat
  BY DEF DataInv, CharText
<1>2. u \in CharText /\ Len(u) = n /\ \A q \in 0 .. n : \A x : x = scpiParser_parseProgramData(u, q) =>
         /\ x.pos \in q .. n
         /\ x.type = "QUOTE_PROGRAM_DATA" => Quoted(SubSeq(text, x.ptr + 1, x.ptr + x.len))
  <2>1. u = SubSeq(text, 1, n)
    BY DEF ParamText
  <2> HIDE DEF u, n
  <2> QED
    BY <1>1, <2>1, FrontFacts
<1> HIDE DEF u
<1>3. CASE pos >= Len(u)
  <2>1. r.pos = pos /\ r.count = count /\ r.ok = FALSE
    BY <1>3 DEF Parameter, u
  <2> QED
    BY <1>1, <2>1
<1>4. CASE pos < Len(u) /\ count > 0 /\ At(u, pos) # Comma
  <2>1. r.pos = pos /\ r.count = count /\ r.ok = FALSE
    BY <1>1, <1>2, <1>4 DEF Parameter, u
  <2> QED
    BY <1>1, <2>1
<1>5. CASE pos < Len(u) /\ ~(count > 0 /\ At(u, pos) # Comma)
  <2>1. r = IF t.type = "UNKNOWN"
            THEN [ok |-> FALSE, error |-> <<"INVALID_STRING_DATA">>, pos |-> t.pos, count |-> count + 1,
                  token |-> Token("UNKNOWN", 0, 0, 0, 0)]
            ELSE [ok |-> TRUE, error |-> <<>>, pos |-> t.pos, count |-> count + 1, token |-> t]
    BY <1>1, <1>2, <1>5 DEF Parameter, u
  <2>2. p \in 0 .. n
    BY <1>1, <1>2, <1>5
  <2> HIDE DEF p
  <2>3. t.pos \in p .. n /\ (t.type = "QUOTE_PROGRAM_DATA" => Quoted(SubSeq(text, t.ptr + 1, t.ptr + t.len)))
    BY <1>2, <2>2
  <2> HIDE DEF t
  <2>4. r.pos = t.pos /\ r.count = count + 1 /\ (r.ok => r.token = t)
    BY <2>1
  <2>5. t.pos \in 0 .. n
    BY <1>1, <2>2, <2>3
  <2> QED
    BY <1>1, <2>3, <2>4, <2>5
<1> QED
  BY <1>1, <1>2, <1>3, <1>4, <1>5

(* The unit starts with text and no parameters.                            *)
LEMMA CommandInit ==
  ASSUME Init
  PROVE  CommandInv
<1>1. text \in CharText
  <2>1. PICK u \in Units : text = u.data
    BY DEF Init
  <2> QED
    BY <2>1, UnitsAssumption DEF CharText, Char
<1>2. DataInv
  <2>1. data.pos = 0 /\ data.len = 0 /\ count = 0 /\ pos = 0
    BY DEF Init
  <2>2. Len(text) \in Nat
    BY <1>1 DEF CharText
  <2> QED
    BY <1>1, <2>1, <2>2 DEF DataInv
<1>3. GotInv
  <2>1. got \in Seq({}) /\ QuotedTexts({})
    BY DEF Init, QuotedTexts
  <2> QED
    BY <2>1 DEF GotInv
<1> QED
  BY <1>2, <1>3 DEF CommandInv

(* Detection finds data inside the text.                                   *)
LEMMA CommandDetect ==
  ASSUME CommandInv, detectProgramMessageUnit
  PROVE  CommandInv'
<1>1. text' = text /\ pos' = pos /\ count' = count /\ got' = got /\ data' = DetectData /\ pc = "detect"
  BY DEF detectProgramMessageUnit, given
<1>2. text \in CharText /\ Len(text) \in Nat /\ pos = 0 /\ count \in Nat
  BY <1>1 DEF CommandInv, DataInv, CharText
<1>3. DetectData.pos \in 0 .. Len(text) /\ DetectData.len \in 0 .. DetectData.pos
  <2>1. CASE text = <<>>
    BY <2>1 DEF DetectData, CommandInv, DataInv
  <2>2. CASE text # <<>>
    <3> DEFINE d == AllData(text, 0)
    <3>1. DetectData = d
      BY <2>2 DEF DetectData, scpiParser_parseAllProgramData
    <3>2. d \in Datas /\ d.pos \in 0 .. Len(text) /\ d.len \in 0 .. d.pos - 0
      BY <1>2, AllDataFacts
    <3> HIDE DEF d
    <3> QED
      BY <3>1, <3>2
  <2> QED
    BY <2>1, <2>2
<1> DEFINE d == DetectData
<1>4. d.pos \in 0 .. Len(text) /\ d.len \in 0 .. d.pos /\ data' = d
  BY <1>1, <1>3
<1> HIDE DEF d
<1>5. DataInv'
  BY <1>1, <1>2, <1>4 DEF DataInv
<1>6. GotInv'
  BY <1>1 DEF CommandInv, GotInv
<1> QED
  BY <1>5, <1>6 DEF CommandInv

(* Reading a parameter moves on inside the data.                           *)
LEMMA CommandRead ==
  ASSUME CommandInv, NEW read, ReadParameter(read)
  PROVE  CommandInv'
<1> DEFINE W(r) == SubSeq(text, r.token.ptr + 1, r.token.ptr + r.token.len)
           Got(r) == [kind |-> read.kind, type |-> r.token.type, text |-> W(r)]
<1>1. PICK r : /\ r = Parameter(read.mandatory)
               /\ text' = text /\ data' = data /\ pc' = pc /\ pc = "call"
               /\ pos' = r.pos /\ count' = r.count
               /\ error' = IF r.ok THEN TypeError(read.kind, r.token.type, W(r)) ELSE r.error
               /\ failed' = ~(r.ok /\ error' = <<>> /\ ~Refused(read.kind, r.token.type))
               /\ got' = IF failed' THEN got ELSE Append(got, Got(r))
  BY DEF ReadParameter, given
<1>2. DataInv
  BY DEF CommandInv
<1>3. /\ r.pos \in 0 .. data.len /\ r.count \in Nat
      /\ r.ok /\ r.token.type = "QUOTE_PROGRAM_DATA" => Quoted(W(r))
  BY <1>1, <1>2, ParameterFacts
<1>4. DataInv'
  BY <1>1, <1>2, <1>3 DEF DataInv
<1>5. GotInv'
  <2>1. PICK S : got \in Seq(S) /\ QuotedTexts(S)
    BY DEF CommandInv, GotInv
  <2>2. CASE failed'
    <3>1. got' = got
      BY <1>1, <2>2
    <3> QED
      BY <2>1, <3>1 DEF GotInv
  <2>3. CASE ~failed'
    <3> DEFINE g == Got(r)
    <3>1. got' = Append(got, g) /\ r.ok /\ TypeError(read.kind, r.token.type, W(r)) = <<>>
      BY <1>1, <2>3
    <3>2. g.kind = read.kind /\ g.text = W(r)
      OBVIOUS
    <3>3. g.kind = "text" => Quoted(g.text)
      BY <1>3, <3>1, <3>2, TextIsQuote
    <3> HIDE DEF g
    <3>4. QuotedTexts(S \cup {g})
      BY <2>1, <3>3 DEF QuotedTexts
    <3>5. got' \in Seq(S \cup {g})
      BY <2>1, <3>1
    <3> QED
      BY <3>4, <3>5 DEF GotInv
  <2> QED
    BY <2>2, <2>3
<1> QED
  BY <1>4, <1>5 DEF CommandInv

(* Every step of a unit keeps its invariant.                               *)
LEMMA CommandStep ==
  ASSUME CommandInv, [Next]_vars
  PROVE  CommandInv'
<1>1. CASE detectProgramMessageUnit
  BY <1>1, CommandDetect
<1>2. ASSUME NEW read \in Reads, ReadParameter(read)
      PROVE  CommandInv'
  BY <1>2, CommandRead
<1>3. ASSUME UNCHANGED <<text, data, pos, count, got>>, pc' = "detect" => pc = "detect"
      PROVE  CommandInv'
  BY <1>3 DEF CommandInv, DataInv, GotInv
<1>4. CASE MatchTurn
  <2>1. UNCHANGED <<text, data, pos, count, got>>
    BY <1>4 DEF MatchTurn, given
  <2>2. pc' # "detect"
    BY <1>4 DEF MatchTurn
  <2> QED
    BY <1>3, <2>1, <2>2
<1>5. ASSUME NEW ok \in BOOLEAN, CommandReturns(ok)
      PROVE  CommandInv'
  <2>1. UNCHANGED <<text, data, pos, count, got>> /\ pc' = "done"
    BY <1>5 DEF CommandReturns, given
  <2> QED
    BY <1>3, <2>1
<1>6. CASE UNCHANGED vars
  <2>1. UNCHANGED <<text, data, pos, count, got>> /\ pc' = pc
    BY <1>6 DEF vars, given, params
  <2> QED
    BY <1>3, <2>1
<1> QED
  BY <1>1, <1>2, <1>4, <1>5, <1>6 DEF Next

(* A unit stays inside its text: what detection takes for data is part of  *)
(* it, and the command reads only inside what detection took.              *)
THEOREM CommandInside == Spec => []CommandInv
<1>1. Init => CommandInv
  BY CommandInit
<1>2. CommandInv /\ [Next]_vars => CommandInv'
  BY CommandStep
<1> QED
  BY <1>1, <1>2, PTL DEF Spec

(* scpiLex_StringProgramData ends a quoted string at its first single      *)
(* quote, whatever the text; without one, or with a character of 8 bits,   *)
(* there is no string.                                                     *)
THEOREM CommandStringsEnd == Spec => []StringsEnd
<1>1. CommandInv => StringsEnd
  <2> SUFFICES ASSUME CommandInv, text # <<>>, At(text, 0) \in Quote
               PROVE  IF StringEnds(text) # {} THEN scpiLex_StringProgramData(text, 0).len \in StringEnds(text)
                      ELSE /\ scpiLex_StringProgramData(text, 0).len = 0
                           /\ scpiLex_StringProgramData(text, 0).type = "NEVER" <=> "8bit" \in Range(text)
    BY DEF StringsEnd
  <2>1. text \in CharText
    BY DEF CommandInv, DataInv
  <2> QED
    BY <2>1, StringEndsFacts
<1> QED
  BY <1>1, CommandInside, PTL

(* SCPI_ParamCopyText copies a prefix of the string, its doubled quotes    *)
(* made single, that leaves room for the zero in a buffer of any length,   *)
(* and all of it if there is room.                                         *)
THEOREM CommandTextIsCopied == Spec => []TextIsCopied
<1>1. CommandInv => TextIsCopied
  <2> SUFFICES ASSUME CommandInv, NEW g \in Range(got), g.kind = "text"
               PROVE  CopyIsRight(g.text)
    BY DEF TextIsCopied, CopyIsRight
  <2>1. PICK S : got \in Seq(S) /\ QuotedTexts(S)
    BY DEF CommandInv, GotInv
  <2>2. g \in S
    BY <2>1 DEF Range
  <2> QED
    BY <2>1, <2>2, QuotedIsCopied DEF QuotedTexts
<1> QED
  BY <1>1, CommandInside, PTL

-----------------------------------------------------------------------------
(* The parameters the command reads: u is what is left of the text s when  *)
(* white space is cut off behind its n-th character.                       *)
Cut(s, n, u) ==
  /\ s \in CharText /\ n \in 0 .. Len(s) /\ u = SubSeq(s, 1, n)
  /\ \A i \in n + 1 .. Len(s) : s[i] = Space

(* Up to the cut both are the same, behind it there is nothing or space.   *)
LEMMA CutFacts ==
  ASSUME NEW s, NEW n, NEW u, Cut(s, n, u)
  PROVE  /\ s \in CharText /\ u \in CharText /\ Len(s) \in Nat /\ n \in 0 .. Len(s) /\ n \in Nat /\ Len(u) = n
         /\ \A i \in 0 .. n - 1 : At(u, i) = At(s, i)
         /\ \A i \in Nat : i >= n => At(u, i) = Eos /\ At(s, i) \in {Space, Eos}
<1>1. s \in CharText /\ n \in 0 .. Len(s) /\ u = SubSeq(s, 1, n) /\ \A i \in n + 1 .. Len(s) : s[i] = Space
  BY DEF Cut
<1>2. Len(s) \in Nat /\ n \in Nat /\ 0 \in 0 .. n /\ 0 + 1 = 1 /\ n - 0 = n
  BY <1>1 DEF CharText
<1>3. u \in CharText /\ Len(u) = n /\ \A i \in 1 .. n : u[i] = s[0 + i]
  <2>1. u = SubSeq(s, 0 + 1, n)
    BY <1>1, <1>2
  <2>2. u \in CharText /\ Len(u) = n - 0 /\ \A i \in 1 .. n - 0 : u[i] = s[0 + i]
    BY <1>1, <1>2, <2>1, TextPart
  <2> QED
    BY <1>2, <2>2
<1>4. ASSUME NEW i \in 0 .. n - 1
      PROVE  At(u, i) = At(s, i)
  <2>1. i \in Nat /\ i < n /\ i < Len(s) /\ i + 1 \in 1 .. n /\ 0 + (i + 1) = i + 1
    BY <1>1, <1>2
  <2>2. At(u, i) = u[i + 1] /\ At(s, i) = s[i + 1]
    BY <1>1, <1>3, <2>1, AtFacts
  <2> QED
    BY <1>3, <2>1, <2>2
<1>5. ASSUME NEW i \in Nat, i >= n
      PROVE  At(u, i) = Eos /\ At(s, i) \in {Space, Eos}
  <2>1. At(u, i) = Eos
    BY <1>3, <1>5, AtFacts
  <2>2. At(s, i) \in {Space, Eos}
    <3>1. CASE i < Len(s)
      <4>1. i + 1 \in n + 1 .. Len(s) /\ At(s, i) = s[i + 1]
        BY <1>1, <1>2, <1>5, <3>1, AtFacts
      <4> QED
        BY <1>1, <4>1
    <3>2. CASE ~(i < Len(s))
      BY <1>1, <1>2, <3>2, AtFacts
    <3> QED
      BY <3>1, <3>2
  <2> QED
    BY <2>1, <2>2
<1> QED
  BY <1>1, <1>2, <1>3, <1>4, <1>5

(* The characters of a token other than a string, an expression or a block *)
(* are no white space.                                                     *)
Solid(C) == Eos \notin C /\ Space \notin C

LEMMA SolidSets ==
  /\ Solid(Digit) /\ Solid(Alpha) /\ Solid(Alpha \cup Digit \cup {"_"}) /\ Solid({"+", "-"})
  /\ Solid({"."}) /\ Solid({"-"}) /\ Solid({"/", "."}) /\ Solid({"/"}) /\ Solid(Quote)
  /\ Space # Eos /\ Space # Comma /\ Space # "E" /\ Space # "("
<1>1. Space \notin Digit /\ Space \notin Alpha
  BY Zenon DEF Space, Digit, Alpha
<1>2. Space \notin Alpha \cup Digit \cup {"_"}
  <2>1. Space # "_"
    BY Zenon DEF Space
  <2> QED
    BY <1>1, <2>1, Zenon
<1>3. Space \notin {"+", "-"} /\ Space \notin {"."} /\ Space \notin {"-"} /\ Space \notin {"/", "."} /\ Space \notin {"/"}
  BY Zenon DEF Space
<1>4. Space \notin Quote /\ Eos \notin Quote
  BY Zenon DEF Space, Quote, Eos
<1>5. Space # Eos /\ Space # Comma /\ Space # "E" /\ Space # "("
  BY Zenon DEF Space, Eos, Comma
<1> QED
  BY <1>1, <1>2, <1>3, <1>4, <1>5, CharSets, Zenon DEF Solid

(* Skipping characters of a token goes the same way, and not past the cut. *)
LEMMA CutSkipAll ==
  ASSUME NEW s, NEW n, NEW u, Cut(s, n, u), NEW C, Solid(C), NEW p \in 0 .. n
  PROVE  skipAll(u, p, C) = skipAll(s, p, C) /\ skipAll(s, p, C) \in p .. n /\ skipAll(s, p, C) \in 0 .. n
<1> DEFINE e == skipAll(s, p, C)
           f == skipAll(u, p, C)
<1>1. /\ s \in CharText /\ u \in CharText /\ Len(s) \in Nat /\ n \in 0 .. Len(s) /\ n \in Nat /\ Len(u) = n
      /\ \A i \in 0 .. n - 1 : At(u, i) = At(s, i)
      /\ \A i \in Nat : i >= n => At(u, i) = Eos /\ At(s, i) \in {Space, Eos}
  BY CutFacts
<1>2. p \in 0 .. Len(s) /\ p \in 0 .. Len(u) /\ p \in Nat
  BY <1>1
<1>3. Eos \notin C /\ Space \notin C
  BY DEF Solid
<1>4. e \in p .. Len(s) /\ At(s, e) \notin C /\ \A i \in p .. e - 1 : At(s, i) \in C
  BY <1>1, <1>2, <1>3, SkipAllFacts
<1>5. f \in p .. Len(u) /\ At(u, f) \notin C /\ \A i \in p .. f - 1 : At(u, i) \in C
  BY <1>1, <1>2, <1>3, SkipAllFacts
<1> HIDE DEF e, f
<1>6. e \in Nat /\ f \in Nat /\ f <= n
  BY <1>1, <1>2, <1>4, <1>5
<1>7. e <= n
  <2> SUFFICES ASSUME ~(e <= n) PROVE FALSE
    OBVIOUS
  <2>1. n \in p .. e - 1
    BY <1>1, <1>2, <1>6
  <2> QED
    BY <1>1, <1>3, <1>4, <2>1
<1>8. ~(f < e)
  <2> SUFFICES ASSUME f < e PROVE FALSE
    OBVIOUS
  <2>1. f \in p .. e - 1 /\ f \in 0 .. n - 1
    BY <1>1, <1>2, <1>5, <1>6, <1>7
  <2> QED
    BY <1>1, <1>4, <1>5, <2>1
<1>9. ~(e < f)
  <2> SUFFICES ASSUME e < f PROVE FALSE
    OBVIOUS
  <2>1. e \in p .. f - 1 /\ e \in 0 .. n - 1
    BY <1>1, <1>2, <1>4, <1>6
  <2> QED
    BY <1>1, <1>4, <1>5, <2>1
<1>10. e = f /\ e \in p .. n /\ e \in 0 .. n
  BY <1>1, <1>2, <1>4, <1>6, <1>7, <1>8, <1>9
<1> QED
  BY <1>10 DEF e, f

(* The same for one character.                                             *)
LEMMA CutSkipOne ==
  ASSUME NEW s, NEW n, NEW u, Cut(s, n, u), NEW C, Solid(C), NEW p \in 0 .. n
  PROVE  /\ At(u, p) \in C <=> At(s, p) \in C
         /\ skipOne(u, p, C) = skipOne(s, p, C) /\ skipOne(s, p, C) \in p .. n /\ skipOne(s, p, C) \in 0 .. n
         /\ At(s, p) \in C => p + 1 \in 0 .. n
<1>1. /\ n \in Nat
      /\ \A i \in 0 .. n - 1 : At(u, i) = At(s, i)
      /\ \A i \in Nat : i >= n => At(u, i) = Eos /\ At(s, i) \in {Space, Eos}
  BY CutFacts
<1>2. Eos \notin C /\ Space \notin C
  BY DEF Solid
<1>3. p \in Nat /\ (p < n => p \in 0 .. n - 1) /\ (p < n => p + 1 \in 0 .. n)
  BY <1>1
<1>4. (At(u, p) \in C <=> At(s, p) \in C) /\ (At(s, p) \in C => p < n)
  <2>1. CASE p < n
    BY <1>1, <1>3, <2>1
  <2>2. CASE ~(p < n)
    <3>1. At(u, p) = Eos /\ At(s, p) \in {Space, Eos}
      BY <1>1, <1>3, <2>2
    <3> QED
      BY <1>2, <3>1
  <2> QED
    BY <2>1, <2>2
<1> QED
  BY <1>1, <1>3, <1>4 DEF skipOne

(* White space is skipped to the same character, or to the ends of both.   *)
LEMMA CutSkipWs ==
  ASSUME NEW s, NEW n, NEW u, Cut(s, n, u), NEW p \in 0 .. n, NEW a, NEW b, a = skipWs(s, p), b = skipWs(u, p)
  PROVE  /\ a \in p .. Len(s) /\ b \in p .. n
         /\ \/ a < n /\ b = a /\ a \in 0 .. n /\ At(u, a) = At(s, a)
            \/ a = Len(s) /\ b = n /\ At(s, a) = Eos /\ At(u, b) = Eos
<1>1. /\ s \in CharText /\ u \in CharText /\ Len(s) \in Nat /\ n \in 0 .. Len(s) /\ n \in Nat /\ Len(u) = n
      /\ \A i \in 0 .. n - 1 : At(u, i) = At(s, i)
      /\ \A i \in Nat : i >= n => At(u, i) = Eos /\ At(s, i) \in {Space, Eos}
  BY CutFacts
<1>2. p \in 0 .. Len(s) /\ p \in 0 .. Len(u) /\ p \in Nat
  BY <1>1
<1>3. Eos \notin {Space}
  BY SolidSets
<1>4. a \in p .. Len(s) /\ At(s, a) \notin {Space} /\ \A i \in p .. a - 1 : At(s, i) \in {Space}
  BY <1>1, <1>2, <1>3, SkipAllFacts DEF skipWs
<1>5. b \in p .. Len(u) /\ At(u, b) \notin {Space} /\ \A i \in p .. b - 1 : At(u, i) \in {Space}
  BY <1>1, <1>2, <1>3, SkipAllFacts DEF skipWs
<1>6. a \in Nat /\ b \in Nat /\ b <= n
  BY <1>1, <1>2, <1>4, <1>5
<1>7. CASE a < n
  <2>1. ~(b < a)
    <3> SUFFICES ASSUME b < a PROVE FALSE
      OBVIOUS
    <3>1. b \in p .. a - 1 /\ b \in 0 .. n - 1
      BY <1>1, <1>2, <1>5, <1>6, <1>7
    <3> QED
      BY <1>1, <1>4, <1>5, <3>1
  <2>2. ~(a < b)
    <3> SUFFICES ASSUME a < b PROVE FALSE
      OBVIOUS
    <3>1. a \in p .. b - 1 /\ a \in 0 .. n - 1
      BY <1>1, <1>2, <1>4, <1>6, <1>7
    <3> QED
      BY <1>1, <1>4, <1>5, <3>1
  <2>3. a = b /\ a \in 0 .. n /\ a \in 0 .. n - 1
    BY <1>1, <1>6, <1>7, <2>1, <2>2
  <2> QED
    BY <1>1, <1>4, <1>5, <1>7, <2>3
<1>8. CASE ~(a < n)
  <2>1. At(s, a) = Eos
    BY <1>1, <1>4, <1>6, <1>8
  <2>2. a = Len(s)
    BY <1>1, <1>4, <1>6, <2>1, AtFacts
  <2>3. ~(b < n)
    <3> SUFFICES ASSUME b < n PROVE FALSE
      OBVIOUS
    <3>1. b \in p .. a - 1 /\ b \in 0 .. n - 1
      BY <1>1, <1>2, <1>5, <1>6, <1>8
    <3> QED
      BY <1>1, <1>4, <1>5, <3>1
  <2>4. b = n
    BY <1>1, <1>6, <2>3
  <2> QED
    BY <1>1, <1>4, <1>5, <2>1, <2>2, <2>4
<1> QED
  BY <1>7, <1>8

(* A mnemonic.                                                             *)
LEMMA CutMnemonic ==
  ASSUME NEW s, NEW n, NEW u, Cut(s, n, u), NEW p \in 0 .. n
  PROVE  skipProgramMnemonic(u, p) = skipProgramMnemonic(s, p) /\ skipProgramMnemonic(s, p) \in 0 .. n
<1> DEFINE C == Alpha \cup Digit \cup {"_"}
<1>1. Solid(Alpha) /\ Solid(C)
  BY SolidSets
<1>2. (At(u, p) \in Alpha <=> At(s, p) \in Alpha) /\ (At(s, p) \in Alpha => p + 1 \in 0 .. n)
  BY <1>1, CutSkipOne
<1> HIDE DEF C
<1>3. CASE At(s, p) \in Alpha
  <2>1. skipProgramMnemonic(u, p) = skipAll(u, p + 1, C) /\ skipProgramMnemonic(s, p) = skipAll(s, p + 1, C)
    BY <1>2, <1>3 DEF skipProgramMnemonic, C
  <2>2. skipAll(u, p + 1, C) = skipAll(s, p + 1, C) /\ skipAll(s, p + 1, C) \in 0 .. n
    BY <1>1, <1>2, <1>3, CutSkipAll
  <2> QED
    BY <2>1, <2>2
<1>4. CASE At(s, p) \notin Alpha
  BY <1>2, <1>4 DEF skipProgramMnemonic
<1> QED
  BY <1>3, <1>4

(* The mantissa of a number.                                               *)
LEMMA CutMantisa ==
  ASSUME NEW s, NEW n, NEW u, Cut(s, n, u), NEW p \in 0 .. n
  PROVE  skipMantisa(u, p) = skipMantisa(s, p) /\ skipMantisa(s, p) \in 0 .. n
<1> DEFINE a(v) == skipOne(v, p, {"+", "-"})
           b(v) == skipAll(v, a(v), Digit)
           c(v) == skipOne(v, b(v), {"."})
           e(v) == skipAll(v, c(v), Digit)
           d(v) == IF c(v) > b(v) THEN e(v) ELSE b(v)
<1>0. Solid({"+", "-"}) /\ Solid(Digit) /\ Solid({"."})
  BY SolidSets
<1>1. a(u) = a(s) /\ a(s) \in 0 .. n
  BY <1>0, CutSkipOne
<1>2. b(u) = b(s) /\ b(s) \in 0 .. n
  <2> DEFINE q == a(s)
  <2>1. q \in 0 .. n /\ a(u) = q
    BY <1>1
  <2> HIDE DEF q
  <2>2. skipAll(u, q, Digit) = skipAll(s, q, Digit) /\ skipAll(s, q, Digit) \in 0 .. n
    BY <1>0, <2>1, CutSkipAll
  <2> QED
    BY <2>1, <2>2 DEF q
<1> HIDE DEF a
<1>3. c(u) = c(s) /\ c(s) \in 0 .. n
  <2> DEFINE q == b(s)
  <2>1. q \in 0 .. n /\ b(u) = q
    BY <1>2
  <2> HIDE DEF q
  <2>2. skipOne(u, q, {"."}) = skipOne(s, q, {"."}) /\ skipOne(s, q, {"."}) \in 0 .. n
    BY <1>0, <2>1, CutSkipOne
  <2> QED
    BY <2>1, <2>2 DEF q
<1> HIDE DEF b
<1>4. e(u) = e(s) /\ e(s) \in 0 .. n
  <2> DEFINE q == c(s)
  <2>1. q \in 0 .. n /\ c(u) = q
    BY <1>3
  <2> HIDE DEF q
  <2>2. skipAll(u, q, Digit) = skipAll(s, q, Digit) /\ skipAll(s, q, Digit) \in 0 .. n
    BY <1>0, <2>1, CutSkipAll
  <2> QED
    BY <2>1, <2>2 DEF q
<1>5. \A v : skipMantisa(v, p) = IF b(v) > a(v) \/ d(v) > c(v) THEN d(v) ELSE p
  BY DEF skipMantisa, a, b
<1> HIDE DEF c, e
<1> QED
  BY <1>1, <1>2, <1>3, <1>4, <1>5

(* Its exponent.                                                           *)
LEMMA CutExponent ==
  ASSUME NEW s, NEW n, NEW u, Cut(s, n, u), NEW p \in 0 .. n
  PROVE  skipExponent(u, p) = skipExponent(s, p) /\ skipExponent(s, p) \in 0 .. n
<1> DEFINE a(v) == skipWs(v, p)
           w(v) == skipWs(v, a(v) + 1)
           b(v) == skipOne(v, w(v), {"+", "-"})
           c(v) == skipAll(v, b(v), Digit)
<1>0. Len(s) \in Nat /\ n \in Nat /\ n <= Len(s) /\ s \in CharText /\ u \in CharText /\ Len(u) = n
  BY CutFacts
<1>6. Solid({"+", "-"}) /\ Solid(Digit)
  BY SolidSets
<1>1. \A v : skipExponent(v, p) = IF At(v, a(v)) = "E" /\ c(v) > b(v) THEN c(v) ELSE p
  BY DEF skipExponent
<1>2. \/ a(s) < n /\ a(u) = a(s) /\ a(s) \in 0 .. n /\ At(u, a(u)) = At(s, a(s))
      \/ At(s, a(s)) = Eos /\ At(u, a(u)) = Eos
  BY CutSkipWs
<1>3. Eos # "E"
  BY CharSets
<1> HIDE DEF a
<1>4. CASE At(s, a(s)) # "E"
  BY <1>1, <1>2, <1>3, <1>4
<1>5. CASE At(s, a(s)) = "E"
  <2> DEFINE q == a(s) + 1
  <2>1. a(u) = a(s) /\ q \in 0 .. n /\ At(u, a(u)) = "E"
    BY <1>0, <1>2, <1>3, <1>5
  <2> HIDE DEF q
  <2> DEFINE x == skipWs(s, q)
             y == skipWs(u, q)
  <2>2. /\ x \in q .. Len(s) /\ y \in q .. n
        /\ \/ x < n /\ y = x /\ x \in 0 .. n
           \/ x = Len(s) /\ y = n /\ At(s, x) = Eos /\ At(u, y) = Eos
    BY <2>1, CutSkipWs
  <2>3. w(s) = x /\ w(u) = y
    BY <2>1 DEF q
  <2> HIDE DEF x, y, w
  <2>4. CASE x < n /\ y = x /\ x \in 0 .. n
    <3>1. b(u) = b(s) /\ b(s) \in 0 .. n
      BY <2>3, <1>6, <2>4, CutSkipOne
    <3> HIDE DEF b
    <3>2. c(u) = c(s) /\ c(s) \in 0 .. n
      <4> DEFINE z == b(s)
      <4>1. z \in 0 .. n /\ b(u) = z
        BY <3>1
      <4> HIDE DEF z
      <4>2. skipAll(u, z, Digit) = skipAll(s, z, Digit) /\ skipAll(s, z, Digit) \in 0 .. n
        BY <1>6, <4>1, CutSkipAll
      <4> QED
        BY <4>1, <4>2 DEF z
    <3> HIDE DEF c
    <3> QED
      BY <1>1, <1>5, <2>1, <3>1, <3>2
  <2>5. CASE x = Len(s) /\ y = n /\ At(s, x) = Eos /\ At(u, y) = Eos
    <3>1. ASSUME NEW v \in CharText, NEW z, z = Len(v), z \in 0 .. Len(v), At(v, z) = Eos
          PROVE  skipOne(v, z, {"+", "-"}) = z /\ skipAll(v, z, Digit) = z
      <4>1. skipAll(v, z, Digit) \in z .. Len(v)
        BY <3>1, CharSets, SkipAllFacts
      <4>2. skipOne(v, z, {"+", "-"}) = z
        BY <3>1, CharSets DEF skipOne
      <4> DEFINE k == skipAll(v, z, Digit)
      <4> HIDE DEF k
      <4>3. k \in z .. z /\ z \in Nat
        BY <3>1, <4>1 DEF k
      <4>4. k = z
        BY <4>3
      <4> QED
        BY <4>2, <4>4 DEF k
    <3>2. x \in 0 .. Len(s) /\ y \in 0 .. Len(u) /\ y = Len(u)
      BY <1>0, <2>5
    <3>3. b(s) = x /\ c(s) = x
      <4>1. skipOne(s, x, {"+", "-"}) = x /\ skipAll(s, x, Digit) = x
        BY <1>0, <2>5, <3>1, <3>2
      <4> QED
        BY <2>3, <4>1
    <3>4. b(u) = y /\ c(u) = y
      <4>1. skipOne(u, y, {"+", "-"}) = y /\ skipAll(u, y, Digit) = y
        BY <1>0, <2>5, <3>1, <3>2
      <4> QED
        BY <2>3, <4>1
    <3> HIDE DEF b, c
    <3>5. ~(c(s) > b(s)) /\ ~(c(u) > b(u))
      BY <1>0, <2>5, <3>3, <3>4
    <3> QED
      BY <1>1, <3>5
  <2> QED
    BY <2>2, <2>4, <2>5
<1> QED
  BY <1>4, <1>5

(* A number.                                                               *)
LEMMA CutDecimal ==
  ASSUME NEW s, NEW n, NEW u, Cut(s, n, u), NEW p \in 0 .. n, NEW t, t = scpiLex_DecimalNumericProgramData(s, p)
  PROVE  scpiLex_DecimalNumericProgramData(u, p) = t /\ t.pos \in 0 .. n
<1> DEFINE q(v) == skipMantisa(v, p)
           e(v) == IF q(v) > p THEN skipExponent(v, q(v)) ELSE p
<1>1. q(u) = q(s) /\ q(s) \in 0 .. n
  BY CutMantisa
<1>2. \A v : scpiLex_DecimalNumericProgramData(v, p) = Found("DECIMAL_NUMERIC_PROGRAM_DATA", p, e(v))
  BY DEF scpiLex_DecimalNumericProgramData
<1> HIDE DEF q
<1>3. e(u) = e(s) /\ e(s) \in 0 .. n
  <2> DEFINE x == q(s)
  <2>1. x \in 0 .. n /\ q(u) = x
    BY <1>1
  <2> HIDE DEF x
  <2>2. skipExponent(u, x) = skipExponent(s, x) /\ skipExponent(s, x) \in 0 .. n
    BY <2>1, CutExponent
  <2> QED
    BY <2>1, <2>2 DEF x
<1>4. t = Found("DECIMAL_NUMERIC_PROGRAM_DATA", p, e(s)) /\ scpiLex_DecimalNumericProgramData(u, p) = t
  BY <1>2, <1>3
<1>5. t.pos \in {e(s), p}
  BY <1>4, TokenFacts DEF Found
<1> QED
  BY <1>3, <1>4, <1>5

(* One name of a suffix.                                                   *)
LEMMA CutUnit ==
  ASSUME NEW s, NEW n, NEW u, Cut(s, n, u), NEW p \in 0 .. n
  PROVE  skipUnit(u, p) = skipUnit(s, p) /\ skipUnit(s, p) \in p .. n /\ skipUnit(s, p) \in 0 .. n
<1> DEFINE a(v) == skipAll(v, p, Alpha)
           b(v) == skipOne(v, a(v), {"-"})
<1>1. Solid(Alpha) /\ Solid({"-"}) /\ Solid(Digit)
  BY SolidSets
<1>2. a(u) = a(s) /\ a(s) \in p .. n /\ a(s) \in 0 .. n
  BY <1>1, CutSkipAll
<1>3. \A v : skipUnit(v, p) = skipOne(v, b(v), Digit)
  BY DEF skipUnit
<1> HIDE DEF a
<1>4. b(u) = b(s) /\ b(s) \in a(s) .. n /\ b(s) \in 0 .. n
  <2> DEFINE q == a(s)
  <2>1. q \in 0 .. n /\ a(u) = q
    BY <1>2
  <2> HIDE DEF q
  <2>2. skipOne(u, q, {"-"}) = skipOne(s, q, {"-"}) /\ skipOne(s, q, {"-"}) \in q .. n /\ skipOne(s, q, {"-"}) \in 0 .. n
    BY <1>1, <2>1, CutSkipOne
  <2> QED
    BY <2>1, <2>2 DEF q
<1> HIDE DEF b
<1> DEFINE q == b(s)
<1>5. q \in 0 .. n /\ b(u) = q
  BY <1>4
<1> HIDE DEF q
<1>6. skipOne(u, q, Digit) = skipOne(s, q, Digit) /\ skipOne(s, q, Digit) \in q .. n /\ skipOne(s, q, Digit) \in 0 .. n
  BY <1>1, <1>5, CutSkipOne
<1>7. skipUnit(s, p) = skipOne(s, q, Digit) /\ skipUnit(u, p) = skipOne(u, q, Digit)
  BY <1>3, <1>5 DEF q
<1>8. q \in a(s) .. n /\ a(s) \in p .. n /\ n \in Nat
  BY <1>2, <1>4, CutFacts DEF q
<1> QED
  BY <1>5, <1>6, <1>7, <1>8

(* The names of a suffix.                                                  *)
LEMMA CutUnits ==
  ASSUME NEW s, NEW n, NEW u, Cut(s, n, u), NEW p \in 0 .. n
  PROVE  skipUnits(u, p) = skipUnits(s, p) /\ skipUnits(s, p) \in 0 .. n
<1> DEFINE T == {q \in 0 .. n : skipUnits(u, q) = skipUnits(s, q) /\ skipUnits(s, q) \in 0 .. n}
<1>1. s \in CharText /\ u \in CharText /\ Len(s) \in Nat /\ n \in 0 .. Len(s) /\ n \in Nat /\ Len(u) = n
  BY CutFacts
<1>2. Solid({"/", "."})
  BY SolidSets
<1>3. ASSUME NEW q \in 0 .. n, \A r \in q + 1 .. n : r \in T
      PROVE  q \in T
  <2> DEFINE a == skipOne(s, q, {"/", "."})
             b == skipUnit(s, a)
  <2>1. skipOne(u, q, {"/", "."}) = a /\ a \in 0 .. n
    BY <1>2, CutSkipOne
  <2>2. q \in 0 .. Len(s) /\ q \in 0 .. Len(u)
    BY <1>1
  <2>3. IF a = q THEN skipUnits(s, q) = q ELSE b \in q + 1 .. Len(s) /\ skipUnits(s, q) = skipUnits(s, b)
    BY <1>1, <2>2, UnitsTurn
  <2> HIDE DEF a
  <2>4. skipUnit(u, a) = b /\ b \in 0 .. n
    BY <2>1, CutUnit
  <2>5. IF a = q THEN skipUnits(u, q) = q ELSE skipUnits(u, q) = skipUnits(u, skipUnit(u, a))
    BY <1>1, <2>1, <2>2, UnitsTurn
  <2> HIDE DEF b
  <2>6. CASE a = q
    BY <2>3, <2>5, <2>6
  <2>7. CASE a # q
    <3>1. b \in q + 1 .. n
      BY <1>1, <2>3, <2>4, <2>7
    <3>2. b \in T
      BY <1>3, <3>1
    <3> QED
      BY <2>3, <2>4, <2>5, <2>7, <3>2
  <2> QED
    BY <2>6, <2>7
<1>4. 0 .. n \subseteq T
  <2> HIDE DEF T
  <2> QED
    BY <1>1, <1>3, UpInduction
<1> QED
  BY <1>4

(* A suffix.                                                               *)
LEMMA CutSuffix ==
  ASSUME NEW s, NEW n, NEW u, Cut(s, n, u), NEW p \in 0 .. n, NEW t, t = scpiLex_SuffixProgramData(s, p)
  PROVE  scpiLex_SuffixProgramData(u, p) = t /\ t.pos \in 0 .. n
<1> DEFINE q(v) == skipOne(v, p, {"/"})
           e(v) == IF At(v, q(v)) \in Alpha THEN skipUnits(v, skipUnit(v, q(v))) ELSE q(v)
<1>1. Solid({"/"}) /\ Solid(Alpha)
  BY SolidSets
<1>2. q(u) = q(s) /\ q(s) \in 0 .. n
  BY <1>1, CutSkipOne
<1>3. \A v : scpiLex_SuffixProgramData(v, p) = Found("SUFFIX_PROGRAM_DATA", p, e(v))
  BY DEF scpiLex_SuffixProgramData
<1> HIDE DEF q
<1>4. e(u) = e(s) /\ e(s) \in 0 .. n
  <2> DEFINE x == q(s)
  <2>1. x \in 0 .. n /\ q(u) = x
    BY <1>2
  <2> HIDE DEF x
  <2>2. At(u, x) \in Alpha <=> At(s, x) \in Alpha
    BY <1>1, <2>1, CutSkipOne
  <2> DEFINE y == skipUnit(s, x)
  <2>3. skipUnit(u, x) = y /\ y \in 0 .. n
    BY <2>1, CutUnit
  <2> HIDE DEF y
  <2>4. skipUnits(u, y) = skipUnits(s, y) /\ skipUnits(s, y) \in 0 .. n
    BY <2>3, CutUnits
  <2> QED
    BY <2>1, <2>2, <2>3, <2>4 DEF x, y
<1>5. t = Found("SUFFIX_PROGRAM_DATA", p, e(s)) /\ scpiLex_SuffixProgramData(u, p) = t
  BY <1>3, <1>4
<1>6. t.pos \in {e(s), p}
  BY <1>5, TokenFacts DEF Found
<1> QED
  BY <1>4, <1>5, <1>6

(* The tokens of s and u are the same but for the white space behind them. *)
SameToken(s, n, x, y) ==
  /\ y.type = x.type /\ y.ptr = x.ptr /\ y.len = x.len
  /\ (x.pos \in 0 .. n /\ y.pos = x.pos) \/ (x.pos = Len(s) /\ y.pos = n)

(* A suffix that is not there, at the end.                                 *)
LEMMA NoSuffix ==
  ASSUME NEW s \in CharText, NEW p \in Nat, At(s, p) = Eos, NEW t, t = scpiLex_SuffixProgramData(s, p)
  PROVE  t.pos = p /\ t.ret = 0
<1>1. skipOne(s, p, {"/"}) = p
  BY CharSets DEF skipOne
<1>2. t = Found("SUFFIX_PROGRAM_DATA", p, p)
  BY <1>1, CharSets DEF scpiLex_SuffixProgramData
<1>3. t = Token("UNKNOWN", p, 0, p, 0)
  BY <1>2 DEF Found
<1> QED
  BY <1>3, TokenFacts

(* A number and its unit: white space behind a number is skipped.          *)
LEMMA CutNumber ==
  ASSUME NEW s, NEW n, NEW u, Cut(s, n, u), NEW p \in 0 .. n
  PROVE  SameToken(s, n, NumberWithSuffix(s, p), NumberWithSuffix(u, p))
<1> DEFINE d == scpiLex_DecimalNumericProgramData(s, p)
           a == skipWs(s, d.pos)
           b == skipWs(u, d.pos)
           f == scpiLex_SuffixProgramData(s, a)
           g == scpiLex_SuffixProgramData(u, b)
           With(z) == CASE d.ret = 0 -> d
                        [] d.ret > 0 /\ z.ret > 0 ->
                             Token("DECIMAL_NUMERIC_PROGRAM_DATA_WITH_SUFFIX", p, z.pos - p, z.pos, z.pos - p)
                        [] d.ret > 0 /\ z.ret = 0 -> [d EXCEPT !.pos = z.pos]
           x == NumberWithSuffix(s, p)
           y == NumberWithSuffix(u, p)
<1>1. s \in CharText /\ u \in CharText /\ Len(s) \in Nat /\ n \in 0 .. Len(s) /\ n \in Nat /\ Len(u) = n
  BY CutFacts
<1>2. p \in 0 .. Len(s) /\ p \in Nat
  BY <1>1
<1>3. scpiLex_DecimalNumericProgramData(u, p) = d /\ d.pos \in 0 .. n
  BY CutDecimal
<1>4. x = With(f)
  BY DEF NumberWithSuffix
<1>5. y = With(g)
  BY <1>3 DEF NumberWithSuffix
<1>6. d = Token(d.type, d.ptr, d.len, d.pos, d.ret) /\ d.ret \in Nat
  <2>1. Spans(s, p, d)
    BY <1>1, <1>2, DecimalFacts
  <2> HIDE DEF d
  <2> QED
    BY <1>1, <1>2, <1>3, <2>1 DEF Spans
<1> HIDE DEF d, x, y
<1>7. /\ a \in d.pos .. Len(s) /\ b \in d.pos .. n
      /\ \/ a < n /\ b = a /\ a \in 0 .. n
         \/ a = Len(s) /\ b = n /\ At(s, a) = Eos /\ At(u, b) = Eos
  BY <1>3, CutSkipWs
<1> HIDE DEF a, b
<1>8. /\ f.ret \in Nat
      /\ (f = g /\ f.pos \in 0 .. n) \/ (f.ret = 0 /\ g.ret = 0 /\ f.pos = Len(s) /\ g.pos = n)
  <2>1. a \in 0 .. Len(s) /\ a \in Nat /\ b \in Nat
    BY <1>1, <1>3, <1>7
  <2>2. f.ret \in Nat
    <3>1. Spans(s, a, f)
      BY <1>1, <2>1, SuffixFacts
    <3> HIDE DEF f
    <3> QED
      BY <1>1, <2>1, <3>1 DEF Spans
  <2>3. CASE a < n /\ b = a /\ a \in 0 .. n
    <3>1. f = g /\ f.pos \in 0 .. n
      BY <2>3, CutSuffix
    <3> QED
      BY <2>2, <3>1
  <2>4. CASE a = Len(s) /\ b = n /\ At(s, a) = Eos /\ At(u, b) = Eos
    <3>1. f.ret = 0 /\ f.pos = a
      BY <1>1, <2>1, <2>4, NoSuffix
    <3>2. g.ret = 0 /\ g.pos = b
      BY <1>1, <2>1, <2>4, NoSuffix
    <3> QED
      BY <2>2, <2>4, <3>1, <3>2
  <2> QED
    BY <1>7, <2>3, <2>4
<1> HIDE DEF f, g
<1>9. CASE d.ret = 0
  <2>1. x = d /\ y = d
    BY <1>4, <1>5, <1>9
  <2> QED
    BY <1>3, <2>1 DEF SameToken, x, y
<1>10. CASE d.ret > 0 /\ f.ret > 0
  <2>1. f = g /\ f.pos \in 0 .. n
    BY <1>8, <1>10
  <2>2. x = Token("DECIMAL_NUMERIC_PROGRAM_DATA_WITH_SUFFIX", p, f.pos - p, f.pos, f.pos - p) /\ y = x
    BY <1>4, <1>5, <1>10, <2>1
  <2>3. x.pos = f.pos
    BY <2>2, TokenFacts
  <2> QED
    BY <2>1, <2>2, <2>3 DEF SameToken, x, y
<1>11. CASE d.ret > 0 /\ f.ret = 0
  <2>1. g.ret = 0
    BY <1>8, <1>11
  <2>2. x = [d EXCEPT !.pos = f.pos] /\ y = [d EXCEPT !.pos = g.pos]
    BY <1>4, <1>5, <1>11, <2>1
  <2>3. x = Token(d.type, d.ptr, d.len, f.pos, d.ret) /\ y = Token(d.type, d.ptr, d.len, g.pos, d.ret)
    BY <1>6, <2>2 DEF Token
  <2>4. x.type = d.type /\ x.ptr = d.ptr /\ x.len = d.len /\ x.pos = f.pos
    BY <2>3, TokenFacts
  <2>5. y.type = d.type /\ y.ptr = d.ptr /\ y.len = d.len /\ y.pos = g.pos
    BY <2>3, TokenFacts
  <2> QED
    BY <1>8, <2>4, <2>5 DEF SameToken, x, y
<1> QED
  BY <1>6, <1>8, <1>9, <1>10, <1>11

(* A string ends with a quote, in front of the cut.                        *)
LEMMA CutQuote ==
  ASSUME NEW s, NEW n, NEW u, Cut(s, n, u), NEW quote \in Quote, NEW p \in 0 .. n,
         NEW e \in 0 .. Len(s) - 1, skipQuoteProgramData(s, p, quote) = e
  PROVE  e \in 0 .. n - 1 /\ skipQuoteProgramData(u, p, quote) = e
<1> DEFINE R(q) == skipQuoteProgramData(s, q, quote)
           U(q) == skipQuoteProgramData(u, q, quote)
           T == {q \in 0 .. n : R(q) = e => (e \in 0 .. n - 1 /\ U(q) = e)}
<1>1. /\ s \in CharText /\ u \in CharText /\ Len(s) \in Nat /\ n \in 0 .. Len(s) /\ n \in Nat /\ Len(u) = n
      /\ \A i \in 0 .. n - 1 : At(u, i) = At(s, i)
      /\ \A i \in Nat : i >= n => At(u, i) = Eos /\ At(s, i) \in {Space, Eos}
  BY CutFacts
<1>2. quote # Eos /\ quote # Space /\ quote # "8bit" /\ Space # Eos /\ Space # "8bit" /\ Eos # "8bit"
  <2>1. Solid(Quote) /\ Space # Eos
    BY SolidSets
  <2>2. Space # "8bit" /\ Eos # "8bit"
    BY Zenon DEF Space, Eos
  <2> QED
    BY <2>1, <2>2, QuoteChars DEF Solid
<1>3. e \in Nat /\ e < Len(s) /\ e # Never
  BY <1>1 DEF Never
<1>4. ASSUME NEW q \in 0 .. n, \A r \in q + 1 .. n : r \in T
      PROVE  q \in T
  <2> SUFFICES ASSUME R(q) = e PROVE e \in 0 .. n - 1 /\ U(q) = e
    OBVIOUS
  <2>1. q \in Nat /\ q \in 0 .. Len(s) /\ q \in 0 .. Len(u) /\ q + 1 \in Nat
    BY <1>1
  <2>2. CASE q = n
    \* only white space is left
    <3> DEFINE G == {i \in 0 .. Len(s) : i >= n}
    <3>1. KeptByTurns(s, quote, G)
      <4> SUFFICES ASSUME NEW i \in 0 .. Len(s), i \in G
                   PROVE  /\ Doubles(s, quote, i) => i + 2 \in G
                          /\ Passes(s, quote, i) => i + 1 \in G
        BY DEF KeptByTurns
      <4>1. i \in Nat /\ i >= n
        BY <1>1
      <4>2. ~Doubles(s, quote, i)
        BY <1>1, <1>2, <4>1 DEF Doubles
      <4>3. Passes(s, quote, i) => i + 1 \in 0 .. Len(s)
        BY <1>1, QuoteTurns
      <4> QED
        BY <1>1, <4>1, <4>2, <4>3
    <3>2. q \in G
      BY <1>1, <2>1, <2>2
    <3> HIDE DEF G
    <3>3. PICK f \in q .. Len(s) : f \in G /\ StopsAt(s, quote, f, R(q))
      BY <1>1, <2>1, <3>1, <3>2, QuoteScan
    <3>4. f \in Nat /\ f >= n
      BY <1>1, <3>3 DEF G
    <3>5. ~Closes(s, quote, f) /\ At(s, f) # "8bit"
      BY <1>1, <1>2, <3>4 DEF Closes
    <3>6. R(q) = Len(s)
      BY <3>3, <3>5 DEF StopsAt
    <3> QED
      BY <1>1, <1>3, <3>6
  <2>3. CASE q # n
    <3>1. q < n /\ q \in 0 .. n - 1 /\ q < Len(s) /\ q + 1 \in 0 .. n
      BY <1>1, <2>1, <2>3
    <3>2. At(u, q) = At(s, q) /\ At(s, q) # Eos
      BY <1>1, <2>1, <3>1, AtFacts
    <3>3. At(u, q + 1) = quote <=> At(s, q + 1) = quote
      <4>1. CASE q + 1 < n
        <5>1. q + 1 \in 0 .. n - 1
          BY <1>1, <2>1, <4>1
        <5> QED
          BY <1>1, <5>1
      <4>2. CASE ~(q + 1 < n)
        BY <1>1, <1>2, <2>1, <4>2
      <4> QED
        BY <4>1, <4>2
    <3>4. CASE Doubles(s, quote, q)
      <4>1. Doubles(u, quote, q)
        BY <3>2, <3>3, <3>4 DEF Doubles
      <4>2. R(q) = R(q + 2)
        BY <1>1, <2>1, <3>4, QuoteTurns
      <4>3. q + 2 \in 0 .. Len(u) /\ U(q) = U(q + 2)
        BY <1>1, <2>1, <4>1, QuoteTurns
      <4>4. q + 2 \in q + 1 .. n
        BY <1>1, <2>1, <4>3
      <4> HIDE DEF R, U
      <4> QED
        BY <1>4, <4>2, <4>3, <4>4
    <3>5. CASE Passes(s, quote, q)
      <4>1. Passes(u, quote, q)
        BY <3>2, <3>5 DEF Passes
      <4>2. R(q) = R(q + 1)
        BY <1>1, <2>1, <3>5, QuoteTurns
      <4>3. q + 1 \in 0 .. Len(u) /\ U(q) = U(q + 1)
        BY <1>1, <2>1, <4>1, QuoteTurns
      <4>4. q + 1 \in q + 1 .. n
        BY <1>1, <2>1, <4>3
      <4> HIDE DEF R, U
      <4> QED
        BY <1>4, <4>2, <4>3, <4>4
    <3>6. CASE ~Doubles(s, quote, q) /\ ~Passes(s, quote, q)
      <4>1. At(s, q) # "8bit"
        BY <1>1, <1>3, <2>1, QuoteTurns
      <4>2. Closes(s, quote, q)
        BY <3>2, <3>6, <4>1 DEF Doubles, Passes, Closes
      <4>3. Closes(u, quote, q)
        BY <3>2, <3>3, <4>2 DEF Closes
      <4>4. R(q) = q /\ U(q) = q
        BY <1>1, <2>1, <4>2, <4>3, QuoteTurns
      <4> QED
        BY <3>1, <4>4
    <3> QED
      BY <3>4, <3>5, <3>6
  <2> QED
    BY <2>2, <2>3
<1>5. 0 .. n \subseteq T
  <2> HIDE DEF T
  <2> QED
    BY <1>1, <1>4, UpInduction
<1> QED
  BY <1>5

(* A string is the same.                                                   *)
LEMMA CutString ==
  ASSUME NEW s, NEW n, NEW u, Cut(s, n, u), NEW p \in 0 .. n - 1, NEW t, t = scpiLex_StringProgramData(s, p),
         At(s, p) \in Quote, t.type \notin {"UNKNOWN", "NEVER"}
  PROVE  scpiLex_StringProgramData(u, p) = t /\ t.pos \in 0 .. n
<1> DEFINE quote == At(s, p)
           R(v) == skipQuoteProgramData(v, p + 1, quote)
           f(v) == IF R(v) < Len(v) THEN R(v) + 1 ELSE p
<1>1. /\ s \in CharText /\ u \in CharText /\ Len(s) \in Nat /\ n \in 0 .. Len(s) /\ n \in Nat /\ Len(u) = n
      /\ \A i \in 0 .. n - 1 : At(u, i) = At(s, i)
  BY CutFacts
<1>2. p \in Nat /\ p + 1 \in Nat /\ p + 1 \in 0 .. n /\ p + 1 \in 0 .. Len(s) /\ At(u, p) = quote
  BY <1>1
<1>3. \A v : At(v, p) = quote =>
        scpiLex_StringProgramData(v, p) =
          CASE quote \notin Quote -> Token("UNKNOWN", p, 0, p, 0)
            [] quote \in Quote /\ R(v) = Never -> Token("NEVER", p, 0, p, 0)
            [] quote \in Quote /\ R(v) # Never -> Found("QUOTE_PROGRAM_DATA", p, f(v))
  BY DEF scpiLex_StringProgramData
<1> HIDE DEF R, f
<1>4. R(s) # Never
  <2> SUFFICES ASSUME R(s) = Never PROVE FALSE
    OBVIOUS
  <2>1. t = Token("NEVER", p, 0, p, 0)
    BY <1>3
  <2> QED
    BY <2>1, TokenFacts
<1>5. t = Found("QUOTE_PROGRAM_DATA", p, f(s))
  BY <1>3, <1>4
<1>6. R(s) < Len(s)
  <2> SUFFICES ASSUME ~(R(s) < Len(s)) PROVE FALSE
    OBVIOUS
  <2>1. t = Token("UNKNOWN", p, 0, p, 0)
    BY <1>2, <1>5 DEF f, Found
  <2> QED
    BY <2>1, TokenFacts
<1>7. R(s) \in 0 .. Len(s) - 1
  <2>1. KeptByTurns(s, quote, Nat)
    BY <1>1 DEF KeptByTurns
  <2>2. PICK e \in p + 1 .. Len(s) : StopsAt(s, quote, e, R(s))
    <3> HIDE DEF quote
    <3> QED
      BY <1>1, <1>2, <2>1, QuoteScan DEF R, quote
  <2>3. R(s) = e /\ e \in Nat
    BY <1>1, <1>2, <1>4, <2>2 DEF StopsAt
  <2> QED
    BY <1>1, <1>6, <2>3
<1> DEFINE e == R(s)
<1>8. e \in 0 .. n - 1 /\ R(u) = e
  <2>1. e \in 0 .. Len(s) - 1 /\ skipQuoteProgramData(s, p + 1, quote) = e
    BY <1>7 DEF R
  <2> HIDE DEF e, quote
  <2>2. e \in 0 .. n - 1 /\ skipQuoteProgramData(u, p + 1, quote) = e
    BY <1>2, <2>1, CutQuote DEF quote
  <2> QED
    BY <2>2 DEF R
<1> HIDE DEF e
<1>9. f(s) = e + 1 /\ f(u) = e + 1 /\ e + 1 \in 0 .. n /\ R(u) # Never
  BY <1>1, <1>4, <1>6, <1>8 DEF f, e
<1>10. scpiLex_StringProgramData(u, p) = Found("QUOTE_PROGRAM_DATA", p, f(u))
  BY <1>2, <1>3, <1>9
<1>11. t.pos \in {e + 1, p}
  BY <1>5, <1>9, TokenFacts DEF Found
<1> QED
  BY <1>1, <1>2, <1>5, <1>9, <1>10, <1>11

(* An expression ends with a parenthesis, in front of the cut.             *)
LEMMA CutExpression ==
  ASSUME NEW s, NEW n, NEW u, Cut(s, n, u), NEW p \in 0 .. n - 1, NEW t, t = scpiLex_ProgramExpression(s, p),
         At(s, p) = "(", t.type # "UNKNOWN"
  PROVE  scpiLex_ProgramExpression(u, p) = t /\ t.pos \in 0 .. n
<1> DEFINE Stops(v, q) == ~isProgramExpression(At(v, q)) /\ \A i \in p + 1 .. q - 1 : isProgramExpression(At(v, i))
           E(v) == CHOOSE q \in p + 1 .. Len(v) : Stops(v, q)
           f(v) == IF At(v, p) = "(" /\ At(v, E(v)) = ")" THEN E(v) + 1 ELSE p
<1>1. /\ s \in CharText /\ u \in CharText /\ Len(s) \in Nat /\ n \in 0 .. Len(s) /\ n \in Nat /\ Len(u) = n
      /\ \A i \in 0 .. n - 1 : At(u, i) = At(s, i)
      /\ \A i \in Nat : i >= n => At(u, i) = Eos /\ At(s, i) \in {Space, Eos}
  BY CutFacts
<1>2. p \in Nat /\ p + 1 \in 0 .. n /\ At(u, p) = "("
  BY <1>1
<1>3. \A v : scpiLex_ProgramExpression(v, p) = Found("PROGRAM_EXPRESSION", p, f(v))
  BY DEF scpiLex_ProgramExpression
<1>4. ~isProgramExpression(Eos) /\ ~isProgramExpression(")") /\ Eos # ")" /\ Space # ")"
  BY Zenon DEF isProgramExpression, Eos, Space
<1>5. ASSUME NEW v \in CharText, p + 1 \in 0 .. Len(v)
      PROVE  E(v) \in p + 1 .. Len(v) /\ Stops(v, E(v))
  <2> DEFINE D == {c \in {At(v, i) : i \in Nat} : isProgramExpression(c)}
             a == skipAll(v, p + 1, D)
  <2>1. Eos \notin D
    BY <1>4
  <2>2. a \in p + 1 .. Len(v) /\ At(v, a) \notin D /\ \A i \in p + 1 .. a - 1 : At(v, i) \in D
    <3> HIDE DEF D
    <3> QED
      BY <1>5, <2>1, SkipAllFacts
  <2> HIDE DEF a
  <2>3. a \in Nat
    BY <1>2, <1>5, <2>2 DEF CharText
  <2>4. Stops(v, a)
    BY <2>2, <2>3
  <2> HIDE DEF Stops
  <2> QED
    BY <2>2, <2>4
<1>6. p + 1 \in 0 .. Len(s) /\ p + 1 \in 0 .. Len(u)
  BY <1>1, <1>2
<1> DEFINE x == E(s)
           y == E(u)
<1>7. x \in p + 1 .. Len(s) /\ Stops(s, x)
  BY <1>1, <1>5, <1>6
<1>8. y \in p + 1 .. Len(u) /\ Stops(u, y)
  BY <1>1, <1>5, <1>6
<1>9. At(s, x) = ")"
  <2> SUFFICES ASSUME At(s, x) # ")" PROVE FALSE
    OBVIOUS
  <2>1. f(s) = p
    OBVIOUS
  <2> HIDE DEF f
  <2>2. t = Token("UNKNOWN", p, 0, p, 0)
    BY <1>2, <1>3, <2>1 DEF Found
  <2> QED
    BY <2>2, TokenFacts
<1> HIDE DEF E
<1>10. x \in Nat /\ y \in Nat /\ y <= n
  BY <1>1, <1>2, <1>7, <1>8
<1>11. x < n
  <2> SUFFICES ASSUME ~(x < n) PROVE FALSE
    OBVIOUS
  <2>1. At(s, x) \in {Space, Eos}
    BY <1>1, <1>10
  <2> QED
    BY <1>4, <1>9, <2>1
<1>12. ~(y < x)
  <2> SUFFICES ASSUME y < x PROVE FALSE
    OBVIOUS
  <2>1. y \in p + 1 .. x - 1 /\ y \in 0 .. n - 1
    BY <1>1, <1>2, <1>8, <1>10, <1>11
  <2> QED
    BY <1>1, <1>7, <1>8, <2>1
<1>13. ~(x < y)
  <2> SUFFICES ASSUME x < y PROVE FALSE
    OBVIOUS
  <2>1. x \in p + 1 .. y - 1 /\ x \in 0 .. n - 1
    BY <1>1, <1>2, <1>7, <1>10, <1>11
  <2> QED
    BY <1>1, <1>7, <1>8, <2>1
<1>14. x = y /\ x \in 0 .. n - 1 /\ x + 1 \in 0 .. n
  BY <1>1, <1>10, <1>11, <1>12, <1>13
<1>15. At(u, y) = ")"
  BY <1>1, <1>9, <1>14
<1> HIDE DEF Stops
<1>16. f(s) = x + 1 /\ f(u) = x + 1
  BY <1>2, <1>9, <1>14, <1>15
<1> HIDE DEF f
<1>17. t = Found("PROGRAM_EXPRESSION", p, x + 1) /\ scpiLex_ProgramExpression(u, p) = t
  BY <1>3, <1>16
<1>18. t.pos \in {x + 1, p}
  BY <1>17, TokenFacts DEF Found
<1> QED
  BY <1>1, <1>2, <1>14, <1>17, <1>18

(* A token that is not there, and leaves the position alone.               *)
None(a) == Token("UNKNOWN", a, 0, a, 0)

(* Where only one alternative can apply it is the one taken.               *)
LEMMA OnlyOne ==
  ASSUME NEW s, NEW a \in Nat, NEW k \in 1 .. 6,
         \A i \in 1 .. 6 : i # k => Alternatives(s, a)[i] = None(a),
         Alternatives(s, a)[k] = None(a) \/ Alternatives(s, a)[k].type # "UNKNOWN"
  PROVE  FirstOf(s, a) = Alternatives(s, a)[k]
<1>1. DOMAIN Alternatives(s, a) = 1 .. 6
  BY DEF Alternatives
<1>2. ASSUME NEW i \in 1 .. 6, Alternatives(s, a)[i] = None(a)
      PROVE  i \notin Apply(s, a)
  <2>1. None(a).type = "UNKNOWN" /\ None(a).pos = a
    BY TokenFacts DEF None
  <2> QED
    BY <1>2, <2>1 DEF Apply
<1>3. CASE Alternatives(s, a)[k].type # "UNKNOWN"
  <2>1. k \in Apply(s, a)
    BY <1>1, <1>3 DEF Apply
  <2>2. PICK i \in Apply(s, a) : FirstOf(s, a) = Alternatives(s, a)[i]
    BY <2>1, FirstIsLeast
  <2>3. i \in 1 .. 6
    BY <1>1 DEF Apply
  <2>4. i = k
    BY <1>2, <2>2, <2>3
  <2> QED
    BY <2>2, <2>4
<1>4. CASE Alternatives(s, a)[k] = None(a)
  <2>1. Apply(s, a) = {}
    <3>1. \A i \in 1 .. 6 : i \notin Apply(s, a)
      BY <1>2, <1>4
    <3> QED
      BY <1>1, <3>1 DEF Apply
  <2> QED
    BY <1>4, <2>1 DEF FirstOf, None
<1> QED
  BY <1>3, <1>4

(* Without a digit or the start of a number there is none.                 *)
LEMMA NoNumber ==
  ASSUME NEW s \in CharText, NEW a \in 0 .. Len(s), At(s, a) \notin Digit \cup {"+", "-", "."}
  PROVE  NumberWithSuffix(s, a) = None(a)
<1>1. a \in Nat /\ a \in 0 .. Len(s)
  BY DEF CharText
<1>2. skipOne(s, a, {"+", "-"}) = a /\ skipOne(s, a, {"."}) = a
  BY DEF skipOne
<1>3. skipAll(s, a, Digit) = a
  <2> DEFINE e == skipAll(s, a, Digit)
  <2>1. e \in a .. Len(s) /\ \A i \in a .. e - 1 : At(s, i) \in Digit
    BY CharSets, SkipAllFacts
  <2> HIDE DEF e
  <2>2. ~(e > a)
    <3> SUFFICES ASSUME e > a PROVE FALSE
      OBVIOUS
    <3>1. a \in a .. e - 1
      BY <1>1, <2>1
    <3> QED
      BY <2>1, <3>1
  <2>3. e = a
    BY <1>1, <2>1, <2>2 DEF CharText
  <2> QED
    BY <2>3 DEF e
<1>4. skipMantisa(s, a) = a
  BY <1>1, <1>2, <1>3 DEF skipMantisa
<1> DEFINE d == scpiLex_DecimalNumericProgramData(s, a)
<1>5. d = None(a)
  BY <1>1, <1>4 DEF scpiLex_DecimalNumericProgramData, Found, None
<1>6. d.ret = 0
  BY <1>5, TokenFacts DEF None
<1> HIDE DEF d
<1> DEFINE u == scpiLex_SuffixProgramData(s, skipWs(s, d.pos))
<1>7. NumberWithSuffix(s, a) =
        CASE d.ret = 0 -> d
          [] d.ret > 0 /\ u.ret > 0 -> Token("DECIMAL_NUMERIC_PROGRAM_DATA_WITH_SUFFIX", a, u.pos - a, u.pos, u.pos - a)
          [] d.ret > 0 /\ u.ret = 0 -> [d EXCEPT !.pos = u.pos]
  BY DEF NumberWithSuffix, d
<1> HIDE DEF u
<1> QED
  BY <1>5, <1>6, <1>7

(* A number that is not there leaves the position alone.                   *)
LEMMA NumberOrNone ==
  ASSUME NEW s \in CharText, NEW a \in 0 .. Len(s), NEW t, t = NumberWithSuffix(s, a)
  PROVE  t = None(a) \/ t.type # "UNKNOWN"
<1> DEFINE q == skipMantisa(s, a)
           e == IF q > a THEN skipExponent(s, q) ELSE a
           d == Found("DECIMAL_NUMERIC_PROGRAM_DATA", a, e)
           u == scpiLex_SuffixProgramData(s, skipWs(s, d.pos))
<1>1. t = CASE d.ret = 0 -> d
            [] d.ret > 0 /\ u.ret > 0 -> Token("DECIMAL_NUMERIC_PROGRAM_DATA_WITH_SUFFIX", a, u.pos - a, u.pos, u.pos - a)
            [] d.ret > 0 /\ u.ret = 0 -> [d EXCEPT !.pos = u.pos]
  BY DEF NumberWithSuffix, scpiLex_DecimalNumericProgramData
<1> HIDE DEF q, e, u
<1>2. CASE ~(e > a)
  <2>1. d = None(a)
    BY <1>2 DEF Found, None
  <2>2. d.ret = 0
    BY <2>1, TokenFacts DEF None
  <2> HIDE DEF d
  <2> QED
    BY <1>1, <2>1, <2>2
<1>3. CASE e > a
  <2>1. d = Token("DECIMAL_NUMERIC_PROGRAM_DATA", a, e - a, e, e - a)
    BY <1>3 DEF Found
  <2>2. d.type = "DECIMAL_NUMERIC_PROGRAM_DATA"
    BY <2>1, TokenFacts
  <2>3. [d EXCEPT !.pos = u.pos].type = "DECIMAL_NUMERIC_PROGRAM_DATA"
    BY <2>1 DEF Token
  <2>4. \A x, y : Token("DECIMAL_NUMERIC_PROGRAM_DATA_WITH_SUFFIX", x, y, u.pos, y).type
                    = "DECIMAL_NUMERIC_PROGRAM_DATA_WITH_SUFFIX"
    BY TokenFacts
  <2>5. d.ret \in Nat /\ u.ret \in Nat
    <3>1. Spans(s, a, scpiLex_DecimalNumericProgramData(s, a))
      BY DecimalFacts
    <3>2. scpiLex_DecimalNumericProgramData(s, a) = d
      BY DEF scpiLex_DecimalNumericProgramData, q, e
    <3> DEFINE z == d.pos
               w == skipWs(s, z)
    <3> HIDE DEF d
    <3>3. d.ret \in Nat /\ z \in 0 .. Len(s)
      BY <3>1, <3>2 DEF Spans, CharText
    <3> HIDE DEF z
    <3>4. w \in z .. Len(s)
      BY <3>3, SkipWsFacts
    <3>5. w \in 0 .. Len(s)
      <4> HIDE DEF w
      <4> QED
        BY <3>3, <3>4 DEF CharText
    <3>6. Spans(s, w, u)
      <4>1. u = scpiLex_SuffixProgramData(s, w)
        BY DEF u, z
      <4> HIDE DEF w
      <4> QED
        BY <3>5, <4>1, SuffixFacts
    <3> HIDE DEF w
    <3> QED
      BY <3>3, <3>5, <3>6 DEF Spans, CharText
  <2> HIDE DEF d
  <2>6. CASE d.ret = 0
    BY <1>1, <2>2, <2>6
  <2>7. CASE d.ret > 0 /\ u.ret > 0
    BY <1>1, <2>4, <2>7
  <2>8. CASE d.ret > 0 /\ u.ret = 0
    BY <1>1, <2>3, <2>8
  <2> QED
    BY <2>5, <2>6, <2>7, <2>8
<1> QED
  BY <1>2, <1>3

(* But for what starts with '#' the first character tells the alternative. *)
LEMMA FirstByKind ==
  ASSUME NEW s \in CharText, NEW a \in 0 .. Len(s), At(s, a) # "#"
  PROVE  FirstOf(s, a) = IF At(s, a) \in Alpha THEN scpiLex_CharacterProgramData(s, a)
                         ELSE IF At(s, a) \in Quote THEN scpiLex_StringProgramData(s, a)
                         ELSE IF At(s, a) = "(" THEN scpiLex_ProgramExpression(s, a)
                         ELSE NumberWithSuffix(s, a)
<1> DEFINE c == At(s, a)
           A == Alternatives(s, a)
<1>0. a \in Nat
  OBVIOUS
<1>1. A[1] = None(a)
  <2>1. scpiLex_NondecimalNumericData(s, a) = None(a)
    <3>1. Eos # "H" /\ Eos # "Q" /\ Eos # "B" /\ ~(a + 2 > a + 2)
      BY <1>0 DEF Eos
    <3> QED
      BY <3>1 DEF scpiLex_NondecimalNumericData, None
  <2> QED
    BY <2>1 DEF Alternatives
<1>2. A[5] = None(a)
  <2>1. scpiLex_ArbitraryBlockProgramData(s, a) = None(a)
    BY DEF scpiLex_ArbitraryBlockProgramData, None
  <2> QED
    BY <2>1 DEF Alternatives
<1>3. /\ c \notin Alpha => A[2] = None(a)
      /\ c \in Alpha => A[2] = None(a) \/ A[2].type # "UNKNOWN"
  <2> DEFINE q == skipProgramMnemonic(s, a)
  <2>1. A[2] = Found("PROGRAM_MNEMONIC", a, q)
    BY DEF Alternatives, scpiLex_CharacterProgramData
  <2>2. c \notin Alpha => q = a
    BY DEF skipProgramMnemonic
  <2> HIDE DEF q, A
  <2>3. ~(q > a) => A[2] = None(a)
    BY <2>1 DEF Found, None
  <2>4. q > a => A[2].type # "UNKNOWN"
    BY <2>1, TokenFacts DEF Found
  <2> QED
    BY <1>0, <2>2, <2>3, <2>4
<1>4. /\ c \notin Digit \cup {"+", "-", "."} => A[3] = None(a)
      /\ A[3] = None(a) \/ A[3].type # "UNKNOWN"
  <2>1. A[3] = NumberWithSuffix(s, a)
    BY DEF Alternatives
  <2> QED
    BY <2>1, NoNumber, NumberOrNone
<1>5. /\ c \notin Quote => A[4] = None(a)
      /\ A[4] = None(a) \/ A[4].type # "UNKNOWN"
  <2> DEFINE q == skipQuoteProgramData(s, a + 1, c)
             f == IF q < Len(s) THEN q + 1 ELSE a
  <2>1. A[4] = CASE c \notin Quote -> Token("UNKNOWN", a, 0, a, 0)
                 [] c \in Quote /\ q = Never -> Token("NEVER", a, 0, a, 0)
                 [] c \in Quote /\ q # Never -> Found("QUOTE_PROGRAM_DATA", a, f)
    BY DEF Alternatives, scpiLex_StringProgramData
  <2> HIDE DEF A, q, f, c
  <2>2. CASE c \notin Quote
    BY <2>1, <2>2 DEF None
  <2>3. CASE c \in Quote /\ q = Never
    <3>1. A[4] = Token("NEVER", a, 0, a, 0)
      BY <2>1, <2>3
    <3> QED
      BY <2>3, <3>1, TokenFacts
  <2>4. CASE c \in Quote /\ q # Never
    <3>1. A[4] = Found("QUOTE_PROGRAM_DATA", a, f)
      BY <2>1, <2>4
    <3>2. ~(f > a) => A[4] = None(a)
      BY <3>1 DEF Found, None
    <3>3. f > a => A[4].type # "UNKNOWN"
      BY <3>1, TokenFacts DEF Found
    <3> QED
      BY <2>4, <3>2, <3>3
  <2> QED
    BY <2>2, <2>3, <2>4
<1>6. /\ c # "(" => A[6] = None(a)
      /\ A[6] = None(a) \/ A[6].type # "UNKNOWN"
  <2> DEFINE q == CHOOSE q \in a + 1 .. Len(s) :
                    ~isProgramExpression(At(s, q)) /\ \A i \in a + 1 .. q - 1 : isProgramExpression(At(s, i))
             f == IF c = "(" /\ At(s, q) = ")" THEN q + 1 ELSE a
  <2>1. A[6] = Found("PROGRAM_EXPRESSION", a, f)
    BY DEF Alternatives, scpiLex_ProgramExpression
  <2>2. c # "(" => f = a
    OBVIOUS
  <2> HIDE DEF A, q, f, c
  <2>3. ~(f > a) => A[6] = None(a)
    BY <2>1 DEF Found, None
  <2>4. f > a => A[6].type # "UNKNOWN"
    BY <2>1, TokenFacts DEF Found
  <2> QED
    BY <1>0, <2>2, <2>3, <2>4
<1>7. /\ A[2] = scpiLex_CharacterProgramData(s, a) /\ A[3] = NumberWithSuffix(s, a)
      /\ A[4] = scpiLex_StringProgramData(s, a) /\ A[6] = scpiLex_ProgramExpression(s, a)
  BY DEF Alternatives
<1>8. /\ c \in Alpha => c \notin Quote /\ c # "(" /\ c \notin Digit \cup {"+", "-", "."}
      /\ c \in Quote => c # "(" /\ c \notin Digit \cup {"+", "-", "."}
      /\ c = "(" => c \notin Digit \cup {"+", "-", "."}
  BY Zenon DEF Alpha, Quote, Digit
<1> HIDE DEF c
<1> DEFINE Only(k) == \A i \in 1 .. 6 : i # k => A[i] = None(a)
<1>9. \A k \in 1 .. 6 : Only(k) /\ (A[k] = None(a) \/ A[k].type # "UNKNOWN") => FirstOf(s, a) = A[k]
  BY <1>0, OnlyOne
<1>10. \A i \in 1 .. 6 : i = 1 \/ i = 2 \/ i = 3 \/ i = 4 \/ i = 5 \/ i = 6
  OBVIOUS
<1> HIDE DEF A
<1>11. CASE c \in Alpha
  <2>1. Only(2)
    BY <1>1, <1>2, <1>4, <1>5, <1>6, <1>8, <1>10, <1>11
  <2>2. FirstOf(s, a) = A[2]
    BY <1>3, <1>9, <1>11, <2>1
  <2> QED
    BY <1>7, <1>11, <2>2 DEF c
<1>12. CASE c \in Quote
  <2>1. Only(4)
    BY <1>1, <1>2, <1>3, <1>4, <1>6, <1>8, <1>10, <1>12
  <2>2. FirstOf(s, a) = A[4]
    BY <1>5, <1>9, <1>12, <2>1
  <2> QED
    BY <1>7, <1>8, <1>12, <2>2 DEF c
<1>13. CASE c = "("
  <2>1. Only(6)
    BY <1>1, <1>2, <1>3, <1>4, <1>5, <1>8, <1>10, <1>13
  <2>2. FirstOf(s, a) = A[6]
    BY <1>6, <1>9, <1>13, <2>1
  <2> QED
    BY <1>7, <1>8, <1>13, <2>2 DEF c
<1>14. CASE c \notin Alpha /\ c \notin Quote /\ c # "("
  <2>1. Only(3)
    BY <1>1, <1>2, <1>3, <1>5, <1>6, <1>10, <1>14
  <2>2. FirstOf(s, a) = A[3]
    BY <1>4, <1>9, <1>14, <2>1
  <2> QED
    BY <1>7, <1>14, <2>2 DEF c
<1> QED
  BY <1>11, <1>12, <1>13, <1>14

(* In front of the cut the same alternative is taken.                      *)
LEMMA CutFirst ==
  ASSUME NEW s, NEW n, NEW u, Cut(s, n, u), NEW a \in 0 .. n - 1, At(s, a) # "#",
         NEW x, x = FirstOf(s, a), x.type \notin {"UNKNOWN", "NEVER"}
  PROVE  SameToken(s, n, x, FirstOf(u, a))
<1> DEFINE c == At(s, a)
           y == FirstOf(u, a)
<1>1. /\ s \in CharText /\ u \in CharText /\ Len(s) \in Nat /\ n \in 0 .. Len(s) /\ n \in Nat /\ Len(u) = n
      /\ \A i \in 0 .. n - 1 : At(u, i) = At(s, i)
  BY CutFacts
<1>2. a \in 0 .. n /\ a \in 0 .. Len(s) /\ a \in 0 .. Len(u) /\ At(u, a) = c
  BY <1>1
<1>3. \A v \in {s, u} : FirstOf(v, a) = IF c \in Alpha THEN scpiLex_CharacterProgramData(v, a)
                                        ELSE IF c \in Quote THEN scpiLex_StringProgramData(v, a)
                                        ELSE IF c = "(" THEN scpiLex_ProgramExpression(v, a)
                                        ELSE NumberWithSuffix(v, a)
  <2>1. At(s, a) = c /\ At(s, a) # "#" /\ At(u, a) # "#"
    BY <1>2
  <2> QED
    BY <1>1, <1>2, <2>1, FirstByKind
<1> HIDE DEF y
<1>4. CASE c \in Alpha
  <2> DEFINE e == skipProgramMnemonic(s, a)
  <2>1. skipProgramMnemonic(u, a) = e /\ e \in 0 .. n
    BY <1>2, CutMnemonic
  <2>2. x = scpiLex_CharacterProgramData(s, a) /\ y = scpiLex_CharacterProgramData(u, a)
    BY <1>3, <1>4 DEF y
  <2>3. x = Found("PROGRAM_MNEMONIC", a, e) /\ y = Found("PROGRAM_MNEMONIC", a, e)
    BY <2>1, <2>2 DEF scpiLex_CharacterProgramData
  <2> HIDE DEF e
  <2>4. x.pos \in {e, a}
    BY <2>3, TokenFacts DEF Found
  <2> QED
    BY <1>2, <2>1, <2>3, <2>4 DEF SameToken, y
<1>5. CASE c \notin Alpha /\ c \in Quote
  <2>1. x = scpiLex_StringProgramData(s, a) /\ y = scpiLex_StringProgramData(u, a)
    BY <1>3, <1>5 DEF y
  <2>2. y = x /\ x.pos \in 0 .. n
    BY <1>5, <2>1, CutString
  <2> QED
    BY <2>2 DEF SameToken, y
<1>6. CASE c \notin Alpha /\ c \notin Quote /\ c = "("
  <2>1. x = scpiLex_ProgramExpression(s, a) /\ y = scpiLex_ProgramExpression(u, a)
    BY <1>3, <1>6 DEF y
  <2>2. y = x /\ x.pos \in 0 .. n
    BY <1>6, <2>1, CutExpression
  <2> QED
    BY <2>2 DEF SameToken, y
<1>7. CASE c \notin Alpha /\ c \notin Quote /\ c # "("
  <2>1. x = NumberWithSuffix(s, a) /\ y = NumberWithSuffix(u, a)
    BY <1>3, <1>7 DEF y
  <2>2. SameToken(s, n, NumberWithSuffix(s, a), NumberWithSuffix(u, a))
    BY <1>2, CutNumber
  <2> QED
    BY <2>1, <2>2 DEF y
<1> QED
  BY <1>4, <1>5, <1>6, <1>7

(* What the command reads is what detection read, if nothing is lost.      *)
LEMMA ReadSame ==
  ASSUME NEW s, NEW n, NEW u, Cut(s, n, u), n = Len(s) \/ \A i \in Nat : At(s, i) # "#", NEW q \in 0 .. n,
         NEW x, x = scpiParser_parseProgramData(s, q), x.type \notin {"UNKNOWN", "NEVER"},
         NEW y, y = scpiParser_parseProgramData(u, q)
  PROVE  SameToken(s, n, x, y) /\ x.pos \in 0 .. Len(s)
<1>1. s \in CharText /\ u \in CharText /\ Len(s) \in Nat /\ n \in 0 .. Len(s) /\ n \in Nat /\ Len(u) = n
  BY CutFacts
<1>2. q \in 0 .. Len(s) /\ q \in 0 .. Len(u) /\ q \in Nat
  BY <1>1
<1>3. x.pos \in 0 .. Len(s)
  <2>1. IsData(s, q, x)
    BY <1>1, <1>2, ProgramDataFacts
  <2> QED
    BY <1>1, <1>2, <2>1 DEF IsData, Spans
<1>4. CASE n = Len(s)
  <2>1. u = s
    BY <1>1, <1>4 DEF Cut, CharText
  <2> QED
    BY <1>3, <1>4, <2>1 DEF SameToken
<1>5. CASE \A i \in Nat : At(s, i) # "#"
  <2> DEFINE a == skipWs(s, q)
             b == skipWs(u, q)
             f == FirstOf(s, a)
             g == FirstOf(u, b)
  <2>1. /\ a \in q .. Len(s) /\ b \in q .. n
        /\ \/ a < n /\ b = a /\ a \in 0 .. n /\ At(u, a) = At(s, a)
           \/ a = Len(s) /\ b = n /\ At(s, a) = Eos /\ At(u, b) = Eos
    BY CutSkipWs
  <2>0. a = skipWs(s, q) /\ f = FirstOf(s, a) /\ b = skipWs(u, q) /\ g = FirstOf(u, b)
    OBVIOUS
  <2> HIDE DEF a, b, f, g
  <2>2. /\ IsData(s, a, f)
        /\ x.type = f.type /\ x.ptr = f.ptr /\ x.len = f.len /\ x.pos = skipWs(s, f.pos)
    <3>1. Around(s, q, x, a, f)
      BY <1>1, <1>2, <2>0, TakenIsFirst
    <3> QED
      BY <3>1 DEF Around
  <2>3. y.type = g.type /\ y.ptr = g.ptr /\ y.len = g.len /\ y.pos = skipWs(u, g.pos)
    <3>1. Around(u, q, y, b, g)
      BY <1>1, <1>2, <2>0, TakenIsFirst
    <3> QED
      BY <3>1 DEF Around
  <2>4. a \in Nat /\ a \in 0 .. Len(s)
    BY <1>1, <1>2, <2>1
  <2>5. At(s, a) # Eos
    <3> SUFFICES ASSUME At(s, a) = Eos PROVE FALSE
      OBVIOUS
    <3>1. Eos \notin Alpha /\ Eos \notin Quote /\ Eos # "(" /\ Eos # "#" /\ Eos \notin Digit \cup {"+", "-", "."}
      <4>1. Eos \notin {"+", "-"} /\ Eos \notin {"."} /\ Eos \notin Digit /\ Eos \notin Alpha /\ Eos # "(" /\ Eos # "#"
        BY CharSets
      <4>2. Eos \notin Quote
        BY SolidSets DEF Solid
      <4> QED
        BY <4>1, <4>2
    <3>2. f = NumberWithSuffix(s, a)
      BY <1>1, <2>0, <2>4, <3>1, FirstByKind
    <3>3. f = None(a)
      BY <1>1, <2>4, <3>1, <3>2, NoNumber
    <3>4. f.type = "UNKNOWN"
      BY <3>3, TokenFacts DEF None
    <3> QED
      BY <2>2, <3>4
  <2>6. a < n /\ b = a /\ a \in 0 .. n - 1
    BY <1>1, <2>1, <2>4, <2>5
  <2>7. SameToken(s, n, f, g)
    <3>1. f.type \notin {"UNKNOWN", "NEVER"} /\ At(s, a) # "#" /\ g = FirstOf(u, a)
      BY <1>5, <2>0, <2>2, <2>4, <2>6
    <3> QED
      BY <2>0, <2>6, <3>1, CutFirst
  <2>8. (f.pos \in 0 .. n /\ g.pos = f.pos) \/ (f.pos = Len(s) /\ g.pos = n)
    BY <2>7 DEF SameToken
  <2> DEFINE k == f.pos
             j == g.pos
  <2>9. CASE k \in 0 .. n /\ j = k
    <3> HIDE DEF k, j
    <3>1. \/ skipWs(s, k) < n /\ skipWs(u, k) = skipWs(s, k) /\ skipWs(s, k) \in 0 .. n
          \/ skipWs(s, k) = Len(s) /\ skipWs(u, k) = n
      BY <2>9, CutSkipWs
    <3>2. (x.pos \in 0 .. n /\ y.pos = x.pos) \/ (x.pos = Len(s) /\ y.pos = n)
      BY <2>2, <2>3, <2>9, <3>1 DEF k, j
    <3>3. SameToken(s, n, x, y)
      BY <2>2, <2>3, <2>7, <3>2 DEF SameToken
    <3> QED
      BY <1>3, <3>3
  <2>10. CASE k = Len(s) /\ j = n
    <3> HIDE DEF k, j
    <3>1. skipWs(s, k) \in k .. Len(s)
      BY <1>1, <2>10, SkipWsFacts
    <3>2. skipWs(u, j) \in j .. Len(u)
      BY <1>1, <2>10, SkipWsFacts
    <3> DEFINE v == skipWs(s, k)
               w == skipWs(u, j)
    <3>3. v \in Len(s) .. Len(s) /\ w \in n .. n /\ x.pos = v /\ y.pos = w
      BY <1>1, <2>2, <2>3, <2>10, <3>1, <3>2 DEF k, j
    <3> HIDE DEF v, w
    <3>4. x.pos = Len(s) /\ y.pos = n
      BY <1>1, <3>3
    <3>5. SameToken(s, n, x, y)
      BY <2>2, <2>3, <2>7, <3>4 DEF SameToken
    <3> QED
      BY <1>3, <3>5
  <2> QED
    BY <2>8, <2>9, <2>10
<1> QED
  BY <1>4, <1>5

-----------------------------------------------------------------------------
(* Stretches of text without a comma, and of white space.                  *)
Clear(s, p, e) == \A i \in p .. e - 1 : At(s, i) # Comma
Blank(s, p, e) == \A i \in p .. e - 1 : At(s, i) = Space

(* Two stretches make one.                                                 *)
LEMMA ClearJoin ==
  ASSUME NEW s, NEW p \in Int, NEW m \in Int, NEW e \in Int, Clear(s, p, m), Clear(s, m, e)
  PROVE  Clear(s, p, e)
<1> SUFFICES ASSUME NEW i \in p .. e - 1 PROVE At(s, i) # Comma
  BY DEF Clear
<1>1. i \in p .. m - 1 \/ i \in m .. e - 1
  OBVIOUS
<1> QED
  BY <1>1 DEF Clear

(* Two stretches of white space make one.                                  *)
LEMMA BlankJoin ==
  ASSUME NEW s, NEW p \in Int, NEW m \in Int, NEW e \in Int, Blank(s, p, m), Blank(s, m, e)
  PROVE  Blank(s, p, e)
<1> SUFFICES ASSUME NEW i \in p .. e - 1 PROVE At(s, i) = Space
  BY DEF Blank
<1>1. i \in p .. m - 1 \/ i \in m .. e - 1
  OBVIOUS
<1> QED
  BY <1>1 DEF Blank

(* A comma is not part of a mnemonic or of a number.                       *)
CommaFree(C) == Eos \notin C /\ Comma \notin C

LEMMA CommaFreeSets ==
  /\ CommaFree(Digit) /\ CommaFree(Alpha) /\ CommaFree(Alpha \cup Digit \cup {"_"}) /\ CommaFree({"+", "-"})
  /\ CommaFree({"."}) /\ CommaFree({"-"}) /\ CommaFree({"/", "."}) /\ CommaFree({"/"}) /\ CommaFree({Space})
<1>1. Comma \notin Digit /\ Comma \notin Alpha
  BY Zenon DEF Comma, Digit, Alpha
<1>2. Comma \notin Alpha \cup Digit \cup {"_"}
  <2>1. Comma # "_"
    BY Zenon DEF Comma
  <2> QED
    BY <1>1, <2>1, Zenon
<1>3. Comma \notin {"+", "-"} /\ Comma \notin {"."} /\ Comma \notin {"-"} /\ Comma \notin {"/", "."} /\ Comma \notin {"/"}
  BY Zenon DEF Comma
<1>4. Comma # Space /\ Eos # Space
  BY SolidSets
<1> QED
  BY <1>1, <1>2, <1>3, <1>4, CharSets, Zenon DEF CommaFree

(* Skipping such characters passes no comma.                               *)
LEMMA ClearAll ==
  ASSUME NEW s \in CharText, NEW p \in 0 .. Len(s), NEW C, CommaFree(C)
  PROVE  Clear(s, p, skipAll(s, p, C)) /\ skipAll(s, p, C) \in p .. Len(s) /\ skipAll(s, p, C) \in 0 .. Len(s)
<1> DEFINE e == skipAll(s, p, C)
<1>1. e \in p .. Len(s) /\ \A i \in p .. e - 1 : At(s, i) \in C
  BY SkipAllFacts DEF CommaFree
<1> HIDE DEF e
<1>2. Clear(s, p, e) /\ e \in p .. Len(s) /\ e \in 0 .. Len(s)
  BY <1>1 DEF Clear, CommaFree, CharText
<1> QED
  BY <1>2 DEF e

(* The same for one character.                                             *)
LEMMA ClearOne ==
  ASSUME NEW s \in CharText, NEW p \in 0 .. Len(s), NEW C, CommaFree(C)
  PROVE  /\ Clear(s, p, skipOne(s, p, C)) /\ skipOne(s, p, C) \in p .. Len(s) /\ skipOne(s, p, C) \in 0 .. Len(s)
         /\ At(s, p) \in C => Clear(s, p, p + 1) /\ p + 1 \in 0 .. Len(s)
<1> DEFINE e == skipOne(s, p, C)
<1>1. p \in Nat /\ Len(s) \in Nat
  BY DEF CharText
<1>2. At(s, p) \in C => Clear(s, p, p + 1) /\ p + 1 \in 0 .. Len(s)
  <2> SUFFICES ASSUME At(s, p) \in C PROVE Clear(s, p, p + 1) /\ p + 1 \in 0 .. Len(s)
    OBVIOUS
  <2>1. p + 1 \in 0 .. Len(s)
    BY <1>1, InText DEF CommaFree
  <2>2. \A i \in p .. (p + 1) - 1 : i = p
    BY <1>1
  <2>3. Clear(s, p, p + 1)
    BY <2>2 DEF Clear, CommaFree
  <2> QED
    BY <2>1, <2>3
<1>3. Clear(s, p, p)
  BY <1>1 DEF Clear
<1>4. e = IF At(s, p) \in C THEN p + 1 ELSE p
  BY DEF skipOne
<1> HIDE DEF e
<1>5. Clear(s, p, e) /\ e \in p .. Len(s) /\ e \in 0 .. Len(s)
  BY <1>1, <1>2, <1>3, <1>4
<1> QED
  BY <1>2, <1>5 DEF e

(* White space.                                                            *)
LEMMA BlankWs ==
  ASSUME NEW s \in CharText, NEW p \in 0 .. Len(s), NEW e, e = skipWs(s, p)
  PROVE  Clear(s, p, e) /\ Blank(s, p, e) /\ e \in p .. Len(s) /\ e \in 0 .. Len(s)
<1>1. CommaFree({Space}) /\ e = skipAll(s, p, {Space})
  BY CommaFreeSets DEF skipWs
<1>2. Clear(s, p, e) /\ e \in p .. Len(s) /\ e \in 0 .. Len(s)
  BY <1>1, ClearAll
<1>3. \A i \in p .. e - 1 : At(s, i) \in {Space}
  BY <1>1, SkipAllFacts DEF CommaFree
<1> QED
  BY <1>2, <1>3 DEF Blank

(* From one place in the text to another without a comma.                  *)
Run(s, p, e) == p \in 0 .. Len(s) /\ e \in 0 .. Len(s) /\ Clear(s, p, e)

(* The steps such a run is made of.                                        *)
LEMMA RunSteps ==
  ASSUME NEW s \in CharText, NEW p \in 0 .. Len(s)
  PROVE  /\ Run(s, p, p) /\ Run(s, p, skipWs(s, p))
         /\ \A C : CommaFree(C) => Run(s, p, skipAll(s, p, C)) /\ Run(s, p, skipOne(s, p, C))
         /\ \A C : CommaFree(C) /\ At(s, p) \in C => Run(s, p, p + 1)
         /\ \A m, e : Run(s, p, m) /\ Run(s, m, e) => Run(s, p, e)
<1>1. p \in Nat /\ Len(s) \in Nat
  BY DEF CharText
<1>2. Run(s, p, p)
  BY <1>1 DEF Run, Clear
<1>3. Run(s, p, skipWs(s, p))
  BY BlankWs DEF Run
<1>4. ASSUME NEW C, CommaFree(C)
      PROVE  Run(s, p, skipAll(s, p, C)) /\ Run(s, p, skipOne(s, p, C))
  BY <1>4, ClearAll, ClearOne DEF Run
<1>5. ASSUME NEW C, CommaFree(C), At(s, p) \in C
      PROVE  Run(s, p, p + 1)
  BY <1>5, ClearOne DEF Run
<1>6. ASSUME NEW m, NEW e, Run(s, p, m), Run(s, m, e)
      PROVE  Run(s, p, e)
  <2>1. p \in Int /\ m \in Int /\ e \in Int /\ Clear(s, p, m) /\ Clear(s, m, e) /\ e \in 0 .. Len(s)
    BY <1>1, <1>6 DEF Run
  <2>2. Clear(s, p, e)
    BY <2>1, ClearJoin
  <2> QED
    BY <2>1, <2>2 DEF Run
<1> QED
  BY <1>2, <1>3, <1>4, <1>5, <1>6

(* A mnemonic holds no comma.                                              *)
LEMMA RunMnemonic ==
  ASSUME NEW s \in CharText, NEW p \in 0 .. Len(s)
  PROVE  Run(s, p, skipProgramMnemonic(s, p))
<1> DEFINE C == Alpha \cup Digit \cup {"_"}
           e == skipAll(s, p + 1, C)
<1>1. CommaFree(Alpha) /\ CommaFree(C)
  BY CommaFreeSets
<1> HIDE DEF C
<1>2. CASE At(s, p) \in Alpha
  <2>1. Run(s, p, p + 1)
    BY <1>1, <1>2, RunSteps
  <2>2. p + 1 \in 0 .. Len(s)
    BY <2>1 DEF Run
  <2>3. Run(s, p + 1, e)
    BY <1>1, <2>2, RunSteps
  <2>4. skipProgramMnemonic(s, p) = e
    BY <1>2 DEF skipProgramMnemonic, C
  <2> HIDE DEF e
  <2> QED
    BY <2>1, <2>3, <2>4, RunSteps
<1>3. CASE At(s, p) \notin Alpha
  <2>1. skipProgramMnemonic(s, p) = p
    BY <1>3 DEF skipProgramMnemonic
  <2> QED
    BY <2>1, RunSteps
<1> QED
  BY <1>2, <1>3

(* Neither does a mantissa.                                                *)
LEMMA RunMantisa ==
  ASSUME NEW s \in CharText, NEW p \in 0 .. Len(s)
  PROVE  Run(s, p, skipMantisa(s, p))
<1> DEFINE a == skipOne(s, p, {"+", "-"})
           b == skipAll(s, a, Digit)
           c == skipOne(s, b, {"."})
           f == skipAll(s, c, Digit)
           d == IF c > b THEN f ELSE b
<1>1. CommaFree({"+", "-"}) /\ CommaFree(Digit) /\ CommaFree({"."})
  BY CommaFreeSets
<1>2. skipMantisa(s, p) = IF b > a \/ d > c THEN d ELSE p
  BY DEF skipMantisa
<1>3. Run(s, p, a)
  BY <1>1, RunSteps
<1>4. Run(s, a, b)
  <2>1. a \in 0 .. Len(s)
    BY <1>3 DEF Run
  <2> HIDE DEF a
  <2> QED
    BY <1>1, <2>1, RunSteps
<1> HIDE DEF a
<1>5. Run(s, b, c)
  <2>1. b \in 0 .. Len(s)
    BY <1>4 DEF Run
  <2> HIDE DEF b
  <2> QED
    BY <1>1, <2>1, RunSteps
<1> HIDE DEF b
<1>6. Run(s, c, f)
  <2>1. c \in 0 .. Len(s)
    BY <1>5 DEF Run
  <2> HIDE DEF c
  <2> QED
    BY <1>1, <2>1, RunSteps
<1> HIDE DEF c, f
<1>7. Run(s, p, b)
  BY <1>3, <1>4, RunSteps
<1>8. Run(s, p, c)
  BY <1>5, <1>7, RunSteps
<1>9. Run(s, p, f) /\ Run(s, p, p)
  BY <1>6, <1>8, RunSteps
<1> QED
  BY <1>2, <1>7, <1>9

(* Nor an exponent.                                                        *)
LEMMA RunExponent ==
  ASSUME NEW s \in CharText, NEW p \in 0 .. Len(s)
  PROVE  Run(s, p, skipExponent(s, p))
<1> DEFINE a == skipWs(s, p)
           w == skipWs(s, a + 1)
           b == skipOne(s, w, {"+", "-"})
           c == skipAll(s, b, Digit)
<1>1. CommaFree({"+", "-"}) /\ CommaFree(Digit) /\ CommaFree(Alpha)
  BY CommaFreeSets
<1>2. skipExponent(s, p) = IF At(s, a) = "E" /\ c > b THEN c ELSE p
  BY DEF skipExponent
<1>3. Run(s, p, a) /\ Run(s, p, p)
  BY RunSteps
<1> HIDE DEF a
<1>4. CASE At(s, a) = "E"
  <2>1. a \in 0 .. Len(s) /\ At(s, a) \in Alpha
    BY <1>3, <1>4 DEF Run, Alpha
  <2>2. Run(s, a, a + 1)
    BY <1>1, <2>1, RunSteps
  <2>3. Run(s, a + 1, w)
    <3>1. a + 1 \in 0 .. Len(s)
      BY <2>2 DEF Run
    <3> QED
      BY <3>1, RunSteps
  <2> HIDE DEF w
  <2>4. Run(s, w, b)
    <3>1. w \in 0 .. Len(s)
      BY <2>3 DEF Run
    <3> QED
      BY <1>1, <3>1, RunSteps
  <2> HIDE DEF b
  <2>5. Run(s, b, c)
    <3>1. b \in 0 .. Len(s)
      BY <2>4 DEF Run
    <3> QED
      BY <1>1, <3>1, RunSteps
  <2> HIDE DEF c
  <2>6. Run(s, p, a + 1)
    BY <1>3, <2>2, RunSteps
  <2>7. Run(s, p, w)
    BY <2>3, <2>6, RunSteps
  <2>8. Run(s, p, b)
    BY <2>4, <2>7, RunSteps
  <2>9. Run(s, p, c)
    BY <2>5, <2>8, RunSteps
  <2> QED
    BY <1>2, <1>3, <2>9
<1>5. CASE At(s, a) # "E"
  BY <1>2, <1>3, <1>5
<1> QED
  BY <1>4, <1>5

(* Nor one name of a suffix.                                               *)
LEMMA RunUnit ==
  ASSUME NEW s \in CharText, NEW p \in 0 .. Len(s)
  PROVE  Run(s, p, skipUnit(s, p))
<1> DEFINE a == skipAll(s, p, Alpha)
           b == skipOne(s, a, {"-"})
           c == skipOne(s, b, Digit)
<1>1. CommaFree({"-"}) /\ CommaFree(Digit) /\ CommaFree(Alpha)
  BY CommaFreeSets
<1>2. skipUnit(s, p) = c
  BY DEF skipUnit
<1>3. Run(s, p, a)
  BY <1>1, RunSteps
<1> HIDE DEF a
<1>4. Run(s, a, b)
  <2>1. a \in 0 .. Len(s)
    BY <1>3 DEF Run
  <2> QED
    BY <1>1, <2>1, RunSteps
<1> HIDE DEF b
<1>5. Run(s, b, c)
  <2>1. b \in 0 .. Len(s)
    BY <1>4 DEF Run
  <2> QED
    BY <1>1, <2>1, RunSteps
<1> HIDE DEF c
<1>6. Run(s, p, b)
  BY <1>3, <1>4, RunSteps
<1> QED
  BY <1>2, <1>5, <1>6, RunSteps

(* Nor all of them.                                                        *)
LEMMA RunUnits ==
  ASSUME NEW s \in CharText, NEW p \in 0 .. Len(s)
  PROVE  Run(s, p, skipUnits(s, p))
<1> DEFINE D == 0 .. Len(s)
           T == {q \in D : Run(s, q, skipUnits(s, q))}
<1>0. CommaFree({"/", "."})
  BY CommaFreeSets
<1>1. Len(s) \in Nat
  BY DEF CharText
<1>2. ASSUME NEW q \in D, \A r \in q + 1 .. Len(s) : r \in T
      PROVE  q \in T
  <2> DEFINE a == skipOne(s, q, {"/", "."})
             b == skipUnit(s, a)
  <2>1. IF a = q THEN skipUnits(s, q) = q ELSE b \in q + 1 .. Len(s) /\ skipUnits(s, q) = skipUnits(s, b)
    BY UnitsTurn
  <2>2. Run(s, q, a) /\ Run(s, q, q)
    BY <1>0, RunSteps
  <2> HIDE DEF a
  <2>3. Run(s, a, b)
    <3>1. a \in 0 .. Len(s)
      BY <2>2 DEF Run
    <3> QED
      BY <3>1, RunUnit
  <2> HIDE DEF b
  <2>4. Run(s, q, b)
    BY <2>2, <2>3, RunSteps
  <2>5. CASE a = q
    BY <2>1, <2>2, <2>5
  <2>6. CASE a # q
    <3>1. skipUnits(s, q) = skipUnits(s, b) /\ Run(s, b, skipUnits(s, b))
      BY <1>2, <2>1, <2>6
    <3> QED
      BY <2>4, <3>1, RunSteps
  <2> QED
    BY <2>5, <2>6
<1>3. D \subseteq T
  <2> HIDE DEF T
  <2> QED
    BY <1>1, <1>2, UpInduction
<1> QED
  BY <1>3

(* A suffix holds no comma; without one the position is left alone.        *)
LEMMA RunSuffix ==
  ASSUME NEW s \in CharText, NEW p \in 0 .. Len(s), NEW t, t = scpiLex_SuffixProgramData(s, p)
  PROVE  Run(s, p, t.pos) /\ t.ret \in Nat /\ (t.ret = 0 => t.pos = p)
<1> DEFINE q == skipOne(s, p, {"/"})
           u == skipUnit(s, q)
           v == skipUnits(s, u)
           e == IF At(s, q) \in Alpha THEN v ELSE q
<1>1. CommaFree({"/"})
  BY CommaFreeSets
<1>2. t = Found("SUFFIX_PROGRAM_DATA", p, e)
  BY DEF scpiLex_SuffixProgramData
<1>3. Run(s, p, q) /\ Run(s, p, p)
  BY <1>1, RunSteps
<1> HIDE DEF q
<1>4. Run(s, q, u)
  <2>1. q \in 0 .. Len(s)
    BY <1>3 DEF Run
  <2> QED
    BY <2>1, RunUnit
<1> HIDE DEF u
<1>5. Run(s, u, v)
  <2>1. u \in 0 .. Len(s)
    BY <1>4 DEF Run
  <2> QED
    BY <2>1, RunUnits
<1> HIDE DEF v
<1>6. Run(s, p, u)
  BY <1>3, <1>4, RunSteps
<1>7. Run(s, p, v)
  BY <1>5, <1>6, RunSteps
<1>8. Run(s, p, e) /\ e \in Nat /\ p \in Nat
  BY <1>3, <1>7 DEF Run, CharText
<1> HIDE DEF e
<1>9. CASE e > p
  <2>1. t = Token("SUFFIX_PROGRAM_DATA", p, e - p, e, e - p)
    BY <1>2, <1>9 DEF Found
  <2>2. t.pos = e /\ t.ret = e - p
    BY <2>1, TokenFacts
  <2> QED
    BY <1>8, <1>9, <2>2
<1>10. CASE ~(e > p)
  <2>1. t = Token("UNKNOWN", p, 0, p, 0)
    BY <1>2, <1>10 DEF Found
  <2>2. t.pos = p /\ t.ret = 0
    BY <2>1, TokenFacts
  <2> QED
    BY <1>3, <2>2
<1> QED
  BY <1>9, <1>10

(* What is read at p lies there, holds no comma, and only white space is   *)
(* behind it up to the new position.                                       *)
Plainly(s, p, t) == t.ptr = p /\ Run(s, p, t.pos) /\ Blank(s, t.ptr + t.len, t.pos)

(* Nothing is behind a token that ends at the new position.                *)
LEMMA PlainFound ==
  ASSUME NEW s \in CharText, NEW p \in 0 .. Len(s), NEW e, Run(s, p, e), NEW type, NEW t,
         t = Token(type, p, e - p, e, e - p)
  PROVE  Plainly(s, p, t)
<1>1. t.ptr = p /\ t.len = e - p /\ t.pos = e
  BY TokenFacts
<1>2. p \in Int /\ e \in Int
  BY DEF Run, CharText
<1>3. p + (e - p) = e
  BY <1>2
<1>4. Blank(s, e, e)
  BY <1>2 DEF Blank
<1> QED
  BY <1>1, <1>3, <1>4 DEF Plainly

(* A number and its unit are read plainly.                                 *)
LEMMA PlainNumber ==
  ASSUME NEW s \in CharText, NEW p \in 0 .. Len(s), NEW t, t = NumberWithSuffix(s, p), t.type # "UNKNOWN"
  PROVE  Plainly(s, p, t)
<1> DEFINE q == skipMantisa(s, p)
           f == skipExponent(s, q)
           e == IF q > p THEN f ELSE p
           d == Found("DECIMAL_NUMERIC_PROGRAM_DATA", p, e)
           w == skipWs(s, d.pos)
           u == scpiLex_SuffixProgramData(s, w)
<1>1. t = CASE d.ret = 0 -> d
            [] d.ret > 0 /\ u.ret > 0 -> Token("DECIMAL_NUMERIC_PROGRAM_DATA_WITH_SUFFIX", p, u.pos - p, u.pos, u.pos - p)
            [] d.ret > 0 /\ u.ret = 0 -> [d EXCEPT !.pos = u.pos]
  BY DEF NumberWithSuffix, scpiLex_DecimalNumericProgramData
<1>2. Run(s, p, q) /\ Run(s, p, p)
  BY RunMantisa, RunSteps
<1> HIDE DEF q
<1>3. Run(s, q, f)
  <2>1. q \in 0 .. Len(s)
    BY <1>2 DEF Run
  <2> QED
    BY <2>1, RunExponent
<1> HIDE DEF f
<1>4. Run(s, p, f)
  BY <1>2, <1>3, RunSteps
<1>5. Run(s, p, e) /\ e \in 0 .. Len(s) /\ e \in Nat /\ p \in Nat
  BY <1>2, <1>4 DEF Run, CharText
<1> HIDE DEF e
<1>6. e > p
  <2> SUFFICES ASSUME ~(e > p) PROVE FALSE
    OBVIOUS
  <2>1. d = Token("UNKNOWN", p, 0, p, 0)
    BY DEF Found
  <2>2. d.ret = 0 /\ d.type = "UNKNOWN"
    BY <2>1, TokenFacts
  <2> HIDE DEF d
  <2> QED
    BY <1>1, <2>2
<1>7. d = Token("DECIMAL_NUMERIC_PROGRAM_DATA", p, e - p, e, e - p)
  BY <1>6 DEF Found
<1> HIDE DEF d
<1>8. d.ret > 0 /\ d.pos = e /\ e - p > 0
  <2>1. d.ret = e - p /\ d.pos = e
    BY <1>7, TokenFacts
  <2> QED
    BY <1>5, <1>6, <2>1
<1>9. Run(s, e, w) /\ Blank(s, e, w)
  <2>1. w = skipWs(s, e)
    BY <1>8
  <2> QED
    BY <1>5, <2>1, BlankWs DEF Run
<1> HIDE DEF w
<1>10. Run(s, w, u.pos) /\ u.ret \in Nat /\ (u.ret = 0 => u.pos = w)
  <2>1. w \in 0 .. Len(s)
    BY <1>9 DEF Run
  <2> QED
    BY <2>1, RunSuffix
<1> HIDE DEF u
<1>11. CASE u.ret > 0
  <2> DEFINE z == u.pos
  <2>1. t = Token("DECIMAL_NUMERIC_PROGRAM_DATA_WITH_SUFFIX", p, z - p, z, z - p)
    BY <1>1, <1>8, <1>11
  <2>2. Run(s, p, w)
    BY <1>5, <1>9, RunSteps
  <2>3. Run(s, p, z)
    BY <1>10, <2>2, RunSteps
  <2> HIDE DEF z
  <2> QED
    BY <2>1, <2>3, PlainFound
<1>12. CASE u.ret = 0
  <2>1. t = [d EXCEPT !.pos = w]
    BY <1>1, <1>8, <1>10, <1>12
  <2>2. t = Token("DECIMAL_NUMERIC_PROGRAM_DATA", p, e - p, w, e - p)
    BY <1>7, <2>1 DEF Token
  <2>3. t.ptr = p /\ t.len = e - p /\ t.pos = w
    BY <2>2, TokenFacts
  <2>4. p + (e - p) = e
    BY <1>5
  <2>5. Run(s, p, w)
    BY <1>5, <1>9, RunSteps
  <2> QED
    BY <1>9, <2>3, <2>4, <2>5 DEF Plainly
<1> QED
  BY <1>10, <1>11, <1>12

(* Text without strings, blocks and expressions.                           *)
PlainText(s) == \A i \in Nat : At(s, i) \notin Quote /\ At(s, i) \notin {"#", "("}

(* A parameter of such a text: white space, what is read, white space, and *)
(* no comma in it.                                                         *)
LEMMA PlainParameter ==
  ASSUME NEW s \in CharText, NEW p \in 0 .. Len(s), PlainText(s),
         NEW t, t = scpiParser_parseProgramData(s, p), t.type # "UNKNOWN"
  PROVE  Run(s, p, t.pos) /\ Blank(s, p, t.ptr) /\ Blank(s, t.ptr + t.len, t.pos)
<1> DEFINE a == skipWs(s, p)
           x == FirstOf(s, a)
           b == skipWs(s, x.pos)
<1>0. a = skipWs(s, p) /\ x = FirstOf(s, a)
  OBVIOUS
<1> HIDE DEF a, x
<1>1. Around(s, p, t, a, x)
  BY <1>0, TakenIsFirst
<1>2. /\ a \in 0 .. Len(s) /\ IsData(s, a, x)
      /\ t.type = x.type /\ t.ptr = x.ptr /\ t.len = x.len /\ t.pos = b
  BY <1>1 DEF Around
<1>3. Run(s, p, a) /\ Blank(s, p, a)
  BY <1>0, BlankWs DEF Run
<1>4. Plainly(s, a, x)
  <2>1. At(s, a) \notin Quote /\ At(s, a) # "#" /\ At(s, a) # "("
    BY <1>2 DEF PlainText
  <2>2. CASE At(s, a) \in Alpha
    <3> DEFINE e == skipProgramMnemonic(s, a)
    <3>1. x = Found("PROGRAM_MNEMONIC", a, e)
      BY <1>0, <1>2, <2>1, <2>2, FirstByKind DEF scpiLex_CharacterProgramData
    <3>2. Run(s, a, e)
      BY <1>2, RunMnemonic
    <3> HIDE DEF e
    <3>3. e > a
      <4> SUFFICES ASSUME ~(e > a) PROVE FALSE
        OBVIOUS
      <4>1. x = Token("UNKNOWN", a, 0, a, 0)
        BY <3>1 DEF Found
      <4>2. x.type = "UNKNOWN"
        BY <4>1, TokenFacts
      <4> QED
        BY <1>2, <4>2
    <3>4. x = Token("PROGRAM_MNEMONIC", a, e - a, e, e - a)
      BY <3>1, <3>3 DEF Found
    <3> QED
      BY <1>2, <3>2, <3>4, PlainFound
  <2>3. CASE At(s, a) \notin Alpha
    <3>1. x = NumberWithSuffix(s, a)
      BY <1>0, <1>2, <2>1, <2>3, FirstByKind
    <3>2. x.type # "UNKNOWN"
      BY <1>2
    <3> QED
      BY <1>2, <3>1, <3>2, PlainNumber
  <2> QED
    BY <2>2, <2>3
<1> DEFINE y == x.pos
           m == x.ptr + x.len
<1>5. x.ptr = a /\ Run(s, a, y) /\ Blank(s, m, y) /\ m \in Int
  BY <1>2, <1>4 DEF Plainly, IsData, Spans, CharText
<1>6. Run(s, y, b) /\ Blank(s, y, b)
  <2>1. y \in 0 .. Len(s)
    BY <1>5 DEF Run
  <2> HIDE DEF y
  <2>2. b = skipWs(s, y)
    BY DEF y
  <2> HIDE DEF b
  <2> QED
    BY <2>1, <2>2, BlankWs DEF Run
<1> HIDE DEF y, b, m
<1>7. Run(s, p, y)
  BY <1>3, <1>5, RunSteps
<1>8. Run(s, p, b)
  BY <1>6, <1>7, RunSteps
<1>9. Blank(s, m, b)
  <2>1. y \in Int /\ b \in Int
    BY <1>6 DEF Run
  <2> QED
    BY <1>5, <1>6, <2>1, BlankJoin
<1> QED
  BY <1>2, <1>3, <1>5, <1>8, <1>9 DEF m

-----------------------------------------------------------------------------
(* A set of numbers has a least one.                                       *)
LEMMA LeastFacts ==
  ASSUME NEW S, S \subseteq Nat, S # {}
  PROVE  Min(S) \in S /\ \A y \in S : Min(S) <= y
<1> DEFINE R == OpToRel(<, Nat)
           Least(x) == \A y \in S : x <= y
<1>1. \A x, y \in Nat : y < x => <<y, x>> \in R
  BY DEF OpToRel
<1>2. IsWellFoundedOn(R, Nat)
  BY NatLessThanWellFounded
<1> HIDE DEF R
<1>3. PICK x \in S : \A y \in S : ~(<<y, x>> \in R)
  BY <1>2, WFMin
<1>4. Least(x)
  <2> SUFFICES ASSUME NEW y \in S PROVE x <= y
    OBVIOUS
  <2>1. x \in Nat /\ y \in Nat
    OBVIOUS
  <2>2. ~(y < x)
    BY <1>1, <1>3, <2>1
  <2> QED
    BY <2>1, <2>2
<1>5. Min(S) = CHOOSE m \in S : Least(m)
  BY DEF Min
<1> DEFINE m == CHOOSE m \in S : Least(m)
<1>6. m \in S /\ Least(m)
  <2> HIDE DEF Least
  <2> QED
    BY <1>3, <1>4
<1> HIDE DEF m
<1> QED
  BY <1>5, <1>6 DEF m

(* The parts between the commas of s, from each position on.               *)
Commas(s, from) == {i \in from + 1 .. Len(s) : s[i] = Comma}
SplitBy(s, f) ==
  /\ f \in [0 .. Len(s) -> Seq(CharText)] /\ Split(s, Comma) = f[0]
  /\ \A q \in 0 .. Len(s) :
       f[q] = IF Commas(s, q) = {} THEN <<SubSeq(s, q + 1, Len(s))>>
              ELSE <<SubSeq(s, q + 1, Min(Commas(s, q)) - 1)>> \o f[Min(Commas(s, q))]

(* Split is the function its recursion defines.                            *)
LEMMA SplitFunction ==
  ASSUME NEW s \in CharText
  PROVE  \E f : SplitBy(s, f)
<1> DEFINE L == Len(s)
           D == 0 .. L
           V == Seq(CharText)
           M(q) == Min(Commas(s, q))
           Part(q) == SubSeq(s, q + 1, M(q) - 1)
           End(q) == <<SubSeq(s, q + 1, L)>>
           F(f) == f = [q \in D |-> IF Commas(s, q) = {} THEN End(q) ELSE <<Part(q)>> \o f[M(q)]]
           split == CHOOSE f : F(f)
<1>1. L \in Nat /\ 0 \in D
  BY DEF CharText
<1>2. ASSUME NEW q \in D, Commas(s, q) # {}
      PROVE  M(q) \in q + 1 .. L /\ M(q) \in D /\ Part(q) \in CharText /\ <<Part(q)>> \in V
  <2> DEFINE m == M(q)
  <2>1. Commas(s, q) \subseteq Nat
    BY <1>1 DEF Commas
  <2>2. m \in Commas(s, q)
    BY <1>2, <2>1, LeastFacts
  <2>3. m \in q + 1 .. L
    BY <2>2 DEF Commas
  <2> HIDE DEF m
  <2>4. m \in D /\ m - 1 \in 0 .. Len(s) /\ q \in 0 .. m - 1
    BY <1>1, <2>3
  <2>5. SubSeq(s, q + 1, m - 1) \in CharText
    <3> DEFINE k == m - 1
    <3>1. k \in 0 .. Len(s) /\ q \in 0 .. k
      BY <2>4
    <3> HIDE DEF k
    <3>2. SubSeq(s, q + 1, k) \in CharText
      BY <3>1, TextPart
    <3> QED
      BY <3>2 DEF k
  <2>6. Part(q) \in CharText
    BY <2>5 DEF m
  <2> HIDE DEF Part, M
  <2>7. <<Part(q)>> \in V
    BY <2>6
  <2> QED
    BY <2>3, <2>4, <2>6, <2>7 DEF m
<1>3. ASSUME NEW q \in D
      PROVE  End(q) \in V
  <2>1. SubSeq(s, q + 1, L) \in CharText
    <3>1. L \in 0 .. Len(s) /\ q \in 0 .. L
      BY <1>1
    <3> QED
      BY <3>1, TextPart
  <2> QED
    BY <2>1
<1>4. \A a, b \in V : a \o b \in V
  OBVIOUS
<1>5. Split(s, Comma) = split[0]
  BY DEF Split, Commas
<1> HIDE DEF L, V, M, Part, End
<1>6. \E f : F(f)
  <2> DEFINE B == [g \in [D -> V] |-> [q \in D |-> IF Commas(s, q) = {} THEN End(q) ELSE <<Part(q)>> \o g[M(q)]]]
  <2>1. B \in [[D -> V] -> [D -> V]]
    <3> SUFFICES ASSUME NEW g \in [D -> V], NEW q \in D
                 PROVE  (IF Commas(s, q) = {} THEN End(q) ELSE <<Part(q)>> \o g[M(q)]) \in V
      OBVIOUS
    <3> QED
      BY <1>2, <1>3, <1>4
  <2>2. UsesLarger(L, V, B)
    <3> SUFFICES ASSUME NEW g \in [D -> V], NEW h \in [D -> V], NEW q \in D,
                        \A r \in q + 1 .. L : g[r] = h[r]
                 PROVE  B[g][q] = B[h][q]
      BY <2>1 DEF UsesLarger
    <3>1. Commas(s, q) # {} => g[M(q)] = h[M(q)]
      BY <1>2
    <3> QED
      BY <3>1
  <2>3. HasSolution(L, V, B)
    <3>1. V # {}
      BY <1>1, <1>3
    <3> HIDE DEF B
    <3> QED
      BY <1>1, <2>2, <3>1, UpRecursion
  <2>4. PICK f \in [D -> V] : f = B[f]
    BY <2>3 DEF HasSolution
  <2>5. F(f)
    BY <2>4
  <2> QED
    BY <2>5
<1>7. F(split)
  <2> HIDE DEF F
  <2> QED
    BY <1>6
<1> HIDE DEF split
<1>8. \A q \in D : split[q] = IF Commas(s, q) = {} THEN End(q) ELSE <<Part(q)>> \o split[M(q)]
  BY <1>7
<1> DEFINE T == {q \in D : split[q] \in V}
<1>9. ASSUME NEW q \in D, \A r \in q + 1 .. L : r \in T
      PROVE  q \in T
  BY <1>2, <1>3, <1>4, <1>8, <1>9
<1>10. D \subseteq T
  <2> HIDE DEF T
  <2> QED
    BY <1>1, <1>9, UpInduction
<1>11. split \in [D -> V]
  BY <1>7, <1>10
<1>12. SplitBy(s, split)
  BY <1>5, <1>8, <1>11 DEF SplitBy, L, V, M, Part, End
<1> QED
  BY <1>12

(* The parts of s from the position q on.                                  *)
SplitFrom(s, q) == (CHOOSE f : SplitBy(s, f))[q]

(* The parts behind the k-th one are those from q on.                      *)
PartsFrom(s, k, q) ==
  /\ Len(Split(s, Comma)) = k + Len(SplitFrom(s, q))
  /\ \A j \in 1 .. Len(SplitFrom(s, q)) : Split(s, Comma)[k + j] = SplitFrom(s, q)[j]

(* All of them are the parts from the start on.                            *)
LEMMA PartsStart ==
  ASSUME NEW s \in CharText
  PROVE  PartsFrom(s, 0, 0)
<1>1. PICK f : SplitBy(s, f)
  BY SplitFunction
<1> DEFINE g == CHOOSE f_1 : SplitBy(s, f_1)
<1>2. SplitBy(s, g)
  BY <1>1
<1>3. \A q : SplitFrom(s, q) = g[q]
  BY DEF SplitFrom
<1> HIDE DEF g
<1>4. Split(s, Comma) = SplitFrom(s, 0)
  BY <1>2, <1>3 DEF SplitBy
<1>5. Len(SplitFrom(s, 0)) \in Nat
  <2>1. g[0] \in Seq(CharText)
    <3>1. 0 \in 0 .. Len(s)
      BY DEF CharText
    <3> QED
      BY <1>2, <3>1 DEF SplitBy
  <2> QED
    BY <1>3, <2>1
<1>6. Len(Split(s, Comma)) = 0 + Len(SplitFrom(s, 0))
  BY <1>4, <1>5
<1>7. ASSUME NEW j \in 1 .. Len(SplitFrom(s, 0))
      PROVE  Split(s, Comma)[0 + j] = SplitFrom(s, 0)[j]
  <2>1. 0 + j = j
    OBVIOUS
  <2> QED
    BY <1>4, <2>1
<1> QED
  BY <1>6, <1>7 DEF PartsFrom

(* The part behind the first k reaches from q to e.                        *)
NextPart(s, k, q, e) ==
  /\ At(s, e) = Comma => Split(s, Comma)[k + 1] = SubSeq(s, q + 1, e) /\ PartsFrom(s, k + 1, e + 1)
  /\ e = Len(s) => Split(s, Comma)[k + 1] = SubSeq(s, q + 1, e) /\ Len(Split(s, Comma)) = k + 1

(* The next part reaches up to the next comma, or to the end.              *)
LEMMA PartsTurn ==
  ASSUME NEW s \in CharText, NEW k \in Nat, NEW q, NEW e, Run(s, q, e), q <= e, PartsFrom(s, k, q)
  PROVE  NextPart(s, k, q, e)
<1> DEFINE g == CHOOSE f : SplitBy(s, f)
           C == Commas(s, q)
<1>1. SplitBy(s, g)
  <2>1. \E f : SplitBy(s, f)
    BY SplitFunction
  <2> QED
    BY <2>1
<1>2. \A i : SplitFrom(s, i) = g[i]
  BY DEF SplitFrom
<1> HIDE DEF g
<1>3. Len(s) \in Nat /\ q \in 0 .. Len(s) /\ e \in 0 .. Len(s) /\ q \in Nat /\ e \in Nat /\ Clear(s, q, e)
  BY DEF Run, CharText
<1>4. /\ \A i \in 0 .. Len(s) : g[i] \in Seq(CharText)
      /\ g[q] = IF C = {} THEN <<SubSeq(s, q + 1, Len(s))>> ELSE <<SubSeq(s, q + 1, Min(C) - 1)>> \o g[Min(C)]
  BY <1>1, <1>3 DEF SplitBy
<1>5. ASSUME NEW i \in q + 1 .. e
      PROVE  i \notin C
  <2>1. i - 1 \in q .. e - 1 /\ i - 1 \in Nat /\ i - 1 < Len(s) /\ (i - 1) + 1 = i
    BY <1>3
  <2>2. At(s, i - 1) = s[(i - 1) + 1]
    BY <2>1, AtFacts
  <2>3. At(s, i - 1) # Comma
    BY <1>3, <2>1 DEF Clear
  <2> QED
    BY <2>1, <2>2, <2>3 DEF Commas
<1>6. ASSUME e = Len(s)
      PROVE  Split(s, Comma)[k + 1] = SubSeq(s, q + 1, e) /\ Len(Split(s, Comma)) = k + 1
  <2>1. C = {}
    BY <1>5, <1>6 DEF Commas
  <2> DEFINE x == SubSeq(s, q + 1, Len(s))
  <2>2. SplitFrom(s, q) = <<x>>
    BY <1>2, <1>4, <2>1
  <2> HIDE DEF x
  <2>3. Len(SplitFrom(s, q)) = 1 /\ SplitFrom(s, q)[1] = x
    BY <2>2
  <2>4. 1 \in 1 .. Len(SplitFrom(s, q))
    BY <2>3
  <2>5. Split(s, Comma)[k + 1] = SplitFrom(s, q)[1] /\ Len(Split(s, Comma)) = k + 1
    BY <2>3, <2>4 DEF PartsFrom
  <2> QED
    BY <1>6, <2>3, <2>5 DEF x
<1>7. ASSUME At(s, e) = Comma
      PROVE  Split(s, Comma)[k + 1] = SubSeq(s, q + 1, e) /\ PartsFrom(s, k + 1, e + 1)
  <2>1. Comma # Eos
    BY Zenon DEF Comma, Eos
  <2>2. e < Len(s) /\ e + 1 \in 0 .. Len(s)
    BY <1>3, <1>7, <2>1, InText
  <2>3. e + 1 \in C
    <3>1. At(s, e) = s[e + 1]
      BY <1>3, <2>2, AtFacts
    <3>2. e + 1 \in q + 1 .. Len(s)
      BY <1>3, <2>2
    <3> QED
      BY <1>7, <3>1, <3>2 DEF Commas
  <2>4. Min(C) = e + 1
    <3> DEFINE m == Min(C)
    <3>1. C \subseteq Nat
      BY <1>3 DEF Commas
    <3>2. m \in C /\ m <= e + 1
      BY <2>3, <3>1, LeastFacts
    <3> HIDE DEF m
    <3>3. m \in q + 1 .. Len(s)
      BY <3>2 DEF Commas
    <3>4. m \notin q + 1 .. e
      BY <1>5, <3>2
    <3>5. m = e + 1
      BY <1>3, <3>2, <3>3, <3>4
    <3> QED
      BY <3>5 DEF m
  <2> DEFINE x == SubSeq(s, q + 1, e)
             r == g[e + 1]
             z == g[q]
  <2>5. x \in CharText
    BY <1>3, TextPart
  <2>6. r \in Seq(CharText)
    BY <1>4, <2>2
  <2>7. z = <<x>> \o r
    <3>1. (e + 1) - 1 = e /\ C # {}
      BY <1>3, <2>3
    <3> QED
      BY <1>4, <2>4, <3>1
  <2> HIDE DEF x, r, z
  <2>8. Len(r) \in Nat /\ Len(z) = Len(r) + 1 /\ z[1] = x /\ \A j \in 1 .. Len(r) : z[j + 1] = r[j]
    <3> DEFINE y == <<x>>
    <3>1. y \in Seq(CharText) /\ Len(y) = 1 /\ y[1] = x
      BY <2>5
    <3>2. z = y \o r
      BY <2>7
    <3> HIDE DEF y
    <3>3. /\ Len(z) = Len(y) + Len(r)
          /\ \A i \in 1 .. Len(y) + Len(r) : z[i] = IF i <= Len(y) THEN y[i] ELSE r[i - Len(y)]
      BY <2>6, <3>1, <3>2, ConcatProperties
    <3> DEFINE n == Len(r)
    <3>4. n \in Nat
      BY <2>6
    <3> HIDE DEF n
    <3>5. /\ Len(z) = 1 + n
          /\ \A i \in 1 .. 1 + n : z[i] = IF i <= 1 THEN y[i] ELSE r[i - 1]
      BY <3>1, <3>3 DEF n
    <3>6. z[1] = x
      <4>1. 1 \in 1 .. 1 + n
        BY <3>4
      <4> QED
        BY <3>1, <3>5, <4>1
    <3>7. ASSUME NEW j \in 1 .. n
          PROVE  z[j + 1] = r[j]
      <4>1. j + 1 \in 1 .. 1 + n /\ ~(j + 1 <= 1) /\ (j + 1) - 1 = j
        BY <3>4
      <4> QED
        BY <3>5, <4>1
    <3> QED
      BY <3>4, <3>5, <3>6, <3>7 DEF n
  <2>9. SplitFrom(s, q) = z /\ SplitFrom(s, e + 1) = r
    BY <1>2 DEF z, r
  <2>10. Split(s, Comma)[k + 1] = x
    <3>1. 1 \in 1 .. Len(z)
      BY <2>8
    <3>2. Split(s, Comma)[k + 1] = z[1]
      BY <2>9, <3>1 DEF PartsFrom
    <3> QED
      BY <2>8, <3>2
  <2>11. PartsFrom(s, k + 1, e + 1)
    <3>4. Len(Split(s, Comma)) = (k + 1) + Len(r)
      <4>1. Len(Split(s, Comma)) = k + Len(z)
        BY <2>9 DEF PartsFrom
      <4> DEFINE m == Len(r)
      <4>2. m \in Nat /\ Len(z) = m + 1
        BY <2>8
      <4> HIDE DEF m
      <4>3. k + Len(z) = (k + 1) + m
        BY <4>2
      <4> QED
        BY <4>1, <4>3 DEF m
    <3> SUFFICES ASSUME NEW j \in 1 .. Len(r) PROVE Split(s, Comma)[(k + 1) + j] = r[j]
      BY <2>9, <3>4 DEF PartsFrom
    <3>1. j + 1 \in 1 .. Len(z) /\ k + (j + 1) = (k + 1) + j
      BY <2>8
    <3>2. Split(s, Comma)[k + (j + 1)] = z[j + 1]
      BY <2>9, <3>1 DEF PartsFrom
    <3>3. z[j + 1] = r[j]
      BY <2>8
    <3> QED
      BY <3>1, <3>2, <3>3
  <2> QED
    BY <2>10, <2>11 DEF x
<1> QED
  BY <1>6, <1>7 DEF NextPart

(* From q to e the text is what is read from a to b, and spaces around it. *)
SpacesAround(s, q, a, b, e) ==
  SubSeq(s, q + 1, e) = [j \in 1 .. a - q |-> Space] \o SubSeq(s, a + 1, b) \o [j \in 1 .. e - b |-> Space]

(* A part with white space around what is read of it.                      *)
LEMMA PaddedPart ==
  ASSUME NEW s \in CharText, NEW q, NEW a, NEW b, NEW e, q \in 0 .. a, a \in 0 .. b, b \in 0 .. e, e \in 0 .. Len(s),
         Blank(s, q, a), Blank(s, b, e)
  PROVE  SpacesAround(s, q, a, b, e)
<1> DEFINE x == SubSeq(s, q + 1, e)
           u == [j \in 1 .. a - q |-> Space]
           v == SubSeq(s, a + 1, b)
           w == [j \in 1 .. e - b |-> Space]
           c == a - q
           d == b - a
           f == e - b
<1>1. Len(s) \in Nat /\ q \in Nat /\ a \in Nat /\ b \in Nat /\ e \in Nat /\ q <= a /\ a <= b /\ b <= e /\ e <= Len(s)
  BY DEF CharText
<1>2. c \in Nat /\ d \in Nat /\ f \in Nat
  BY <1>1
<1> DEFINE S == Char \cup {Space}
<1>3. Space \in S /\ \A k \in CharText : k \in Seq(S)
  <2>1. ASSUME NEW k \in CharText
        PROVE  k \in Seq(S)
    <3>1. k \in Seq(Char)
      BY DEF CharText
    <3> QED
      BY <3>1
  <2> QED
    BY <2>1
<1> HIDE DEF S
<1>4. x \in CharText /\ Len(x) = e - q /\ \A i \in 1 .. e - q : x[i] = s[q + i]
  <2>1. e \in 0 .. Len(s) /\ q \in 0 .. e
    BY <1>1
  <2> QED
    BY <2>1, TextPart
<1>5. v \in CharText /\ Len(v) = d /\ \A i \in 1 .. d : v[i] = s[a + i]
  <2>1. b \in 0 .. Len(s) /\ a \in 0 .. b
    BY <1>1
  <2> QED
    BY <2>1, TextPart
<1>6. u \in Seq(S) /\ Len(u) = c /\ \A i \in 1 .. c : u[i] = Space
  BY <1>2, <1>3
<1>7. w \in Seq(S) /\ Len(w) = f /\ \A i \in 1 .. f : w[i] = Space
  BY <1>2, <1>3
<1> HIDE DEF x, u, v, w, c, d, f
<1> DEFINE y == u \o v
           z == y \o w
<1>8. /\ y \in Seq(S) /\ Len(y) = c + d
      /\ \A i \in 1 .. c + d : y[i] = IF i <= c THEN u[i] ELSE v[i - c]
  <2>1. v \in Seq(S)
    BY <1>3, <1>5
  <2> QED
    BY <1>5, <1>6, <2>1, ConcatProperties
<1> HIDE DEF y
<1>9. /\ z \in Seq(S) /\ Len(z) = (c + d) + f
      /\ \A i \in 1 .. (c + d) + f : z[i] = IF i <= c + d THEN y[i] ELSE w[i - (c + d)]
  <2>1. y \in Seq(S) /\ w \in Seq(S)
    BY <1>7, <1>8
  <2>2. /\ z \in Seq(S) /\ Len(z) = Len(y) + Len(w)
        /\ \A i \in 1 .. Len(y) + Len(w) : z[i] = IF i <= Len(y) THEN y[i] ELSE w[i - Len(y)]
    BY <2>1, ConcatProperties
  <2> HIDE DEF z
  <2>3. Len(y) = c + d /\ Len(w) = f
    BY <1>7, <1>8
  <2> QED
    BY <2>2, <2>3
<1> HIDE DEF z
<1>10. \A i \in Nat : i < Len(s) => At(s, i) = s[i + 1]
  BY AtFacts
<1>11. Len(x) = Len(z)
  BY <1>1, <1>4, <1>9 DEF c, d, f
<1>12. ASSUME NEW i \in 1 .. Len(x)
       PROVE  x[i] = z[i]
  <2>1. i \in 1 .. e - q /\ i \in 1 .. (c + d) + f /\ x[i] = s[q + i]
    BY <1>1, <1>4 DEF c, d, f
  <2>2. CASE i <= c
    <3>1. i \in 1 .. c /\ i \in 1 .. c + d /\ i <= c + d
      BY <1>2, <2>1, <2>2
    <3>2. z[i] = Space
      BY <1>6, <1>8, <1>9, <2>1, <2>2, <3>1
    <3>3. (q + i) - 1 \in q .. a - 1 /\ (q + i) - 1 \in Nat /\ (q + i) - 1 < Len(s) /\ ((q + i) - 1) + 1 = q + i
      BY <1>1, <3>1 DEF c
    <3>4. At(s, (q + i) - 1) = Space /\ At(s, (q + i) - 1) = s[((q + i) - 1) + 1]
      BY <1>10, <3>3 DEF Blank
    <3> QED
      BY <2>1, <3>2, <3>3, <3>4
  <2>3. CASE ~(i <= c) /\ i <= c + d
    <3>1. i \in 1 .. c + d /\ i - c \in 1 .. d /\ a + (i - c) = q + i
      BY <1>1, <1>2, <2>1, <2>3 DEF c
    <3>2. z[i] = y[i] /\ y[i] = v[i - c] /\ v[i - c] = s[a + (i - c)]
      BY <1>5, <1>8, <1>9, <2>1, <2>3, <3>1
    <3> QED
      BY <2>1, <3>1, <3>2
  <2>4. CASE ~(i <= c + d)
    <3>1. i - (c + d) \in 1 .. f
      BY <1>2, <2>1, <2>4
    <3>2. z[i] = Space
      BY <1>7, <1>9, <2>1, <2>4, <3>1
    <3>3. (q + i) - 1 \in b .. e - 1 /\ (q + i) - 1 \in Nat /\ (q + i) - 1 < Len(s) /\ ((q + i) - 1) + 1 = q + i
      BY <1>1, <2>1, <2>4 DEF c, d
    <3>4. At(s, (q + i) - 1) = Space /\ At(s, (q + i) - 1) = s[((q + i) - 1) + 1]
      BY <1>10, <3>3 DEF Blank
    <3> QED
      BY <2>1, <3>2, <3>3, <3>4
  <2> QED
    BY <2>2, <2>3, <2>4
<1>13. x = z
  <2>1. x \in Seq(S)
    BY <1>3, <1>4
  <2> QED
    BY <1>9, <1>11, <1>12, <2>1, SeqEqual
<1> QED
  BY <1>13 DEF SpacesAround, x, y, z, u, v, w

-----------------------------------------------------------------------------
(* From q on the text is k parameters, up to its end.                      *)
ChainAt(s, q, k) ==
  /\ q \in 0 .. Len(s)
  /\ AllData(s, q).type = "ALL_PROGRAM_DATA" /\ AllData(s, q).pos = Len(s) /\ AllData(s, q).count = k

(* The first of them, and the others behind its comma.                     *)
LEMMA ChainTurn ==
  ASSUME NEW s \in CharText, NEW q, NEW k, ChainAt(s, q, k), NEW t, t = scpiParser_parseProgramData(s, q)
  PROVE  /\ k \in Int /\ t.type \notin {"UNKNOWN", "NEVER"} /\ t.pos \in q .. Len(s)
         /\ \/ At(s, t.pos) = Comma /\ t.pos < Len(s) /\ ChainAt(s, t.pos + 1, k - 1)
            \/ t.pos = Len(s) /\ k = 1
<1> DEFINE more == t.type \notin {"NEVER", "UNKNOWN"} /\ At(s, t.pos) = Comma
           d == AllData(s, q)
           b == t.pos + 1
           rest == AllData(s, b)
<1>1. q \in 0 .. Len(s) /\ d.type = "ALL_PROGRAM_DATA" /\ d.pos = Len(s) /\ d.count = k
  BY DEF ChainAt
<1>2. Len(s) \in Nat /\ q \in Nat
  BY <1>1 DEF CharText
<1>3. Spans(s, q, t)
  <2>1. IsData(s, q, t)
    BY <1>1, ProgramDataFacts
  <2> QED
    BY <2>1 DEF IsData
<1>4. IF more THEN b \in q + 1 .. Len(s) /\ d = AndData(t, rest) ELSE d = LastData(q, t)
  BY <1>1, AllDataTurn
<1>5. t.pos \in q .. Len(s) /\ t.ret \in Int /\ t.pos \in Nat
  BY <1>2, <1>3 DEF Spans
<1>6. k \in Int
  <2>1. d \in Datas
    BY <1>1, AllDataFacts
  <2> HIDE DEF d
  <2> QED
    BY <1>1, <2>1 DEF Datas
<1>7. CASE more
  <2>1. b \in q + 1 .. Len(s) /\ d = AndData(t, rest)
    BY <1>4, <1>7
  <2>2. b \in 0 .. Len(s)
    <3> HIDE DEF b
    <3> QED
      BY <1>2, <2>1
  <2>3. rest \in Datas
    <3> HIDE DEF b
    <3> QED
      BY <2>2, AllDataFacts
  <2> HIDE DEF d, rest
  <2>4. /\ d.pos = rest.pos /\ d.type = rest.type
        /\ rest.type = "ALL_PROGRAM_DATA" => d.count = rest.count + 1
    BY <1>5, <2>1, <2>3, AndDataFacts
  <2>5. rest.type = "ALL_PROGRAM_DATA" /\ rest.pos = Len(s) /\ k = rest.count + 1 /\ rest.count \in Int
    BY <1>1, <2>3, <2>4 DEF Datas
  <2>6. rest.count = k - 1
    <3> DEFINE c == rest.count
    <3>1. c \in Int /\ k = c + 1
      BY <2>5
    <3> HIDE DEF c
    <3>2. c = k - 1
      BY <3>1
    <3> QED
      BY <3>2 DEF c
  <2>7. ChainAt(s, b, k - 1)
    BY <2>2, <2>5, <2>6 DEF ChainAt, rest
  <2>8. t.pos < Len(s)
    BY <1>2, <1>5, <2>2
  <2> QED
    BY <1>5, <1>6, <1>7, <2>7, <2>8
<1>8. CASE ~more
  <2>1. d = LastData(q, t)
    BY <1>4, <1>8
  <2> HIDE DEF d
  <2>2. t.type \notin {"NEVER", "UNKNOWN"} /\ d.count = 1 /\ d.pos = t.pos
    BY <1>1, <1>3, <2>1, LastDataFacts
  <2> QED
    BY <1>1, <1>5, <1>6, <2>2
<1> HIDE DEF more
<1> QED
  BY <1>7, <1>8

(* Where the command stands: in front of the first parameter, at the comma *)
(* in front of the next one, or behind the last; k parameters are read.    *)
Ready(p, c, k) ==
  \/ c = 0 /\ p = 0 /\ k = 0 /\ ChainAt(text, 0, data.count)
  \/ /\ c > 0 /\ p < data.len /\ At(text, p) = Comma /\ ChainAt(text, p + 1, data.count - k)
     /\ PlainText(text) => PartsFrom(text, k, p + 1)
  \/ c > 0 /\ p = data.len /\ k = data.count

(* All of the text is data, and the command is given all that counts.      *)
Lossless ==
  /\ data.len > 0 /\ Cut(text, data.len, ParamText)
  /\ data.len = Len(text) \/ \A i \in Nat : At(text, i) # "#"

(* A parameter read at q is the next one of the chain.                     *)
LEMMA NextOfChain ==
  ASSUME DataInv, Lossless, NEW q \in 0 .. data.len, NEW k \in Nat, ChainAt(text, q, data.count - k),
         PlainText(text) => PartsFrom(text, k, q), data.count \in Int,
         NEW y, y = scpiParser_parseProgramData(ParamText, q)
  PROVE  /\ y.type # "UNKNOWN"
         /\ \A c \in Nat : c > 0 => Ready(y.pos, c, k + 1)
         /\ PlainText(text) => Padded(text, Split(text, Comma)[k + 1], SubSeq(text, y.ptr + 1, y.ptr + y.len))
<1> DEFINE n == data.len
           x == scpiParser_parseProgramData(text, q)
           e == x.pos
<1>1. /\ text \in CharText /\ Cut(text, n, ParamText) /\ n > 0
      /\ n = Len(text) \/ \A i \in Nat : At(text, i) # "#"
  BY DEF Lossless, DataInv
<1>2. /\ Len(text) \in Nat /\ n \in Nat /\ n <= Len(text) /\ q \in 0 .. Len(text) /\ q \in Nat
      /\ \A i \in Nat : i >= n => At(text, i) \in {Space, Eos}
  <2>1. /\ Len(text) \in Nat /\ n \in 0 .. Len(text) /\ n \in Nat
        /\ \A i \in Nat : i >= n => At(text, i) \in {Space, Eos}
    BY <1>1, CutFacts
  <2> HIDE DEF n
  <2>2. q \in 0 .. n
    BY DEF n
  <2> QED
    BY <2>1, <2>2
<1>3. /\ x.type \notin {"UNKNOWN", "NEVER"} /\ e \in q .. Len(text)
      /\ \/ At(text, e) = Comma /\ e < Len(text) /\ ChainAt(text, e + 1, (data.count - k) - 1)
         \/ e = Len(text) /\ data.count - k = 1
  BY <1>1, ChainTurn
<1>4. SameToken(text, n, x, y)
  BY <1>1, <1>3, ReadSame
<1>5. Spans(text, q, x)
  <2>1. IsData(text, q, x)
    BY <1>1, <1>2, ProgramDataFacts
  <2> HIDE DEF x
  <2> QED
    BY <2>1 DEF IsData
<1>6. PlainText(text) => Run(text, q, e) /\ Blank(text, q, x.ptr) /\ Blank(text, x.ptr + x.len, e)
  BY <1>1, <1>2, <1>3, PlainParameter
<1> HIDE DEF x
<1>7. y.type # "UNKNOWN" /\ y.ptr = x.ptr /\ y.len = x.len
  BY <1>3, <1>4 DEF SameToken
<1>8. e \in Nat /\ q <= e /\ e <= Len(text) /\ e \in 0 .. Len(text)
  BY <1>2, <1>3
<1>9. x.ptr \in q .. e /\ x.len \in Nat /\ x.ptr + x.len <= e
  BY <1>5 DEF Spans
<1>10. (e \in 0 .. n /\ y.pos = e) \/ (e = Len(text) /\ y.pos = n)
  BY <1>4 DEF SameToken
<1> HIDE DEF e, n
<1>11. PlainText(text) => /\ Split(text, Comma)[k + 1] = SubSeq(text, q + 1, e)
                          /\ At(text, e) = Comma => PartsFrom(text, k + 1, e + 1)
  <2> SUFFICES ASSUME PlainText(text)
               PROVE  /\ Split(text, Comma)[k + 1] = SubSeq(text, q + 1, e)
                      /\ At(text, e) = Comma => PartsFrom(text, k + 1, e + 1)
    OBVIOUS
  <2>1. Run(text, q, e) /\ PartsFrom(text, k, q)
    BY <1>6
  <2>2. q <= e /\ text \in CharText
    BY <1>1, <1>8
  <2>3. NextPart(text, k, q, e)
    BY <2>1, <2>2, PartsTurn
  <2>4. At(text, e) = Comma \/ e = Len(text)
    BY <1>3 DEF e
  <2> QED
    BY <2>3, <2>4 DEF NextPart
<1>12. PlainText(text) => Padded(text, Split(text, Comma)[k + 1], SubSeq(text, y.ptr + 1, y.ptr + y.len))
  <2> SUFFICES ASSUME PlainText(text)
               PROVE  Padded(text, Split(text, Comma)[k + 1], SubSeq(text, y.ptr + 1, y.ptr + y.len))
    OBVIOUS
  <2> DEFINE a == x.ptr
             m == x.ptr + x.len
  <2>1. a \in Nat /\ m \in Nat /\ q \in 0 .. a /\ a \in 0 .. m /\ m \in 0 .. e /\ a <= m
    BY <1>2, <1>8, <1>9
  <2>2. Blank(text, q, a) /\ Blank(text, m, e)
    BY <1>6
  <2> HIDE DEF a, m
  <2>3. SpacesAround(text, q, a, m, e)
    <3>1. text \in CharText /\ e \in 0 .. Len(text)
      BY <1>1, <1>8
    <3> QED
      BY <2>1, <2>2, <3>1, PaddedPart
  <2> DEFINE f == a - q
             g == e - m
  <2>4. f \in 0 .. Len(text) /\ g \in 0 .. Len(text)
    BY <1>2, <1>8, <2>1
  <2> HIDE DEF f, g
  <2>5. SubSeq(text, y.ptr + 1, y.ptr + y.len) = SubSeq(text, a + 1, m)
    BY <1>7 DEF a, m
  <2> DEFINE w == SubSeq(text, a + 1, m)
  <2>6. Split(text, Comma)[k + 1] = [j \in 1 .. f |-> Space] \o w \o [j \in 1 .. g |-> Space]
    BY <1>11, <2>3 DEF f, g, SpacesAround
  <2> HIDE DEF w
  <2>7. Padded(text, Split(text, Comma)[k + 1], w)
    BY <2>4, <2>6 DEF Padded
  <2> QED
    BY <2>5, <2>7 DEF w
<1>13. ASSUME NEW c \in Nat, c > 0
       PROVE  Ready(y.pos, c, k + 1)
  <2>1. CASE At(text, e) = Comma /\ e < Len(text) /\ ChainAt(text, e + 1, (data.count - k) - 1)
    <3>1. Comma # Space /\ Comma # Eos
      <4>1. Comma # Eos
        BY Zenon DEF Comma, Eos
      <4> QED
        BY <4>1, SolidSets
    <3>2. e < n
      BY <1>2, <1>8, <2>1, <3>1
    <3>3. y.pos = e
      BY <1>8, <1>10, <2>1
    <3>4. (data.count - k) - 1 = data.count - (k + 1)
      OBVIOUS
    <3>5. ChainAt(text, e + 1, data.count - (k + 1))
      BY <2>1, <3>4
    <3> QED
      BY <1>11, <1>13, <2>1, <3>2, <3>3, <3>5 DEF Ready, n
  <2>2. CASE e = Len(text) /\ data.count - k = 1
    <3>1. y.pos = n
      BY <1>2, <1>8, <1>10, <2>2
    <3>2. k + 1 = data.count
      BY <2>2
    <3> QED
      BY <1>13, <3>1, <3>2 DEF Ready, n
  <2> QED
    BY <1>3, <2>1, <2>2 DEF e
<1> QED
  BY <1>7, <1>12, <1>13

(* SCPI_Parameter found no parameter left, or read the one behind k others.*)
NextRead(r, k) ==
  \/ r.ok = FALSE /\ r.error \in {<<"MISSING_PARAMETER">>, <<>>}
  \/ /\ r.ok = TRUE /\ Ready(r.pos, r.count, k + 1)
     /\ PlainText(text) =>
          Padded(text, Split(text, Comma)[k + 1], SubSeq(text, r.token.ptr + 1, r.token.ptr + r.token.len))

(* What SCPI_Parameter returns where there is a parameter to read at q.    *)
LEMMA ParameterTakes ==
  ASSUME DataInv, Lossless, NEW mandatory, NEW r, r = Parameter(mandatory), NEW k \in Nat, data.count \in Int,
         pos < data.len, count > 0 => At(text, pos) = Comma,
         NEW q \in 0 .. data.len, q = IF count = 0 THEN pos ELSE pos + 1,
         ChainAt(text, q, data.count - k), PlainText(text) => PartsFrom(text, k, q)
  PROVE  NextRead(r, k)
<1> DEFINE u == ParamText
           n == data.len
           y == scpiParser_parseProgramData(u, q)
<1>1. /\ text \in CharText /\ n \in Nat /\ pos \in 0 .. n - 1 /\ pos \in Nat /\ count \in Nat
      /\ Cut(text, n, u)
  BY DEF DataInv, CharText, Lossless
<1>2. Len(u) = n /\ At(u, pos) = At(text, pos)
  <2> HIDE DEF u, n
  <2> QED
    BY <1>1, CutFacts
<1>3. /\ y.type # "UNKNOWN"
      /\ \A c \in Nat : c > 0 => Ready(y.pos, c, k + 1)
      /\ PlainText(text) => Padded(text, Split(text, Comma)[k + 1], SubSeq(text, y.ptr + 1, y.ptr + y.len))
  BY NextOfChain
<1>4. pos < Len(u) /\ ~(count > 0 /\ At(u, pos) # Comma)
  BY <1>1, <1>2
<1> HIDE DEF u
<1>5. r = IF y.type = "UNKNOWN"
          THEN [ok |-> FALSE, error |-> <<"INVALID_STRING_DATA">>, pos |-> y.pos, count |-> count + 1,
                token |-> Token("UNKNOWN", 0, 0, 0, 0)]
          ELSE [ok |-> TRUE, error |-> <<>>, pos |-> y.pos, count |-> count + 1, token |-> y]
  BY <1>1, <1>2, <1>4 DEF Parameter, u
<1> HIDE DEF y
<1>6. r.ok = TRUE /\ r.pos = y.pos /\ r.count = count + 1 /\ r.token = y
  BY <1>3, <1>5
<1>7. Ready(y.pos, count + 1, k + 1)
  <2>1. count + 1 \in Nat /\ count + 1 > 0
    BY <1>1
  <2> QED
    BY <1>3, <2>1
<1> QED
  BY <1>3, <1>6, <1>7 DEF NextRead

(* SCPI_Parameter reads the parameters of the chain, one after the other.  *)
LEMMA ParameterIsNext ==
  ASSUME DataInv, Lossless, NEW mandatory, NEW r, r = Parameter(mandatory), NEW k \in Nat, data.count \in Int,
         Ready(pos, count, k)
  PROVE  NextRead(r, k)
<1>1. /\ text \in CharText /\ data.len \in Nat /\ data.len > 0 /\ pos \in 0 .. data.len /\ pos \in Nat /\ count \in Nat
      /\ Cut(text, data.len, ParamText)
  BY DEF DataInv, CharText, Lossless
<1>2. CASE count = 0 /\ pos = 0 /\ k = 0 /\ ChainAt(text, 0, data.count)
  <2>1. PartsFrom(text, 0, 0)
    BY <1>1, PartsStart
  <2>2. data.count - 0 = data.count /\ 0 \in 0 .. data.len /\ pos < data.len
    BY <1>1, <1>2
  <2>3. ChainAt(text, 0, data.count - k) /\ PartsFrom(text, k, 0) /\ 0 = IF count = 0 THEN pos ELSE pos + 1
    BY <1>2, <2>1, <2>2
  <2> QED
    BY <1>2, <2>2, <2>3, ParameterTakes
<1>3. CASE /\ count > 0 /\ pos < data.len /\ At(text, pos) = Comma /\ ChainAt(text, pos + 1, data.count - k)
           /\ PlainText(text) => PartsFrom(text, k, pos + 1)
  <2> DEFINE q == pos + 1
  <2>1. q \in 0 .. data.len /\ q = IF count = 0 THEN pos ELSE pos + 1
    BY <1>1, <1>3
  <2>2. ChainAt(text, q, data.count - k) /\ (PlainText(text) => PartsFrom(text, k, q))
    BY <1>3
  <2> HIDE DEF q
  <2> QED
    BY <1>3, <2>1, <2>2, ParameterTakes
<1>4. CASE count > 0 /\ pos = data.len /\ k = data.count
  <2>1. Len(ParamText) = data.len
    BY <1>1, CutFacts
  <2>2. pos >= Len(ParamText)
    BY <1>1, <1>4, <2>1
  <2>3. r.ok = FALSE /\ r.error \in {<<"MISSING_PARAMETER">>, <<>>}
    <3> DEFINE u == ParamText
               missing == IF mandatory THEN <<"MISSING_PARAMETER">> ELSE <<>>
    <3>1. pos >= Len(u) /\ ~(pos < Len(u))
      BY <1>1, <1>4, <2>1
    <3> HIDE DEF u
    <3>2. r = [ok |-> FALSE, error |-> missing, pos |-> pos, count |-> count, token |-> Token("UNKNOWN", 0, 0, 0, 0)]
      BY <3>1 DEF Parameter, u
    <3>3. missing \in {<<"MISSING_PARAMETER">>, <<>>}
      OBVIOUS
    <3> HIDE DEF missing
    <3> QED
      BY <3>2, <3>3
  <2> QED
    BY <2>3 DEF NextRead
<1> QED
  BY <1>2, <1>3, <1>4 DEF Ready

(* The functions on top of SCPI_Parameter push none of its own errors.     *)
LEMMA TypeErrors ==
  ASSUME NEW kind, NEW type, NEW w
  PROVE  TypeError(kind, type, w) \notin {<<"INVALID_SEPARATOR">>, <<"INVALID_STRING_DATA">>}
<1> DEFINE e == TypeError(kind, type, w)
<1>1. e \in {<<"SUFFIX_NOT_ALLOWED">>, <<"DATA_TYPE_ERROR">>, <<"ILLEGAL_PARAMETER_VALUE">>, <<"INVALID_SUFFIX">>, <<>>}
  BY DEF TypeError
<1> HIDE DEF e
<1>2. e \notin {<<"INVALID_SEPARATOR">>, <<"INVALID_STRING_DATA">>}
  BY <1>1
<1> QED
  BY <1>2 DEF e

(* A text without a character has it nowhere.                              *)
LEMMA NotInText ==
  ASSUME NEW s \in CharText, NEW C, s # <<>> => Range(s) \cap C = {}, Eos \notin C
  PROVE  \A i \in Nat : At(s, i) \notin C
<1> SUFFICES ASSUME NEW i \in Nat PROVE At(s, i) \notin C
  OBVIOUS
<1>1. Len(s) \in Nat
  BY DEF CharText
<1>2. CASE i < Len(s)
  <2>1. At(s, i) = s[i + 1] /\ i + 1 \in 1 .. Len(s)
    BY <1>1, <1>2, AtFacts
  <2>2. s[i + 1] \in Range(s) /\ s # <<>>
    BY <2>1 DEF Range, CharText
  <2> QED
    BY <2>1, <2>2
<1>3. CASE ~(i < Len(s))
  BY <1>3, AtFacts
<1> QED
  BY <1>2, <1>3

(* What NothingIsLost says of the text a command is given.                 *)
LEMMA LosslessData ==
  ASSUME DataInv, NothingIsLost, data.type = "ALL_PROGRAM_DATA", data.pos = Len(text), data.len > 0
  PROVE  Lossless
<1>1. text \in CharText /\ Len(text) \in Nat /\ data.len \in 0 .. Len(text) /\ data.len \in Nat
  BY DEF DataInv, CharText
<1>2. Cut(text, data.len, ParamText)
  BY <1>1 DEF Cut, ParamText, NothingIsLost, LengthIsSpan
<1>3. data.len = Len(text) \/ \A i \in Nat : At(text, i) # "#"
  <2> SUFFICES ASSUME data.len # Len(text) PROVE \A i \in Nat : At(text, i) # "#"
    OBVIOUS
  <2>1. data.len < data.pos
    BY <1>1
  <2>2. "#" \notin Range(text)
    BY <2>1 DEF NothingIsLost
  <2> DEFINE C == {"#"}
  <2>3. Range(text) \cap C = {}
    BY <2>2
  <2>4. Eos \notin C
    BY Zenon DEF Eos
  <2>5. "#" \in C
    OBVIOUS
  <2> HIDE DEF C
  <2>6. \A i \in Nat : At(text, i) \notin C
    BY <1>1, <2>3, <2>4, NotInText
  <2> QED
    BY <2>5, <2>6
<1> QED
  BY <1>2, <1>3 DEF Lossless

(* A text without quotes, blocks, numbers of other bases and expressions.  *)
LEMMA PlainRange ==
  ASSUME NEW s \in CharText, Range(s) \cap (Quote \cup {"#", "("}) = {}
  PROVE  PlainText(s)
<1> DEFINE C == Quote \cup {"#", "("}
<1>1. Eos \notin C
  BY Zenon DEF Eos, Quote
<1>2. Range(s) \cap C = {}
  OBVIOUS
<1>3. \A c : c \notin C => c \notin Quote /\ c \notin {"#", "("}
  OBVIOUS
<1> HIDE DEF C
<1>4. \A i \in Nat : At(s, i) \notin C
  BY <1>1, <1>2, NotInText
<1> QED
  BY <1>3, <1>4 DEF PlainText

-----------------------------------------------------------------------------
(* What holds of the data and of the parameters read, if nothing is lost:  *)
(* the command stands in front of the next parameter or behind the last,   *)
(* and each one it got is a part of the text.                              *)
ReadErrors == {<<"INVALID_SEPARATOR">>, <<"INVALID_STRING_DATA">>}
AllRead == Len(got) = IF data.count < 0 THEN 0 ELSE data.count
EachPart == PlainText(text) => \A i \in 1 .. Len(got) : Padded(text, Split(text, Comma)[i], got[i].text)
FreshUnit == got = <<>> /\ count = 0 /\ pos = 0 /\ failed = FALSE
InData == data.type = "ALL_PROGRAM_DATA" /\ ~failed => Ready(pos, count, Len(got))
FoundData ==
  /\ data.type # "ALL_PROGRAM_DATA" => data.len = 0 /\ data.count \in {-1, 0} /\ got = <<>>
  /\ data.type = "ALL_PROGRAM_DATA" => data.len > 0 /\ data.count \in Int /\ data.count > 0
ReadInv ==
  /\ pc \in {"detect", "match"} => FreshUnit
  /\ pc = "detect" => error = <<>> /\ data = [type |-> "UNKNOWN", len |-> 0, count |-> 0, pos |-> 0]
  /\ FoundData
  /\ pc \in {"match", "call"} => data.pos = Len(text)
  /\ NothingIsLost =>
       /\ error \notin ReadErrors
       /\ EachPart
       /\ pc \in {"match", "call"} => InData
       /\ pc = "done" /\ result => AllRead

(* The unit starts with nothing read.                                      *)
LEMMA ReadInit ==
  ASSUME Init
  PROVE  ReadInv
<1> DEFINE none == [type |-> "UNKNOWN", len |-> 0, count |-> 0, pos |-> 0]
<1>1. pc = "detect" /\ data = none /\ pos = 0 /\ count = 0 /\ got = <<>> /\ error = <<>> /\ failed = FALSE
  BY DEF Init
<1>2. data.type = "UNKNOWN" /\ data.len = 0 /\ data.count = 0
  BY <1>1
<1>3. error \notin ReadErrors
  BY <1>1 DEF ReadErrors
<1>4. EachPart
  BY <1>1 DEF EachPart
<1>5. FreshUnit /\ FoundData
  BY <1>1, <1>2 DEF FreshUnit, FoundData
<1> QED
  BY <1>1, <1>3, <1>4, <1>5 DEF ReadInv

(* Detection leaves the command in front of the first parameter.           *)
LEMMA ReadDetect ==
  ASSUME CommandInv, ReadInv, detectProgramMessageUnit
  PROVE  ReadInv'
<1> DEFINE d == DetectData
<1>1. /\ pc = "detect" /\ data' = d /\ d.type # "NEVER"
      /\ text' = text /\ pos' = pos /\ count' = count /\ got' = got /\ failed' = failed
      /\ pc' \in {"match", "done"}
      /\ pc' = "match" => ~(data'.pos < Len(text))
      /\ pc' = "done" => result' = FALSE
      /\ error' \in {<<>>, <<"INVALID_CHARACTER">>, <<"UNDEFINED_HEADER">>}
  BY DEF detectProgramMessageUnit, given
<1>2. text \in CharText /\ Len(text) \in Nat
  BY DEF CommandInv, DataInv, CharText
<1>3. FreshUnit
  BY <1>1 DEF ReadInv
<1>4. /\ d.pos \in 0 .. Len(text) /\ d.len \in Int
      /\ d.type # "ALL_PROGRAM_DATA" => d.len = 0 /\ d.count \in {-1, 0}
      /\ d.type = "ALL_PROGRAM_DATA" => d.len > 0 /\ d.count \in Int /\ d.count > 0 /\ d = AllData(text, 0)
  <2>1. CASE text = <<>>
    <3>1. d = [type |-> "UNKNOWN", len |-> 0, count |-> 0, pos |-> 0]
      BY <1>1, <2>1 DEF ReadInv, DetectData
    <3> HIDE DEF d
    <3> QED
      BY <1>2, <3>1
  <2>2. CASE text # <<>>
    <3>1. d = AllData(text, 0)
      BY <2>2 DEF DetectData, scpiParser_parseAllProgramData
    <3> HIDE DEF d
    <3>2. /\ d \in Datas /\ d.pos \in 0 .. Len(text) /\ d.len \in 0 .. d.pos - 0
          /\ d.type = "ALL_PROGRAM_DATA" => d.len > 0 /\ d.count > 0
          /\ d.type = "UNKNOWN" => d.len = 0 /\ d.count = -1
      BY <1>2, <3>1, AllDataFacts
    <3>3. d.type \in {"NEVER", "UNKNOWN", "ALL_PROGRAM_DATA"} /\ d.count \in Int /\ d.len \in Int
      BY <3>2 DEF Datas
    <3> QED
      BY <1>1, <3>1, <3>2, <3>3
  <2> QED
    BY <2>1, <2>2
<1> HIDE DEF d
<1>5. FreshUnit' /\ got' = <<>> /\ pos' = 0 /\ count' = 0
  BY <1>1, <1>3 DEF FreshUnit
<1>6. FoundData'
  BY <1>1, <1>4, <1>5 DEF FoundData
<1>7. pc' = "match" => data'.pos = Len(text')
  BY <1>1, <1>2, <1>4
<1>8. error' \notin ReadErrors
  BY <1>1 DEF ReadErrors
<1>9. EachPart'
  BY <1>5 DEF EachPart
<1>10. pc' = "match" => InData'
  <2> SUFFICES ASSUME pc' = "match", d.type = "ALL_PROGRAM_DATA" PROVE Ready(pos, count, Len(got))'
    BY <1>1 DEF InData
  <2>1. 0 \in 0 .. Len(text) /\ d.pos = Len(text)
    BY <1>1, <1>2, <1>7
  <2>2. ChainAt(text, 0, d.count)
    BY <1>4, <2>1 DEF ChainAt
  <2> QED
    BY <1>1, <1>5, <2>2 DEF Ready
<1> QED
  BY <1>1, <1>5, <1>6, <1>7, <1>8, <1>9, <1>10 DEF ReadInv

(* What is lost depends on the text and the data alone.                    *)
LEMMA LostSame ==
  ASSUME text' = text, data' = data
  PROVE  /\ NothingIsLost' = NothingIsLost
         /\ got' = got => (EachPart' = EachPart /\ AllRead' = AllRead /\ FoundData' = FoundData)
         /\ got' = got /\ pos' = pos /\ count' = count /\ failed' = failed => InData' = InData
<1>1. NothingIsLost' = NothingIsLost
  BY DEF NothingIsLost, LengthIsSpan
<1>2. ASSUME got' = got
      PROVE  EachPart' = EachPart /\ AllRead' = AllRead /\ FoundData' = FoundData
  BY <1>2 DEF EachPart, AllRead, FoundData
<1>3. ASSUME got' = got, pos' = pos, count' = count, failed' = failed
      PROVE  InData' = InData
  BY <1>3 DEF InData, Ready
<1> QED
  BY <1>1, <1>2, <1>3

(* A turn of matchCommand touches neither the data nor the parameters.     *)
LEMMA ReadMatch ==
  ASSUME ReadInv, MatchTurn
  PROVE  ReadInv'
<1>1. /\ text' = text /\ data' = data /\ got' = got /\ pos' = pos /\ count' = count /\ failed' = failed
      /\ pc = "match"
  BY DEF MatchTurn, given
<1>2. /\ pc' \in {"match", "call", "done"}
      /\ pc' = "done" => ~result'
      /\ error' \in {error, <<>>, <<"UNDEFINED_HEADER">>}
  <2>1. \/ \E ok : /\ pc' = IF ok THEN "call" ELSE "done"
                  /\ result' = ok
                  /\ error' = IF ok THEN <<>> ELSE <<"UNDEFINED_HEADER">>
        \/ pc' = pc /\ error' = error
    BY Zenon DEF MatchTurn
  <2>2. ASSUME NEW ok, pc' = IF ok THEN "call" ELSE "done", result' = ok,
               error' = IF ok THEN <<>> ELSE <<"UNDEFINED_HEADER">>
        PROVE  /\ pc' \in {"match", "call", "done"}
               /\ pc' = "done" => ~result'
               /\ error' \in {error, <<>>, <<"UNDEFINED_HEADER">>}
    BY <2>2, Zenon
  <2>3. ASSUME pc' = pc, error' = error
        PROVE  /\ pc' \in {"match", "call", "done"}
               /\ pc' = "done" => ~result'
               /\ error' \in {error, <<>>, <<"UNDEFINED_HEADER">>}
    BY <1>1, <2>3
  <2> QED
    BY <2>1, <2>2, <2>3
<1>3. FreshUnit' /\ FoundData' /\ data'.pos = Len(text')
  BY <1>1, LostSame DEF ReadInv, FreshUnit
<1>4. NothingIsLost' => error' \notin ReadErrors
  <2>1. NothingIsLost' => error \notin ReadErrors
    BY <1>1, LostSame DEF ReadInv
  <2>2. <<>> \notin ReadErrors /\ <<"UNDEFINED_HEADER">> \notin ReadErrors
    BY DEF ReadErrors
  <2> QED
    BY <1>2, <2>1, <2>2
<1>5. NothingIsLost' => EachPart' /\ InData'
  BY <1>1, LostSame DEF ReadInv
<1> QED
  BY <1>2, <1>3, <1>4, <1>5 DEF ReadInv

(* A parameter that is read is the next part, and one that is refused is   *)
(* refused by its type.                                                    *)
LEMMA ReadRead ==
  ASSUME CommandInv, ReadInv, NEW read, ReadParameter(read)
  PROVE  ReadInv'
<1> DEFINE W(r) == SubSeq(text, r.token.ptr + 1, r.token.ptr + r.token.len)
           Got(r) == [kind |-> read.kind, type |-> r.token.type, text |-> W(r)]
<1>1. PICK r : /\ r = Parameter(read.mandatory)
               /\ text' = text /\ data' = data /\ pc' = pc /\ pc = "call" /\ ~failed
               /\ pos' = r.pos /\ count' = r.count
               /\ error' = IF r.ok THEN TypeError(read.kind, r.token.type, W(r)) ELSE r.error
               /\ failed' = ~(r.ok /\ error' = <<>> /\ ~Refused(read.kind, r.token.type))
               /\ got' = IF failed' THEN got ELSE Append(got, Got(r))
  BY DEF ReadParameter, given
<1>2. PICK S : DataInv /\ got \in Seq(S)
  BY DEF CommandInv, GotInv
<1>3. FoundData /\ data.pos = Len(text) /\ (NothingIsLost => EachPart /\ InData)
  BY <1>1 DEF ReadInv
<1> DEFINE k == Len(got)
<1>4. k \in Nat
  BY <1>2
<1>5. CASE data.type # "ALL_PROGRAM_DATA"
  <2>1. data.len = 0 /\ got = <<>> /\ pos = 0
    BY <1>2, <1>3, <1>5 DEF FoundData, DataInv
  <2>2. Len(ParamText) = 0
    BY <2>1 DEF ParamText
  <2> DEFINE u == ParamText
             missing == IF read.mandatory THEN <<"MISSING_PARAMETER">> ELSE <<>>
  <2>3. pos >= Len(u) /\ ~(pos < Len(u))
    BY <2>1, <2>2
  <2> HIDE DEF u
  <2>4. r = [ok |-> FALSE, error |-> missing, pos |-> pos, count |-> count, token |-> Token("UNKNOWN", 0, 0, 0, 0)]
    BY <1>1, <2>3 DEF Parameter, u
  <2>5. missing \notin ReadErrors
    BY DEF ReadErrors
  <2> HIDE DEF missing
  <2>6. r.ok = FALSE /\ r.error = missing
    BY <2>4
  <2>7. failed' = TRUE /\ got' = got /\ error' \notin ReadErrors
    BY <1>1, <2>5, <2>6
  <2>8. FoundData' /\ EachPart' /\ InData' /\ data'.pos = Len(text')
    <3>1. EachPart'
      BY <2>1, <2>7 DEF EachPart
    <3>2. InData'
      BY <2>7 DEF InData
    <3> QED
      BY <1>1, <1>3, <2>7, <3>1, <3>2, LostSame
  <2> QED
    BY <1>1, <2>7, <2>8 DEF ReadInv
<1>6. CASE data.type = "ALL_PROGRAM_DATA"
  <2>1. data.len > 0 /\ data.count \in Int /\ data.count > 0
    BY <1>3, <1>6 DEF FoundData
  <2>2. FoundData'
    BY <1>1, <1>6, <2>1 DEF FoundData
  <2> SUFFICES ASSUME NothingIsLost
               PROVE  error' \notin ReadErrors /\ EachPart' /\ InData'
    BY <1>1, <1>3, <2>2, LostSame DEF ReadInv
  <2>3. Lossless
    BY <1>2, <1>3, <1>6, <2>1, LosslessData
  <2>4. ~failed
    BY <1>1
  <2>5. Ready(pos, count, k)
    BY <1>3, <1>6, <2>4 DEF InData
  <2>6. NextRead(r, k)
    <3> HIDE DEF k
    <3> QED
      BY <1>1, <1>2, <1>4, <2>1, <2>3, <2>5, ParameterIsNext
  <2>7. CASE failed'
    <3>1. got' = got /\ EachPart' /\ InData'
      BY <1>1, <1>3, <2>7, LostSame DEF InData
    <3>2. error' \notin ReadErrors
      BY <1>1, <2>6, TypeErrors DEF NextRead, ReadErrors
    <3> QED
      BY <3>1, <3>2
  <2>8. CASE ~failed'
    <3> DEFINE g == Got(r)
    <3>1. got' = Append(got, g) /\ r.ok /\ error' = <<>>
      BY <1>1, <2>8
    <3>2. g.text = W(r)
      OBVIOUS
    <3> HIDE DEF g
    <3>3. error' \notin ReadErrors
      BY <3>1 DEF ReadErrors
    <3>4. /\ Ready(r.pos, r.count, k + 1)
          /\ PlainText(text) => Padded(text, Split(text, Comma)[k + 1], g.text)
      BY <2>6, <3>1, <3>2 DEF NextRead
    <3>5. Len(got') = k + 1 /\ got'[k + 1] = g /\ \A i \in 1 .. k : got'[i] = got[i]
      <4>1. got \in Seq(S \cup {g})
        BY <1>2
      <4> QED
        BY <3>1, <4>1
    <3> HIDE DEF k
    <3>6. InData'
      BY <1>1, <3>4, <3>5 DEF InData, Ready
    <3>7. EachPart'
      <4> SUFFICES ASSUME PlainText(text), NEW i \in 1 .. k + 1
                   PROVE  Padded(text, Split(text, Comma)[i], got'[i].text)
        BY <1>1, <3>5 DEF EachPart
      <4>1. CASE i = k + 1
        BY <3>4, <3>5, <4>1
      <4>2. CASE i # k + 1
        <5>1. i \in 1 .. k
          BY <1>4, <4>2
        <5>2. Padded(text, Split(text, Comma)[i], got[i].text)
          BY <1>3, <5>1 DEF EachPart, k
        <5> QED
          BY <3>5, <5>1, <5>2
      <4> QED
        BY <4>1, <4>2
    <3> QED
      BY <3>3, <3>6, <3>7
  <2> QED
    BY <2>7, <2>8
<1> QED
  BY <1>5, <1>6

(* A command that succeeds has nothing left to read.                       *)
LEMMA ReadReturns ==
  ASSUME CommandInv, ReadInv, NEW ok \in BOOLEAN, CommandReturns(ok)
  PROVE  ReadInv'
<1> DEFINE pushed == IF ok THEN "PARAMETER_NOT_ALLOWED" ELSE "EXECUTION_ERROR"
<1>1. /\ text' = text /\ data' = data /\ got' = got /\ pos' = pos /\ count' = count /\ failed' = failed
      /\ pc = "call" /\ pc' = "done"
      /\ failed => ~ok
      /\ error' = IF ReturnPushes(ok) THEN <<pushed>> ELSE error
      /\ result' = (ok /\ error' = <<>>)
  BY DEF CommandReturns, given
<1>2. FoundData' /\ (NothingIsLost' => EachPart')
  BY <1>1, LostSame DEF ReadInv
<1>3. NothingIsLost' => error' \notin ReadErrors
  <2>1. NothingIsLost' => error \notin ReadErrors
    BY <1>1, LostSame DEF ReadInv
  <2>2. <<pushed>> \notin ReadErrors
    BY DEF ReadErrors
  <2> HIDE DEF pushed
  <2> QED
    BY <1>1, <2>1, <2>2
<1>4. ASSUME NothingIsLost, result'
      PROVE  AllRead
  <2>1. ok /\ error' = <<>> /\ ~failed
    BY <1>1, <1>4
  <2>2. ~ReturnPushes(ok)
    <3>1. <<pushed>> # <<>>
      OBVIOUS
    <3> HIDE DEF pushed
    <3> QED
      BY <1>1, <2>1, <3>1
  <2>3. error = <<>>
    BY <1>1, <2>1, <2>2
  <2>4. ~(pos < Len(ParamText))
    BY <2>2, <2>3 DEF ReturnPushes
  <2>5. text \in CharText /\ data.len \in 0 .. Len(text) /\ data.len \in Nat /\ pos \in 0 .. data.len
    BY DEF CommandInv, DataInv, CharText
  <2>6. Len(ParamText) = data.len
    <3> DEFINE n == data.len
    <3>1. 0 \in 0 .. n /\ n \in 0 .. Len(text) /\ 0 + 1 = 1 /\ n - 0 = n
      BY <2>5
    <3> HIDE DEF n
    <3>2. Len(SubSeq(text, 0 + 1, n)) = n - 0
      BY <2>5, <3>1, TextPart
    <3>3. Len(SubSeq(text, 1, n)) = n
      BY <3>1, <3>2
    <3> QED
      BY <3>3 DEF n, ParamText
  <2>7. pos = data.len
    BY <2>4, <2>5, <2>6
  <2>8. CASE data.type # "ALL_PROGRAM_DATA"
    <3>1. data.count \in {-1, 0} /\ got = <<>>
      BY <2>8 DEF ReadInv, FoundData
    <3> QED
      BY <3>1 DEF AllRead
  <2>9. CASE data.type = "ALL_PROGRAM_DATA"
    <3>1. InData /\ data.len > 0
      BY <1>1, <1>4, <2>9 DEF ReadInv, FoundData
    <3>2. Ready(pos, count, Len(got))
      BY <2>1, <2>9, <3>1 DEF InData
    <3>3. Len(got) = data.count
      BY <2>5, <2>7, <3>1, <3>2 DEF Ready
    <3>4. Len(got) \in Nat
      BY DEF CommandInv, GotInv
    <3> QED
      BY <3>3, <3>4 DEF AllRead
  <2> QED
    BY <2>8, <2>9
<1>5. NothingIsLost' /\ result' => AllRead'
  BY <1>1, <1>4, LostSame
<1> QED
  BY <1>1, <1>2, <1>3, <1>5 DEF ReadInv

(* Every step keeps what is known of the parameters read.                  *)
LEMMA ReadStep ==
  ASSUME CommandInv, ReadInv, [Next]_vars
  PROVE  ReadInv'
<1>1. CASE detectProgramMessageUnit
  BY <1>1, ReadDetect
<1>2. CASE MatchTurn
  BY <1>2, ReadMatch
<1>3. ASSUME NEW read \in Reads, ReadParameter(read)
      PROVE  ReadInv'
  BY <1>3, ReadRead
<1>4. ASSUME NEW ok \in BOOLEAN, CommandReturns(ok)
      PROVE  ReadInv'
  BY <1>4, ReadReturns
<1>5. CASE UNCHANGED vars
  <2>1. /\ text' = text /\ data' = data /\ got' = got /\ pos' = pos /\ count' = count /\ failed' = failed
        /\ pc' = pc /\ error' = error /\ result' = result
    BY <1>5 DEF vars, given, params
  <2>2. /\ FreshUnit' = FreshUnit /\ FoundData' = FoundData /\ NothingIsLost' = NothingIsLost
        /\ EachPart' = EachPart /\ InData' = InData /\ AllRead' = AllRead
    BY <2>1, LostSame DEF FreshUnit
  <2> QED
    BY <2>1, <2>2 DEF ReadInv
<1> QED
  BY <1>1, <1>2, <1>3, <1>4, <1>5 DEF Next

-----------------------------------------------------------------------------
(* The text left to the command is a prefix of what followed the header.   *)
LEMMA LeftText ==
  ASSUME DataInv
  PROVE  /\ text \in CharText /\ ParamText \in CharText /\ data.len \in Nat /\ data.len <= Len(text)
         /\ Len(ParamText) = data.len
         /\ PlainText(text) => PlainText(ParamText)
         /\ \A a, m \in Nat : a <= m /\ m <= data.len => SubSeq(ParamText, a + 1, m) = SubSeq(text, a + 1, m)
<1> DEFINE u == ParamText
           n == data.len
<1>1. text \in CharText /\ Len(text) \in Nat /\ n \in Nat /\ n <= Len(text)
  BY DEF DataInv, CharText
<1>2. u \in CharText /\ Len(u) = n /\ \A i \in 1 .. n : u[i] = text[i]
  <2>1. u = SubSeq(text, 0 + 1, n)
    BY DEF ParamText
  <2> HIDE DEF u, n
  <2>2. 0 \in 0 .. n /\ n \in 0 .. Len(text)
    BY <1>1
  <2>3. u \in CharText /\ Len(u) = n - 0 /\ \A i \in 1 .. n - 0 : u[i] = text[0 + i]
    BY <1>1, <2>1, <2>2, TextPart
  <2> QED
    BY <1>1, <2>3
<1> HIDE DEF u, n
<1>3. ASSUME PlainText(text)
      PROVE  PlainText(u)
  <2> SUFFICES ASSUME NEW i \in Nat PROVE At(u, i) \notin Quote /\ At(u, i) \notin {"#", "("}
    BY DEF PlainText
  <2>1. CASE i < n
    <3>1. At(u, i) = u[i + 1] /\ At(text, i) = text[i + 1] /\ i + 1 \in 1 .. n
      BY <1>1, <1>2, <2>1, AtFacts
    <3>2. At(u, i) = At(text, i)
      BY <1>2, <3>1
    <3> QED
      BY <1>3, <3>2 DEF PlainText
  <2>2. CASE ~(i < n)
    <3>1. At(u, i) = Eos
      BY <1>1, <1>2, <2>2, AtFacts
    <3>2. Len(text) \in Nat /\ At(text, Len(text)) = Eos
      BY <1>1, AtFacts
    <3> QED
      BY <1>3, <3>1, <3>2 DEF PlainText
  <2> QED
    BY <2>1, <2>2
<1>4. ASSUME NEW a \in Nat, NEW m \in Nat, a <= m, m <= n
      PROVE  SubSeq(u, a + 1, m) = SubSeq(text, a + 1, m)
  <2> DEFINE x == SubSeq(u, a + 1, m)
             y == SubSeq(text, a + 1, m)
  <2>1. a \in 0 .. m /\ m \in 0 .. Len(u) /\ m \in 0 .. Len(text)
    BY <1>1, <1>2, <1>4
  <2>2. /\ x \in CharText /\ Len(x) = m - a /\ \A i \in 1 .. m - a : x[i] = u[a + i]
        /\ y \in CharText /\ Len(y) = m - a /\ \A i \in 1 .. m - a : y[i] = text[a + i]
    BY <1>1, <1>2, <2>1, TextPart
  <2> HIDE DEF x, y
  <2>3. \A i \in 1 .. m - a : a + i \in 1 .. n
    BY <1>1, <1>4
  <2>4. \A i \in 1 .. m - a : x[i] = y[i]
    BY <1>2, <2>2, <2>3
  <2>5. x \in Seq(Char) /\ y \in Seq(Char) /\ Len(x) = Len(y) /\ \A i \in 1 .. Len(x) : x[i] = y[i]
    BY <2>2, <2>4 DEF CharText
  <2>6. x = y
    BY <2>5, SeqEqual
  <2> QED
    BY <2>6 DEF x, y
<1> QED
  BY <1>1, <1>2, <1>3, <1>4 DEF u, n

(* The command stands behind the parameter w, its k-th, at the position p  *)
(* of the text u: at a comma w is the k-th part and the others are behind, *)
(* at the end there are no others.                                         *)
BehindPart(u, k, p, w) ==
  /\ At(u, p) = Comma => Padded(text, Split(u, Comma)[k], w) /\ PartsFrom(u, k, p + 1)
  /\ p = Len(u) => Padded(text, Split(u, Comma)[k], w) /\ Len(Split(u, Comma)) = k

(* A parameter of plain text is read with all that stands in front of it.  *)
LEMMA PartIsRead ==
  ASSUME text \in CharText, NEW u \in CharText, Len(u) <= Len(text), PlainText(u), NEW k \in Nat,
         NEW q \in 0 .. Len(u), PartsFrom(u, k, q),
         NEW y, y = scpiParser_parseProgramData(u, q), y.type # "UNKNOWN"
  PROVE  /\ BehindPart(u, k + 1, y.pos, SubSeq(u, y.ptr + 1, y.ptr + y.len))
         /\ y.ptr \in Nat /\ y.ptr + y.len \in Nat /\ y.ptr <= y.ptr + y.len /\ y.ptr + y.len <= Len(u)
<1> DEFINE e == y.pos
           a == y.ptr
           m == y.ptr + y.len
<1>1. Spans(u, q, y)
  <2>1. IsData(u, q, y)
    BY ProgramDataFacts
  <2> QED
    BY <2>1 DEF IsData
<1>2. Run(u, q, e) /\ Blank(u, q, a) /\ Blank(u, m, e)
  BY PlainParameter
<1>3. Len(u) \in Nat /\ q \in Nat /\ Len(text) \in Nat
  BY DEF CharText
<1>4. /\ e \in Nat /\ a \in Nat /\ m \in Nat /\ q <= e /\ e <= Len(u) /\ m <= Len(u) /\ a <= m
      /\ q \in 0 .. a /\ a \in 0 .. m /\ m \in 0 .. e /\ e \in 0 .. Len(u)
  BY <1>1, <1>3 DEF Spans
<1> HIDE DEF e, a, m
<1>5. NextPart(u, k, q, e)
  BY <1>2, <1>4, PartsTurn
<1>6. SpacesAround(u, q, a, m, e)
  BY <1>2, <1>4, PaddedPart
<1>7. Padded(text, SubSeq(u, q + 1, e), SubSeq(u, a + 1, m))
  <2> DEFINE f == a - q
             g == e - m
             w == SubSeq(u, a + 1, m)
             x == SubSeq(u, q + 1, e)
  <2>1. f \in 0 .. Len(text) /\ g \in 0 .. Len(text)
    BY <1>3, <1>4
  <2>2. x = [j \in 1 .. f |-> Space] \o w \o [j \in 1 .. g |-> Space]
    BY <1>6 DEF SpacesAround
  <2> HIDE DEF f, g, w, x
  <2>3. Padded(text, x, w)
    BY <2>1, <2>2 DEF Padded
  <2> QED
    BY <2>3 DEF w, x
<1>8. BehindPart(u, k + 1, e, SubSeq(u, a + 1, m))
  BY <1>5, <1>7 DEF NextPart, BehindPart
<1> QED
  BY <1>4, <1>8 DEF e, a, m

(* Where the command stands after k parameters, the last of them w.        *)
Standing(p, c, k, w) ==
  \/ c = 0 /\ p = 0 /\ k = 0
  \/ c > 0 /\ k > 0 /\ BehindPart(ParamText, k, p, w)

(* SCPI_Parameter failed, or read the part behind those it has read.       *)
PartTaken(r, k, w) ==
  \/ r.ok = FALSE
  \/ /\ r.ok = TRUE
     /\ Standing(r.pos, r.count, k + 1, SubSeq(text, r.token.ptr + 1, r.token.ptr + r.token.len))
     /\ k > 0 => Padded(text, Split(ParamText, Comma)[k], w)

(* SCPI_Parameter reads the parts of plain text one after the other.       *)
LEMMA ParameterIsPart ==
  ASSUME DataInv, PlainText(text), NEW mandatory, NEW r, r = Parameter(mandatory), NEW k \in Nat, NEW w,
         Standing(pos, count, k, w)
  PROVE  PartTaken(r, k, w)
<1> DEFINE u == ParamText
           q == IF count = 0 THEN pos ELSE pos + 1
           y == scpiParser_parseProgramData(u, q)
           Fails(err, at, n) ==
             [ok |-> FALSE, error |-> err, pos |-> at, count |-> n, token |-> Token("UNKNOWN", 0, 0, 0, 0)]
<1>1. /\ text \in CharText /\ u \in CharText /\ Len(u) <= Len(text) /\ PlainText(u) /\ count \in Nat
      /\ Len(u) \in Nat /\ pos \in 0 .. Len(u)
  BY LeftText DEF DataInv
<1>2. CASE pos >= Len(u)
  <2> DEFINE missing == IF mandatory THEN <<"MISSING_PARAMETER">> ELSE <<>>
  <2>1. ~(pos < Len(u))
    BY <1>1, <1>2
  <2> HIDE DEF u
  <2>2. r = Fails(missing, pos, count)
    BY <1>2, <2>1 DEF Parameter, u
  <2> HIDE DEF missing
  <2> QED
    BY <2>2 DEF PartTaken
<1>3. CASE pos < Len(u) /\ count > 0 /\ At(u, pos) # Comma
  <2>1. ~(pos >= Len(u))
    BY <1>1, <1>3
  <2> HIDE DEF u
  <2>2. r = Fails(<<"INVALID_SEPARATOR">>, pos, count)
    BY <1>3, <2>1 DEF Parameter, u
  <2> QED
    BY <2>2 DEF PartTaken
<1>4. CASE pos < Len(u) /\ ~(count > 0 /\ At(u, pos) # Comma)
  <2>1. ~(pos >= Len(u))
    BY <1>1, <1>4
  <2> HIDE DEF u
  <2>2. r = IF y.type = "UNKNOWN" THEN Fails(<<"INVALID_STRING_DATA">>, y.pos, count + 1)
            ELSE [ok |-> TRUE, error |-> <<>>, pos |-> y.pos, count |-> count + 1, token |-> y]
    BY <1>4, <2>1 DEF Parameter, u
  <2>3. CASE y.type = "UNKNOWN"
    <3> HIDE DEF y
    <3> QED
      BY <2>2, <2>3 DEF PartTaken
  <2>4. CASE y.type # "UNKNOWN"
    <3>1. PartsFrom(u, k, q) /\ (k > 0 => Padded(text, Split(u, Comma)[k], w))
      <4>1. CASE count = 0 /\ pos = 0 /\ k = 0
        BY <1>1, <4>1, PartsStart
      <4>2. CASE count > 0 /\ k > 0 /\ BehindPart(u, k, pos, w)
        BY <1>4, <4>2 DEF BehindPart
      <4> QED
        BY <4>1, <4>2 DEF Standing, u
    <3>2. q \in 0 .. Len(u)
      BY <1>1, <1>4
    <3> DEFINE x == SubSeq(u, y.ptr + 1, y.ptr + y.len)
    <3>3. /\ BehindPart(u, k + 1, y.pos, x)
          /\ y.ptr \in Nat /\ y.ptr + y.len \in Nat /\ y.ptr <= y.ptr + y.len /\ y.ptr + y.len <= Len(u)
      <4> DEFINE z == y
      <4>1. z = scpiParser_parseProgramData(u, q) /\ z.type # "UNKNOWN"
        BY <2>4
      <4> HIDE DEF z, q
      <4>2. /\ BehindPart(u, k + 1, z.pos, SubSeq(u, z.ptr + 1, z.ptr + z.len))
            /\ z.ptr \in Nat /\ z.ptr + z.len \in Nat /\ z.ptr <= z.ptr + z.len /\ z.ptr + z.len <= Len(u)
        BY <1>1, <3>1, <3>2, <4>1, PartIsRead
      <4> QED
        BY <4>2 DEF z
    <3> HIDE DEF y, q
    <3>4. x = SubSeq(text, y.ptr + 1, y.ptr + y.len)
      <4> DEFINE a == y.ptr
                 m == y.ptr + y.len
      <4>1. a \in Nat /\ m \in Nat /\ a <= m /\ m <= data.len
        BY <3>3, LeftText DEF u
      <4> HIDE DEF a, m
      <4>2. SubSeq(u, a + 1, m) = SubSeq(text, a + 1, m)
        BY <4>1, LeftText DEF u
      <4> QED
        BY <4>2 DEF a, m
    <3> HIDE DEF x
    <3>5. r.ok = TRUE /\ r.pos = y.pos /\ r.count = count + 1 /\ r.token = y
      BY <2>2, <2>4
    <3>6. count + 1 > 0 /\ k + 1 > 0
      BY <1>1
    <3>7. Standing(y.pos, count + 1, k + 1, x)
      BY <3>3, <3>6 DEF Standing, u
    <3> QED
      BY <3>1, <3>4, <3>5, <3>7 DEF PartTaken, u
  <2> QED
    BY <2>3, <2>4
<1> HIDE DEF u
<1> QED
  BY <1>1, <1>2, <1>3, <1>4

(* What holds of plain text whatever detection measured of it: all but the *)
(* last parameter are parts of the text that is left, and a command that   *)
(* succeeds has read all its parts.                                        *)
LastText == got[Len(got)].text
PartAtGot(i) == Padded(text, Split(ParamText, Comma)[i], got[i].text)
MeasuredInv ==
  PlainText(text) =>
    /\ \A i \in 1 .. Len(got) - 1 : PartAtGot(i)
    /\ pc \in {"match", "call"} /\ ~failed => Standing(pos, count, Len(got), LastText)
    /\ pc = "done" /\ result =>
         /\ \A i \in 1 .. Len(got) : PartAtGot(i)
         /\ Len(got) = IF data.len = 0 THEN 0 ELSE Len(Split(ParamText, Comma))

(* Until the command is called nothing is read.                            *)
LEMMA MeasuredFresh ==
  ASSUME FreshUnit, pc = "done" => ~result
  PROVE  MeasuredInv
BY DEF FreshUnit, MeasuredInv, Standing

(* The invariant depends on these variables alone.                         *)
LEMMA MeasuredSame ==
  ASSUME text' = text, data' = data, got' = got, pos' = pos, count' = count, failed' = failed
  PROVE  /\ Standing(pos, count, Len(got), LastText)' <=> Standing(pos, count, Len(got), LastText)
         /\ \A i : PartAtGot(i)' <=> PartAtGot(i)
         /\ PlainText(text)' <=> PlainText(text)
         /\ Len(Split(ParamText, Comma))' = Len(Split(ParamText, Comma))
BY DEF Standing, LastText, PartAtGot, BehindPart, ParamText

(* The parameter read is one more part.                                    *)
LEMMA MeasuredRead ==
  ASSUME CommandInv, MeasuredInv, NEW read, ReadParameter(read)
  PROVE  MeasuredInv'
<1> DEFINE W(r) == SubSeq(text, r.token.ptr + 1, r.token.ptr + r.token.len)
           Got(r) == [kind |-> read.kind, type |-> r.token.type, text |-> W(r)]
<1>1. PICK r : /\ r = Parameter(read.mandatory)
               /\ text' = text /\ data' = data /\ pc' = pc /\ pc = "call" /\ ~failed
               /\ pos' = r.pos /\ count' = r.count
               /\ failed' = ~(r.ok /\ error' = <<>> /\ ~Refused(read.kind, r.token.type))
               /\ got' = IF failed' THEN got ELSE Append(got, Got(r))
  BY DEF ReadParameter, given
<1>2. PICK S : DataInv /\ got \in Seq(S)
  BY DEF CommandInv, GotInv
<1> SUFFICES ASSUME PlainText(text)
             PROVE  /\ \A i \in 1 .. Len(got') - 1 : PartAtGot(i)'
                    /\ ~failed' => Standing(pos, count, Len(got), LastText)'
  BY <1>1 DEF MeasuredInv
<1> DEFINE k == Len(got)
<1>3. k \in Nat
  BY <1>2
<1>4. Standing(pos, count, k, LastText) /\ \A i \in 1 .. k - 1 : PartAtGot(i)
  BY <1>1 DEF MeasuredInv
<1>5. CASE failed'
  <2>1. got' = got
    BY <1>1, <1>5
  <2> QED
    BY <1>1, <1>4, <1>5, <2>1 DEF PartAtGot, ParamText
<1>6. CASE ~failed'
  <2> DEFINE g == Got(r)
  <2>1. got' = Append(got, g) /\ r.ok
    BY <1>1, <1>6
  <2>2. g.text = W(r)
    OBVIOUS
  <2> HIDE DEF g
  <2>3. Len(got') = k + 1 /\ got'[k + 1] = g /\ \A i \in 1 .. k : got'[i] = got[i]
    <3>1. got \in Seq(S \cup {g})
      BY <1>2
    <3> QED
      BY <2>1, <3>1
  <2>4. PartTaken(r, k, LastText)
    <3> HIDE DEF k
    <3> QED
      BY <1>1, <1>2, <1>3, <1>4, ParameterIsPart
  <2>5. Standing(r.pos, r.count, k + 1, g.text) /\ (k > 0 => Padded(text, Split(ParamText, Comma)[k], LastText))
    BY <2>1, <2>2, <2>4 DEF PartTaken
  <2>6. ParamText' = ParamText
    BY <1>1 DEF ParamText
  <2>7. Standing(pos, count, Len(got), LastText)'
    <3>1. LastText' = g.text
      BY <2>3 DEF LastText
    <3> HIDE DEF k
    <3> QED
      BY <1>1, <2>3, <2>5, <2>6, <3>1 DEF Standing, BehindPart
  <2>8. ASSUME NEW i \in 1 .. Len(got') - 1
        PROVE  PartAtGot(i)'
    <3>1. i \in 1 .. k
      BY <1>3, <2>3
    <3>2. PartAtGot(i)
      <4>1. CASE i = k
        BY <1>3, <2>5, <3>1, <4>1 DEF PartAtGot, LastText
      <4>2. CASE i # k
        <5>1. i \in 1 .. k - 1
          BY <1>3, <3>1, <4>2
        <5> QED
          BY <1>4, <5>1
      <4> QED
        BY <4>1, <4>2
    <3>3. got'[i] = got[i]
      BY <2>3, <3>1
    <3> QED
      BY <1>1, <2>6, <3>2, <3>3 DEF PartAtGot
  <2> QED
    BY <2>7, <2>8
<1> QED
  BY <1>5, <1>6

(* A command that succeeds stands at the end.                              *)
LEMMA MeasuredReturns ==
  ASSUME CommandInv, ReadInv, MeasuredInv, NEW ok \in BOOLEAN, CommandReturns(ok)
  PROVE  MeasuredInv'
<1> DEFINE pushed == IF ok THEN "PARAMETER_NOT_ALLOWED" ELSE "EXECUTION_ERROR"
<1>1. /\ text' = text /\ data' = data /\ got' = got /\ pos' = pos /\ count' = count /\ failed' = failed
      /\ pc = "call" /\ pc' = "done"
      /\ failed => ~ok
      /\ error' = IF ReturnPushes(ok) THEN <<pushed>> ELSE error
      /\ result' = (ok /\ error' = <<>>)
  BY DEF CommandReturns, given
<1> SUFFICES ASSUME PlainText(text)
             PROVE  /\ \A i \in 1 .. Len(got) - 1 : PartAtGot(i)
                    /\ result' => /\ \A i \in 1 .. Len(got) : PartAtGot(i)
                                  /\ Len(got) = IF data.len = 0 THEN 0 ELSE Len(Split(ParamText, Comma))
  BY <1>1, MeasuredSame DEF MeasuredInv
<1>2. \A i \in 1 .. Len(got) - 1 : PartAtGot(i)
  BY DEF MeasuredInv
<1>3. ASSUME result'
      PROVE  /\ \A i \in 1 .. Len(got) : PartAtGot(i)
             /\ Len(got) = IF data.len = 0 THEN 0 ELSE Len(Split(ParamText, Comma))
  <2>1. ok /\ error' = <<>> /\ ~failed
    BY <1>1, <1>3
  <2>2. ~ReturnPushes(ok)
    <3>1. <<pushed>> # <<>>
      OBVIOUS
    <3> HIDE DEF pushed
    <3> QED
      BY <1>1, <2>1, <3>1
  <2>3. error = <<>>
    BY <1>1, <2>1, <2>2
  <2>4. ~(pos < Len(ParamText))
    BY <2>2, <2>3 DEF ReturnPushes
  <2>5. Len(ParamText) = data.len /\ data.len \in Nat /\ pos \in 0 .. data.len
    BY LeftText DEF CommandInv, DataInv
  <2>6. pos = Len(ParamText)
    BY <2>4, <2>5
  <2>7. Standing(pos, count, Len(got), LastText)
    BY <1>1, <2>1 DEF MeasuredInv
  <2>8. Len(got) \in Nat
    BY DEF CommandInv, GotInv
  <2>9. CASE count = 0 /\ pos = 0 /\ Len(got) = 0
    <3>1. data.len = 0
      BY <2>5, <2>6, <2>9
    <3> QED
      BY <2>9, <3>1
  <2>10. CASE count > 0 /\ Len(got) > 0 /\ BehindPart(ParamText, Len(got), pos, LastText)
    <3>1. PartAtGot(Len(got)) /\ Len(Split(ParamText, Comma)) = Len(got)
      BY <2>6, <2>10 DEF BehindPart, PartAtGot, LastText
    <3>2. data.len # 0
      <4>1. got # <<>>
        BY <2>10
      <4> QED
        BY <2>5, <4>1 DEF ReadInv, FoundData
    <3>3. \A i \in 1 .. Len(got) : i = Len(got) \/ i \in 1 .. Len(got) - 1
      BY <2>8
    <3> QED
      BY <1>2, <3>1, <3>2, <3>3
  <2> QED
    BY <2>7, <2>9, <2>10 DEF Standing
<1> QED
  BY <1>2, <1>3

(* Every step keeps what is known of the parts read.                       *)
LEMMA MeasuredStep ==
  ASSUME CommandInv, ReadInv, ReadInv', MeasuredInv, [Next]_vars
  PROVE  MeasuredInv'
<1>1. CASE detectProgramMessageUnit
  <2>1. FreshUnit
    BY <1>1 DEF detectProgramMessageUnit, ReadInv
  <2>2. FreshUnit' /\ (pc' = "done" => ~result')
    BY <1>1, <2>1 DEF detectProgramMessageUnit, FreshUnit
  <2> QED
    BY <2>2 DEF FreshUnit, MeasuredInv, Standing
<1>2. CASE MatchTurn
  <2>1. FreshUnit
    BY <1>2 DEF MatchTurn, ReadInv
  <2>2. FreshUnit'
    BY <1>2, <2>1 DEF MatchTurn, FreshUnit
  <2>3. pc' = "done" => ~result'
    <3>1. \/ \E ok : pc' = (IF ok THEN "call" ELSE "done") /\ result' = ok
          \/ pc' = pc /\ pc = "match"
      BY <1>2, Zenon DEF MatchTurn
    <3> QED
      BY <3>1, Zenon
  <2> QED
    BY <2>2, <2>3 DEF FreshUnit, MeasuredInv, Standing
<1>3. ASSUME NEW read \in Reads, ReadParameter(read)
      PROVE  MeasuredInv'
  BY <1>3, MeasuredRead
<1>4. ASSUME NEW ok \in BOOLEAN, CommandReturns(ok)
      PROVE  MeasuredInv'
  BY <1>4, MeasuredReturns
<1>5. CASE UNCHANGED vars
  <2>1. /\ text' = text /\ data' = data /\ got' = got /\ pos' = pos /\ count' = count /\ failed' = failed
        /\ pc' = pc /\ error' = error /\ result' = result
    BY <1>5 DEF vars, given, params
  <2> QED
    BY <2>1, MeasuredSame DEF MeasuredInv
<1> QED
  BY <1>1, <1>2, <1>3, <1>4, <1>5 DEF Next

(* Of data that detection gave up the command gets nothing.  Of simple     *)
(* text, whatever has been cut off, all but the last parameter are what    *)
(* stands between the commas of the text left, and a command that succeeds *)
(* has read all of that.  Where nothing is lost and the count is right,    *)
(* nothing that detection accepted is refused, and a command that succeeds *)
(* has read every parameter.                                               *)
THEOREM CommandDetectedIsRead == Spec => []DetectedIsRead
<1> DEFINE Inv == CommandInv /\ ReadInv /\ MeasuredInv
<1>1. Init => Inv
  <2>1. ASSUME Init
        PROVE  MeasuredInv
    <3>1. FreshUnit /\ pc = "detect"
      BY <2>1 DEF Init, FreshUnit
    <3> QED
      BY <3>1, MeasuredFresh
  <2> QED
    BY <2>1, CommandInit, ReadInit
<1>2. Inv /\ [Next]_vars => Inv'
  BY CommandStep, ReadStep, MeasuredStep
<1>3. Inv => DetectedIsRead
  <2> SUFFICES ASSUME CommandInv, ReadInv, MeasuredInv PROVE DetectedIsRead
    OBVIOUS
  <2>1. text \in CharText /\ Len(got) \in Nat /\ DOMAIN got = 1 .. Len(got)
    BY DEF CommandInv, DataInv, GotInv
  <2>2. SimpleText => PlainText(text)
    BY <2>1, PlainRange DEF SimpleText
  <2>3. data.count < 0 => got = <<>>
    BY DEF ReadInv, FoundData
  <2>4. ASSUME SimpleText
        PROVE  /\ \A i \in DOMAIN got : i < Len(got) \/ (pc = "done" /\ result) =>
                    Padded(text, Split(ParamText, Comma)[i], got[i].text)
               /\ pc = "done" /\ result => Len(got) = IF data.len = 0 THEN 0 ELSE Len(Split(ParamText, Comma))
    <3>1. \A i \in 1 .. Len(got) : i < Len(got) => i \in 1 .. Len(got) - 1
      BY <2>1
    <3> QED
      BY <2>1, <2>2, <2>4, <3>1 DEF MeasuredInv, PartAtGot
  <2>5. ASSUME NothingIsLost, data.count >= 0
        PROVE  /\ error \notin {<<"INVALID_SEPARATOR">>, <<"INVALID_STRING_DATA">>}
               /\ pc = "done" /\ result => Len(got) = data.count
               /\ SimpleText => \A i \in DOMAIN got : Padded(text, Split(text, Comma)[i], got[i].text)
    <3>1. error \notin {<<"INVALID_SEPARATOR">>, <<"INVALID_STRING_DATA">>}
      BY <2>5 DEF ReadInv, ReadErrors
    <3>2. pc = "done" /\ result => Len(got) = data.count
      <4>1. ~(data.count < 0)
        BY <2>5 DEF ReadInv, FoundData
      <4> QED
        BY <2>5, <4>1 DEF ReadInv, AllRead
    <3>3. SimpleText => \A i \in DOMAIN got : Padded(text, Split(text, Comma)[i], got[i].text)
      BY <2>1, <2>2, <2>5 DEF ReadInv, EachPart
    <3> QED
      BY <3>1, <3>2, <3>3
  <2> QED
    BY <2>3, <2>4, <2>5 DEF DetectedIsRead
<1> QED
  BY <1>1, <1>2, <1>3, PTL DEF Spec

-----------------------------------------------------------------------------
(* The grammar of numbers, in terms of positions in a text: from p to e    *)
(* the text s is a text of L.                                              *)
Sym == Char \cup {"1", "+", "-", ".", "E", "/", Space}
Language(L) == L \subseteq Seq(Sym)
IsIn(s, p, e, L) == SubSeq(s, p + 1, e) \in L
Short(s) == s \in CharText /\ Len(s) <= MaxLen

(* Languages are made of languages.                                        *)
LEMMA LanguageFacts ==
  /\ \A A, B : Language(A) /\ Language(B) => Language(Cat(A, B)) /\ Language(A \cup B)
  /\ \A A : Language(A) => Language(Opt(A))
  /\ \A C : C \subseteq Sym => Language(Plus(C)) /\ Language(One(C))
<1>1. ASSUME NEW A, NEW B, Language(A), Language(B)
      PROVE  Language(Cat(A, B)) /\ Language(A \cup B)
  <2>1. \A a \in A, b \in B : a \o b \in Seq(Sym)
    BY <1>1 DEF Language
  <2>2. ASSUME NEW w \in Cat(A, B)
        PROVE  w \in Seq(Sym)
    <3>1. PICK a \in A, b \in B : w = a \o b
      BY DEF Cat
    <3> QED
      BY <2>1, <3>1
  <2>3. \A w \in A \cup B : w \in Seq(Sym)
    BY <1>1 DEF Language
  <2> QED
    BY <2>2, <2>3 DEF Language
<1>2. ASSUME NEW A, Language(A)
      PROVE  Language(Opt(A))
  <2>1. <<>> \in Seq(Sym)
    OBVIOUS
  <2>2. ASSUME NEW w \in Opt(A)
        PROVE  w \in Seq(Sym)
    <3>1. w \in A \/ w = <<>>
      BY DEF Opt
    <3> QED
      BY <1>2, <2>1, <3>1 DEF Language
  <2> QED
    BY <2>2 DEF Language
<1>3. ASSUME NEW C, C \subseteq Sym
      PROVE  Language(Plus(C)) /\ Language(One(C))
  <2>1. ASSUME NEW n \in 1 .. MaxLen, NEW w \in [1 .. n -> C]
        PROVE  w \in Seq(Sym)
    <3>1. n \in Nat
      BY MaxLenAssumption
    <3> QED
      BY <1>3, <3>1
  <2>2. ASSUME NEW c \in C
        PROVE  <<c>> \in Seq(Sym)
    BY <1>3
  <2> QED
    BY <2>1, <2>2 DEF Language, Plus, One
<1> QED
  BY <1>1, <1>2, <1>3

(* w is the part of s from p to e.                                         *)
IsPart(s, p, e, w) ==
  /\ w \in CharText /\ w \in Seq(Sym) /\ Len(w) = e - p
  /\ \A i \in 1 .. e - p : w[i] = At(s, (p + i) - 1) /\ w[i] = s[p + i]

(* A part of a text, character by character.                               *)
LEMMA PartAt ==
  ASSUME NEW s \in CharText, NEW p, NEW e, p \in 0 .. e, e \in 0 .. Len(s), NEW w, w = SubSeq(s, p + 1, e)
  PROVE  IsPart(s, p, e, w)
<1>1. Len(s) \in Nat /\ p \in Nat /\ e \in Nat /\ p <= e /\ e <= Len(s)
  BY DEF CharText
<1>2. w \in CharText /\ Len(w) = e - p /\ \A i \in 1 .. e - p : w[i] = s[p + i]
  BY TextPart
<1>3. w \in Seq(Sym)
  <2>1. w \in Seq(Char)
    BY <1>2 DEF CharText
  <2> QED
    BY <2>1 DEF Sym
<1>4. ASSUME NEW i \in 1 .. e - p
      PROVE  At(s, (p + i) - 1) = s[p + i]
  <2>1. (p + i) - 1 \in Nat /\ (p + i) - 1 < Len(s) /\ ((p + i) - 1) + 1 = p + i
    BY <1>1
  <2>2. At(s, (p + i) - 1) = s[((p + i) - 1) + 1]
    BY <2>1, AtFacts
  <2> QED
    BY <2>1, <2>2
<1> QED
  BY <1>2, <1>3, <1>4 DEF IsPart

(* A text of A and one of B behind it.                                     *)
LEMMA CatJoin ==
  ASSUME NEW s, Short(s), NEW p, NEW m, NEW e, p \in 0 .. m, m \in 0 .. e, e \in 0 .. Len(s),
         NEW A, NEW B, IsIn(s, p, m, A), IsIn(s, m, e, B)
  PROVE  IsIn(s, p, e, Cat(A, B))
<1> DEFINE a == SubSeq(s, p + 1, m)
           b == SubSeq(s, m + 1, e)
           w == SubSeq(s, p + 1, e)
           k == m - p
           j == e - m
<1>1. /\ s \in CharText /\ Len(s) \in Nat /\ p \in Nat /\ m \in Nat /\ e \in Nat /\ p <= m /\ m <= e /\ e <= Len(s)
      /\ Len(s) <= MaxLen
  BY DEF Short, CharText
<1>2. k \in Nat /\ j \in Nat /\ p \in 0 .. e /\ m \in 0 .. Len(s)
  BY <1>1
<1>3. a \in Seq(Sym) /\ Len(a) = k /\ \A i \in 1 .. k : a[i] = s[p + i]
  <2>1. a = SubSeq(s, p + 1, m)
    OBVIOUS
  <2> HIDE DEF a
  <2>2. IsPart(s, p, m, a)
    BY <1>1, <1>2, <2>1, PartAt
  <2> QED
    BY <2>2 DEF IsPart
<1>4. b \in Seq(Sym) /\ Len(b) = j /\ \A i \in 1 .. j : b[i] = s[m + i]
  <2>1. b = SubSeq(s, m + 1, e)
    OBVIOUS
  <2> HIDE DEF b
  <2>2. IsPart(s, m, e, b)
    BY <1>1, <1>2, <2>1, PartAt
  <2> QED
    BY <2>2 DEF IsPart
<1>5. w \in Seq(Sym) /\ Len(w) = e - p /\ \A i \in 1 .. e - p : w[i] = s[p + i]
  <2>1. w = SubSeq(s, p + 1, e)
    OBVIOUS
  <2> HIDE DEF w
  <2>2. IsPart(s, p, e, w)
    BY <1>1, <1>2, <2>1, PartAt
  <2> QED
    BY <2>2 DEF IsPart
<1> DEFINE z == a \o b
<1>6. a \in A /\ b \in B
  BY DEF IsIn
<1> HIDE DEF a, b, w, k, j
<1>7. /\ z \in Seq(Sym) /\ Len(z) = k + j
      /\ \A i \in 1 .. k + j : z[i] = IF i <= k THEN a[i] ELSE b[i - k]
  <2>1. /\ z \in Seq(Sym) /\ Len(z) = Len(a) + Len(b)
        /\ \A i \in 1 .. Len(a) + Len(b) : z[i] = IF i <= Len(a) THEN a[i] ELSE b[i - Len(a)]
    BY <1>3, <1>4, ConcatProperties
  <2> HIDE DEF z
  <2> QED
    BY <1>3, <1>4, <2>1
<1>8. Cat(A, B) = {v \in {x \o y : x \in A, y \in B} : Len(v) <= MaxLen}
  BY DEF Cat
<1>9. z \in {x \o y : x \in A, y \in B}
  BY <1>6
<1> HIDE DEF z
<1>10. Len(w) = Len(z) /\ Len(z) <= MaxLen
  BY <1>1, <1>5, <1>7, MaxLenAssumption DEF k, j
<1>11. ASSUME NEW i \in 1 .. Len(w)
       PROVE  w[i] = z[i]
  <2>1. i \in 1 .. e - p /\ i \in 1 .. k + j /\ w[i] = s[p + i]
    BY <1>1, <1>5 DEF k, j
  <2>2. CASE i <= k
    BY <1>2, <1>3, <1>7, <2>1, <2>2
  <2>3. CASE ~(i <= k)
    <3>1. i - k \in 1 .. j /\ m + (i - k) = p + i
      BY <1>1, <1>2, <2>1, <2>3 DEF k, j
    <3> QED
      BY <1>4, <1>7, <2>1, <2>3, <3>1
  <2> QED
    BY <2>2, <2>3
<1>12. w = z
  BY <1>5, <1>7, <1>10, <1>11, SeqEqual
<1> QED
  <2>1. z \in Cat(A, B)
    BY <1>8, <1>9, <1>10
  <2>2. w \in Cat(A, B)
    BY <1>12, <2>1
  <2> QED
    BY <2>2 DEF IsIn, w

(* And the other way round.                                                *)
CatParts(s, p, e, A, B) == \E m \in p .. e : IsIn(s, p, m, A) /\ IsIn(s, m, e, B)

(* A text of Cat(A, B) has a place where the text of A ends.               *)
LEMMA CatSplit ==
  ASSUME NEW s, Short(s), NEW p, NEW e, p \in 0 .. e, e \in 0 .. Len(s),
         NEW A, NEW B, Language(A), Language(B), IsIn(s, p, e, Cat(A, B))
  PROVE  CatParts(s, p, e, A, B)
<1> DEFINE w == SubSeq(s, p + 1, e)
<1>1. /\ s \in CharText /\ Len(s) \in Nat /\ p \in Nat /\ e \in Nat /\ p <= e /\ e <= Len(s)
  BY DEF Short, CharText
<1>2. w \in Seq(Sym) /\ Len(w) = e - p /\ \A i \in 1 .. e - p : w[i] = s[p + i]
  <2>1. w = SubSeq(s, p + 1, e)
    OBVIOUS
  <2> HIDE DEF w
  <2>2. IsPart(s, p, e, w)
    BY <1>1, <2>1, PartAt
  <2> QED
    BY <2>2 DEF IsPart
<1>3. w \in Cat(A, B)
  BY DEF IsIn
<1> HIDE DEF w
<1>4. PICK a \in A, b \in B : w = a \o b
  BY <1>3 DEF Cat
<1>5. a \in Seq(Sym) /\ b \in Seq(Sym)
  BY DEF Language
<1> DEFINE k == Len(a)
           j == Len(b)
<1>6. k \in Nat /\ j \in Nat
  BY <1>5
<1>7. Len(w) = k + j /\ \A i \in 1 .. k + j : w[i] = IF i <= k THEN a[i] ELSE b[i - k]
  BY <1>4, <1>5, ConcatProperties
<1> HIDE DEF k, j
<1> DEFINE m == p + k
<1>8. m \in p .. e /\ m \in Nat /\ e - m = j /\ m - p = k /\ p \in 0 .. m /\ m \in 0 .. Len(s) /\ m \in 0 .. e
  BY <1>1, <1>2, <1>6, <1>7
<1>9. a = SubSeq(s, p + 1, m)
  <2> DEFINE x == SubSeq(s, p + 1, m)
  <2>1. x \in Seq(Sym) /\ Len(x) = m - p /\ \A i \in 1 .. m - p : x[i] = s[p + i]
    <3>1. x = SubSeq(s, p + 1, m)
      OBVIOUS
    <3> HIDE DEF x, m
    <3>2. IsPart(s, p, m, x)
      BY <1>1, <1>8, <3>1, PartAt
    <3> QED
      BY <3>2 DEF IsPart
  <2> HIDE DEF x, m
  <2>2. Len(a) = k /\ Len(x) = k
    BY <1>8, <2>1 DEF k
  <2>3. ASSUME NEW i \in 1 .. k
        PROVE  a[i] = x[i]
    <3>1. i \in 1 .. k + j /\ i <= k /\ i \in 1 .. m - p /\ i \in 1 .. e - p
      BY <1>1, <1>2, <1>6, <1>7, <1>8
    <3> QED
      BY <1>2, <1>7, <2>1, <3>1
  <2>4. a = x
    BY <1>5, <2>1, <2>2, <2>3, SeqEqual
  <2> QED
    BY <2>4 DEF x
<1>10. b = SubSeq(s, m + 1, e)
  <2> DEFINE x == SubSeq(s, m + 1, e)
  <2>1. x \in Seq(Sym) /\ Len(x) = e - m /\ \A i \in 1 .. e - m : x[i] = s[m + i]
    <3>1. x = SubSeq(s, m + 1, e)
      OBVIOUS
    <3> HIDE DEF x, m
    <3>2. IsPart(s, m, e, x)
      BY <1>1, <1>8, <3>1, PartAt
    <3> QED
      BY <3>2 DEF IsPart
  <2>2. \A i \in 1 .. j : m + i = p + (k + i)
    BY <1>1, <1>6
  <2> HIDE DEF x, m
  <2>3. Len(b) = j /\ Len(x) = j
    BY <1>8, <2>1 DEF j
  <2>4. ASSUME NEW i \in 1 .. j
        PROVE  b[i] = x[i]
    <3>1. k + i \in 1 .. k + j /\ ~(k + i <= k) /\ (k + i) - k = i /\ k + i \in 1 .. e - p /\ i \in 1 .. e - m
      BY <1>1, <1>2, <1>6, <1>7, <1>8
    <3>2. w[k + i] = b[i] /\ w[k + i] = s[p + (k + i)]
      BY <1>2, <1>7, <3>1
    <3> QED
      BY <2>1, <2>2, <3>1, <3>2
  <2>5. b = x
    BY <1>5, <2>1, <2>3, <2>4, SeqEqual
  <2> QED
    BY <2>5 DEF x
<1>11. IsIn(s, p, m, A) /\ IsIn(s, m, e, B)
  BY <1>9, <1>10 DEF IsIn
<1> QED
  BY <1>8, <1>11 DEF CatParts

(* A text of some characters, one character, or nothing.                   *)
AllOf(s, p, e, C) == \A i \in p .. e - 1 : At(s, i) \in C
LEMMA PlusAt ==
  ASSUME NEW s, Short(s), NEW p, NEW e, p \in 0 .. e, e \in 0 .. Len(s), NEW C
  PROVE  /\ IsIn(s, p, e, Plus(C)) <=> p < e /\ AllOf(s, p, e, C)
         /\ IsIn(s, p, e, One(C)) <=> e = p + 1 /\ At(s, p) \in C
         /\ \A A : IsIn(s, p, e, Opt(A)) <=> e = p \/ IsIn(s, p, e, A)
<1> DEFINE w == SubSeq(s, p + 1, e)
           n == e - p
<1>1. /\ s \in CharText /\ Len(s) \in Nat /\ p \in Nat /\ e \in Nat /\ p <= e /\ e <= Len(s) /\ Len(s) <= MaxLen
  BY DEF Short, CharText
<1>2. n \in Nat /\ n <= MaxLen
  BY <1>1, MaxLenAssumption
<1>3. w \in Seq(Sym) /\ Len(w) = n /\ \A i \in 1 .. n : w[i] = At(s, (p + i) - 1)
  <2>1. w = SubSeq(s, p + 1, e)
    OBVIOUS
  <2> HIDE DEF w
  <2>2. IsPart(s, p, e, w)
    BY <1>1, <2>1, PartAt
  <2> QED
    BY <2>2 DEF IsPart
<1>4. \A L : IsIn(s, p, e, L) <=> w \in L
  BY DEF IsIn
<1> HIDE DEF w
<1>5. ASSUME w \in Plus(C)
      PROVE  p < e /\ AllOf(s, p, e, C)
  <2>1. PICK k \in 1 .. MaxLen : w \in [1 .. k -> C]
    BY <1>5 DEF Plus
  <2>2. k \in Nat /\ k >= 1
    BY MaxLenAssumption
  <2>3. k = n
    BY <1>3, <2>1, <2>2
  <2>4. ASSUME NEW i \in p .. e - 1
        PROVE  At(s, i) \in C
    <3>1. (i - p) + 1 \in 1 .. n /\ (p + ((i - p) + 1)) - 1 = i
      BY <1>1
    <3>2. w[(i - p) + 1] \in C
      BY <2>1, <2>3, <3>1
    <3> QED
      BY <1>3, <3>1, <3>2
  <2>5. p < e
    BY <1>1, <2>2, <2>3
  <2> QED
    BY <2>4, <2>5 DEF AllOf
<1>6. ASSUME p < e, AllOf(s, p, e, C)
      PROVE  w \in Plus(C)
  <2>1. ASSUME NEW i \in 1 .. n
        PROVE  w[i] \in C
    <3>1. (p + i) - 1 \in p .. e - 1
      BY <1>1
    <3> QED
      BY <1>3, <1>6, <3>1 DEF AllOf
  <2>2. w \in [1 .. n -> C]
    BY <1>2, <1>3, <2>1
  <2>3. n \in 1 .. MaxLen
    BY <1>1, <1>2, <1>6, MaxLenAssumption
  <2> HIDE DEF n
  <2> QED
    BY <2>2, <2>3 DEF Plus
<1>7. w \in One(C) <=> e = p + 1 /\ At(s, p) \in C
  <2>1. ASSUME w \in One(C)
        PROVE  e = p + 1 /\ At(s, p) \in C
    <3>1. PICK c \in C : w = <<c>>
      BY <2>1 DEF One
    <3>2. Len(w) = 1 /\ w[1] = c
      BY <3>1
    <3>3. n = 1 /\ e = p + 1
      <4>1. Len(w) = n
        BY <1>3
      <4>2. n = 1
        BY <3>2, <4>1
      <4> QED
        BY <1>1, <4>2
    <3>4. w[1] = At(s, p)
      <4>1. 1 \in 1 .. n /\ (p + 1) - 1 = p
        BY <1>1, <3>3
      <4> QED
        BY <1>3, <4>1
    <3> QED
      BY <3>2, <3>3, <3>4
  <2>2. ASSUME e = p + 1, At(s, p) \in C
        PROVE  w \in One(C)
    <3>1. n = 1 /\ (p + 1) - 1 = p
      BY <1>1, <2>2
    <3>2. Len(w) = 1 /\ w[1] = At(s, p)
      BY <1>3, <3>1
    <3>3. w = <<At(s, p)>>
      BY <1>3, <3>2
    <3> QED
      BY <2>2, <3>3 DEF One
  <2> QED
    BY <2>1, <2>2
<1>8. ASSUME NEW A
      PROVE  w \in Opt(A) <=> e = p \/ w \in A
  <2>1. w = <<>> <=> n = 0
    BY <1>2, <1>3
  <2>2. n = 0 <=> e = p
    BY <1>1
  <2> QED
    BY <2>1, <2>2 DEF Opt
<1> QED
  BY <1>4, <1>5, <1>6, <1>7, <1>8

(* The parts of a mantissa: its sign, digits with a fraction behind them,  *)
(* a fraction without digits in front of it.                               *)
SignChar == {"+", "-"}
SignPart == Opt(One(SignChar))
Fraction == Cat(One({"."}), Opt(DIGITS))
WholePart == Cat(DIGITS, Opt(Fraction))
PointPart == Cat(One({"."}), DIGITS)

(* They are languages.                                                     *)
LEMMA MantissaLanguages ==
  /\ MANTISSA = Cat(SignPart, WholePart \cup PointPart)
  /\ Language(DIGITS) /\ Language(SignPart) /\ Language(One({"."})) /\ Language(Opt(DIGITS)) /\ Language(Fraction)
  /\ Language(Opt(Fraction)) /\ Language(WholePart) /\ Language(PointPart) /\ Language(WholePart \cup PointPart)
  /\ Language(MANTISSA)
<1>1. MANTISSA = Cat(SignPart, WholePart \cup PointPart)
  BY DEF MANTISSA, SignPart, SignChar, WholePart, PointPart, Fraction
<1>2. {"1"} \subseteq Sym /\ {"."} \subseteq Sym /\ SignChar \subseteq Sym
  BY DEF Sym, SignChar
<1>3. Language(DIGITS) /\ Language(One({"."})) /\ Language(SignPart)
  BY <1>2, LanguageFacts DEF DIGITS, SignPart
<1>4. Language(Opt(DIGITS)) /\ Language(Fraction)
  BY <1>3, LanguageFacts DEF Fraction
<1>5. Language(Opt(Fraction)) /\ Language(PointPart)
  BY <1>3, <1>4, LanguageFacts DEF PointPart
<1>6. Language(WholePart)
  BY <1>3, <1>5, LanguageFacts DEF WholePart
<1>7. Language(WholePart \cup PointPart)
  BY <1>5, <1>6, LanguageFacts
<1>8. Language(MANTISSA)
  BY <1>1, <1>3, <1>7, LanguageFacts
<1> QED
  BY <1>1, <1>3, <1>4, <1>5, <1>6, <1>7, <1>8

(* A text with the digit 1 and the letter E only.                          *)
Numeric(s) ==
  /\ Short(s)
  /\ \A i \in Nat : At(s, i) \in Digit <=> At(s, i) \in {"1"}
  /\ \A i \in Nat : At(s, i) \in Alpha <=> At(s, i) \in {"E"}

(* skipAll goes as far as there are characters of C.                       *)
LEMMA SkipReaches ==
  ASSUME NEW s \in CharText, NEW p, NEW e, p \in 0 .. e, e \in 0 .. Len(s), NEW C, Eos \notin C, AllOf(s, p, e, C)
  PROVE  e <= skipAll(s, p, C)
<1> DEFINE q == skipAll(s, p, C)
<1>1. Len(s) \in Nat /\ p \in Nat /\ e \in Nat /\ p \in 0 .. Len(s)
  BY DEF CharText
<1>2. q \in p .. Len(s) /\ At(s, q) \notin C
  BY <1>1, SkipAllFacts
<1> HIDE DEF q
<1>3. q \notin p .. e - 1
  BY <1>2 DEF AllOf
<1>4. e <= q
  BY <1>1, <1>2, <1>3
<1> QED
  BY <1>4 DEF q

(* The positions skipMantisa goes through.                                 *)
MantisaAt(s, p, a, b, c, d) ==
  /\ a \in Nat /\ b \in Nat /\ c \in Nat /\ d \in Nat /\ p <= a /\ a <= b /\ b <= c /\ c <= d /\ d <= Len(s)
  /\ IF At(s, p) \in SignChar THEN a = p + 1 ELSE a = p
  /\ b = skipAll(s, a, Digit) /\ At(s, b) \notin Digit /\ AllOf(s, a, b, Digit)
  /\ IF At(s, b) \in {"."} THEN c = b + 1 ELSE c = b
  /\ IF c > b THEN d = skipAll(s, c, Digit) /\ AllOf(s, c, d, Digit) ELSE d = b
  /\ skipMantisa(s, p) = IF b > a \/ d > c THEN d ELSE p

(* They are positions of the text, in this order.                          *)
LEMMA MantisaSteps ==
  ASSUME NEW s \in CharText, NEW p \in 0 .. Len(s)
  PROVE  \E a, b, c, d : MantisaAt(s, p, a, b, c, d)
<1> DEFINE a == skipOne(s, p, SignChar)
           b == skipAll(s, a, Digit)
           c == skipOne(s, b, {"."})
           d == IF c > b THEN skipAll(s, c, Digit) ELSE b
<1>1. p \in Nat /\ Len(s) \in Nat
  BY DEF CharText
<1>2. Eos \notin SignChar /\ Eos \notin Digit /\ Eos \notin {"."}
  BY CharSets DEF SignChar
<1>3. /\ a \in p .. Len(s)
      /\ IF At(s, p) \in SignChar THEN a = p + 1 ELSE a = p
  <2>1. a \in p .. Len(s)
    BY <1>2, SkipOneFacts
  <2> QED
    BY <2>1 DEF skipOne
<1>4. a \in 0 .. Len(s) /\ a \in Nat /\ p <= a
  <2> HIDE DEF a
  <2> QED
    BY <1>1, <1>3
<1>5. b \in a .. Len(s) /\ At(s, b) \notin Digit /\ AllOf(s, a, b, Digit)
  <2> HIDE DEF a
  <2> QED
    BY <1>2, <1>4, SkipAllFacts DEF AllOf
<1>6. b \in 0 .. Len(s) /\ b \in Nat /\ a <= b
  <2> HIDE DEF a, b
  <2> QED
    BY <1>4, <1>5
<1>7. /\ c \in b .. Len(s)
      /\ IF At(s, b) \in {"."} THEN c = b + 1 ELSE c = b
  <2> HIDE DEF b
  <2>1. c \in b .. Len(s)
    BY <1>2, <1>6, SkipOneFacts
  <2> QED
    BY <2>1 DEF skipOne
<1>8. c \in 0 .. Len(s) /\ c \in Nat /\ b <= c
  <2> HIDE DEF b, c
  <2> QED
    BY <1>6, <1>7
<1>9. skipAll(s, c, Digit) \in c .. Len(s) /\ AllOf(s, c, skipAll(s, c, Digit), Digit)
  <2> HIDE DEF c
  <2> QED
    BY <1>2, <1>8, SkipAllFacts DEF AllOf
<1>10. /\ d \in Nat /\ c <= d /\ d <= Len(s)
       /\ IF c > b THEN d = skipAll(s, c, Digit) /\ AllOf(s, c, d, Digit) ELSE d = b
  <2>1. CASE c > b
    <3>1. d = skipAll(s, c, Digit)
      BY <2>1
    <3> HIDE DEF b, c, d
    <3> QED
      BY <1>1, <1>8, <1>9, <2>1, <3>1
  <2>2. CASE ~(c > b)
    <3>1. d = b
      BY <2>2
    <3> HIDE DEF b, c, d
    <3> QED
      BY <1>1, <1>6, <1>8, <2>2, <3>1
  <2> QED
    BY <2>1, <2>2
<1>11. skipMantisa(s, p) = IF b > a \/ d > c THEN d ELSE p
  BY DEF skipMantisa, SignChar
<1>12. b = skipAll(s, a, Digit)
  OBVIOUS
<1> HIDE DEF a, b, c, d
<1>13. MantisaAt(s, p, a, b, c, d)
  BY <1>3, <1>4, <1>5, <1>6, <1>7, <1>8, <1>10, <1>11, <1>12 DEF MantisaAt
<1> QED
  BY <1>13

(* The characters of a number differ.                                      *)
LEMMA CharsApart ==
  /\ "." \notin Digit /\ "." \notin SignChar /\ "1" \notin SignChar /\ "E" \notin SignChar /\ "E" \notin Digit /\ "E" # "."
  /\ Space \notin Digit /\ Space # "." /\ Space # "E" /\ Space \notin SignChar /\ "1" \in Digit
  /\ \A c \in SignChar : c \notin Digit /\ c # "."
<1>1. "." \notin Digit /\ "." \notin SignChar /\ "1" \notin SignChar
  BY Zenon DEF Digit, SignChar
<1>2. "E" \notin SignChar /\ "E" \notin Digit /\ "E" # "." /\ "1" \in Digit
  BY Zenon DEF Digit, SignChar
<1>3. Space \notin Digit /\ Space # "." /\ Space # "E" /\ Space \notin SignChar
  BY Zenon DEF Digit, Space, SignChar
<1>4. ASSUME NEW c \in SignChar
      PROVE  c \notin Digit /\ c # "."
  BY Zenon DEF Digit, SignChar
<1> QED
  BY <1>1, <1>2, <1>3, <1>4

(* A mantissa of the grammar is no longer than what skipMantisa takes.     *)
LEMMA MantissaLongest ==
  ASSUME NEW s, Numeric(s), NEW p \in 0 .. Len(s), NEW e \in p .. Len(s), IsIn(s, p, e, MANTISSA)
  PROVE  /\ p < e /\ e <= skipMantisa(s, p)
         /\ \A i \in e .. skipMantisa(s, p) - 1 : At(s, i) \in Digit \cup {"."}
<1>1. s \in CharText /\ Short(s) /\ Len(s) \in Nat /\ p \in Nat /\ e \in Nat /\ p \in 0 .. e /\ e \in 0 .. Len(s)
  BY DEF Numeric, Short, CharText
<1>2. PICK a, b, c, d : MantisaAt(s, p, a, b, c, d)
  BY <1>1, MantisaSteps
<1>3. /\ a \in Nat /\ b \in Nat /\ c \in Nat /\ d \in Nat /\ p <= a /\ a <= b /\ b <= c /\ c <= d /\ d <= Len(s)
      /\ skipMantisa(s, p) = IF b > a \/ d > c THEN d ELSE p
  BY <1>2 DEF MantisaAt
<1>4. \A i \in a .. d - 1 : At(s, i) \in Digit \cup {"."}
  <2> SUFFICES ASSUME NEW i \in a .. d - 1 PROVE At(s, i) \in Digit \cup {"."}
    OBVIOUS
  <2>1. CASE i < b
    <3>1. i \in a .. b - 1
      BY <1>3, <2>1
    <3> QED
      BY <1>2, <3>1 DEF MantisaAt, AllOf
  <2>2. CASE ~(i < b)
    <3>1. c > b
      BY <1>2, <1>3, <2>2 DEF MantisaAt
    <3>2. c = b + 1 /\ At(s, b) \in {"."} /\ AllOf(s, c, d, Digit)
      BY <1>2, <1>3, <3>1 DEF MantisaAt
    <3>3. i = b \/ i \in c .. d - 1
      BY <1>3, <2>2, <3>2
    <3> QED
      BY <3>2, <3>3 DEF AllOf
  <2> QED
    BY <2>1, <2>2
<1>5. PICK m \in p .. e : IsIn(s, p, m, SignPart) /\ IsIn(s, m, e, WholePart \cup PointPart)
  <2>1. IsIn(s, p, e, Cat(SignPart, WholePart \cup PointPart))
    BY MantissaLanguages
  <2>2. CatParts(s, p, e, SignPart, WholePart \cup PointPart)
    BY <1>1, <2>1, CatSplit, MantissaLanguages
  <2> QED
    BY <2>2 DEF CatParts
<1>6. m \in Nat /\ m \in 0 .. e /\ m \in 0 .. Len(s) /\ p \in 0 .. m /\ p <= m /\ m <= e
  BY <1>1
<1>7. m = p \/ (m = p + 1 /\ At(s, p) \in SignChar)
  <2>1. m = p \/ IsIn(s, p, m, One(SignChar))
    BY <1>1, <1>5, <1>6, PlusAt DEF SignPart
  <2> QED
    BY <1>1, <1>6, <2>1, PlusAt
<1>8. ASSUME At(s, m) \in Digit \cup {"."}
      PROVE  m = a
  <2>1. CASE m = p
    <3>1. At(s, p) \notin SignChar
      BY <1>8, <2>1, CharsApart
    <3> QED
      BY <1>2, <2>1, <3>1 DEF MantisaAt
  <2>2. CASE m = p + 1 /\ At(s, p) \in SignChar
    BY <1>2, <2>2 DEF MantisaAt
  <2> QED
    BY <1>7, <2>1, <2>2
<1>9. \A i \in Nat : At(s, i) \in Digit <=> At(s, i) \in {"1"}
  BY DEF Numeric
<1>10. ASSUME NEW x, NEW y, x \in 0 .. y, y \in 0 .. Len(s), IsIn(s, x, y, DIGITS)
       PROVE  x < y /\ x \in Nat /\ y \in Nat /\ AllOf(s, x, y, Digit) /\ y <= skipAll(s, x, Digit)
  <2>1. x < y /\ AllOf(s, x, y, {"1"})
    BY <1>1, <1>10, PlusAt DEF DIGITS
  <2>2. x \in Nat /\ y \in Nat
    BY <1>1, <1>10
  <2>3. AllOf(s, x, y, Digit)
    BY <1>9, <2>1, <2>2 DEF AllOf
  <2>4. Eos \notin Digit
    BY CharSets
  <2> QED
    BY <1>1, <1>10, <2>1, <2>2, <2>3, <2>4, SkipReaches
<1>11. CASE IsIn(s, m, e, WholePart)
  <2>1. PICK x \in m .. e : IsIn(s, m, x, DIGITS) /\ IsIn(s, x, e, Opt(Fraction))
    <3>1. CatParts(s, m, e, DIGITS, Opt(Fraction))
      BY <1>1, <1>6, <1>11, CatSplit, MantissaLanguages DEF WholePart
    <3> QED
      BY <3>1 DEF CatParts
  <2>2. x \in Nat /\ m \in 0 .. x /\ x \in 0 .. e /\ x \in 0 .. Len(s) /\ m <= x /\ x <= e
    BY <1>1, <1>6
  <2>3. m < x /\ AllOf(s, m, x, Digit) /\ x <= skipAll(s, m, Digit)
    BY <1>10, <2>1, <2>2
  <2>4. At(s, m) \in Digit
    BY <1>6, <2>2, <2>3 DEF AllOf
  <2>5. m = a
    BY <1>8, <2>4
  <2>6. x <= b /\ b > a /\ skipMantisa(s, p) = d
    BY <1>2, <1>3, <1>6, <2>2, <2>3, <2>5 DEF MantisaAt
  <2>7. e <= d
    <3>1. CASE e = x
      BY <1>3, <2>2, <2>6, <3>1
    <3>2. CASE IsIn(s, x, e, Fraction)
      <4>1. PICK y \in x .. e : IsIn(s, x, y, One({"."})) /\ IsIn(s, y, e, Opt(DIGITS))
        <5>1. CatParts(s, x, e, One({"."}), Opt(DIGITS))
          BY <1>1, <2>2, <3>2, CatSplit, MantissaLanguages DEF Fraction
        <5> QED
          BY <5>1 DEF CatParts
      <4>2. y \in Nat /\ x \in 0 .. y /\ y \in 0 .. e /\ y \in 0 .. Len(s)
        BY <1>1, <2>2
      <4>3. y = x + 1 /\ At(s, x) \in {"."}
        BY <1>1, <4>1, <4>2, PlusAt
      <4>4. e = y \/ IsIn(s, y, e, DIGITS)
        BY <1>1, <4>1, <4>2, PlusAt
      <4>5. x = b
        <5>1. At(s, x) \notin Digit
          BY <4>3, CharsApart
        <5>2. x \notin a .. b - 1
          BY <1>2, <5>1 DEF MantisaAt, AllOf
        <5> QED
          BY <1>3, <2>2, <2>3, <2>5, <2>6, <5>2
      <4>6. c = y /\ d = skipAll(s, y, Digit)
        BY <1>2, <1>3, <4>3, <4>5 DEF MantisaAt
      <4>7. e = y \/ e <= skipAll(s, y, Digit)
        BY <1>1, <1>10, <4>2, <4>4
      <4> QED
        BY <1>3, <4>6, <4>7
    <3> QED
      BY <1>1, <2>1, <2>2, <3>1, <3>2, PlusAt
  <2>8. p < e /\ \A i \in e .. d - 1 : i \in a .. d - 1
    BY <1>1, <1>3, <1>6, <2>2, <2>3, <2>5
  <2> QED
    BY <1>4, <2>6, <2>7, <2>8
<1>12. CASE IsIn(s, m, e, PointPart)
  <2>1. PICK x \in m .. e : IsIn(s, m, x, One({"."})) /\ IsIn(s, x, e, DIGITS)
    <3>1. CatParts(s, m, e, One({"."}), DIGITS)
      BY <1>1, <1>6, <1>12, CatSplit, MantissaLanguages DEF PointPart
    <3> QED
      BY <3>1 DEF CatParts
  <2>2. x \in Nat /\ m \in 0 .. x /\ x \in 0 .. e /\ x \in 0 .. Len(s)
    BY <1>1, <1>6
  <2>3. x = m + 1 /\ At(s, m) \in {"."}
    BY <1>1, <2>1, <2>2, PlusAt
  <2>4. x < e /\ e <= skipAll(s, x, Digit)
    BY <1>1, <1>10, <2>1, <2>2
  <2>5. m = a
    BY <1>8, <2>3
  <2>6. b = a
    <3>1. At(s, a) \notin Digit
      BY <2>3, <2>5, CharsApart
    <3>2. a \notin a .. b - 1
      BY <1>2, <3>1 DEF MantisaAt, AllOf
    <3> QED
      BY <1>3, <3>2
  <2>7. c = x /\ d = skipAll(s, x, Digit)
    BY <1>2, <1>3, <2>3, <2>5, <2>6 DEF MantisaAt
  <2>8. d > c /\ e <= d /\ skipMantisa(s, p) = d
    BY <1>1, <1>3, <2>2, <2>4, <2>7
  <2>9. p < e /\ \A i \in e .. d - 1 : i \in a .. d - 1
    BY <1>1, <1>3, <1>6, <2>3, <2>4, <2>5
  <2> QED
    BY <1>4, <2>8, <2>9
<1>13. IsIn(s, m, e, WholePart) \/ IsIn(s, m, e, PointPart)
  BY <1>5 DEF IsIn
<1> QED
  BY <1>11, <1>12, <1>13

(* What skipMantisa takes is a mantissa of the grammar.                    *)
LEMMA MantissaTaken ==
  ASSUME NEW s, Numeric(s), NEW p \in 0 .. Len(s), NEW e, e = skipMantisa(s, p), e > p
  PROVE  IsIn(s, p, e, MANTISSA)
<1>1. s \in CharText /\ Short(s) /\ Len(s) \in Nat /\ p \in Nat
  BY DEF Numeric, Short, CharText
<1>2. PICK a, b, c, d : MantisaAt(s, p, a, b, c, d)
  BY <1>1, MantisaSteps
<1>3. /\ a \in Nat /\ b \in Nat /\ c \in Nat /\ d \in Nat /\ p <= a /\ a <= b /\ b <= c /\ c <= d /\ d <= Len(s)
      /\ e = IF b > a \/ d > c THEN d ELSE p
  BY <1>2 DEF MantisaAt
<1>4. e = d /\ (b > a \/ d > c)
  BY <1>1, <1>3
<1>5. /\ p \in 0 .. a /\ a \in 0 .. b /\ b \in 0 .. c /\ c \in 0 .. d /\ a \in 0 .. d /\ b \in 0 .. d /\ a \in 0 .. c
      /\ a \in 0 .. Len(s) /\ b \in 0 .. Len(s) /\ c \in 0 .. Len(s) /\ d \in 0 .. Len(s)
  BY <1>1, <1>3
<1>6. IsIn(s, p, a, SignPart)
  <2>1. a = p \/ (a = p + 1 /\ At(s, p) \in SignChar)
    BY <1>2 DEF MantisaAt
  <2>2. a = p \/ IsIn(s, p, a, One(SignChar))
    BY <1>1, <1>5, <2>1, PlusAt
  <2> QED
    BY <1>1, <1>5, <2>2, PlusAt DEF SignPart
<1>7. \A i \in Nat : At(s, i) \in Digit <=> At(s, i) \in {"1"}
  BY DEF Numeric
<1>8. ASSUME NEW x \in Nat, NEW y, x \in 0 .. y, y \in 0 .. Len(s), x < y, AllOf(s, x, y, Digit)
      PROVE  IsIn(s, x, y, DIGITS)
  <2>1. y \in Nat
    BY <1>1, <1>8
  <2>2. AllOf(s, x, y, {"1"})
    BY <1>7, <1>8, <2>1 DEF AllOf
  <2> QED
    BY <1>1, <1>8, <2>2, PlusAt DEF DIGITS
<1>9. c = b \/ IsIn(s, b, c, One({"."}))
  <2>1. c = b \/ (c = b + 1 /\ At(s, b) \in {"."})
    BY <1>2 DEF MantisaAt
  <2> QED
    BY <1>1, <1>5, <2>1, PlusAt
<1>10. c # b => AllOf(s, c, d, Digit)
  BY <1>2, <1>3 DEF MantisaAt
<1>11. c = b => d = b
  BY <1>2, <1>3 DEF MantisaAt
<1>12. CASE b > a
  <2>1. IsIn(s, a, b, DIGITS)
    <3>1. AllOf(s, a, b, Digit)
      BY <1>2 DEF MantisaAt
    <3> QED
      BY <1>3, <1>5, <1>8, <1>12, <3>1
  <2>2. IsIn(s, b, d, Opt(Fraction))
    <3>1. CASE c = b
      BY <1>1, <1>5, <1>11, <3>1, PlusAt
    <3>2. CASE c # b
      <4>1. d = c \/ IsIn(s, c, d, DIGITS)
        BY <1>3, <1>5, <1>8, <1>10, <3>2
      <4>2. IsIn(s, c, d, Opt(DIGITS))
        BY <1>1, <1>5, <4>1, PlusAt
      <4>3. IsIn(s, b, d, Fraction)
        BY <1>1, <1>5, <1>9, <3>2, <4>2, CatJoin DEF Fraction
      <4> QED
        BY <1>1, <1>5, <4>3, PlusAt
    <3> QED
      BY <3>1, <3>2
  <2>3. IsIn(s, a, d, WholePart)
    BY <1>1, <1>5, <2>1, <2>2, CatJoin DEF WholePart
  <2>4. IsIn(s, a, d, WholePart \cup PointPart)
    BY <2>3 DEF IsIn
  <2> QED
    BY <1>1, <1>4, <1>5, <1>6, <2>4, CatJoin, MantissaLanguages
<1>13. CASE ~(b > a)
  <2>1. b = a /\ d > c /\ c # b
    BY <1>3, <1>4, <1>11, <1>13
  <2>2. IsIn(s, a, c, One({"."})) /\ IsIn(s, c, d, DIGITS)
    BY <1>3, <1>5, <1>8, <1>9, <1>10, <2>1
  <2>3. IsIn(s, a, d, PointPart)
    BY <1>1, <1>5, <2>2, CatJoin DEF PointPart
  <2>4. IsIn(s, a, d, WholePart \cup PointPart)
    BY <2>3 DEF IsIn
  <2> QED
    BY <1>1, <1>4, <1>5, <1>6, <2>4, CatJoin, MantissaLanguages
<1> QED
  BY <1>12, <1>13

(* The parts of an exponent.                                               *)
Power == Cat(SignPart, DIGITS)
SpacedPower == Cat(Ws, Power)
PowerOfTen == Cat(One({"E"}), SpacedPower)

(* They are languages, and so are numbers.                                 *)
LEMMA ExponentLanguages ==
  /\ EXPONENT = Cat(Ws, PowerOfTen)
  /\ Language(Ws) /\ Language(One({"E"})) /\ Language(Power) /\ Language(SpacedPower) /\ Language(PowerOfTen)
  /\ Language(EXPONENT) /\ Language(Opt(EXPONENT))
<1>1. EXPONENT = Cat(Ws, PowerOfTen)
  BY DEF EXPONENT, PowerOfTen, SpacedPower, Power, SignPart, SignChar
<1>2. {Space} \subseteq Sym /\ {"E"} \subseteq Sym
  BY DEF Sym
<1>3. Language(Ws) /\ Language(One({"E"}))
  BY <1>2, LanguageFacts DEF Ws
<1>4. Language(Power)
  BY MantissaLanguages, LanguageFacts DEF Power
<1>5. Language(SpacedPower)
  BY <1>3, <1>4, LanguageFacts DEF SpacedPower
<1>6. Language(PowerOfTen)
  BY <1>3, <1>5, LanguageFacts DEF PowerOfTen
<1>7. Language(EXPONENT)
  BY <1>1, <1>3, <1>6, LanguageFacts
<1>8. Language(Opt(EXPONENT))
  BY <1>7, LanguageFacts
<1> QED
  BY <1>1, <1>3, <1>4, <1>5, <1>6, <1>7, <1>8

(* White space of the grammar.                                             *)
LEMMA WsAt ==
  ASSUME NEW s, Short(s), NEW p, NEW e, p \in 0 .. e, e \in 0 .. Len(s)
  PROVE  /\ IsIn(s, p, e, Ws) <=> AllOf(s, p, e, {Space})
         /\ AllOf(s, p, e, {Space}) /\ At(s, e) \notin {Space} => e = skipAll(s, p, {Space})
<1>1. s \in CharText /\ Len(s) \in Nat /\ p \in Nat /\ e \in Nat /\ p <= e /\ p \in 0 .. Len(s)
  BY DEF Short, CharText
<1>2. IsIn(s, p, e, Ws) <=> e = p \/ (p < e /\ AllOf(s, p, e, {Space}))
  BY PlusAt DEF Ws
<1>3. e = p => AllOf(s, p, e, {Space})
  BY <1>1 DEF AllOf
<1>4. ASSUME AllOf(s, p, e, {Space}), At(s, e) \notin {Space}
      PROVE  e = skipAll(s, p, {Space})
  <2> DEFINE q == skipAll(s, p, {Space})
  <2>1. Eos \notin {Space}
    BY SolidSets
  <2>2. q \in p .. Len(s) /\ \A i \in p .. q - 1 : At(s, i) \in {Space}
    BY <1>1, <2>1, SkipAllFacts
  <2>3. e <= q
    BY <1>1, <1>4, <2>1, SkipReaches
  <2> HIDE DEF q
  <2>4. e \notin p .. q - 1
    BY <1>4, <2>2
  <2>5. e = q
    BY <1>1, <2>2, <2>3, <2>4
  <2> QED
    BY <2>5 DEF q
<1> QED
  BY <1>1, <1>2, <1>3, <1>4

(* The positions skipExponent goes through behind an "E" at a.             *)
ExponentAt(s, p, a, w, b, c) ==
  /\ a \in Nat /\ w \in Nat /\ b \in Nat /\ c \in Nat /\ p <= a /\ a + 1 <= w /\ w <= b /\ b <= c /\ c <= Len(s)
  /\ AllOf(s, p, a, {Space})
  /\ w = skipAll(s, a + 1, {Space}) /\ AllOf(s, a + 1, w, {Space})
  /\ IF At(s, w) \in SignChar THEN b = w + 1 ELSE b = w
  /\ c = skipAll(s, b, Digit) /\ AllOf(s, b, c, Digit)
  /\ skipExponent(s, p) = IF c > b THEN c ELSE p

(* They are positions of the text, in this order.                          *)
LEMMA ExponentSteps ==
  ASSUME NEW s \in CharText, NEW p \in 0 .. Len(s), NEW a, a = skipAll(s, p, {Space})
  PROVE  IF At(s, a) \in {"E"} THEN \E w, b, c : ExponentAt(s, p, a, w, b, c) ELSE skipExponent(s, p) = p
<1> DEFINE w == skipAll(s, a + 1, {Space})
           b == skipOne(s, w, SignChar)
           c == skipAll(s, b, Digit)
<1>1. p \in Nat /\ Len(s) \in Nat /\ Eos \notin {Space} /\ Eos \notin SignChar /\ Eos \notin Digit /\ Eos # "E"
  <2>1. p \in Nat /\ Len(s) \in Nat
    BY DEF CharText
  <2>2. Eos \notin {Space}
    BY SolidSets
  <2>3. Eos \notin SignChar
    BY CharSets DEF SignChar
  <2>4. Eos \notin Digit /\ Eos # "E"
    BY CharSets
  <2> QED
    BY <2>1, <2>2, <2>3, <2>4
<1>2. a \in p .. Len(s) /\ AllOf(s, p, a, {Space})
  BY <1>1, SkipAllFacts DEF AllOf
<1>3. skipExponent(s, p) = IF At(s, a) = "E" /\ c > b THEN c ELSE p
  BY DEF skipExponent, skipWs, SignChar
<1>4. CASE At(s, a) \in {"E"}
  <2>1. a \in Nat /\ a + 1 \in 0 .. Len(s) /\ p <= a
    <3>1. a \in Nat /\ p <= a
      BY <1>1, <1>2
    <3>2. At(s, a) # Eos
      BY <1>1, <1>4
    <3> QED
      BY <3>1, <3>2, InText
  <2>2. w \in a + 1 .. Len(s) /\ AllOf(s, a + 1, w, {Space}) /\ w = skipAll(s, a + 1, {Space})
    BY <1>1, <2>1, SkipAllFacts DEF AllOf
  <2>3. w \in Nat /\ w \in 0 .. Len(s) /\ a + 1 <= w
    <3> HIDE DEF w
    <3> QED
      BY <1>1, <2>1, <2>2
  <2>4. b \in w .. Len(s) /\ IF At(s, w) \in SignChar THEN b = w + 1 ELSE b = w
    <3> HIDE DEF w
    <3>1. b \in w .. Len(s)
      BY <1>1, <2>3, SkipOneFacts
    <3> QED
      BY <3>1 DEF skipOne
  <2>5. b \in Nat /\ b \in 0 .. Len(s) /\ w <= b
    <3> HIDE DEF w, b
    <3> QED
      BY <1>1, <2>3, <2>4
  <2>6. c \in b .. Len(s) /\ AllOf(s, b, c, Digit) /\ c = skipAll(s, b, Digit)
    <3> HIDE DEF b
    <3> QED
      BY <1>1, <2>5, SkipAllFacts DEF AllOf
  <2>7. c \in Nat /\ b <= c /\ c <= Len(s)
    <3> HIDE DEF b, c
    <3> QED
      BY <1>1, <2>5, <2>6
  <2>8. skipExponent(s, p) = IF c > b THEN c ELSE p
    BY <1>3, <1>4
  <2> HIDE DEF w, b, c
  <2>9. ExponentAt(s, p, a, w, b, c)
    BY <1>2, <2>1, <2>2, <2>3, <2>4, <2>5, <2>6, <2>7, <2>8 DEF ExponentAt
  <2> QED
    BY <1>4, <2>9
<1>5. CASE ~(At(s, a) \in {"E"})
  <2>1. skipExponent(s, p) = p
    BY <1>3, <1>5
  <2> QED
    BY <1>5, <2>1
<1> QED
  BY <1>4, <1>5

(* An exponent of the grammar is no longer than what skipExponent takes.   *)
LEMMA ExponentLongest ==
  ASSUME NEW s, Numeric(s), NEW p \in 0 .. Len(s), NEW e \in p .. Len(s), IsIn(s, p, e, EXPONENT)
  PROVE  p < e /\ e <= skipExponent(s, p) /\ At(s, p) \in {Space, "E"}
<1>1. s \in CharText /\ Short(s) /\ Len(s) \in Nat /\ p \in Nat /\ e \in Nat /\ p \in 0 .. e /\ e \in 0 .. Len(s)
  BY DEF Numeric, Short, CharText
<1>2. PICK m \in p .. e : IsIn(s, p, m, Ws) /\ IsIn(s, m, e, PowerOfTen)
  <2>1. IsIn(s, p, e, Cat(Ws, PowerOfTen))
    BY ExponentLanguages
  <2>2. CatParts(s, p, e, Ws, PowerOfTen)
    BY <1>1, <2>1, CatSplit, ExponentLanguages
  <2> QED
    BY <2>2 DEF CatParts
<1>3. m \in Nat /\ m \in 0 .. e /\ m \in 0 .. Len(s) /\ p \in 0 .. m /\ p <= m
  BY <1>1
<1>4. PICK x \in m .. e : IsIn(s, m, x, One({"E"})) /\ IsIn(s, x, e, SpacedPower)
  <2>1. CatParts(s, m, e, One({"E"}), SpacedPower)
    BY <1>1, <1>2, <1>3, CatSplit, ExponentLanguages DEF PowerOfTen
  <2> QED
    BY <2>1 DEF CatParts
<1>5. x \in Nat /\ x \in 0 .. e /\ x \in 0 .. Len(s) /\ m \in 0 .. x
  BY <1>1, <1>3
<1>6. x = m + 1 /\ At(s, m) \in {"E"}
  BY <1>1, <1>3, <1>4, <1>5, PlusAt
<1>7. PICK y \in x .. e : IsIn(s, x, y, Ws) /\ IsIn(s, y, e, Power)
  <2>1. CatParts(s, x, e, Ws, Power)
    BY <1>1, <1>4, <1>5, CatSplit, ExponentLanguages DEF SpacedPower
  <2> QED
    BY <2>1 DEF CatParts
<1>8. y \in Nat /\ y \in 0 .. e /\ y \in 0 .. Len(s) /\ x \in 0 .. y
  BY <1>1, <1>5
<1>9. PICK z \in y .. e : IsIn(s, y, z, SignPart) /\ IsIn(s, z, e, DIGITS)
  <2>1. CatParts(s, y, e, SignPart, DIGITS)
    BY <1>1, <1>7, <1>8, CatSplit, MantissaLanguages DEF Power
  <2> QED
    BY <2>1 DEF CatParts
<1>10. z \in Nat /\ z \in 0 .. e /\ z \in 0 .. Len(s) /\ y \in 0 .. z
  BY <1>1, <1>8
<1>11. z < e /\ AllOf(s, z, e, Digit) /\ At(s, z) \in Digit
  <2>1. z < e /\ AllOf(s, z, e, {"1"})
    BY <1>1, <1>9, <1>10, PlusAt DEF DIGITS
  <2>2. AllOf(s, z, e, Digit)
    BY <2>1, CharsApart DEF AllOf
  <2>3. z \in z .. e - 1
    BY <1>1, <1>10, <2>1
  <2> QED
    BY <2>1, <2>2, <2>3 DEF AllOf
<1>12. z = y \/ (z = y + 1 /\ At(s, y) \in SignChar)
  <2>1. z = y \/ IsIn(s, y, z, One(SignChar))
    BY <1>1, <1>9, <1>10, PlusAt DEF SignPart
  <2> QED
    BY <1>1, <1>8, <1>10, <2>1, PlusAt
<1>13. At(s, y) \notin {Space} /\ (z = y => At(s, y) \notin SignChar)
  BY <1>11, <1>12, CharsApart
<1>14. At(s, m) \notin {Space}
  BY <1>6, CharsApart
<1>15. m = skipAll(s, p, {Space}) /\ AllOf(s, p, m, {Space})
  BY <1>1, <1>2, <1>3, <1>14, WsAt
<1>16. y = skipAll(s, m + 1, {Space})
  BY <1>1, <1>5, <1>6, <1>7, <1>8, <1>13, WsAt
<1>17. PICK w, b, c : ExponentAt(s, p, m, w, b, c)
  BY <1>1, <1>6, <1>15, ExponentSteps
<1>18. w = y /\ b = z
  BY <1>12, <1>13, <1>16, <1>17 DEF ExponentAt
<1>19. e <= c
  <2>1. Eos \notin Digit
    BY CharSets
  <2>2. e <= skipAll(s, z, Digit)
    BY <1>1, <1>10, <1>11, <2>1, SkipReaches
  <2> QED
    BY <1>17, <1>18, <2>2 DEF ExponentAt
<1>20. c \in Nat /\ skipExponent(s, p) = IF c > b THEN c ELSE p
  BY <1>17 DEF ExponentAt
<1>21. c > b /\ p < e
  BY <1>1, <1>3, <1>5, <1>6, <1>8, <1>10, <1>11, <1>18, <1>19, <1>20
<1>22. At(s, p) \in {Space, "E"}
  <2>1. CASE p = m
    BY <1>6, <2>1
  <2>2. CASE p # m
    <3>1. p \in p .. m - 1
      BY <1>1, <1>3, <2>2
    <3> QED
      BY <1>15, <3>1 DEF AllOf
  <2> QED
    BY <2>1, <2>2
<1> QED
  BY <1>19, <1>20, <1>21, <1>22

(* What skipExponent takes is an exponent of the grammar.                  *)
LEMMA ExponentTaken ==
  ASSUME NEW s, Numeric(s), NEW p \in 0 .. Len(s), NEW e, e = skipExponent(s, p), e # p
  PROVE  e \in p .. Len(s) /\ IsIn(s, p, e, EXPONENT)
<1> DEFINE a == skipAll(s, p, {Space})
<1>1. s \in CharText /\ Short(s) /\ Len(s) \in Nat /\ p \in Nat
  BY DEF Numeric, Short, CharText
<1>2. IF At(s, a) \in {"E"} THEN \E w, b, c : ExponentAt(s, p, a, w, b, c) ELSE skipExponent(s, p) = p
  <2>1. a = skipAll(s, p, {Space})
    OBVIOUS
  <2> HIDE DEF a
  <2> QED
    BY <1>1, <2>1, ExponentSteps
<1> HIDE DEF a
<1>3. At(s, a) \in {"E"}
  BY <1>2
<1>4. PICK w, b, c : ExponentAt(s, p, a, w, b, c)
  BY <1>2, <1>3
<1>5. /\ a \in Nat /\ w \in Nat /\ b \in Nat /\ c \in Nat /\ p <= a /\ a + 1 <= w /\ w <= b /\ b <= c /\ c <= Len(s)
      /\ e = IF c > b THEN c ELSE p
  BY <1>4 DEF ExponentAt
<1>6. e = c /\ c > b
  BY <1>5
<1> DEFINE x == a + 1
<1>7. /\ x \in Nat /\ p \in 0 .. a /\ a \in 0 .. x /\ x \in 0 .. w /\ w \in 0 .. b /\ b \in 0 .. c
      /\ a \in 0 .. c /\ x \in 0 .. c /\ w \in 0 .. c
      /\ a \in 0 .. Len(s) /\ x \in 0 .. Len(s) /\ w \in 0 .. Len(s) /\ b \in 0 .. Len(s) /\ c \in 0 .. Len(s)
      /\ c \in p .. Len(s)
  BY <1>1, <1>5
<1>8. IsIn(s, p, a, Ws)
  <2>1. AllOf(s, p, a, {Space})
    BY <1>4 DEF ExponentAt
  <2> QED
    BY <1>1, <1>7, <2>1, WsAt
<1>9. IsIn(s, a, x, One({"E"}))
  BY <1>1, <1>3, <1>7, PlusAt
<1>10. IsIn(s, x, w, Ws)
  <2>1. AllOf(s, x, w, {Space})
    BY <1>4 DEF ExponentAt
  <2> HIDE DEF x
  <2> QED
    BY <1>1, <1>7, <2>1, WsAt
<1> HIDE DEF x
<1>11. IsIn(s, w, b, SignPart)
  <2>1. b = w \/ (b = w + 1 /\ At(s, w) \in SignChar)
    BY <1>4 DEF ExponentAt
  <2>2. b = w \/ IsIn(s, w, b, One(SignChar))
    BY <1>1, <1>7, <2>1, PlusAt
  <2> QED
    BY <1>1, <1>7, <2>2, PlusAt DEF SignPart
<1>12. IsIn(s, b, c, DIGITS)
  <2>1. AllOf(s, b, c, Digit)
    BY <1>4 DEF ExponentAt
  <2>2. \A i \in Nat : At(s, i) \in Digit <=> At(s, i) \in {"1"}
    BY DEF Numeric
  <2>3. AllOf(s, b, c, {"1"})
    BY <1>5, <2>1, <2>2 DEF AllOf
  <2> QED
    BY <1>1, <1>5, <1>6, <1>7, <2>3, PlusAt DEF DIGITS
<1>13. IsIn(s, w, c, Power)
  BY <1>1, <1>7, <1>11, <1>12, CatJoin DEF Power
<1>14. IsIn(s, x, c, SpacedPower)
  BY <1>1, <1>7, <1>10, <1>13, CatJoin DEF SpacedPower
<1>15. IsIn(s, a, c, PowerOfTen)
  BY <1>1, <1>7, <1>9, <1>14, CatJoin DEF PowerOfTen
<1>16. IsIn(s, p, c, EXPONENT)
  BY <1>1, <1>7, <1>8, <1>15, CatJoin, ExponentLanguages
<1> QED
  BY <1>6, <1>7, <1>16


(* A length that is taken, and that none exceeds, is the longest.          *)
LEMMA LongestIs ==
  ASSUME NEW s \in CharText, NEW A, NEW k \in 0 .. Len(s), k > 0 => IsIn(s, 0, k, A),
         \A n \in 1 .. Len(s) : IsIn(s, 0, n, A) => n <= k
  PROVE  Longest(s, A) = k
<1> DEFINE lens == {n \in 1 .. Len(s) : SubSeq(s, 1, n) \in A}
<1>1. Len(s) \in Nat /\ k \in Nat
  BY DEF CharText
<1>2. \A n \in 1 .. Len(s) : n \in lens <=> IsIn(s, 0, n, A)
  BY DEF IsIn
<1>3. Longest(s, A) = IF lens = {} THEN 0 ELSE CHOOSE n \in lens : \A m \in lens : m <= n
  BY DEF Longest
<1>4. lens \subseteq 1 .. Len(s)
  OBVIOUS
<1> HIDE DEF lens
<1>5. \A n \in lens : n \in Nat /\ n > 0 /\ n <= k
  BY <1>1, <1>2, <1>4
<1>6. CASE k = 0
  <2>1. lens = {}
    BY <1>5, <1>6
  <2> QED
    BY <1>3, <1>6, <2>1
<1>7. CASE k > 0
  <2>1. k \in lens
    BY <1>1, <1>2, <1>7
  <2>2. \A n \in lens : (\A m \in lens : m <= n) => n = k
    BY <1>1, <1>5, <2>1
  <2>3. \A m \in lens : m <= k
    BY <1>5
  <2> DEFINE best == CHOOSE n \in lens : \A m \in lens : m <= n
  <2>4. best \in lens /\ \A m \in lens : m <= best
    BY <2>1, <2>3
  <2>5. Longest(s, A) = best
    BY <1>3, <2>1
  <2> HIDE DEF best
  <2> QED
    BY <2>2, <2>4, <2>5
<1> QED
  BY <1>1, <1>6, <1>7

(* The decimal number found is the longest one the text starts with.       *)
LEMMA DecimalLongest ==
  ASSUME NEW s, Numeric(s)
  PROVE  scpiLex_DecimalNumericProgramData(s, 0).len = Longest(s, DECIMAL)
<1> DEFINE q == skipMantisa(s, 0)
           x == skipExponent(s, q)
           k == IF q > 0 THEN x ELSE 0
<1>1. s \in CharText /\ Short(s) /\ Len(s) \in Nat /\ 0 \in 0 .. Len(s)
  BY DEF Numeric, Short, CharText
<1>2. q \in 0 .. Len(s) /\ q \in Nat
  BY <1>1, MantisaFacts
<1>3. scpiLex_DecimalNumericProgramData(s, 0) = Found("DECIMAL_NUMERIC_PROGRAM_DATA", 0, k)
  BY DEF scpiLex_DecimalNumericProgramData
<1>4. q > 0 => IsIn(s, 0, q, MANTISSA)
  BY <1>1, MantissaTaken
<1>5. \A n \in 0 .. Len(s) : IsIn(s, 0, n, MANTISSA) =>
        0 < n /\ n <= q /\ \A i \in n .. q - 1 : At(s, i) \in Digit \cup {"."}
  BY <1>1, MantissaLongest
<1> HIDE DEF q
<1>6. x \in q .. Len(s) /\ (x # q => IsIn(s, q, x, EXPONENT))
  BY <1>1, <1>2, ExponentFacts, ExponentTaken
<1>7. x \in Nat /\ q <= x /\ x <= Len(s) /\ x \in 0 .. Len(s) /\ q \in 0 .. x
  <2> HIDE DEF x
  <2> QED
    BY <1>1, <1>2, <1>6
<1>8. \A n \in q .. Len(s) : IsIn(s, q, n, EXPONENT) => n <= x
  BY <1>2, ExponentLongest
<1>9. \A m \in 0 .. Len(s) : \A n \in m .. Len(s) : IsIn(s, m, n, EXPONENT) => m < n /\ At(s, m) \in {Space, "E"}
  BY ExponentLongest
<1> HIDE DEF x
<1>10. k \in 0 .. Len(s) /\ k \in Nat
  BY <1>1, <1>7
<1>11. k > 0 => IsIn(s, 0, k, DECIMAL)
  <2> SUFFICES ASSUME k > 0 PROVE IsIn(s, 0, k, DECIMAL)
    OBVIOUS
  <2>1. q > 0 /\ k = x
    BY <1>2
  <2>2. IsIn(s, q, x, Opt(EXPONENT))
    BY <1>1, <1>6, <1>7, PlusAt
  <2> HIDE DEF k
  <2>3. IsIn(s, 0, x, Cat(MANTISSA, Opt(EXPONENT)))
    <3>1. IsIn(s, 0, q, MANTISSA) /\ 0 \in 0 .. q
      BY <1>2, <1>4, <2>1
    <3> QED
      BY <1>1, <1>7, <2>2, <3>1, CatJoin
  <2> QED
    BY <2>1, <2>3 DEF DECIMAL
<1>12. ASSUME NEW n \in 1 .. Len(s), IsIn(s, 0, n, DECIMAL)
       PROVE  n <= k
  <2>1. n \in Nat /\ n \in 0 .. Len(s) /\ 0 \in 0 .. n
    BY <1>1
  <2>2. PICK m \in 0 .. n : IsIn(s, 0, m, MANTISSA) /\ IsIn(s, m, n, Opt(EXPONENT))
    <3>1. IsIn(s, 0, n, Cat(MANTISSA, Opt(EXPONENT)))
      BY <1>12 DEF DECIMAL
    <3>2. CatParts(s, 0, n, MANTISSA, Opt(EXPONENT))
      BY <1>1, <2>1, <3>1, CatSplit, MantissaLanguages, ExponentLanguages
    <3> QED
      BY <3>2 DEF CatParts
  <2>3. m \in Nat /\ m \in 0 .. Len(s) /\ n \in m .. Len(s) /\ m <= n
    BY <1>1, <2>1
  <2>4. 0 < m /\ m <= q /\ \A i \in m .. q - 1 : At(s, i) \in Digit \cup {"."}
    BY <1>5, <2>2, <2>3
  <2>5. q > 0 /\ k = x
    BY <1>2, <2>3, <2>4
  <2> HIDE DEF k
  <2>6. n = m \/ IsIn(s, m, n, EXPONENT)
    BY <1>1, <2>1, <2>2, <2>3, PlusAt
  <2>7. CASE n = m
    BY <1>2, <1>7, <2>3, <2>4, <2>5, <2>7
  <2>8. CASE IsIn(s, m, n, EXPONENT)
    <3>1. At(s, m) \in {Space, "E"}
      BY <1>9, <2>3, <2>8
    <3>2. At(s, m) \notin Digit \cup {"."}
      BY <3>1, CharsApart
    <3>3. m = q
      <4>1. m \notin m .. q - 1
        BY <2>4, <3>2
      <4> QED
        BY <1>2, <2>3, <2>4, <4>1
    <3>4. n <= x
      BY <1>8, <2>3, <2>8, <3>3
    <3> QED
      BY <2>5, <3>4
  <2> QED
    BY <2>6, <2>7, <2>8
<1> HIDE DEF k
<1>13. Longest(s, DECIMAL) = k
  BY <1>1, <1>10, <1>11, <1>12, LongestIs
<1>14. Found("DECIMAL_NUMERIC_PROGRAM_DATA", 0, k).len = k - 0
  BY <1>1, <1>10, FoundFacts
<1> QED
  BY <1>3, <1>10, <1>13, <1>14

(* skipAll goes to the first character that is not of C.                   *)
LEMMA SkipIs ==
  ASSUME NEW s \in CharText, NEW p, NEW e, p \in 0 .. e, e \in 0 .. Len(s), NEW C, Eos \notin C,
         AllOf(s, p, e, C), At(s, e) \notin C
  PROVE  skipAll(s, p, C) = e
<1> DEFINE q == skipAll(s, p, C)
<1>1. Len(s) \in Nat /\ p \in Nat /\ e \in Nat /\ p \in 0 .. Len(s) /\ p <= e
  BY DEF CharText
<1>2. q \in p .. Len(s) /\ \A i \in p .. q - 1 : At(s, i) \in C
  BY <1>1, SkipAllFacts
<1>3. e <= q
  BY SkipReaches
<1> HIDE DEF q
<1>4. e \notin p .. q - 1
  BY <1>2
<1>5. e = q
  BY <1>1, <1>2, <1>3, <1>4
<1> QED
  BY <1>5 DEF q

(* The parts of a suffix: what may follow a name, and the names that do.   *)
UnitChars == Alpha \cup Digit \cup {"-"}
UnitSeparator == {"/", "."}
SignedDigit == Cat(Opt(One({"-"})), One({"1"}))
LastUnit == Cat(One(UnitSeparator), UNITNAME)
NextUnit == Cat(UNITNAME, Opt(LastUnit))
MoreUnits == Cat(One(UnitSeparator), NextUnit)
FirstUnit == Cat(UNITNAME, Opt(MoreUnits))

(* They are languages.                                                     *)
LEMMA SuffixLanguages ==
  /\ UNITNAME = Cat(Plus({"E"}), Opt(SignedDigit)) /\ SUFFIX = Cat(Opt(One({"/"})), FirstUnit)
  /\ Language(Plus({"E"})) /\ Language(Opt(SignedDigit)) /\ Language(UNITNAME)
  /\ Language(Opt(One({"-"}))) /\ Language(One({"1"})) /\ Language(One(UnitSeparator)) /\ Language(Opt(One({"/"})))
  /\ Language(Opt(LastUnit)) /\ Language(NextUnit) /\ Language(Opt(MoreUnits)) /\ Language(FirstUnit)
<1>1. UNITNAME = Cat(Plus({"E"}), Opt(SignedDigit)) /\ SUFFIX = Cat(Opt(One({"/"})), FirstUnit)
  BY DEF UNITNAME, SUFFIX, SignedDigit, FirstUnit, MoreUnits, NextUnit, LastUnit, UnitSeparator
<1>2. {"E"} \subseteq Sym /\ {"-"} \subseteq Sym /\ {"1"} \subseteq Sym /\ UnitSeparator \subseteq Sym /\ {"/"} \subseteq Sym
  BY DEF Sym, UnitSeparator
<1>3. /\ Language(Plus({"E"})) /\ Language(One({"-"})) /\ Language(One({"1"})) /\ Language(One(UnitSeparator))
      /\ Language(One({"/"}))
  BY <1>2, LanguageFacts
<1>4. Language(Opt(One({"-"}))) /\ Language(Opt(One({"/"})))
  BY <1>3, LanguageFacts
<1>5. Language(Opt(SignedDigit))
  BY <1>3, <1>4, LanguageFacts DEF SignedDigit
<1>6. Language(UNITNAME)
  BY <1>1, <1>3, <1>5, LanguageFacts
<1>7. Language(Opt(LastUnit))
  BY <1>3, <1>6, LanguageFacts DEF LastUnit
<1>8. Language(NextUnit)
  BY <1>6, <1>7, LanguageFacts DEF NextUnit
<1>9. Language(Opt(MoreUnits))
  BY <1>3, <1>8, LanguageFacts DEF MoreUnits
<1>10. Language(FirstUnit)
  BY <1>6, <1>9, LanguageFacts DEF FirstUnit
<1> QED
  BY <1>1, <1>3, <1>4, <1>5, <1>6, <1>7, <1>8, <1>9, <1>10

(* The characters of a suffix differ.                                      *)
LEMMA UnitCharsApart ==
  /\ Eos \notin UnitChars /\ \A c \in UnitSeparator : c \notin UnitChars
  /\ "E" \in Alpha /\ "-" \notin Alpha /\ "1" \notin Alpha /\ "1" \in Digit /\ "-" \notin Digit /\ "1" # "-"
  /\ "/" \notin Alpha /\ Eos \notin UnitSeparator /\ Eos \notin {"/"} /\ Eos \notin Alpha
<1>1. Eos \notin UnitChars /\ Eos \notin UnitSeparator /\ Eos \notin {"/"} /\ Eos \notin Alpha
  <2>1. Eos \notin Alpha /\ Eos \notin Digit /\ Eos \notin {"-"} /\ Eos \notin UnitSeparator /\ Eos \notin {"/"}
    BY CharSets DEF UnitSeparator
  <2> QED
    BY <2>1 DEF UnitChars
<1>2. "E" \in Alpha /\ "-" \notin Alpha /\ "1" \notin Alpha /\ "1" \in Digit /\ "-" \notin Digit /\ "1" # "-"
  BY Zenon DEF Alpha, Digit
<1>3. "/" \notin Alpha /\ "." \notin Alpha /\ "/" \notin Digit /\ "." \notin Digit /\ "/" # "-" /\ "." # "-"
  BY Zenon DEF Alpha, Digit
<1>4. \A c \in UnitSeparator : c \notin UnitChars
  BY <1>3 DEF UnitSeparator, UnitChars
<1> QED
  BY <1>1, <1>2, <1>3, <1>4

(* A name of the grammar, with none of its characters behind it, is what   *)
(* skipUnit takes.                                                         *)
LEMMA UnitTaken ==
  ASSUME NEW s, Numeric(s), NEW p, NEW e, p \in 0 .. e, e \in 0 .. Len(s), IsIn(s, p, e, UNITNAME), At(s, e) \notin UnitChars
  PROVE  p < e /\ At(s, p) \in Alpha /\ skipUnit(s, p) = e
<1>1. s \in CharText /\ Short(s) /\ Len(s) \in Nat /\ p \in Nat /\ e \in Nat /\ p <= e
  BY DEF Numeric, Short, CharText
<1>2. PICK m \in p .. e : IsIn(s, p, m, Plus({"E"})) /\ IsIn(s, m, e, Opt(SignedDigit))
  <2>1. IsIn(s, p, e, Cat(Plus({"E"}), Opt(SignedDigit)))
    BY SuffixLanguages
  <2>2. CatParts(s, p, e, Plus({"E"}), Opt(SignedDigit))
    BY <1>1, <2>1, CatSplit, SuffixLanguages
  <2> QED
    BY <2>2 DEF CatParts
<1>3. m \in Nat /\ m \in 0 .. Len(s) /\ p \in 0 .. m /\ m \in 0 .. e /\ m <= e
  BY <1>1
<1>4. p < m /\ AllOf(s, p, m, {"E"})
  BY <1>1, <1>2, <1>3, PlusAt
<1>5. AllOf(s, p, m, Alpha) /\ At(s, p) \in Alpha
  <2>1. p \in p .. m - 1
    BY <1>1, <1>3, <1>4
  <2> QED
    BY <1>4, <2>1, UnitCharsApart DEF AllOf
<1>6. e = m \/ IsIn(s, m, e, SignedDigit)
  BY <1>1, <1>2, <1>3, PlusAt
<1>7. skipUnit(s, p) = skipOne(s, skipOne(s, skipAll(s, p, Alpha), {"-"}), Digit)
  BY DEF skipUnit
<1>8. At(s, m) \notin Alpha => skipAll(s, p, Alpha) = m
  BY <1>1, <1>3, <1>5, SkipIs, UnitCharsApart
<1>9. CASE e = m
  <2>1. At(s, m) \notin Alpha /\ At(s, m) \notin {"-"} /\ At(s, m) \notin Digit
    BY <1>9 DEF UnitChars
  <2> QED
    BY <1>4, <1>5, <1>7, <1>8, <1>9, <2>1 DEF skipOne
<1>10. CASE IsIn(s, m, e, SignedDigit)
  <2>1. PICK z \in m .. e : IsIn(s, m, z, Opt(One({"-"}))) /\ IsIn(s, z, e, One({"1"}))
    <3>1. CatParts(s, m, e, Opt(One({"-"})), One({"1"}))
      BY <1>1, <1>3, <1>10, CatSplit, SuffixLanguages DEF SignedDigit
    <3> QED
      BY <3>1 DEF CatParts
  <2>2. z \in Nat /\ z \in 0 .. Len(s) /\ m \in 0 .. z /\ z \in 0 .. e
    BY <1>1, <1>3
  <2>3. e = z + 1 /\ At(s, z) \in {"1"}
    BY <1>1, <2>1, <2>2, PlusAt
  <2>4. z = m \/ (z = m + 1 /\ At(s, m) \in {"-"})
    <3>1. z = m \/ IsIn(s, m, z, One({"-"}))
      BY <1>1, <2>1, <2>2, PlusAt
    <3> QED
      BY <1>1, <2>2, <3>1, PlusAt
  <2>5. At(s, z) \in Digit /\ At(s, z) \notin {"-"} /\ At(s, m) \notin Alpha
    BY <2>3, <2>4, UnitCharsApart
  <2>6. skipAll(s, p, Alpha) = m
    BY <1>8, <2>5
  <2>7. skipOne(s, m, {"-"}) = z
    BY <2>4, <2>5 DEF skipOne
  <2>8. skipOne(s, z, Digit) = e
    BY <2>3, <2>5 DEF skipOne
  <2>9. p < e
    BY <1>1, <1>3, <1>4
  <2> QED
    BY <1>5, <1>7, <2>6, <2>7, <2>8, <2>9
<1> QED
  BY <1>6, <1>9, <1>10

(* A separator and a name in front of names that are skipped to the end.   *)
LEMMA UnitInFront ==
  ASSUME NEW s, Numeric(s), NEW p, NEW e, p \in Nat, p + 1 \in 0 .. e, e \in 0 .. Len(s), At(s, p) \in UnitSeparator,
         IsIn(s, p + 1, e, UNITNAME), At(s, e) \notin UnitChars, skipUnits(s, e) = Len(s)
  PROVE  skipUnits(s, p) = Len(s)
<1>1. s \in CharText /\ Len(s) \in Nat /\ e \in Nat /\ p \in 0 .. Len(s)
  BY DEF Numeric, Short, CharText
<1>2. skipUnit(s, p + 1) = e
  BY UnitTaken
<1>3. p + 1 = skipOne(s, p, {"/", "."}) /\ p + 1 # p
  BY DEF skipOne, UnitSeparator
<1> QED
  BY <1>1, <1>2, <1>3, UnitsTurn

(* Where the text ends there is no further name.                           *)
LEMMA NoUnit ==
  ASSUME NEW s \in CharText, NEW p, p = Len(s)
  PROVE  At(s, p) \notin UnitChars /\ skipUnits(s, p) = Len(s)
<1>1. Len(s) \in Nat /\ p \in Nat /\ p \in 0 .. Len(s)
  BY DEF CharText
<1>2. At(s, p) = Eos
  BY <1>1, AtFacts
<1>3. p = skipOne(s, p, {"/", "."})
  BY <1>2, UnitCharsApart DEF skipOne, UnitSeparator
<1> QED
  BY <1>1, <1>2, <1>3, UnitsTurn, UnitCharsApart

(* Up to two further names are skipped to the end of the text.             *)
ToTheEnd(s, p, L) == IsIn(s, p, Len(s), L) => At(s, p) \notin UnitChars /\ skipUnits(s, p) = Len(s)
LEMMA MoreUnitsTaken ==
  ASSUME NEW s, Numeric(s)
  PROVE  \A p \in 0 .. Len(s) : ToTheEnd(s, p, Opt(LastUnit)) /\ ToTheEnd(s, p, Opt(MoreUnits))
<1>1. s \in CharText /\ Short(s) /\ Len(s) \in Nat /\ Len(s) \in 0 .. Len(s)
  BY DEF Numeric, Short, CharText
<1>2. ASSUME NEW p \in 0 .. Len(s), NEW B, Language(B), IsIn(s, p, Len(s), Opt(Cat(One(UnitSeparator), B))), p # Len(s)
      PROVE  p \in Nat /\ p + 1 \in 0 .. Len(s) /\ At(s, p) \in UnitSeparator /\ IsIn(s, p + 1, Len(s), B)
  <2>1. p \in Nat /\ p \in 0 .. Len(s)
    OBVIOUS
  <2>2. IsIn(s, p, Len(s), Cat(One(UnitSeparator), B))
    BY <1>1, <1>2, <2>1, PlusAt
  <2>3. CatParts(s, p, Len(s), One(UnitSeparator), B)
    BY <1>1, <1>2, <2>1, <2>2, CatSplit, SuffixLanguages
  <2>4. PICK m \in p .. Len(s) : IsIn(s, p, m, One(UnitSeparator)) /\ IsIn(s, m, Len(s), B)
    BY <2>3 DEF CatParts
  <2>5. m \in 0 .. Len(s) /\ p \in 0 .. m
    BY <1>1, <2>1
  <2>6. m = p + 1 /\ At(s, p) \in UnitSeparator
    BY <1>1, <2>4, <2>5, PlusAt
  <2> QED
    BY <2>1, <2>4, <2>5, <2>6
<1>3. ASSUME NEW p \in 0 .. Len(s), IsIn(s, p, Len(s), Opt(LastUnit))
      PROVE  At(s, p) \notin UnitChars /\ skipUnits(s, p) = Len(s)
  <2>1. CASE p = Len(s)
    BY <1>1, <2>1, NoUnit
  <2>2. CASE p # Len(s)
    <3>1. p \in Nat /\ p + 1 \in 0 .. Len(s) /\ At(s, p) \in UnitSeparator /\ IsIn(s, p + 1, Len(s), UNITNAME)
      BY <1>2, <1>3, <2>2, SuffixLanguages DEF LastUnit
    <3>2. At(s, Len(s)) \notin UnitChars /\ skipUnits(s, Len(s)) = Len(s)
      BY <1>1, NoUnit
    <3>3. skipUnits(s, p) = Len(s)
      BY <1>1, <3>1, <3>2, UnitInFront
    <3> QED
      BY <3>1, <3>3, UnitCharsApart
  <2> QED
    BY <2>1, <2>2
<1>4. ASSUME NEW p \in 0 .. Len(s), IsIn(s, p, Len(s), Opt(MoreUnits))
      PROVE  At(s, p) \notin UnitChars /\ skipUnits(s, p) = Len(s)
  <2>1. CASE p = Len(s)
    BY <1>1, <2>1, NoUnit
  <2>2. CASE p # Len(s)
    <3>1. p \in Nat /\ p + 1 \in 0 .. Len(s) /\ At(s, p) \in UnitSeparator /\ IsIn(s, p + 1, Len(s), NextUnit)
      BY <1>2, <1>4, <2>2, SuffixLanguages DEF MoreUnits
    <3>2. CatParts(s, p + 1, Len(s), UNITNAME, Opt(LastUnit))
      BY <1>1, <3>1, CatSplit, SuffixLanguages DEF NextUnit
    <3>3. PICK e \in p + 1 .. Len(s) : IsIn(s, p + 1, e, UNITNAME) /\ IsIn(s, e, Len(s), Opt(LastUnit))
      BY <3>2 DEF CatParts
    <3>4. e \in 0 .. Len(s) /\ p + 1 \in 0 .. e
      BY <1>1, <3>1
    <3>5. At(s, e) \notin UnitChars /\ skipUnits(s, e) = Len(s)
      BY <1>3, <3>3, <3>4
    <3>6. skipUnits(s, p) = Len(s)
      BY <3>1, <3>3, <3>4, <3>5, UnitInFront
    <3> QED
      BY <3>1, <3>6, UnitCharsApart
  <2> QED
    BY <2>1, <2>2
<1> QED
  BY <1>3, <1>4 DEF ToTheEnd

(* A suffix of the grammar is taken to its end.                            *)
LEMMA SuffixTaken ==
  ASSUME NEW s, Numeric(s), s \in SUFFIX
  PROVE  scpiLex_SuffixProgramData(s, 0).len = Len(s)
<1> DEFINE q == skipOne(s, 0, {"/"})
           k == IF At(s, q) \in Alpha THEN skipUnits(s, skipUnit(s, q)) ELSE q
<1>1. s \in CharText /\ Short(s) /\ Len(s) \in Nat /\ Len(s) \in 0 .. Len(s) /\ 0 \in 0 .. Len(s)
  BY DEF Numeric, Short, CharText
<1>2. IsIn(s, 0, Len(s), Cat(Opt(One({"/"})), FirstUnit))
  <2>1. SubSeq(s, 1, Len(s)) = s /\ 0 + 1 = 1
    BY <1>1 DEF CharText
  <2>2. s \in Cat(Opt(One({"/"})), FirstUnit)
    BY SuffixLanguages
  <2> QED
    BY <2>1, <2>2 DEF IsIn
<1>3. PICK m \in 0 .. Len(s) : IsIn(s, 0, m, Opt(One({"/"}))) /\ IsIn(s, m, Len(s), FirstUnit)
  <2>1. CatParts(s, 0, Len(s), Opt(One({"/"})), FirstUnit)
    BY <1>1, <1>2, CatSplit, SuffixLanguages
  <2> QED
    BY <2>1 DEF CatParts
<1>4. PICK e \in m .. Len(s) : IsIn(s, m, e, UNITNAME) /\ IsIn(s, e, Len(s), Opt(MoreUnits))
  <2>1. CatParts(s, m, Len(s), UNITNAME, Opt(MoreUnits))
    BY <1>1, <1>3, CatSplit, SuffixLanguages DEF FirstUnit
  <2> QED
    BY <2>1 DEF CatParts
<1>5. m \in Nat /\ 0 \in 0 .. m /\ e \in 0 .. Len(s) /\ m \in 0 .. e
  BY <1>1
<1>6. At(s, e) \notin UnitChars /\ skipUnits(s, e) = Len(s)
  BY <1>4, <1>5, MoreUnitsTaken DEF ToTheEnd
<1>7. At(s, m) \in Alpha /\ skipUnit(s, m) = e
  BY <1>4, <1>5, <1>6, UnitTaken
<1>8. m = 0 \/ (m = 1 /\ At(s, 0) \in {"/"})
  <2>1. m = 0 \/ IsIn(s, 0, m, One({"/"}))
    BY <1>1, <1>3, <1>5, PlusAt
  <2>2. IsIn(s, 0, m, One({"/"})) => m = 0 + 1 /\ At(s, 0) \in {"/"}
    BY <1>1, <1>5, PlusAt
  <2> QED
    BY <2>1, <2>2
<1>9. q = m
  <2>1. CASE m = 0
    <3>1. At(s, 0) \notin {"/"}
      BY <1>7, <2>1, UnitCharsApart
    <3> QED
      BY <2>1, <3>1 DEF skipOne
  <2>2. CASE m = 1 /\ At(s, 0) \in {"/"}
    BY <2>2 DEF skipOne
  <2> QED
    BY <1>8, <2>1, <2>2
<1>10. scpiLex_SuffixProgramData(s, 0) = Found("SUFFIX_PROGRAM_DATA", 0, k)
  BY DEF scpiLex_SuffixProgramData
<1>11. k = Len(s)
  <2> HIDE DEF q
  <2> QED
    BY <1>6, <1>7, <1>9
<1> HIDE DEF k
<1>12. Found("SUFFIX_PROGRAM_DATA", 0, Len(s)).len = Len(s) - 0
  BY <1>1, FoundFacts
<1> QED
  BY <1>1, <1>10, <1>11, <1>12

(* Texts of the characters that the grammar is checked on.                 *)
LEMMA NumericTexts ==
  ASSUME NEW s \in CharText, Len(s) <= MaxLen, Range(s) \subseteq {"1", "+", "-", ".", "E", "/", Space}
  PROVE  Numeric(s)
<1> DEFINE C == {"1", "+", "-", ".", "E", "/", Space}
<1>1. /\ \A c \in C : c \in Digit <=> c \in {"1"}
      /\ \A c \in C : c \in Alpha <=> c \in {"E"}
  <2> SUFFICES ASSUME NEW c \in C
               PROVE  (c \in Digit <=> c \in {"1"}) /\ (c \in Alpha <=> c \in {"E"})
    OBVIOUS
  <2>1. CASE c = Space
    <3>1. Space \notin Digit /\ Space \notin Alpha
      BY Zenon DEF Space, Digit, Alpha
    <3>2. Space \notin {"1"} /\ Space \notin {"E"}
      BY Zenon DEF Space
    <3> QED
      BY <2>1, <3>1, <3>2
  <2>2. CASE c \in {"1", "+", "-", ".", "E", "/"}
    BY <2>2 DEF Digit, Alpha
  <2>3. c = Space \/ c \in {"1", "+", "-", ".", "E", "/"}
    OBVIOUS
  <2> QED
    BY <2>1, <2>2, <2>3
<1>2. Eos \notin Digit /\ Eos \notin Alpha /\ Eos \notin {"1"} /\ Eos \notin {"E"}
  <2>1. Eos \notin {"1"} /\ Eos \notin {"E"}
    BY Zenon DEF Eos
  <2> QED
    BY <2>1, CharSets
<1>3. Range(s) \subseteq C
  OBVIOUS
<1> HIDE DEF C
<1>4. ASSUME NEW i \in Nat
      PROVE  At(s, i) \in C \/ At(s, i) = Eos
  <2>1. CASE i < Len(s)
    <3>1. At(s, i) = s[i + 1]
      BY <2>1, AtFacts
    <3>2. i + 1 \in DOMAIN s
      BY <2>1 DEF CharText
    <3>3. s[i + 1] \in Range(s)
      BY <3>2 DEF Range
    <3> QED
      BY <1>3, <3>1, <3>3
  <2>2. CASE ~(i < Len(s))
    <3>1. Len(s) \in Nat
      BY DEF CharText
    <3>2. i >= Len(s)
      BY <2>2, <3>1
    <3> QED
      BY <3>2, AtFacts
  <2> QED
    BY <2>1, <2>2
<1>5. \A i \in Nat : At(s, i) \in Digit <=> At(s, i) \in {"1"}
  BY <1>1, <1>2, <1>4
<1>6. \A i \in Nat : At(s, i) \in Alpha <=> At(s, i) \in {"E"}
  BY <1>1, <1>2, <1>4
<1> QED
  BY <1>5, <1>6 DEF Numeric, Short

(* scpiLex_DecimalNumericProgramData takes the longest decimal number of   *)
(* the grammar that the text starts with, and scpiLex_SuffixProgramData a  *)
(* whole suffix of the grammar: for all texts of the digit 1, the letter E *)
(* and what may stand between them, of any length (MaxLen is any number).  *)
THEOREM CommandNumbersAreLongest == Spec => []NumbersAreLongest
<1>1. CommandInv => NumbersAreLongest
  <2> SUFFICES ASSUME CommandInv, Len(text) <= MaxLen, Range(text) \subseteq {"1", "+", "-", ".", "E", "/", Space}
               PROVE  /\ scpiLex_DecimalNumericProgramData(text, 0).len = Longest(text, DECIMAL)
                      /\ text \in SUFFIX => scpiLex_SuffixProgramData(text, 0).len = Len(text)
    BY DEF NumbersAreLongest
  <2>1. text \in CharText
    BY DEF CommandInv, DataInv
  <2>2. Numeric(text)
    BY <2>1, NumericTexts
  <2> QED
    BY <2>2, DecimalLongest, SuffixTaken
<1> QED
  BY <1>1, CommandInside, PTL
=============================================================================
