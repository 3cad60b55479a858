-------------------------- MODULE ScpiInputProofs --------------------------
(***************************************************************************)
(* Proofs about ScpiInput.tla: for every buffer size, every text and every *)
(* command table SCPI_Input stays inside its buffer, hands whole lines to  *)
(* SCPI_Parse, executes exactly what was received, leaves only text that   *)
(* is not a line yet (or waits behind an empty unit), keeps results apart  *)
(* and executes every line with the headers its text says.                 *)
(***************************************************************************)
EXTENDS ScpiInput, SequenceTheorems, WellFoundedInduction, TLAPS

(* Going up from a member a of T, k is reached or the first number outside *)
(* T is met.                                                               *)
LEMMA FirstOutside ==
  ASSUME NEW T, NEW a \in Nat, NEW k \in Nat, a <= k, a \in T
  PROVE  \E n \in a .. k : a .. n \subseteq T /\ (n < k => n + 1 \notin T)
<1> DEFINE R == OpToRel(<, Nat)
           S == {i \in a .. k : i \notin T}
<1>1. \A x, y \in Nat : y < x => <<y, x>> \in R
  BY DEF OpToRel
<1>2. IsWellFoundedOn(R, Nat)
  BY NatLessThanWellFounded
<1>3. S \subseteq Nat
  OBVIOUS
<1> HIDE DEF R
<1>4. CASE S = {}
  <2>1. a .. k \subseteq T
    BY <1>4
  <2> QED
    BY <2>1
<1>5. CASE S # {}
  <2> HIDE DEF S
  <2>1. PICK x \in S : \A y \in S : ~(<<y, x>> \in R)
    BY <1>2, <1>3, <1>5, WFMin
  <2>2. \A y \in S : x <= y
    <3> SUFFICES ASSUME NEW y \in S PROVE x <= y
      OBVIOUS
    <3>1. x \in Nat /\ y \in Nat /\ ~(<<y, x>> \in R)
      BY <1>3, <2>1
    <3>2. ~(y < x)
      BY <1>1, <3>1
    <3> QED
      BY <3>1, <3>2
  <2>3. x \in a .. k /\ x \notin T /\ x # a
    BY DEF S
  <2>4. \A i \in a .. x - 1 : i \in T
    BY <2>2, <2>3 DEF S
  <2>5. x - 1 \in a .. k /\ (x - 1) + 1 = x
    BY <2>3
  <2> QED
    BY <2>3, <2>4, <2>5
<1> QED
  BY <1>4, <1>5

(* Going down from k, 0 or the last member of T is met.                    *)
LEMMA LastInside ==
  ASSUME NEW T, NEW k \in Nat
  PROVE  \E n \in 0 .. k : (n > 0 => n \in T) /\ \A i \in n + 1 .. k : i \notin T
<1> DEFINE D == {0} \cup {m \in 1 .. k : k - m + 1 \notin T}
<1>1. PICK n \in 0 .. k : 0 .. n \subseteq D /\ (n < k => n + 1 \notin D)
  <2>1. 0 \in D /\ 0 <= k
    OBVIOUS
  <2> HIDE DEF D
  <2> QED
    BY <2>1, FirstOutside
<1>2. ASSUME NEW i \in k - n + 1 .. k
      PROVE  i \notin T
  <2>1. k - i + 1 \in 1 .. n /\ k - (k - i + 1) + 1 = i
    OBVIOUS
  <2> QED
    BY <1>1, <2>1
<1>3. ASSUME k - n > 0
      PROVE  k - n \in T
  <2>1. n + 1 \in 1 .. k /\ n + 1 \notin D
    BY <1>1, <1>3
  <2> QED
    BY <2>1
<1> QED
  BY <1>2, <1>3
-----------------------------------------------------------------------------
(* What the lexer skips.                                                   *)

(* The longest header at the start of s: behind it is no letter.           *)
LEMMA HeaderFacts ==
  ASSUME NEW s \in Seq(STRING), NEW h, h = scpiLex_ProgramHeader(s)
  PROVE  /\ h \in 0 .. Len(s)
         /\ \A i \in 1 .. h : s[i] # "n"
         /\ \A i \in 1 .. h : Letter(s[i]) \/ s[i] \in {"*", ":"}
         /\ h < Len(s) => ~Letter(s[h+1])
         /\ IsHeader(SubSeq(s, 1, h))
         /\ h < Len(s) => ~IsHeader(SubSeq(s, 1, h + 1))
<1> DEFINE P(n) == IsHeader(SubSeq(s, 1, n))
           T == {n \in 0 .. Len(s) : P(n)}
<1>1. Len(s) \in Nat /\ \A i \in 1 .. Len(s) : s[i] \in STRING
  BY ElementOfSeq
<1>2. ASSUME NEW n \in 0 .. Len(s)
      PROVE  /\ Len(SubSeq(s, 1, n)) = n
             /\ \A i \in 1 .. n : SubSeq(s, 1, n)[i] = s[i]
  <2>1. \A i \in 1 .. n : s[i] \in STRING
    BY <1>1
  <2> QED
    BY <1>1, <2>1, SubSeqProperties
<1>3. 0 \in T
  BY <1>1, <1>2 DEF IsHeader
<1>4. \E n \in 0 .. Len(s) : P(n) /\ (n < Len(s) => ~P(n + 1))
  <2>1. PICK n \in 0 .. Len(s) : 0 .. n \subseteq T /\ (n < Len(s) => n + 1 \notin T)
    <3>1. 0 \in Nat /\ 0 <= Len(s)
      BY <1>1
    <3> HIDE DEF T
    <3> QED
      BY <1>1, <1>3, <3>1, FirstOutside
  <2>2. P(n) /\ (n < Len(s) => ~P(n + 1))
    BY <1>1, <2>1
  <2> QED
    BY <2>2
<1>5. h \in 0 .. Len(s) /\ P(h) /\ (h < Len(s) => ~P(h + 1))
  <2> HIDE DEF T
  <2> QED
    BY <1>4 DEF scpiLex_ProgramHeader
<1>6. \A i \in 1 .. h : Letter(s[i]) \/ s[i] \in {"*", ":"}
  BY <1>2, <1>5 DEF IsHeader
<1>8. \A i \in 1 .. h : s[i] # "n"
  BY <1>6 DEF Letter
<1>7. ASSUME h < Len(s), Letter(s[h+1])
      PROVE  P(h + 1)
  <2>1. h + 1 \in 0 .. Len(s) /\ h \in Nat
    BY <1>1, <1>5, <1>7
  <2> DEFINE a == SubSeq(s, 1, h)
             b == SubSeq(s, 1, h + 1)
  <2>2. /\ Len(a) = h /\ \A i \in 1 .. h : a[i] = s[i]
        /\ Len(b) = h + 1 /\ \A i \in 1 .. h + 1 : b[i] = s[i]
    BY <1>2, <1>5, <2>1
  <2>3. IsHeader(a)
    BY <1>5
  <2> HIDE DEF a, b
  <2>4. \A i \in 1 .. h : b[i] = a[i]
    BY <2>1, <2>2
  <2>5. Letter(b[h + 1])
    BY <1>7, <2>1, <2>2
  <2>6. \A i \in 1 .. Len(b) : Letter(b[i]) \/ b[i] \in {"*", ":"}
    BY <2>1, <2>2, <2>3, <2>4, <2>5 DEF IsHeader
  <2>7. ASSUME NEW i \in 2 .. Len(b)
        PROVE  /\ b[i] # "*"
               /\ b[i] = ":" => b[i-1] # ":" /\ b[1] # "*"
    <3>1. CASE i = h + 1
      BY <2>5, <3>1 DEF Letter
    <3>2. CASE i # h + 1
      <4>1. i \in 2 .. Len(a) /\ i \in 1 .. h /\ i - 1 \in 1 .. h /\ 1 \in 1 .. h
        BY <2>1, <2>2, <3>2
      <4> QED
        BY <2>3, <2>4, <4>1 DEF IsHeader
    <3> QED
      BY <3>1, <3>2
  <2>8. IsHeader(b)
    BY <2>6, <2>7 DEF IsHeader
  <2> QED
    BY <2>8 DEF b
<1> QED
  BY <1>5, <1>6, <1>7, <1>8

(* The data behind a header of length h: a digit and letters, and behind   *)
(* it is no letter.                                                        *)
LEMMA DataFacts ==
  ASSUME NEW s \in Seq(STRING), NEW h \in 0 .. Len(s), NEW d, d = DataLen(s, h)
  PROVE  /\ d \in 0 .. Len(s) - h
         /\ h = 0 => d = 0
         /\ d > 0 => s[h+1] = "p"
         /\ h > 0 /\ h < Len(s) /\ d = 0 => s[h+1] # "p"
         /\ \A i \in h + 2 .. h + d : Letter(s[i])
         /\ \A i \in h + 1 .. h + d : s[i] # "n"
         /\ d > 0 /\ h + d < Len(s) => ~Letter(s[h+d+1])
<1>1. Len(s) \in Nat
  OBVIOUS
<1>2. CASE h = 0 \/ h = Len(s) \/ s[h+1] # "p"
  BY <1>1, <1>2 DEF DataLen
<1>3. CASE ~(h = 0 \/ h = Len(s) \/ s[h+1] # "p")
  <2> DEFINE T == {1} \cup {i \in 1 .. Len(s) - h : Letter(s[h+i])}
             Q(n) == /\ \A i \in 2 .. n : Letter(s[h+i])
                     /\ h + n < Len(s) => ~Letter(s[h+n+1])
  <2>1. h \in Nat /\ Len(s) - h \in Nat /\ 1 <= Len(s) - h
    BY <1>1, <1>3
  <2>2. PICK n \in 1 .. Len(s) - h : 1 .. n \subseteq T /\ (n < Len(s) - h => n + 1 \notin T)
    <3>1. 1 \in T
      OBVIOUS
    <3> HIDE DEF T
    <3> QED
      BY <2>1, <3>1, FirstOutside
  <2>3. Q(n)
    <3>1. \A i \in 2 .. n : i \in T /\ i # 1
      BY <2>1, <2>2
    <3>2. \A i \in 2 .. n : Letter(s[h+i])
      BY <3>1
    <3>3. ASSUME h + n < Len(s)
          PROVE  ~Letter(s[h+n+1])
      <4>1. n + 1 \in 1 .. Len(s) - h /\ n + 1 \notin T /\ h + (n + 1) = h + n + 1
        BY <1>1, <2>1, <2>2, <3>3
      <4> QED
        BY <4>1
    <3> QED
      BY <3>2, <3>3
  <2>4. d = CHOOSE m \in 1 .. Len(s) - h : Q(m)
    BY <1>3 DEF DataLen
  <2> HIDE DEF T
  <2>5. d \in 1 .. Len(s) - h /\ Q(d)
    <3> HIDE DEF Q
    <3> QED
      BY <2>3, <2>4
  <2>6. ASSUME NEW i \in h + 2 .. h + d
        PROVE  Letter(s[i])
    <3>1. i - h \in 2 .. d /\ h + (i - h) = i
      BY <2>1, <2>5
    <3>2. Letter(s[h + (i - h)])
      BY <2>5, <3>1
    <3> QED
      BY <3>1, <3>2
  <2>7. ASSUME NEW i \in h + 1 .. h + d
        PROVE  s[i] # "n"
    <3>1. CASE i = h + 1
      BY <1>3, <3>1
    <3>2. CASE i # h + 1
      <4>1. i \in h + 2 .. h + d
        BY <2>1, <2>5, <3>2
      <4> QED
        BY <2>6, <4>1 DEF Letter
    <3> QED
      BY <3>1, <3>2
  <2> QED
    BY <1>3, <2>1, <2>5, <2>6, <2>7
<1> QED
  BY <1>2, <1>3

(* What the unit u that is found at the start of s may be relied on for:   *)
(* it lies in s, a line ending can only be its last character, unless it   *)
(* is all of s it ends with the first character that does not continue a   *)
(* unit, and an empty unit is a terminator alone.                          *)
UnitRight(s, u) ==
  /\ u.used \in 0 .. Len(s)
  /\ u.type = "header" => u.header \in 0 .. u.used
  /\ u.term = "n" => u.used > 0
  /\ \A i \in 1 .. u.used : (s[i] = "n") <=> (u.term = "n" /\ i = u.used)
  /\ u.used < Len(s) => u.used > 0 /\ EndsAt(s, 0, u.used)
  /\ u.type = "unknown" /\ u.term # "n" /\ u.used < Len(s) => u.used = 1 /\ s[1] = ";"

(* The header and the data that are found are all of the unit.             *)
LEMMA LongestUnit ==
  ASSUME NEW s \in Seq(STRING), NEW h, h = scpiLex_ProgramHeader(s),
         NEW d, d = DataLen(s, h)
  PROVE  h + d < Len(s) => EndsAt(s, 0, h + d + 1)
<1>1. Len(s) \in Nat /\ \A i \in 1 .. Len(s) : s[i] \in STRING
  BY ElementOfSeq
<1>2. /\ h \in 0 .. Len(s) /\ IsHeader(SubSeq(s, 1, h))
      /\ \A i \in 1 .. h : Letter(s[i]) \/ s[i] \in {"*", ":"}
      /\ h < Len(s) => ~IsHeader(SubSeq(s, 1, h + 1))
  BY HeaderFacts
<1>3. /\ d \in 0 .. Len(s) - h
      /\ h = 0 => d = 0
      /\ d > 0 => s[h+1] = "p"
      /\ h > 0 /\ h < Len(s) /\ d = 0 => s[h+1] # "p"
      /\ \A i \in h + 2 .. h + d : Letter(s[i])
      /\ d > 0 /\ h + d < Len(s) => ~Letter(s[h+d+1])
  BY <1>2, DataFacts
<1> SUFFICES ASSUME h + d < Len(s)
             PROVE  EndsAt(s, 0, h + d + 1)
  OBVIOUS
<1>4. h \in Nat /\ d \in Nat /\ h + d \in 0 .. Len(s) /\ h + d + 1 \in 0 .. Len(s)
      /\ h < Len(s)
  BY <1>1, <1>2, <1>3
<1>5. ASSUME NEW n \in 0 .. Len(s)
      PROVE  /\ Len(SubSeq(s, 1, n)) = n
             /\ \A i \in 1 .. n : SubSeq(s, 1, n)[i] = s[i]
  <2>1. \A i \in 1 .. n : s[i] \in STRING
    BY <1>1
  <2> QED
    BY <1>1, <2>1, SubSeqProperties
<1>6. ASSUME NEW n \in 0 .. Len(s), NEW m \in 0 .. n
      PROVE  SubSeq(SubSeq(s, 1, n), 1, m) = SubSeq(s, 1, m)
  <2> DEFINE a == SubSeq(s, 1, n)
  <2>1. a \in Seq(STRING)
    <3>1. \A i \in 1 .. n : s[i] \in STRING
      BY <1>1
    <3> QED
      BY <1>1, <3>1, SubSeqProperties
  <2>2. Len(a) = n /\ \A i \in 1 .. n : a[i] = s[i]
    BY <1>5
  <2> HIDE DEF a
  <2> DEFINE b == SubSeq(a, 1, m)
             c == SubSeq(s, 1, m)
  <2>3. /\ b \in Seq(STRING) /\ Len(b) = m
        /\ \A i \in 1 .. m : b[i] = a[i]
    <3>1. \A i \in 1 .. m : a[i] \in STRING
      BY <1>1, <2>2
    <3> QED
      BY <2>1, <2>2, <3>1, SubSeqProperties
  <2>4. /\ c \in Seq(STRING) /\ Len(c) = m
        /\ \A i \in 1 .. m : c[i] = s[i]
    <3>1. m \in 0 .. Len(s) /\ \A i \in 1 .. m : s[i] \in STRING
      BY <1>1
    <3> QED
      BY <1>1, <3>1, SubSeqProperties
  <2> HIDE DEF b, c
  <2>5. b = c
    BY <2>2, <2>3, <2>4, SeqEqual
  <2> QED
    BY <2>5 DEF a, b, c
<1>7. h > 0 => IsUnit(SubSeq(s, 1, h + d))
  <2> SUFFICES ASSUME h > 0 PROVE IsUnit(SubSeq(s, 1, h + d))
    OBVIOUS
  <2> DEFINE t == SubSeq(s, 1, h + d)
  <2>1. Len(t) = h + d /\ \A i \in 1 .. h + d : t[i] = s[i]
    BY <1>4, <1>5
  <2>6. h \in 0 .. h + d
    BY <1>4
  <2>7. SubSeq(t, 1, h) = SubSeq(s, 1, h)
    BY <1>4, <1>6, <2>6
  <2>2. IsHeader(SubSeq(t, 1, h))
    BY <1>2, <2>7
  <2> HIDE DEF t
  <2>3. ASSUME NEW i \in h + 1 .. Len(t)
        PROVE  IF i = h + 1 THEN t[i] = "p" ELSE Letter(t[i])
    <3>1. i \in 1 .. h + d /\ d > 0 /\ t[i] = s[i]
      BY <1>4, <2>1
    <3>2. i # h + 1 => i \in h + 2 .. h + d
      BY <1>4, <2>1
    <3> QED
      BY <1>3, <3>1, <3>2
  <2>4. h \in 1 .. Len(t)
    BY <1>4, <2>1
  <2>5. IsUnit(t)
    BY <2>2, <2>3, <2>4 DEF IsUnit
  <2> QED
    BY <2>5 DEF t
<1>8. ~IsUnit(SubSeq(s, 1, h + d + 1))
  <2> DEFINE t == SubSeq(s, 1, h + d + 1)
  <2> SUFFICES ASSUME IsUnit(t) PROVE FALSE
    OBVIOUS
  <2>1. Len(t) = h + d + 1 /\ \A i \in 1 .. h + d + 1 : t[i] = s[i]
    BY <1>4, <1>5
  <2>2. \A m \in 0 .. h + d + 1 : SubSeq(t, 1, m) = SubSeq(s, 1, m)
    BY <1>4, <1>6
  <2> HIDE DEF t
  <2>3. PICK k \in 1 .. Len(t) :
          /\ IsHeader(SubSeq(t, 1, k))
          /\ \A i \in k + 1 .. Len(t) : IF i = k + 1 THEN t[i] = "p" ELSE Letter(t[i])
    BY DEF IsUnit
  <2>8. k \in 1 .. h + d + 1 /\ k \in 0 .. h + d + 1
    BY <1>4, <2>1
  <2>9. SubSeq(t, 1, k) = SubSeq(s, 1, k)
    BY <2>2, <2>8
  <2>4. IsHeader(SubSeq(s, 1, k)) /\ k \in 1 .. h + d + 1
    BY <2>3, <2>8, <2>9
  <2>5. CASE k < h
    <3>1. k + 1 \in k + 1 .. Len(t) /\ k + 1 \in 1 .. h /\ k + 1 \in 1 .. h + d + 1
      BY <1>4, <2>1, <2>4, <2>5
    <3>2. s[k+1] = "p"
      BY <2>1, <2>3, <3>1
    <3>3. Letter(s[k+1]) \/ s[k+1] \in {"*", ":"}
      BY <1>2, <3>1
    <3> QED
      BY <3>2, <3>3 DEF Letter
  <2>6. CASE k = h
    <3>1. h + d + 1 \in k + 1 .. Len(t) /\ h + d + 1 \in 1 .. h + d + 1
      BY <1>4, <2>1, <2>6
    <3>2. IF h + d + 1 = k + 1 THEN t[h + d + 1] = "p" ELSE Letter(t[h + d + 1])
      BY <2>3, <3>1
    <3>3. t[h + d + 1] = s[h + d + 1]
      BY <2>1, <3>1
    <3>4. CASE d = 0
      <4>1. h + d + 1 = h + 1 /\ h > 0
        BY <1>4, <2>4, <2>6, <3>4
      <4> QED
        BY <1>3, <1>4, <2>6, <3>2, <3>3, <3>4, <4>1
    <3>5. CASE d # 0
      <4>1. h + d + 1 # k + 1 /\ d > 0
        BY <1>4, <2>6, <3>5
      <4> QED
        BY <1>3, <3>2, <3>3, <4>1
    <3> QED
      BY <3>4, <3>5
  <2>7. CASE k > h
    <3> DEFINE a == SubSeq(s, 1, h + 1)
               b == SubSeq(s, 1, k)
    <3>1. h + 1 \in 0 .. Len(s) /\ k \in 0 .. Len(s) /\ h + 1 <= k
      BY <1>4, <2>4, <2>7
    <3>2. /\ Len(a) = h + 1 /\ \A i \in 1 .. h + 1 : a[i] = s[i]
          /\ Len(b) = k /\ \A i \in 1 .. k : b[i] = s[i]
      BY <1>5, <3>1
    <3>3. IsHeader(b)
      BY <2>4
    <3> HIDE DEF a, b
    <3>9. \A i \in 1 .. h + 1 : i \in 1 .. k
      BY <1>4, <3>1
    <3>4. \A i \in 1 .. h + 1 : i \in 1 .. k /\ a[i] = b[i]
      BY <3>2, <3>9
    <3>5. \A i \in 1 .. Len(a) : i \in 1 .. Len(b) /\ a[i] = b[i]
      BY <3>2, <3>4
    <3>6. \A i \in 1 .. Len(a) : Letter(a[i]) \/ a[i] \in {"*", ":"}
      BY <3>3, <3>5 DEF IsHeader
    <3>7. ASSUME NEW i \in 2 .. Len(a)
          PROVE  /\ a[i] # "*"
                 /\ a[i] = ":" => a[i-1] # ":" /\ a[1] # "*"
      <4>1. i \in 1 .. Len(a) /\ i - 1 \in 1 .. Len(a) /\ 1 \in 1 .. Len(a) /\ i \in 2 .. Len(b)
        BY <1>4, <3>1, <3>2
      <4>2. a[i] = b[i] /\ a[i-1] = b[i-1] /\ a[1] = b[1]
        BY <3>5, <4>1
      <4> QED
        BY <3>3, <4>1, <4>2 DEF IsHeader
    <3>8. IsHeader(a)
      BY <3>6, <3>7 DEF IsHeader
    <3> QED
      BY <1>2, <1>4, <3>8 DEF a
  <2> QED
    BY <1>4, <2>4, <2>5, <2>6, <2>7
<1>9. h + d + 1 = 0 + 1 \/ h > 0
  BY <1>3, <1>4
<1>10. 0 + 1 = 1 /\ (h + d + 1) - 1 = h + d
  BY <1>4
<1> QED
  BY <1>7, <1>8, <1>9, <1>10 DEF EndsAt

LEMMA UnitFacts ==
  ASSUME NEW s \in Seq(STRING), NEW u, u = scpiParser_detectProgramMessageUnit(s)
  PROVE  UnitRight(s, u)
<1> DEFINE h == scpiLex_ProgramHeader(s)
           d == DataLen(s, h)
           n == h + d
           term == IF n < Len(s) /\ s[n+1] \in {";", "n"} THEN s[n+1] ELSE "none"
           bad == n < Len(s) /\ term = "none"
<1>1. Len(s) \in Nat
  OBVIOUS
<1>2. /\ u.used = CASE bad -> n + 1 [] term # "none" -> n + 1 [] OTHER -> n
      /\ u.type = CASE bad -> "invalid" [] h > 0 /\ ~bad -> "header" [] OTHER -> "unknown"
      /\ u.header = IF bad THEN 1 ELSE h
      /\ u.term = term
  BY DEF scpiParser_detectProgramMessageUnit, UnitAt
<1>9. n < Len(s) => EndsAt(s, 0, n + 1)
  BY LongestUnit
<1>3. /\ h \in 0 .. Len(s)
      /\ \A i \in 1 .. h : s[i] # "n"
  BY HeaderFacts
<1> HIDE DEF h
<1>4. /\ d \in 0 .. Len(s) - h
      /\ h = 0 => d = 0
      /\ \A i \in h + 1 .. h + d : s[i] # "n"
  BY <1>3, DataFacts
<1> HIDE DEF d
<1>5. /\ n \in 0 .. Len(s) /\ h \in 0 .. n
      /\ \A i \in 1 .. n : s[i] # "n"
      /\ h = 0 => n = 0
  <2>1. h \in Nat /\ d \in Nat
    BY <1>1, <1>3, <1>4
  <2>2. CASE d = 0
    BY <1>1, <1>3, <1>4, <2>1, <2>2
  <2>3. CASE d > 0
    BY <1>1, <1>3, <1>4, <2>1, <2>3
  <2> QED
    BY <2>1, <2>2, <2>3
<1> HIDE DEF n
<1>6. CASE bad
  <2>1. u.used = n + 1 /\ u.type = "invalid" /\ u.term = "none"
    BY <1>2, <1>6
  <2>2. s[n+1] # "n" /\ n < Len(s)
    BY <1>6
  <2> QED
    BY <1>1, <1>5, <1>9, <2>1, <2>2 DEF UnitRight
<1>7. CASE term # "none"
  <2>1. n < Len(s) /\ s[n+1] \in {";", "n"} /\ ~bad
    BY <1>7
  <2>2. u.used = n + 1 /\ u.header = h
    BY <1>2, <1>7, <2>1
  <2>3. u.term = s[n+1]
    BY <1>2, <2>1
  <2>4. h > 0 => u.type = "header"
    BY <1>2, <2>1
  <2> HIDE DEF term, bad
  <2>5. u.used \in 0 .. Len(s) /\ h \in 0 .. u.used /\ u.used > 0
    <3>1. n < Len(s)
      BY <2>1
    <3> QED
      BY <1>1, <1>5, <2>2, <3>1
  <2>6. ASSUME NEW i \in 1 .. u.used
        PROVE  (s[i] = "n") <=> (u.term = "n" /\ i = u.used)
    <3>1. CASE i = u.used
      BY <2>2, <2>3, <3>1
    <3>2. CASE i # u.used
      <4>1. i \in 1 .. n
        BY <1>1, <1>5, <2>2, <3>2
      <4> QED
        BY <1>5, <3>2, <4>1
    <3> QED
      BY <3>1, <3>2
  <2>7. EndsAt(s, 0, u.used)
    BY <1>9, <2>1, <2>2
  <2>8. u.type = "unknown" /\ u.term # "n" => u.used = 1 /\ s[1] = ";"
    <3> SUFFICES ASSUME u.type = "unknown", u.term # "n"
                 PROVE  u.used = 1 /\ s[1] = ";"
      OBVIOUS
    <3>1. ~(h > 0)
      BY <2>4
    <3>2. n = 0
      BY <1>1, <1>5, <3>1
    <3>3. n + 1 = 1
      BY <3>2
    <3> QED
      BY <2>1, <2>2, <2>3, <3>3
  <2> QED
    BY <2>2, <2>5, <2>6, <2>7, <2>8 DEF UnitRight
<1>8. CASE ~bad /\ term = "none"
  <2>1. u.used = n /\ u.term = "none" /\ ~(n < Len(s)) /\ u.header = h
    BY <1>2, <1>8
  <2> QED
    BY <1>1, <1>5, <2>1 DEF UnitRight
<1> QED
  BY <1>6, <1>7, <1>8
-----------------------------------------------------------------------------
(* The buffer.                                                             *)

(* Part of s, from behind its first m characters to its n-th.              *)
LEMMA PartFacts ==
  ASSUME NEW s \in Seq(STRING), NEW n \in 0 .. Len(s), NEW m \in 0 .. n
  PROVE  /\ SubSeq(s, m + 1, n) \in Seq(STRING)
         /\ Len(SubSeq(s, m + 1, n)) = n - m
         /\ \A i \in 1 .. n - m : SubSeq(s, m + 1, n)[i] = s[m+i]
<1>1. \A i \in m + 1 .. n : s[i] \in STRING
  BY ElementOfSeq
<1>2. m + 1 \in Int /\ n \in Int /\ n - (m + 1) + 1 = n - m
  OBVIOUS
<1>3. /\ SubSeq(s, m + 1, n) \in Seq(STRING)
      /\ Len(SubSeq(s, m + 1, n)) = IF m + 1 <= n THEN n - (m + 1) + 1 ELSE 0
      /\ \A i \in 1 .. n - (m + 1) + 1 : SubSeq(s, m + 1, n)[i] = s[(m + 1) + i - 1]
  BY <1>1, <1>2, SubSeqProperties
<1> QED
  BY <1>2, <1>3

(* What follows the first n characters of s.                               *)
LEMMA FromFacts ==
  ASSUME NEW s \in Seq(STRING), NEW n \in 0 .. Len(s)
  PROVE  /\ From(s, n) \in Seq(STRING)
         /\ Len(From(s, n)) = Len(s) - n
         /\ \A i \in 1 .. Len(s) - n : From(s, n)[i] = s[n+i]
<1>1. Len(s) \in 0 .. Len(s) /\ n \in 0 .. Len(s)
  OBVIOUS
<1> QED
  BY <1>1, PartFacts DEF From

(* The path is part of the header.                                         *)
LEMMA PathFacts ==
  ASSUME NEW h \in Seq(STRING), NEW n, n = PathLen(h)
  PROVE  n \in 0 .. Len(h)
<1> DEFINE T == {i \in 1 .. Len(h) : h[i] = ":"}
           Q(k) == /\ k > 0 => h[k] = ":"
                   /\ \A i \in k + 1 .. Len(h) : h[i] # ":"
<1>1. Len(h) \in Nat
  OBVIOUS
<1>2. PICK k \in 0 .. Len(h) : (k > 0 => k \in T) /\ \A i \in k + 1 .. Len(h) : i \notin T
  <2> HIDE DEF T
  <2> QED
    BY <1>1, LastInside
<1>3. Q(k)
  BY <1>1, <1>2
<1>4. n = CHOOSE m \in 0 .. Len(h) : Q(m)
  BY DEF PathLen
<1> HIDE DEF Q
<1> QED
  BY <1>3, <1>4

(* Moving n characters in front of a place inside b keeps its length and   *)
(* everything from that place on, and puts them there.                     *)
LEMMA MoveFacts ==
  ASSUME NEW b \in Seq(STRING), NEW to \in Nat, NEW from \in Nat, NEW n \in Nat,
         to + n <= Len(b), from + n <= Len(b),
         NEW c, c = memmove(b, to, from, n)
  PROVE  /\ c \in Seq(STRING) /\ Len(c) = Len(b)
         /\ \A i \in to + n + 1 .. Len(b) : c[i] = b[i]
         /\ \A i \in 1 .. n : c[to+i] = b[from+i]
<1> DEFINE x == SubSeq(b, 0 + 1, to)
           y == SubSeq(b, from + 1, from + n)
           z == From(b, to + n)
<1>1. Len(b) \in Nat /\ to \in 0 .. Len(b) /\ 0 \in 0 .. to
      /\ from + n \in 0 .. Len(b) /\ from \in 0 .. from + n /\ to + n \in 0 .. Len(b)
  OBVIOUS
<1>2. x \in Seq(STRING) /\ Len(x) = to
  BY <1>1, PartFacts
<1>3. y \in Seq(STRING) /\ Len(y) = n /\ \A i \in 1 .. n : y[i] = b[from+i]
  <2>1. (from + n) - from = n
    BY <1>1
  <2> QED
    BY <1>1, <2>1, PartFacts
<1>4. /\ z \in Seq(STRING) /\ Len(z) = Len(b) - (to + n)
      /\ \A i \in 1 .. Len(b) - (to + n) : z[i] = b[to+n+i]
  BY <1>1, FromFacts
<1>5. c = (x \o y) \o z
  BY DEF memmove
<1> HIDE DEF x, y, z
<1> DEFINE w == x \o y
<1>6. w \in Seq(STRING) /\ Len(w) = to + n /\ \A i \in 1 .. n : w[to+i] = y[i]
  <2>1. /\ w \in Seq(STRING) /\ Len(w) = Len(x) + Len(y)
        /\ \A i \in 1 .. Len(x) + Len(y) : w[i] = IF i <= Len(x) THEN x[i] ELSE y[i - Len(x)]
    BY <1>2, <1>3, ConcatProperties
  <2>2. ASSUME NEW i \in 1 .. n
        PROVE  w[to+i] = y[i]
    <3>1. to + i \in 1 .. Len(x) + Len(y) /\ ~(to + i <= Len(x)) /\ (to + i) - Len(x) = i
      BY <1>2, <1>3
    <3> QED
      BY <2>1, <3>1
  <2> QED
    BY <1>2, <1>3, <2>1, <2>2
<1>7. c = w \o z
  BY <1>5
<1> HIDE DEF w
<1>9. /\ c \in Seq(STRING) /\ Len(c) = Len(b)
      /\ \A i \in 1 .. Len(b) : c[i] = IF i <= to + n THEN w[i] ELSE z[i - (to + n)]
  <2>1. to + n + (Len(b) - (to + n)) = Len(b)
    BY <1>1
  <2>2. /\ c \in Seq(STRING) /\ Len(c) = Len(w) + Len(z)
        /\ \A i \in 1 .. Len(w) + Len(z) : c[i] = IF i <= Len(w) THEN w[i] ELSE z[i - Len(w)]
    <3>1. w \in Seq(STRING) /\ z \in Seq(STRING)
      BY <1>4, <1>6
    <3>2. /\ w \o z \in Seq(STRING) /\ Len(w \o z) = Len(w) + Len(z)
          /\ \A i \in 1 .. Len(w) + Len(z) :
               (w \o z)[i] = IF i <= Len(w) THEN w[i] ELSE z[i - Len(w)]
      BY <3>1, ConcatProperties
    <3> QED
      BY <1>7, <3>2
  <2> QED
    BY <1>4, <1>6, <2>1, <2>2
<1>10. ASSUME NEW i \in to + n + 1 .. Len(b)
      PROVE  c[i] = b[i]
  <2>1. i - (to + n) \in 1 .. Len(b) - (to + n) /\ to + n + (i - (to + n)) = i
    BY <1>1
  <2>2. z[i - (to + n)] = b[i]
    BY <1>4, <2>1
  <2>3. c[i] = z[i - (to + n)]
    BY <1>1, <1>9
  <2> QED
    BY <2>2, <2>3
<1>11. ASSUME NEW i \in 1 .. n
      PROVE  c[to+i] = b[from+i]
  <2>1. to + i \in 1 .. Len(b) /\ to + i <= to + n
    BY <1>1
  <2> QED
    BY <1>3, <1>6, <1>9, <2>1
<1> QED
  BY <1>9, <1>10, <1>11


Token == [ptr : Nat, len : Nat]

(* The buffer b with the header that starts behind its first at characters *)
(* composed: nothing moves, what is behind at is as it was, and the header *)
(* ends where it did.                                                      *)
ComposedRight(b, at, k, c) ==
  /\ c.buf \in Seq(STRING) /\ Len(c.buf) = Len(b)
  /\ \A i \in at + 1 .. Len(b) : c.buf[i] = b[i]
  /\ c.cur \in Token /\ c.cur.ptr <= at /\ c.cur.ptr + c.cur.len = at + k

LEMMA ComposeFacts ==
  ASSUME NEW b \in Seq(STRING), NEW p \in Token, NEW at \in 0 .. Len(b), NEW k \in Nat,
         p.ptr + p.len <= at,
         NEW c, c = composeCompoundCommand(b, p, [ptr |-> at, len |-> k])
  PROVE  ComposedRight(b, at, k, c)
<1> DEFINE cur == [ptr |-> at, len |-> k]
           h == Text(b, p)
           i == PathLen(h)
           moved == [ptr |-> at - i, len |-> k + i]
           m == memmove(b, at - i, p.ptr, i)
<1>1. /\ Len(b) \in Nat /\ at \in Nat /\ p.ptr \in Nat /\ p.len \in Nat /\ at <= Len(b)
      /\ p.ptr + p.len \in 0 .. Len(b) /\ p.ptr \in 0 .. p.ptr + p.len
  BY DEF Token
<1>2. h \in Seq(STRING) /\ Len(h) = p.len
  <2>1. (p.ptr + p.len) - p.ptr = p.len
    BY <1>1
  <2> QED
    BY <1>1, <2>1, PartFacts DEF Text
<1>3. i \in 0 .. p.len
  <2> HIDE DEF h
  <2> QED
    BY <1>2, PathFacts
<1>4. c = IF IsRelative(h, Text(b, cur)) THEN [buf |-> m, cur |-> moved]
          ELSE [buf |-> b, cur |-> cur]
  BY DEF composeCompoundCommand
<1> HIDE DEF i, h
<1>5. m \in Seq(STRING) /\ Len(m) = Len(b) /\ \A j \in at + 1 .. Len(b) : m[j] = b[j]
  <2>1. /\ at - i \in Nat /\ i \in Nat /\ p.ptr \in Nat
        /\ (at - i) + i = at /\ p.ptr + i <= Len(b)
    BY <1>1, <1>3
  <2>2. at - i + i <= Len(b) /\ (at - i) + i + 1 = at + 1
    BY <1>1, <2>1
  <2>3. /\ m \in Seq(STRING) /\ Len(m) = Len(b)
        /\ \A j \in (at - i) + i + 1 .. Len(b) : m[j] = b[j]
    BY <2>1, <2>2, MoveFacts
  <2> QED
    BY <2>2, <2>3
<1> HIDE DEF m
<1>6. CASE IsRelative(h, Text(b, cur))
  <2>1. c.buf = m /\ c.cur = moved
    BY <1>4, <1>6
  <2>2. moved \in Token /\ moved.ptr <= at /\ moved.ptr + moved.len = at + k
    BY <1>1, <1>3 DEF Token
  <2> QED
    BY <1>5, <2>1, <2>2 DEF ComposedRight
<1>7. CASE ~IsRelative(h, Text(b, cur))
  <2>1. c.buf = b /\ c.cur = cur
    BY <1>4, <1>7
  <2>2. cur \in Token /\ cur.ptr <= at /\ cur.ptr + cur.len = at + k
    BY <1>1 DEF Token
  <2> QED
    BY <2>1, <2>2 DEF ComposedRight
<1> QED
  BY <1>6, <1>7
-----------------------------------------------------------------------------
(* The inductive invariant.                                                *)

(* What SCPI_Parse writes: results, and what keeps them apart.             *)
Written == {"r", ";", "nl"}

Shapes ==
  /\ pc \in {"idle", "scan", "parse", "flush", "done"}
  /\ length \in Lengths
  /\ buf \in Seq(STRING) /\ given \in Seq(STRING) /\ out \in Seq(Written)
  /\ tot \in Nat /\ off \in Nat /\ taken \in Nat
  /\ prev \in Token
  /\ answered \in BOOLEAN

(* RestUntouched, character by character.                                  *)
Rest ==
  pc \in {"scan", "parse", "flush"} =>
    /\ Len(given) = taken + Len(buf)
    /\ \A i \in 1 .. Len(buf) : pc = "scan" \/ off < i => buf[i] = given[taken+i]

(* No line ends in what has been scanned, and the scan goes on where a     *)
(* unit starts.                                                            *)
Scanned ==
  pc = "scan" =>
    /\ \A i \in 1 .. tot : buf[i] # "n"
    /\ StartsBehind(buf, tot)

(* Every line ending of b has an empty unit in front of it.                *)
Waits(b) ==
  \A i \in 1 .. Len(b) :
    b[i] = "n" => \E j \in 1 .. i - 1 : b[j] = ";" /\ StartsBehind(b, j - 1)

Waiting == pc \in {"idle", "done"} => Waits(buf)

(* Results and what separates them take turns; a line is open exactly when *)
(* the last thing written is a result.                                     *)
Alternates(o) == \A i \in 1 .. Len(o) : (o[i] = "r") <=> (i % 2 = 1)

Apart ==
  /\ Alternates(out)
  /\ IF pc \in {"parse", "flush"} THEN answered <=> Len(out) % 2 = 1
     ELSE Len(out) % 2 = 0

InputInv == Shapes /\ InBuffer /\ Rest /\ LineIsWhole /\ Scanned /\ Waiting /\ Apart

(* The unit u at totcmdlen, in terms of the buffer.                        *)
ScanRight(u) ==
  /\ u.used \in 0 .. Len(buf) - tot
  /\ u.term = "n" => u.used > 0
  /\ \A i \in tot + 1 .. tot + u.used : (buf[i] = "n") <=> (u.term = "n" /\ i = tot + u.used)
  /\ tot + u.used < Len(buf) => u.used > 0 /\ EndsAt(buf, tot, tot + u.used)
  /\ u.type = "unknown" /\ u.term # "n" /\ tot + u.used < Len(buf) =>
       u.used = 1 /\ buf[tot + 1] = ";"

(* Where a unit ends in what follows k characters of b, it ends in b.      *)
LEMMA EndFacts ==
  ASSUME NEW b \in Seq(STRING), NEW k \in 0 .. Len(b), NEW n \in 1 .. Len(b) - k,
         EndsAt(From(b, k), 0, n)
  PROVE  EndsAt(b, k, k + n)
<1> DEFINE s == From(b, k)
<1>1. /\ s \in Seq(STRING) /\ Len(s) = Len(b) - k /\ Len(b) \in Nat /\ k \in Nat /\ n \in Nat
      /\ \A i \in 1 .. Len(b) - k : s[i] = b[k+i]
  BY FromFacts
<1> HIDE DEF s
<1>2. ASSUME NEW m \in 0 .. Len(b) - k
      PROVE  SubSeq(s, 0 + 1, m) = SubSeq(b, k + 1, k + m)
  <2> DEFINE x == SubSeq(s, 0 + 1, m)
             y == SubSeq(b, k + 1, k + m)
  <2>1. m \in 0 .. Len(s) /\ 0 \in 0 .. m /\ k + m \in 0 .. Len(b) /\ k \in 0 .. k + m
        /\ (k + m) - k = m /\ m - 0 = m
    BY <1>1
  <2>2. x \in Seq(STRING) /\ Len(x) = m - 0 /\ \A i \in 1 .. m - 0 : x[i] = s[0+i]
    BY <1>1, <2>1, PartFacts
  <2>3. /\ y \in Seq(STRING) /\ Len(y) = (k + m) - k
        /\ \A i \in 1 .. (k + m) - k : y[i] = b[k+i]
    BY <1>1, <2>1, PartFacts
  <2> HIDE DEF x, y
  <2>4. ASSUME NEW i \in 1 .. m
        PROVE  x[i] = y[i]
    <3>1. 0 + i = i /\ i \in 1 .. Len(b) - k
      BY <1>1
    <3> QED
      BY <1>1, <2>1, <2>2, <2>3, <3>1
  <2>5. x = y
    BY <2>1, <2>2, <2>3, <2>4, SeqEqual
  <2> QED
    BY <2>5 DEF x, y
<1>3. n \in 0 .. Len(b) - k /\ n - 1 \in 0 .. Len(b) - k /\ (k + n) - 1 = k + (n - 1)
      /\ (n = 0 + 1 => k + n = k + 1)
  BY <1>1
<1>4. /\ n = 0 + 1 \/ IsUnit(SubSeq(s, 0 + 1, n - 1))
      /\ ~IsUnit(SubSeq(s, 0 + 1, n))
  BY DEF EndsAt, s
<1> QED
  BY <1>2, <1>3, <1>4 DEF EndsAt

(* Units start at the start of the text and where one ends.                *)
LEMMA StartFacts ==
  ASSUME NEW b
  PROVE  /\ StartsBehind(b, 0)
         /\ \A k \in Nat : \A i \in k + 1 .. Len(b) :
              StartsBehind(b, k) /\ EndsAt(b, k, i) => StartsBehind(b, i)
BY DEF StartsBehind

LEMMA ScanFacts ==
  ASSUME InputInv, pc = "scan", NEW u, u = Unit
  PROVE  ScanRight(u)
<1> DEFINE s == From(buf, tot)
<1>1. buf \in Seq(STRING) /\ tot \in 0 .. Len(buf) /\ Len(buf) \in Nat
  BY DEF InputInv, Shapes, InBuffer
<1>2. /\ s \in Seq(STRING) /\ Len(s) = Len(buf) - tot
      /\ \A i \in 1 .. Len(buf) - tot : s[i] = buf[tot+i]
  BY <1>1, FromFacts
<1>3. u = scpiParser_detectProgramMessageUnit(s)
  BY DEF Unit
<1> HIDE DEF s
<1>4. UnitRight(s, u)
  BY <1>2, <1>3, UnitFacts
<1>5. u.used \in 0 .. Len(buf) - tot /\ (u.term = "n" => u.used > 0)
  BY <1>2, <1>4 DEF UnitRight
<1>6. ASSUME NEW i \in tot + 1 .. tot + u.used
      PROVE  (buf[i] = "n") <=> (u.term = "n" /\ i = tot + u.used)
  <2>1. i - tot \in 1 .. u.used /\ i - tot \in 1 .. Len(buf) - tot /\ tot + (i - tot) = i
    BY <1>1, <1>5
  <2>2. s[i - tot] = buf[i]
    BY <1>2, <2>1
  <2>3. (s[i - tot] = "n") <=> (u.term = "n" /\ i - tot = u.used)
    BY <1>4, <2>1 DEF UnitRight
  <2>4. (i - tot = u.used) <=> (i = tot + u.used)
    BY <1>1, <1>5
  <2> QED
    BY <2>2, <2>3, <2>4
<1>7. ASSUME tot + u.used < Len(buf)
      PROVE  /\ u.used > 0 /\ EndsAt(buf, tot, tot + u.used)
             /\ u.type = "unknown" /\ u.term # "n" => u.used = 1 /\ buf[tot + 1] = ";"
  <2>1. u.used < Len(s)
    BY <1>1, <1>2, <1>5, <1>7
  <2>2. /\ u.used > 0 /\ EndsAt(s, 0, u.used)
        /\ u.type = "unknown" /\ u.term # "n" => u.used = 1 /\ s[1] = ";"
    BY <1>4, <2>1 DEF UnitRight
  <2>3. u.used \in 1 .. Len(buf) - tot /\ 1 \in 1 .. Len(buf) - tot
    <3>1. u.used > 0 /\ u.used \in 0 .. Len(buf) - tot
      BY <1>5, <2>2
    <3> QED
      BY <1>1, <3>1
  <2>4. EndsAt(buf, tot, tot + u.used)
    BY <1>1, <1>2, <2>2, <2>3, EndFacts DEF s
  <2> QED
    BY <1>2, <2>2, <2>3, <2>4
<1> QED
  BY <1>5, <1>6, <1>7 DEF ScanRight

(* The unit u at off lies in the line.                                     *)
LEMMA ParseFacts ==
  ASSUME InputInv, pc \in {"parse", "flush"}, off < tot, NEW u, u = Unit
  PROVE  u.used \in 0 .. tot - off /\ (u.type = "header" => u.header \in 0 .. u.used)
<1> DEFINE s == SubSeq(buf, off + 1, tot)
<1>1. buf \in Seq(STRING) /\ tot \in 0 .. Len(buf) /\ off \in 0 .. tot
  BY DEF InputInv, Shapes, InBuffer
<1>2. s \in Seq(STRING) /\ Len(s) = tot - off
  BY <1>1, PartFacts
<1>3. u = scpiParser_detectProgramMessageUnit(s)
  BY DEF Unit
<1> HIDE DEF s
<1>4. UnitRight(s, u)
  BY <1>2, <1>3, UnitFacts
<1> QED
  BY <1>2, <1>4 DEF UnitRight

(* Odd and even numbers take turns.                                        *)
LEMMA NextParity ==
  ASSUME NEW n \in Nat
  PROVE  /\ ((n + 1) % 2 = 1) <=> (n % 2 = 0)
         /\ ((n + 1) % 2 = 0) <=> (n % 2 = 1)
<1>1. PICK k \in Nat : n = 2 * k \/ n = 2 * k + 1
  <2>1. n \div 2 \in Nat /\ (n = 2 * (n \div 2) \/ n = 2 * (n \div 2) + 1)
    OBVIOUS
  <2> QED
    BY <2>1
<1>2. CASE n = 2 * k
  <2>1. n % 2 = 0 /\ (n + 1) % 2 = 1
    BY <1>2
  <2> QED
    BY <2>1
<1>3. CASE n = 2 * k + 1
  <2>1. n % 2 = 1 /\ (n + 1) % 2 = 0
    BY <1>3
  <2> QED
    BY <2>1
<1> QED
  BY <1>1, <1>2, <1>3

(* One more thing is written: a result after none or a separator, or a     *)
(* separator after a result.                                               *)
LEMMA OneMore ==
  ASSUME NEW o \in Seq(Written), Alternates(o), NEW e \in Written,
         (e = "r") <=> (Len(o) % 2 = 0), NEW q, q = o \o <<e>> \/ q = Append(o, e)
  PROVE  /\ q \in Seq(Written) /\ Alternates(q)
         /\ (Len(q) % 2 = 1) <=> (Len(o) % 2 = 0)
         /\ (Len(q) % 2 = 0) <=> (Len(o) % 2 = 1)
<1>1. q = Append(o, e)
  BY AppendIsConcat
<1>2. /\ q \in Seq(Written) /\ Len(q) = Len(o) + 1
      /\ \A i \in 1 .. Len(o) : q[i] = o[i]
      /\ q[Len(o) + 1] = e
  BY <1>1, AppendProperties
<1>3. Len(o) \in Nat
  OBVIOUS
<1>4. /\ ((Len(o) + 1) % 2 = 1) <=> (Len(o) % 2 = 0)
      /\ ((Len(o) + 1) % 2 = 0) <=> (Len(o) % 2 = 1)
  BY <1>3, NextParity
<1>5. ASSUME NEW i \in 1 .. Len(q)
      PROVE  (q[i] = "r") <=> (i % 2 = 1)
  <2>1. CASE i = Len(o) + 1
    BY <1>2, <1>4, <2>1
  <2>2. CASE i # Len(o) + 1
    <3>1. i \in 1 .. Len(o)
      BY <1>2, <1>3, <2>2
    <3> QED
      BY <1>2, <3>1 DEF Alternates
  <2> QED
    BY <2>1, <2>2
<1> QED
  BY <1>2, <1>4, <1>5 DEF Alternates

LEMMA OneResult ==
  ASSUME NEW o \in Seq(Written), Alternates(o), Len(o) % 2 = 0, NEW q, q = o \o <<"r">>
  PROVE  q \in Seq(Written) /\ Alternates(q) /\ Len(q) % 2 = 1
<1>1. ("r" = "r") <=> (Len(o) % 2 = 0)
  OBVIOUS
<1>2. "r" \in Written
  BY DEF Written
<1> QED
  BY <1>1, <1>2, OneMore

LEMMA OneSeparator ==
  ASSUME NEW o \in Seq(Written), Alternates(o), Len(o) % 2 = 1, NEW e \in Written, e # "r",
         NEW q, q = o \o <<e>> \/ q = Append(o, e)
  PROVE  q \in Seq(Written) /\ Alternates(q) /\ Len(q) % 2 = 0
<1>1. ~(Len(o) % 2 = 0)
  OBVIOUS
<1>2. (e = "r") <=> (Len(o) % 2 = 0)
  BY <1>1
<1> QED
  BY <1>2, OneMore

LEMMA NothingWritten == Alternates(<<>>) /\ Len(<<>>) % 2 = 0 /\ <<>> \in Seq(Written)
<1>1. Len(<<>>) = 0 /\ <<>> \in Seq(Written)
  OBVIOUS
<1> QED
  BY <1>1 DEF Alternates

(* An empty buffer keeps nobody waiting.                                   *)
LEMMA EmptyWaits == Waits(<<>>)
<1>1. \A i \in 1 .. Len(<<>>) : FALSE
  OBVIOUS
<1> QED
  BY <1>1 DEF Waits

-----------------------------------------------------------------------------
(* Every step keeps the invariant.                                         *)

(* The arithmetic of a call: the buffer is not full.                       *)
LEMMA LengthFacts ==
  ASSUME InputInv
  PROVE  length \in Nat \ {0} /\ Len(buf) \in Nat /\ Len(buf) < length
BY LengthAssumption DEF InputInv, Shapes, InBuffer

LEMMA NoTokenFacts == NoToken \in Token /\ NoToken.ptr = 0 /\ NoToken.len = 0
BY DEF NoToken, Token

LEMMA InitFacts ==
  ASSUME Init
  PROVE  InputInv
<1>1. Shapes
  <2>1. <<>> \in Seq(STRING)
    OBVIOUS
  <2> QED
    BY <2>1, NoTokenFacts, NothingWritten DEF Init, Shapes
<1>2. length \in Nat \ {0}
  BY LengthAssumption DEF Init
<1>3. InBuffer
  BY <1>2 DEF Init, InBuffer
<1>4. Rest /\ LineIsWhole /\ Scanned
  BY DEF Init, Rest, LineIsWhole, Scanned
<1>5. Waiting
  BY EmptyWaits DEF Init, Waiting
<1>6. Apart
  BY NothingWritten DEF Init, Apart
<1> QED
  BY <1>1, <1>3, <1>4, <1>5, <1>6 DEF InputInv

LEMMA FlushFacts ==
  ASSUME InputInv, InputFlush, UNCHANGED length
  PROVE  InputInv'
<1>1. /\ pc' = "flush" /\ buf' = buf /\ tot' = Len(buf) /\ off' = 0 /\ prev' = NoToken
      /\ answered' = FALSE /\ out' = <<>> /\ taken' = 0 /\ given' = buf \o <<>>
  BY DEF InputFlush, Call, BeginParse
<1>2. given' = buf
  BY <1>1, ConcatEmptySeq DEF InputInv, Shapes
<1>3. Shapes'
  BY <1>1, <1>2, NoTokenFacts, NothingWritten, LengthFacts DEF InputInv, Shapes
<1>4. InBuffer'
  BY <1>1, LengthFacts DEF InBuffer, NoToken
<1>5. Rest'
  BY <1>1, <1>2, LengthFacts DEF Rest
<1>6. LineIsWhole' /\ Scanned' /\ Waiting'
  BY <1>1 DEF LineIsWhole, Scanned, Waiting
<1>7. Apart'
  BY <1>1, NothingWritten DEF Apart
<1> QED
  BY <1>3, <1>4, <1>5, <1>6, <1>7 DEF InputInv

LEMMA OverrunFacts ==
  ASSUME InputInv, NEW data \in Chunks(length), InputOverrun(data), UNCHANGED length
  PROVE  InputInv'
<1>1. /\ pc' = "done" /\ buf' = <<>> /\ out' = <<>> /\ taken' = 0 /\ given' = buf \o data
      /\ tot' = tot /\ off' = off /\ prev' = prev /\ answered' = answered
  BY DEF InputOverrun, Call
<1>2. data \in Seq(STRING)
  BY ChunksAssumption DEF InputInv, Shapes
<1>3. given' \in Seq(STRING)
  BY <1>1, <1>2, ConcatProperties DEF InputInv, Shapes
<1>4. Shapes'
  BY <1>1, <1>3 DEF InputInv, Shapes
<1>5. InBuffer'
  BY <1>1, LengthFacts DEF InBuffer
<1>6. Rest' /\ LineIsWhole' /\ Scanned'
  BY <1>1 DEF Rest, LineIsWhole, Scanned
<1>7. Waiting'
  BY <1>1, EmptyWaits DEF Waiting
<1>8. Apart'
  BY <1>1, NothingWritten DEF Apart
<1> QED
  BY <1>4, <1>5, <1>6, <1>7, <1>8 DEF InputInv

LEMMA AppendFacts ==
  ASSUME InputInv, NEW data \in Chunks(length), InputAppend(data), UNCHANGED length
  PROVE  InputInv'
<1>1. /\ pc' = "scan" /\ buf' = buf \o data /\ out' = <<>> /\ taken' = 0 /\ given' = buf \o data
      /\ tot' = 0 /\ off' = off /\ prev' = prev /\ answered' = answered
  BY DEF InputAppend, Call, parse
<1>2. data \in Seq(STRING)
  BY ChunksAssumption DEF InputInv, Shapes
<1>3. buf' \in Seq(STRING) /\ Len(buf') = Len(buf) + Len(data)
  BY <1>1, <1>2, ConcatProperties DEF InputInv, Shapes
<1>4. Len(data) \in Nat /\ Len(buf') \in Nat /\ Len(buf') < length
  <2>1. Len(data) \in Nat /\ ~(Len(data) > length - Len(buf) - 1)
    BY <1>2 DEF InputAppend, TooLong
  <2> QED
    BY <1>3, <2>1, LengthFacts
<1>5. Shapes'
  BY <1>1, <1>3 DEF InputInv, Shapes
<1>6. InBuffer'
  BY <1>1, <1>4 DEF InBuffer
<1>7. Rest'
  BY <1>1, <1>4 DEF Rest
<1>8. LineIsWhole' /\ Scanned' /\ Waiting'
  BY <1>1, StartFacts DEF LineIsWhole, Scanned, Waiting
<1>9. Apart'
  BY <1>1, NothingWritten DEF Apart
<1> QED
  BY <1>5, <1>6, <1>7, <1>8, <1>9 DEF InputInv

LEMMA ScanLineFacts ==
  ASSUME InputInv, NEW unit, unit = Unit, ScanLine(unit), UNCHANGED length
  PROVE  InputInv'
<1>1. /\ pc = "scan" /\ pc' = "parse" /\ unit.term = "n" /\ tot' = tot + unit.used
      /\ buf' = buf /\ out' = out /\ given' = given /\ taken' = taken
      /\ off' = 0 /\ prev' = NoToken /\ answered' = FALSE
  BY DEF ScanLine, BeginParse
<1>2. ScanRight(unit)
  BY <1>1, ScanFacts
<1>3. tot \in 0 .. Len(buf) /\ Len(buf) \in Nat /\ unit.used \in 0 .. Len(buf) - tot
  BY <1>1, <1>2, LengthFacts DEF InputInv, InBuffer, ScanRight
<1>4. tot' \in 0 .. Len(buf) /\ tot' \in Nat
  BY <1>1, <1>3
<1>5. Shapes'
  BY <1>1, <1>4, NoTokenFacts DEF InputInv, Shapes
<1>6. InBuffer'
  BY <1>1, <1>4, LengthFacts DEF InBuffer, NoToken
<1>7. Rest'
  BY <1>1 DEF InputInv, Rest
<1>8. LineIsWhole'
  <2>1. ASSUME NEW i \in 1 .. tot'
        PROVE  (given[taken + i] = "n") <=> (i = tot')
    <3>1. i \in 1 .. Len(buf)
      BY <1>3, <1>4
    <3>2. given[taken + i] = buf[i]
      BY <1>1, <3>1 DEF InputInv, Rest
    <3>3. unit.used > 0
      BY <1>1, <1>2 DEF ScanRight
    <3>4. CASE i <= tot
      <4>1. i \in 1 .. tot /\ i # tot + unit.used
        BY <1>3, <3>1, <3>3, <3>4
      <4>2. buf[i] # "n"
        BY <1>1, <4>1 DEF InputInv, Scanned
      <4> QED
        BY <1>1, <3>2, <4>1, <4>2
    <3>5. CASE ~(i <= tot)
      <4>1. i \in tot + 1 .. tot + unit.used
        BY <1>1, <1>3, <3>1, <3>5
      <4>2. (buf[i] = "n") <=> (i = tot + unit.used)
        BY <1>1, <1>2, <4>1 DEF ScanRight
      <4> QED
        BY <1>1, <3>2, <4>2
    <3> QED
      BY <3>4, <3>5
  <2> QED
    BY <1>1, <2>1 DEF LineIsWhole
<1>9. Scanned' /\ Waiting'
  BY <1>1 DEF Scanned, Waiting
<1>10. Apart'
  <2>1. Len(out) % 2 = 0 /\ Alternates(out)
    BY <1>1 DEF InputInv, Apart
  <2> QED
    BY <1>1, <2>1 DEF Apart
<1> QED
  BY <1>5, <1>6, <1>7, <1>8, <1>9, <1>10 DEF InputInv

LEMMA ScanUnitFacts ==
  ASSUME InputInv, NEW unit, unit = Unit, ScanUnit(unit), UNCHANGED length
  PROVE  InputInv'
<1>1. /\ pc = "scan" /\ unit.term # "n" /\ tot' = tot + unit.used
      /\ buf' = buf /\ out' = out /\ given' = given /\ taken' = taken
      /\ off' = off /\ prev' = prev /\ answered' = answered
  BY DEF ScanUnit, parse
<1>2. ScanRight(unit)
  BY <1>1, ScanFacts
<1>3. tot \in 0 .. Len(buf) /\ Len(buf) \in Nat /\ unit.used \in 0 .. Len(buf) - tot
  BY <1>1, <1>2, LengthFacts DEF InputInv, InBuffer, ScanRight
<1>4. tot' \in 0 .. Len(buf) /\ tot' \in Nat
  BY <1>1, <1>3
<1>5. pc' \in {"scan", "done"}
  BY DEF ScanUnit
<1>6. ASSUME NEW i \in 1 .. tot'
      PROVE  buf[i] # "n"
  <2>1. CASE i <= tot
    <3>1. i \in 1 .. tot
      BY <1>3, <2>1
    <3> QED
      BY <1>1, <3>1 DEF InputInv, Scanned
  <2>2. CASE ~(i <= tot)
    <3>1. i \in tot + 1 .. tot + unit.used
      BY <1>1, <1>3, <2>2
    <3> QED
      BY <1>1, <1>2, <3>1 DEF ScanRight
  <2> QED
    BY <2>1, <2>2
<1>7. Shapes'
  BY <1>1, <1>4, <1>5 DEF InputInv, Shapes
<1>8. InBuffer'
  BY <1>1, <1>4, <1>5, LengthFacts DEF InBuffer
<1>9. Rest'
  BY <1>1, <1>5 DEF InputInv, Rest
<1>10. LineIsWhole'
  BY <1>5 DEF LineIsWhole
<1>11. Scanned'
  <2> SUFFICES ASSUME pc' = "scan"
               PROVE  StartsBehind(buf, tot')
    BY <1>1, <1>6 DEF Scanned
  <2>1. ~(tot' >= Len(buf))
    BY <1>1 DEF ScanUnit
  <2>2. tot + unit.used < Len(buf)
    BY <1>1, <1>3, <1>4, <2>1
  <2>3. unit.used > 0 /\ EndsAt(buf, tot, tot + unit.used)
    BY <1>2, <2>2 DEF ScanRight
  <2>4. tot \in Nat /\ tot + unit.used \in tot + 1 .. Len(buf)
    BY <1>3, <2>2, <2>3
  <2>5. StartsBehind(buf, tot)
    BY <1>1 DEF InputInv, Scanned
  <2> QED
    BY <1>1, <2>3, <2>4, <2>5, StartFacts
<1>12. Waiting'
  <2> SUFFICES ASSUME pc' = "done"
               PROVE  Waits(buf)
    BY <1>1, <1>5 DEF Waiting
  <2>1. CASE tot' >= Len(buf)
    <3>1. \A i \in 1 .. Len(buf) : i \in 1 .. tot'
      BY <1>3, <1>4, <2>1
    <3> QED
      BY <1>6, <3>1 DEF Waits
  <2>2. CASE ~(tot' >= Len(buf))
    <3>1. unit.type = "unknown" /\ tot + unit.used < Len(buf)
      <4>1. unit.type = "unknown"
        BY <1>1, <2>2 DEF ScanUnit
      <4> QED
        BY <1>1, <1>3, <1>4, <2>2, <4>1
    <3>2. unit.used = 1 /\ buf[tot + 1] = ";"
      BY <1>1, <1>2, <3>1 DEF ScanRight
    <3>3. tot' = tot + 1
      BY <1>1, <3>2
    <3>4. StartsBehind(buf, (tot + 1) - 1)
      <4>1. (tot + 1) - 1 = tot
        BY <1>3
      <4>2. StartsBehind(buf, tot)
        BY <1>1 DEF InputInv, Scanned
      <4> QED
        BY <4>1, <4>2
    <3>5. ASSUME NEW i \in 1 .. Len(buf), buf[i] = "n"
          PROVE  tot + 1 \in 1 .. i - 1
      <4>1. ~(i \in 1 .. tot')
        BY <1>6, <3>5
      <4> QED
        BY <1>3, <3>3, <4>1
    <3> QED
      BY <3>2, <3>4, <3>5 DEF Waits
  <2> QED
    BY <2>1, <2>2
<1>13. Apart'
  <2>1. Len(out) % 2 = 0 /\ Alternates(out)
    BY <1>1 DEF InputInv, Apart
  <2> QED
    BY <1>1, <1>5, <2>1 DEF Apart
<1> QED
  BY <1>7, <1>8, <1>9, <1>10, <1>11, <1>12, <1>13 DEF InputInv

(* A turn of the loop of SCPI_Parse advances inside the line.              *)
LEMMA ParsingFacts ==
  ASSUME InputInv, NEW unit, unit = Unit, Parsing(unit)
  PROVE  /\ pc \in {"parse", "flush"} /\ pc' = pc /\ tot' = tot /\ given' = given /\ taken' = taken
         /\ Len(buf) \in Nat /\ tot \in 0 .. Len(buf) /\ off \in 0 .. tot /\ unit.used \in Nat
         /\ off' = off + unit.used /\ off' \in 0 .. tot /\ off <= off' /\ off' \in Nat
         /\ prev \in Token /\ prev.ptr + prev.len <= off
         /\ unit.type = "header" => unit.header \in 0 .. unit.used
<1>1. /\ pc \in {"parse", "flush"} /\ pc' = pc /\ tot' = tot /\ given' = given /\ taken' = taken
      /\ off < tot /\ off' = off + unit.used
  BY DEF Parsing
<1>2. unit.used \in 0 .. tot - off /\ (unit.type = "header" => unit.header \in 0 .. unit.used)
  BY <1>1, ParseFacts
<1>3. /\ Len(buf) \in Nat /\ tot \in 0 .. Len(buf) /\ off \in 0 .. tot
      /\ prev \in Token /\ prev.ptr \in 0 .. off /\ prev.len \in 0 .. off - prev.ptr
  BY <1>1, LengthFacts DEF InputInv, Shapes, InBuffer
<1>4. prev.ptr + prev.len <= off
  BY <1>3
<1>5. unit.used \in Nat /\ off' \in 0 .. tot /\ off <= off' /\ off' \in Nat
  BY <1>1, <1>2, <1>3
<1> QED
  BY <1>1, <1>2, <1>3, <1>4, <1>5

(* What such a turn keeps, whatever it does to the text in front of off    *)
(* and to the output.                                                      *)
LEMMA TurnFacts ==
  ASSUME InputInv, NEW unit, unit = Unit, Parsing(unit), UNCHANGED length,
         buf' \in Seq(STRING), Len(buf') = Len(buf),
         \A i \in off + 1 .. Len(buf) : buf'[i] = buf[i],
         prev' \in Token, prev'.ptr + prev'.len <= off',
         out' \in Seq(Written), answered' \in BOOLEAN, Alternates(out'),
         answered' <=> Len(out') % 2 = 1
  PROVE  InputInv'
<1>1. /\ pc \in {"parse", "flush"} /\ pc' = pc /\ tot' = tot /\ given' = given /\ taken' = taken
      /\ Len(buf) \in Nat /\ tot \in 0 .. Len(buf) /\ off \in 0 .. tot /\ unit.used \in Nat
      /\ off' = off + unit.used /\ off' \in 0 .. tot /\ off <= off' /\ off' \in Nat
  BY ParsingFacts
<1>2. Shapes'
  BY <1>1 DEF InputInv, Shapes
<1>3. InBuffer'
  <2>1. prev'.ptr \in Nat /\ prev'.len \in Nat
    BY DEF Token
  <2>2. prev'.ptr \in 0 .. off' /\ prev'.len \in 0 .. off' - prev'.ptr
    BY <1>1, <2>1
  <2> QED
    BY <1>1, <2>2, LengthFacts DEF InBuffer
<1>4. Rest'
  <2>1. ASSUME NEW i \in 1 .. Len(buf), off' < i
        PROVE  buf'[i] = given[taken + i]
    <3>1. off < i /\ i \in off + 1 .. Len(buf)
      BY <1>1, <2>1
    <3> QED
      BY <1>1, <3>1 DEF InputInv, Rest
  <2>2. Len(given) = taken + Len(buf)
    BY <1>1 DEF InputInv, Rest
  <2> QED
    BY <1>1, <2>1, <2>2 DEF Rest
<1>5. LineIsWhole'
  BY <1>1 DEF InputInv, LineIsWhole
<1>6. Scanned' /\ Waiting'
  BY <1>1 DEF Scanned, Waiting
<1>7. Apart'
  BY <1>1 DEF Apart
<1> QED
  BY <1>2, <1>3, <1>4, <1>5, <1>6, <1>7 DEF InputInv

LEMMA QuietFacts ==
  ASSUME InputInv, NEW unit, unit = Unit, UnitInvalid(unit) \/ UnitEmpty(unit), UNCHANGED length
  PROVE  InputInv'
<1>1. Parsing(unit) /\ buf' = buf /\ prev' = prev /\ answered' = answered /\ out' = out
  BY DEF UnitInvalid, UnitEmpty
<1>2. /\ pc \in {"parse", "flush"} /\ off \in Nat /\ off' \in Nat /\ off <= off'
      /\ prev \in Token /\ prev.ptr + prev.len <= off
  BY <1>1, ParsingFacts
<1>3. prev'.ptr + prev'.len <= off'
  BY <1>1, <1>2 DEF Token
<1>4. Alternates(out) /\ (answered <=> Len(out) % 2 = 1)
  BY <1>2 DEF InputInv, Apart
<1>5. \A i \in off + 1 .. Len(buf) : buf'[i] = buf[i]
  BY <1>1
<1>6. buf' \in Seq(STRING) /\ out' \in Seq(Written) /\ answered' \in BOOLEAN
  BY <1>1 DEF InputInv, Shapes
<1>7. answered' <=> Len(out') % 2 = 1
  BY <1>1, <1>4
<1> QED
  BY <1>1, <1>2, <1>3, <1>4, <1>5, <1>6, <1>7, TurnFacts

(* What composing the header of a unit leaves.                             *)
LEMMA HeaderTurnFacts ==
  ASSUME InputInv, NEW unit, unit = Unit, Parsing(unit), unit.type = "header",
         NEW c, c = Composed(unit)
  PROVE  /\ c.buf \in Seq(STRING) /\ Len(c.buf) = Len(buf)
         /\ \A i \in off + 1 .. Len(buf) : c.buf[i] = buf[i]
         /\ c.cur \in Token /\ c.cur.ptr + c.cur.len <= off'
<1>1. /\ Len(buf) \in Nat /\ tot \in 0 .. Len(buf) /\ off \in 0 .. tot /\ unit.used \in Nat
      /\ off' = off + unit.used
      /\ prev \in Token /\ prev.ptr + prev.len <= off
      /\ unit.header \in 0 .. unit.used
  BY ParsingFacts
<1>2. buf \in Seq(STRING) /\ off \in 0 .. Len(buf) /\ unit.header \in Nat
  BY <1>1 DEF InputInv, Shapes
<1>3. c = composeCompoundCommand(buf, prev, [ptr |-> off, len |-> unit.header])
  BY DEF Composed
<1>4. ComposedRight(buf, off, unit.header, c)
  BY <1>1, <1>2, <1>3, ComposeFacts
<1>5. off + unit.header <= off'
  BY <1>1
<1> QED
  BY <1>4, <1>5 DEF ComposedRight

LEMMA UndefinedFacts ==
  ASSUME InputInv, NEW unit, unit = Unit, UnitUndefined(unit), UNCHANGED length
  PROVE  InputInv'
<1>1. /\ Parsing(unit) /\ unit.type = "header"
      /\ prev' = prev /\ answered' = answered /\ out' = out
  BY DEF UnitUndefined
<1>2. PICK c : c = Composed(unit) /\ buf' = c.buf
  BY DEF UnitUndefined
<1>3. /\ c.buf \in Seq(STRING) /\ Len(c.buf) = Len(buf)
      /\ \A i \in off + 1 .. Len(buf) : c.buf[i] = buf[i]
  BY <1>1, <1>2, HeaderTurnFacts
<1>4. /\ pc \in {"parse", "flush"} /\ off \in Nat /\ off' \in Nat /\ off <= off'
      /\ prev \in Token /\ prev.ptr + prev.len <= off
  BY <1>1, ParsingFacts
<1>5. prev'.ptr + prev'.len <= off'
  BY <1>1, <1>4 DEF Token
<1>6. Alternates(out) /\ (answered <=> Len(out) % 2 = 1)
  BY <1>4 DEF InputInv, Apart
<1>7. out' \in Seq(Written) /\ answered' \in BOOLEAN
  BY <1>1 DEF InputInv, Shapes
<1>8. answered' <=> Len(out') % 2 = 1
  BY <1>1, <1>6
<1>9. buf' \in Seq(STRING) /\ Len(buf') = Len(buf) /\ \A i \in off + 1 .. Len(buf) : buf'[i] = buf[i]
  BY <1>2, <1>3
<1> QED
  BY <1>1, <1>4, <1>5, <1>6, <1>7, <1>8, <1>9, TurnFacts

(* processCommand separates the result before it from its own.             *)
LEMMA ProcessFacts ==
  ASSUME NEW kind, NEW data, processCommand(kind, data),
         out \in Seq(Written), Alternates(out), answered \in BOOLEAN,
         answered <=> Len(out) % 2 = 1
  PROVE  /\ out' \in Seq(Written) /\ Alternates(out') /\ answered' \in BOOLEAN
         /\ answered' <=> Len(out') % 2 = 1
<1> DEFINE mid == out \o (IF answered THEN <<";">> ELSE <<>>)
<1>1. out' = mid \o (IF kind = "answer" THEN <<"r">> ELSE <<>>) /\ answered' = (kind = "answer")
  BY DEF processCommand
<1>2. Len(out) % 2 \in {0, 1}
  OBVIOUS
<1>3. mid \in Seq(Written) /\ Alternates(mid) /\ Len(mid) % 2 = 0
  <2>1. CASE answered
    <3>1. mid = out \o <<";">> /\ Len(out) % 2 = 1
      BY <2>1
    <3> HIDE DEF mid
    <3>2. ";" \in Written
      BY DEF Written
    <3>3. ";" # "r"
      OBVIOUS
    <3> QED
      BY <3>1, <3>2, <3>3, OneSeparator
  <2>2. CASE ~answered
    <3>1. mid = out
      BY <2>2, ConcatEmptySeq
    <3> QED
      BY <1>2, <2>2, <3>1
  <2> QED
    BY <2>1, <2>2
<1> HIDE DEF mid
<1>4. CASE kind = "answer"
  <2>1. out' = mid \o <<"r">> /\ answered' = TRUE
    BY <1>1, <1>4
  <2>2. out' \in Seq(Written) /\ Alternates(out') /\ Len(out') % 2 = 1
    BY <1>3, <2>1, OneResult
  <2> QED
    BY <2>1, <2>2
<1>5. CASE kind # "answer"
  <2>1. out' = mid /\ answered' = FALSE
    BY <1>1, <1>3, <1>5, ConcatEmptySeq
  <2>2. ~(Len(out') % 2 = 1)
    BY <1>3, <2>1
  <2>3. answered' <=> (Len(out') % 2 = 1)
    BY <2>1, <2>2
  <2>4. answered' \in BOOLEAN
    BY <2>1
  <2> QED
    BY <1>3, <2>1, <2>3, <2>4
<1> QED
  BY <1>4, <1>5

LEMMA CommandFacts ==
  ASSUME InputInv, NEW unit, unit = Unit, UnitCommand(unit), UNCHANGED length
  PROVE  InputInv'
<1>1. Parsing(unit) /\ unit.type = "header"
  BY DEF UnitCommand
<1>2. PICK c : /\ c = Composed(unit) /\ buf' = c.buf /\ prev' = c.cur
               /\ \E kind : processCommand(kind, unit.data)
  BY DEF UnitCommand
<1>3. /\ c.buf \in Seq(STRING) /\ Len(c.buf) = Len(buf)
      /\ \A i \in off + 1 .. Len(buf) : c.buf[i] = buf[i]
      /\ c.cur \in Token /\ c.cur.ptr + c.cur.len <= off'
  BY <1>1, <1>2, HeaderTurnFacts
<1>4. pc \in {"parse", "flush"}
  BY <1>1 DEF Parsing
<1>5. /\ out \in Seq(Written) /\ Alternates(out) /\ answered \in BOOLEAN
      /\ answered <=> Len(out) % 2 = 1
  BY <1>4 DEF InputInv, Shapes, Apart
<1>6. /\ out' \in Seq(Written) /\ Alternates(out') /\ answered' \in BOOLEAN
      /\ answered' <=> Len(out') % 2 = 1
  BY <1>2, <1>5, ProcessFacts
<1>7. /\ buf' \in Seq(STRING) /\ Len(buf') = Len(buf)
      /\ \A i \in off + 1 .. Len(buf) : buf'[i] = buf[i]
      /\ prev' \in Token /\ prev'.ptr + prev'.len <= off'
  BY <1>2, <1>3
<1> QED
  BY <1>1, <1>6, <1>7, TurnFacts

(* writeNewLine closes an open line of results.                            *)
LEMMA ResponseFacts ==
  ASSUME InputInv, pc \in {"parse", "flush"}, EndOfResponse
  PROVE  off = tot /\ out' \in Seq(Written) /\ Alternates(out') /\ Len(out') % 2 = 0
<1>1. /\ out \in Seq(Written) /\ Alternates(out) /\ answered \in BOOLEAN
      /\ answered <=> Len(out) % 2 = 1
  BY DEF InputInv, Shapes, Apart
<1>2. Len(out) % 2 \in {0, 1}
  BY <1>1
<1>3. CASE answered
  <2>1. out' = Append(out, "nl") /\ Len(out) % 2 = 1 /\ off = tot
    BY <1>1, <1>3 DEF EndOfResponse
  <2>2. "nl" \in Written
    BY DEF Written
  <2>3. "nl" # "r"
    OBVIOUS
  <2> QED
    BY <1>1, <2>1, <2>2, <2>3, OneSeparator
<1>4. CASE ~answered
  BY <1>1, <1>2, <1>4 DEF EndOfResponse
<1> QED
  BY <1>3, <1>4

LEMMA EndLineFacts ==
  ASSUME InputInv, EndLine, UNCHANGED length
  PROVE  InputInv'
<1>1. /\ pc = "parse" /\ pc' = "scan" /\ buf' = From(buf, tot) /\ taken' = taken + tot /\ tot' = 0
      /\ given' = given /\ off' = off /\ prev' = prev /\ answered' = answered
      /\ EndOfResponse
  BY DEF EndLine, parse
<1>2. off = tot /\ out' \in Seq(Written) /\ Alternates(out') /\ Len(out') % 2 = 0
  BY <1>1, ResponseFacts
<1>3. /\ buf \in Seq(STRING) /\ Len(buf) \in Nat /\ tot \in 0 .. Len(buf)
      /\ taken \in Nat /\ tot \in Nat
  BY <1>1, LengthFacts DEF InputInv, Shapes, InBuffer
<1>4. /\ buf' \in Seq(STRING) /\ Len(buf') = Len(buf) - tot
      /\ \A i \in 1 .. Len(buf) - tot : buf'[i] = buf[tot+i]
  BY <1>1, <1>3, FromFacts
<1>5. Shapes'
  BY <1>1, <1>2, <1>3, <1>4 DEF InputInv, Shapes
<1>6. InBuffer'
  BY <1>1, <1>3, <1>4, LengthFacts DEF InBuffer
<1>7. Rest'
  <2>1. Len(given) = taken + Len(buf)
    BY <1>1 DEF InputInv, Rest
  <2>2. Len(given) = (taken + tot) + (Len(buf) - tot)
    BY <1>3, <2>1
  <2>3. ASSUME NEW i \in 1 .. Len(buf) - tot
        PROVE  buf'[i] = given[(taken + tot) + i]
    <3>1. tot + i \in 1 .. Len(buf) /\ off < tot + i /\ taken + (tot + i) = (taken + tot) + i
      BY <1>2, <1>3
    <3>2. buf[tot + i] = given[taken + (tot + i)]
      BY <1>1, <3>1 DEF InputInv, Rest
    <3> QED
      BY <1>4, <3>1, <3>2
  <2> QED
    BY <1>1, <1>4, <2>2, <2>3 DEF Rest
<1>8. LineIsWhole' /\ Scanned' /\ Waiting'
  BY <1>1, StartFacts DEF LineIsWhole, Scanned, Waiting
<1>9. Apart'
  BY <1>1, <1>2 DEF Apart
<1> QED
  BY <1>5, <1>6, <1>7, <1>8, <1>9 DEF InputInv

LEMMA EndFlushFacts ==
  ASSUME InputInv, EndFlush, UNCHANGED length
  PROVE  InputInv'
<1>1. /\ pc = "flush" /\ pc' = "done" /\ buf' = <<>> /\ taken' = tot /\ tot' = tot
      /\ given' = given /\ off' = off /\ prev' = prev /\ answered' = answered
      /\ EndOfResponse
  BY DEF EndFlush, parse
<1>2. out' \in Seq(Written) /\ Alternates(out') /\ Len(out') % 2 = 0
  BY <1>1, ResponseFacts
<1>3. Shapes'
  BY <1>1, <1>2 DEF InputInv, Shapes
<1>4. InBuffer'
  BY <1>1, LengthFacts DEF InBuffer
<1>5. Rest' /\ LineIsWhole' /\ Scanned'
  BY <1>1 DEF Rest, LineIsWhole, Scanned
<1>6. Waiting'
  BY <1>1, EmptyWaits DEF Waiting
<1>7. Apart'
  BY <1>1, <1>2 DEF Apart
<1> QED
  BY <1>3, <1>4, <1>5, <1>6, <1>7 DEF InputInv

LEMMA ReturnFacts ==
  ASSUME InputInv, Return, UNCHANGED length
  PROVE  InputInv'
<1>1. /\ pc = "done" /\ pc' = "idle" /\ tot' = 0 /\ off' = 0 /\ taken' = 0 /\ prev' = NoToken
      /\ out' = <<>> /\ given' = <<>> /\ buf' = buf /\ answered' = answered
  BY DEF Return
<1>2. Shapes'
  BY <1>1, NoTokenFacts DEF InputInv, Shapes
<1>3. InBuffer'
  BY <1>1, LengthFacts DEF InBuffer
<1>4. Rest' /\ LineIsWhole' /\ Scanned'
  BY <1>1 DEF Rest, LineIsWhole, Scanned
<1>5. Waiting'
  BY <1>1 DEF InputInv, Waiting
<1>6. Apart'
  BY <1>1, NothingWritten DEF Apart
<1> QED
  BY <1>2, <1>3, <1>4, <1>5, <1>6 DEF InputInv

LEMMA StepFacts ==
  ASSUME InputInv, [Next]_vars
  PROVE  InputInv'
<1>1. CASE Next
  <2>1. UNCHANGED length
    BY <1>1 DEF Next
  <2>2. CASE Calls
    BY <2>1, <2>2, FlushFacts, OverrunFacts, AppendFacts DEF Calls
  <2>3. CASE Turn
    <3>1. CASE EndLine \/ EndFlush \/ Return
      BY <2>1, <3>1, EndLineFacts, EndFlushFacts, ReturnFacts
    <3>2. CASE \E unit \in {Unit} :
                 \/ ScanLine(unit) \/ ScanUnit(unit) \/ UnitInvalid(unit)
                 \/ UnitEmpty(unit) \/ UnitUndefined(unit) \/ UnitCommand(unit)
      <4>1. PICK unit \in {Unit} :
                 \/ ScanLine(unit) \/ ScanUnit(unit) \/ UnitInvalid(unit)
                 \/ UnitEmpty(unit) \/ UnitUndefined(unit) \/ UnitCommand(unit)
        BY <3>2
      <4>2. unit = Unit
        OBVIOUS
      <4> QED
        BY <2>1, <4>1, <4>2, ScanLineFacts, ScanUnitFacts, QuietFacts, UndefinedFacts, CommandFacts
    <3> QED
      BY <2>3, <3>1, <3>2 DEF Turn, Inside
  <2> QED
    BY <1>1, <2>2, <2>3 DEF Next
<1>2. CASE UNCHANGED vars
  BY <1>2 DEF vars, parse, InputInv, Shapes, InBuffer, Rest, LineIsWhole, Scanned, Waiting, Apart
<1> QED
  BY <1>1, <1>2

LEMMA InputInvariant == Spec => []InputInv
<1>1. Init => InputInv
  BY InitFacts
<1>2. InputInv /\ [Next]_vars => InputInv'
  BY StepFacts
<1> QED
  BY <1>1, <1>2, PTL DEF Spec
-----------------------------------------------------------------------------
(* SCPI_Input stays inside the buffer for every size of it, every text and *)
(* every split of the text into calls: the terminating zero has its place, *)
(* totcmdlen never passes position, cmd_prev lies in what was parsed.      *)
THEOREM InputStaysInBuffer == Spec => []InBuffer
BY InputInvariant, PTL DEF InputInv

(* Composing headers in place never touches what has still to be executed. *)
THEOREM InputRestUntouched == Spec => []RestUntouched
<1>1. InputInv => RestUntouched
  <2> SUFFICES ASSUME InputInv, pc \in {"scan", "parse", "flush"}
               PROVE  LET done == IF pc = "scan" THEN 0 ELSE off
                      IN  From(buf, done) = From(given, taken + done)
    BY DEF RestUntouched
  <2> DEFINE done == IF pc = "scan" THEN 0 ELSE off
             a == From(buf, done)
             b == From(given, taken + done)
  <2>1. /\ buf \in Seq(STRING) /\ given \in Seq(STRING) /\ Len(buf) \in Nat /\ taken \in Nat
        /\ done \in 0 .. Len(buf) /\ Len(given) = taken + Len(buf)
    BY LengthFacts DEF InputInv, Shapes, InBuffer, Rest
  <2>2. taken + done \in 0 .. Len(given) /\ Len(given) - (taken + done) = Len(buf) - done
    BY <2>1
  <2>3. \A i \in 1 .. Len(buf) : done < i => buf[i] = given[taken + i]
    BY DEF InputInv, Rest
  <2> HIDE DEF done
  <2>4. /\ a \in Seq(STRING) /\ Len(a) = Len(buf) - done
        /\ \A i \in 1 .. Len(buf) - done : a[i] = buf[done+i]
    BY <2>1, FromFacts
  <2>5. /\ b \in Seq(STRING) /\ Len(b) = Len(buf) - done
        /\ \A i \in 1 .. Len(buf) - done : b[i] = given[(taken+done)+i]
    BY <2>1, <2>2, FromFacts
  <2> HIDE DEF a, b
  <2>6. ASSUME NEW i \in 1 .. Len(buf) - done
        PROVE  a[i] = b[i]
    <3>1. done + i \in 1 .. Len(buf) /\ done < done + i /\ taken + (done + i) = (taken + done) + i
      BY <2>1
    <3> QED
      BY <2>3, <2>4, <2>5, <3>1
  <2>7. a = b
    BY <2>4, <2>5, <2>6, SeqEqual
  <2> QED
    BY <2>7 DEF a, b, done
<1> QED
  BY <1>1, InputInvariant, PTL

(* SCPI_Parse is given one whole line, however the text arrived.           *)
THEOREM InputLineIsWhole == Spec => []LineIsWhole
BY InputInvariant, PTL DEF InputInv

(* Between calls a line ending stays in the buffer only behind an empty    *)
(* unit.                                                                   *)
THEOREM InputOnlyEmptyUnitsWait == Spec => []OnlyEmptyUnitsWait
<1>1. InputInv => OnlyEmptyUnitsWait
  BY DEF InputInv, Waiting, Waits, OnlyEmptyUnitsWait
<1> QED
  BY <1>1, InputInvariant, PTL

(* In every response results alternate with separators.                    *)
THEOREM InputResultsApart == Spec => []ResultsApart
<1>1. InputInv => ResultsApart
  BY DEF InputInv, Apart, Alternates, ResultsApart
<1> QED
  BY <1>1, InputInvariant, PTL
-----------------------------------------------------------------------------
(* Composing in place.                                                     *)

(* The text of the composed header is the path of the previous command and *)
(* the header, or the header alone.                                        *)
LEMMA ComposedText ==
  ASSUME NEW b \in Seq(STRING), NEW p \in Token, NEW at \in Nat, NEW k \in Nat,
         at + k <= Len(b), p.ptr + p.len <= at,
         NEW c, c = composeCompoundCommand(b, p, [ptr |-> at, len |-> k])
  PROVE  Text(c.buf, c.cur) = Resolve(Text(b, p), SubSeq(b, at + 1, at + k))
<1> DEFINE h == SubSeq(b, at + 1, at + k)
           q == Text(b, p)
           i == PathLen(q)
           to == at - i
           m == memmove(b, to, p.ptr, i)
<1>1. /\ Len(b) \in Nat /\ p.ptr \in Nat /\ p.len \in Nat /\ at <= Len(b)
      /\ p.ptr + p.len \in 0 .. Len(b) /\ p.ptr \in 0 .. p.ptr + p.len
      /\ at + k \in 0 .. Len(b) /\ at \in 0 .. at + k
  BY DEF Token
<1>2. /\ q \in Seq(STRING) /\ Len(q) = p.len
      /\ \A j \in 1 .. p.len : q[j] = b[p.ptr+j]
  <2>1. (p.ptr + p.len) - p.ptr = p.len
    BY <1>1
  <2> QED
    BY <1>1, <2>1, PartFacts DEF Text
<1>3. /\ h \in Seq(STRING) /\ Len(h) = k
      /\ \A j \in 1 .. k : h[j] = b[at+j]
  <2>1. (at + k) - at = k
    BY <1>1
  <2> QED
    BY <1>1, <2>1, PartFacts
<1>4. i \in 0 .. p.len
  <2> HIDE DEF q
  <2> QED
    BY <1>2, PathFacts
<1>5. c = IF IsRelative(q, h) THEN [buf |-> m, cur |-> [ptr |-> to, len |-> k + i]]
          ELSE [buf |-> b, cur |-> [ptr |-> at, len |-> k]]
  BY DEF composeCompoundCommand, Text
<1> HIDE DEF h
<1>6. Resolve(q, h) = IF IsRelative(q, h) THEN SubSeq(q, 1, i) \o h ELSE h
  BY DEF Resolve
<1>7. CASE ~IsRelative(q, h)
  BY <1>5, <1>6, <1>7 DEF Text, h
<1>8. CASE IsRelative(q, h)
  <2> DEFINE x == SubSeq(q, 1, i)
             y == SubSeq(m, to + 1, at + k)
  <2>1. Text(c.buf, c.cur) = y
    <3> HIDE DEF m, i, to
    <3>1. c.buf = m /\ c.cur.ptr = to /\ c.cur.len = k + i
      BY <1>5, <1>8
    <3>2. to + (k + i) = at + k
      BY <1>1, <1>4 DEF to
    <3> QED
      BY <3>1, <3>2 DEF Text
  <2>2. Resolve(q, h) = x \o h
    BY <1>6, <1>8
  <2> HIDE DEF q, i
  <2>3. /\ to \in Nat /\ i \in Nat /\ p.ptr \in Nat /\ to + i = at
        /\ to + i <= Len(b) /\ p.ptr + i <= Len(b)
        /\ to \in 0 .. at + k /\ (at + k) - to = k + i
    BY <1>1, <1>4
  <2> HIDE DEF to
  <2>4. /\ m \in Seq(STRING) /\ Len(m) = Len(b)
        /\ \A j \in to + i + 1 .. Len(b) : m[j] = b[j]
        /\ \A j \in 1 .. i : m[to+j] = b[p.ptr+j]
    BY <2>3, MoveFacts
  <2> HIDE DEF m
  <2>5. x \in Seq(STRING) /\ Len(x) = i /\ \A j \in 1 .. i : x[j] = q[j]
    <3>1. i \in 0 .. Len(q) /\ 0 \in 0 .. i /\ i - 0 = i /\ 0 + 1 = 1
      BY <1>1, <1>2, <1>4
    <3>2. /\ x \in Seq(STRING) /\ Len(x) = i - 0 /\ \A j \in 1 .. i - 0 : x[j] = q[0+j]
      BY <1>2, <3>1, PartFacts
    <3>3. \A j \in 1 .. i : 0 + j = j
      BY <1>1, <1>4
    <3> QED
      BY <3>1, <3>2, <3>3
  <2>6. y \in Seq(STRING) /\ Len(y) = k + i /\ \A j \in 1 .. k + i : y[j] = m[to+j]
    <3>1. at + k \in 0 .. Len(m)
      BY <1>1, <2>4
    <3> QED
      BY <2>3, <2>4, <3>1, PartFacts
  <2> HIDE DEF x, y
  <2> DEFINE z == x \o h
  <2>7. /\ z \in Seq(STRING) /\ Len(z) = i + k
        /\ \A j \in 1 .. i + k : z[j] = IF j <= i THEN x[j] ELSE h[j - i]
    <3>1. /\ z \in Seq(STRING) /\ Len(z) = Len(x) + Len(h)
          /\ \A j \in 1 .. Len(x) + Len(h) : z[j] = IF j <= Len(x) THEN x[j] ELSE h[j - Len(x)]
      BY <1>3, <2>5, ConcatProperties
    <3> HIDE DEF z
    <3> QED
      BY <1>3, <2>5, <3>1
  <2> HIDE DEF z
  <2>8. ASSUME NEW j \in 1 .. i + k
        PROVE  y[j] = z[j]
    <3>1. j \in 1 .. k + i
      BY <2>3
    <3>2. CASE j <= i
      <4>1. j \in 1 .. i /\ j \in 1 .. p.len
        BY <1>1, <1>4, <2>3, <3>1, <3>2
      <4>2. y[j] = b[p.ptr+j]
        BY <2>4, <2>6, <3>1, <4>1
      <4>3. z[j] = q[j]
        BY <2>5, <2>7, <3>2, <4>1
      <4> QED
        BY <1>2, <4>1, <4>2, <4>3
    <3>3. CASE ~(j <= i)
      <4>1. /\ j - i \in 1 .. k /\ to + j = at + (j - i)
            /\ to + j \in to + i + 1 .. Len(b)
        BY <1>1, <2>3, <3>1, <3>3
      <4>2. y[j] = b[at + (j - i)]
        BY <2>4, <2>6, <3>1, <4>1
      <4>3. z[j] = h[j - i]
        BY <2>7, <3>3
      <4> QED
        BY <1>3, <4>1, <4>2, <4>3
    <3> QED
      BY <3>2, <3>3
  <2>9. Len(y) = Len(z) /\ Len(z) = i + k
    BY <2>3, <2>6, <2>7
  <2>10. y = z
    BY <2>6, <2>7, <2>8, <2>9, SeqEqual
  <2> QED
    BY <2>1, <2>2, <2>10 DEF q, z, h
<1> QED
  BY <1>7, <1>8 DEF h

(* One more character of a part of s.                                      *)
LEMMA PartGrows ==
  ASSUME NEW s \in Seq(STRING), NEW m \in Nat, NEW n \in Nat, m <= n, n < Len(s)
  PROVE  SubSeq(s, m + 1, n + 1) = Append(SubSeq(s, m + 1, n), s[n+1])
<1> DEFINE x == SubSeq(s, m + 1, n + 1)
           w == SubSeq(s, m + 1, n)
           y == Append(w, s[n+1])
<1>1. Len(s) \in Nat /\ n \in 0 .. Len(s) /\ n + 1 \in 0 .. Len(s) /\ m \in 0 .. n /\ m \in 0 .. n + 1
  OBVIOUS
<1>2. s[n+1] \in STRING
  BY <1>1, ElementOfSeq
<1>3. x \in Seq(STRING) /\ Len(x) = (n + 1) - m /\ \A i \in 1 .. (n + 1) - m : x[i] = s[m+i]
  BY <1>1, PartFacts
<1>4. w \in Seq(STRING) /\ Len(w) = n - m /\ \A i \in 1 .. n - m : w[i] = s[m+i]
  BY <1>1, PartFacts
<1> HIDE DEF x, w
<1>5. /\ y \in Seq(STRING) /\ Len(y) = Len(w) + 1
      /\ \A i \in 1 .. Len(w) : y[i] = w[i]
      /\ y[Len(w) + 1] = s[n+1]
  BY <1>2, <1>4, AppendProperties
<1> HIDE DEF y
<1>6. Len(x) = Len(y) /\ Len(w) + 1 = (n + 1) - m
  BY <1>1, <1>3, <1>4, <1>5
<1>7. ASSUME NEW i \in 1 .. Len(x)
      PROVE  x[i] = y[i]
  <2>1. CASE i = Len(w) + 1
    <3>1. m + i = n + 1 /\ i \in 1 .. (n + 1) - m
      BY <1>1, <1>4, <1>3, <2>1
    <3> QED
      BY <1>3, <1>5, <2>1, <3>1
  <2>2. CASE i # Len(w) + 1
    <3>1. i \in 1 .. n - m /\ i \in 1 .. Len(w) /\ i \in 1 .. (n + 1) - m
      BY <1>1, <1>3, <1>4, <2>2
    <3> QED
      BY <1>3, <1>4, <1>5, <3>1
  <2> QED
    BY <2>1, <2>2
<1>8. x = y
  BY <1>3, <1>5, <1>6, <1>7, SeqEqual
<1> QED
  BY <1>8 DEF x, y

(* No part at all.                                                         *)
LEMMA EmptyPart ==
  ASSUME NEW s \in Seq(STRING), NEW m \in 0 .. Len(s)
  PROVE  SubSeq(s, m + 1, m) = <<>>
<1>1. SubSeq(s, m + 1, m) \in Seq(STRING) /\ Len(SubSeq(s, m + 1, m)) = m - m
  BY PartFacts
<1>2. m - m = 0
  OBVIOUS
<1> QED
  BY <1>1, <1>2, EmptySeq

(* The states in which a line is read: cur is read of a header, or a       *)
(* header cur and part of its data; the previous command was p, and hs are *)
(* the headers so far.                                                     *)
InHeader(cur, p, hs) == [cur |-> cur, part |-> "header", prev |-> p, done |-> hs]
InData(cur, p, hs) == [cur |-> cur, part |-> "data", prev |-> p, done |-> hs]

LEMMA ReadHeaderChar ==
  ASSUME NEW cur, NEW p, NEW hs, NEW c, c \notin {";", "n", "p"}
  PROVE  ReadChar(InHeader(cur, p, hs), c) = InHeader(Append(cur, c), p, hs)
BY DEF ReadChar, InHeader

LEMMA ReadDigit ==
  ASSUME NEW cur, NEW p, NEW hs
  PROVE  ReadChar(InHeader(cur, p, hs), "p") = InData(cur, p, hs)
BY DEF ReadChar, InHeader, InData

LEMMA ReadDataChar ==
  ASSUME NEW cur, NEW p, NEW hs, NEW c, c \notin {";", "n", "p"}
  PROVE  ReadChar(InData(cur, p, hs), c) = InData(cur, p, hs)
BY DEF ReadChar, InData

(* What a terminator leaves.                                               *)
Closed(s) == [CloseUnit(s) EXCEPT !.part = "header"]

(* The header h the previous command p and the text cur give is known.     *)
Names(p, cur, h) == cur # <<>> /\ h = Resolve(p, cur) /\ findCommandHeader(h)

(* Closing a unit with a known header adds that header.                    *)
LEMMA CloseHeader ==
  ASSUME NEW cur, NEW p, NEW hs, NEW h, Names(p, cur, h)
  PROVE  \A s \in {InHeader(cur, p, hs), InData(cur, p, hs)} :
           /\ CloseUnit(s).done = Append(hs, h)
           /\ Closed(s) = InHeader(<<>>, h, Append(hs, h))
<1> USE DEF Names
<1> SUFFICES ASSUME NEW s \in {InHeader(cur, p, hs), InData(cur, p, hs)}
             PROVE  /\ CloseUnit(s).done = Append(hs, h)
                    /\ Closed(s) = InHeader(<<>>, h, Append(hs, h))
  OBVIOUS
<1>1. s.cur = cur /\ s.prev = p /\ s.done = hs
  BY DEF InHeader, InData
<1> DEFINE t == [s EXCEPT !.cur = <<>>, !.done = Append(@, h), !.prev = h]
<1>2. CloseUnit(s) = t
  BY <1>1 DEF CloseUnit
<1>3. PICK q : s = [cur |-> cur, part |-> q, prev |-> p, done |-> hs]
  BY DEF InHeader, InData
<1> DEFINE hs2 == Append(hs, h)
<1>4. t = [cur |-> <<>>, part |-> q, prev |-> h, done |-> hs2]
  <2>1. t = [s EXCEPT !.cur = <<>>, !.done = hs2, !.prev = h]
    BY <1>1
  <2> HIDE DEF hs2, t
  <2> QED
    BY <1>3, <2>1
<1> HIDE DEF hs2, t
<1>5. t.done = hs2 /\ [t EXCEPT !.part = "header"] = InHeader(<<>>, h, hs2)
  BY <1>4 DEF InHeader
<1> QED
  BY <1>2, <1>5 DEF hs2, Closed

LEMMA CloseEmpty ==
  ASSUME NEW p, NEW hs, NEW s, s = InHeader(<<>>, p, hs)
  PROVE  /\ CloseUnit(s).done = hs
         /\ Closed(s) = InHeader(<<>>, p, hs)
<1>1. CloseUnit(s) = s
  BY DEF CloseUnit, InHeader
<1>2. s.done = hs /\ [s EXCEPT !.part = "header"] = InHeader(<<>>, p, hs)
  BY DEF InHeader
<1> QED
  BY <1>1, <1>2 DEF Closed

(* Reading is defined for every line: as far as k if it is as far as k - 1.*)
ReadsTo(line, k, f) ==
  f = [n \in 0 .. k |-> IF n = 0 THEN InHeader(<<>>, <<>>, <<>>) ELSE ReadChar(f[n - 1], line[n])]

LEMMA ReadFacts ==
  ASSUME NEW line \in Seq(STRING), NEW r, r = Read(line)
  PROVE  /\ r[0] = InHeader(<<>>, <<>>, <<>>)
         /\ \A n \in 1 .. Len(line) : r[n] = ReadChar(r[n - 1], line[n])
<1> DEFINE T == {k \in 0 .. Len(line) : \E f : ReadsTo(line, k, f)}
<1>1. Len(line) \in Nat /\ 0 \in Nat /\ 0 <= Len(line)
  OBVIOUS
<1>2. 0 \in T
  <2> DEFINE f == [n \in 0 .. 0 |-> InHeader(<<>>, <<>>, <<>>)]
  <2>1. ReadsTo(line, 0, f)
    BY DEF ReadsTo
  <2> QED
    BY <1>1, <2>1
<1>3. ASSUME NEW k \in 0 .. Len(line), k \in T, k < Len(line)
      PROVE  k + 1 \in T
  <2>1. PICK f : ReadsTo(line, k, f)
    BY <1>3
  <2> DEFINE g == [n \in 0 .. k + 1 |-> IF n = k + 1 THEN ReadChar(f[k], line[k + 1]) ELSE f[n]]
  <2>2. \A n \in 0 .. k : g[n] = f[n]
    BY <1>1
  <2>3. g[k + 1] = ReadChar(f[k], line[k + 1])
    BY <1>1
  <2>4. ASSUME NEW n \in 0 .. k + 1
        PROVE  g[n] = IF n = 0 THEN InHeader(<<>>, <<>>, <<>>) ELSE ReadChar(g[n - 1], line[n])
    <3> HIDE DEF g
    <3>1. CASE n = k + 1
      <4>1. n # 0 /\ n - 1 = k /\ k \in 0 .. k
        BY <1>1, <3>1
      <4> QED
        BY <2>2, <2>3, <3>1, <4>1
    <3>2. CASE n # k + 1
      <4>1. n \in 0 .. k
        BY <1>1, <3>2
      <4>2. f[n] = IF n = 0 THEN InHeader(<<>>, <<>>, <<>>) ELSE ReadChar(f[n - 1], line[n])
        BY <2>1, <4>1 DEF ReadsTo
      <4>3. n # 0 => n - 1 \in 0 .. k
        BY <1>1, <4>1
      <4> QED
        BY <2>2, <4>1, <4>2, <4>3
    <3> QED
      BY <3>1, <3>2
  <2>5. ReadsTo(line, k + 1, g)
    BY <2>4 DEF ReadsTo
  <2>6. k + 1 \in 0 .. Len(line)
    BY <1>1, <1>3
  <2> HIDE DEF g
  <2> QED
    BY <2>5, <2>6
<1>4. \E f : ReadsTo(line, Len(line), f)
  <2>1. PICK n \in 0 .. Len(line) : 0 .. n \subseteq T /\ (n < Len(line) => n + 1 \notin T)
    <3> HIDE DEF T
    <3> QED
      BY <1>1, <1>2, FirstOutside
  <2>2. n \in T
    BY <1>1, <2>1
  <2>3. ~(n < Len(line))
    BY <1>3, <2>1, <2>2
  <2>4. n = Len(line)
    BY <1>1, <2>3
  <2> QED
    BY <2>2, <2>4
<1>5. r = CHOOSE f : ReadsTo(line, Len(line), f)
  BY DEF Read, ReadsTo, InHeader
<1>6. ReadsTo(line, Len(line), r)
  BY <1>4, <1>5
<1>7. \A n \in 0 .. Len(line) :
        r[n] = IF n = 0 THEN InHeader(<<>>, <<>>, <<>>) ELSE ReadChar(r[n - 1], line[n])
  BY <1>6 DEF ReadsTo
<1> QED
  BY <1>1, <1>7

(* The text of a unit that is not invalid: a header of h characters, data  *)
(* up to the n-th, then a terminator or the end of s.                      *)
Stops == {";", "n", "p"}
UnitText(s, u, n) ==
  /\ n \in 0 .. Len(s) /\ u.header \in 0 .. n
  /\ (u.type = "header" /\ u.header > 0) \/ (u.type = "unknown" /\ n = 0)
  /\ \A i \in 1 .. u.header : s[i] \notin Stops
  /\ n > u.header => s[u.header+1] = "p"
  /\ \A i \in u.header + 2 .. n : s[i] \notin Stops
  /\ \/ u.used = n + 1 /\ n < Len(s) /\ s[n+1] \in {";", "n"}
     \/ u.used = n /\ n = Len(s)

LEMMA UnitTextFacts ==
  ASSUME NEW s \in Seq(STRING), NEW u, u = scpiParser_detectProgramMessageUnit(s),
         u.type # "invalid"
  PROVE  \E n \in 0 .. Len(s) : UnitText(s, u, n)
<1> DEFINE h == scpiLex_ProgramHeader(s)
           d == DataLen(s, h)
           n == h + d
           term == IF n < Len(s) /\ s[n+1] \in {";", "n"} THEN s[n+1] ELSE "none"
           bad == n < Len(s) /\ term = "none"
<1>1. Len(s) \in Nat
  OBVIOUS
<1>2. /\ u.used = CASE bad -> n + 1 [] term # "none" -> n + 1 [] OTHER -> n
      /\ u.type = CASE bad -> "invalid" [] h > 0 /\ ~bad -> "header" [] OTHER -> "unknown"
      /\ u.header = IF bad THEN 1 ELSE h
  BY DEF scpiParser_detectProgramMessageUnit, UnitAt
<1>3. /\ h \in 0 .. Len(s)
      /\ \A i \in 1 .. h : Letter(s[i]) \/ s[i] \in {"*", ":"}
  BY HeaderFacts
<1> HIDE DEF h
<1>4. /\ d \in 0 .. Len(s) - h
      /\ h = 0 => d = 0
      /\ d > 0 => s[h+1] = "p"
      /\ \A i \in h + 2 .. h + d : Letter(s[i])
  BY <1>3, DataFacts
<1> HIDE DEF d
<1>5. /\ n \in 0 .. Len(s) /\ h \in 0 .. n /\ h \in Nat
      /\ h = 0 => n = 0
      /\ n > h => s[h+1] = "p"
      /\ \A i \in h + 2 .. n : s[i] \notin Stops
  <2>1. n \in 0 .. Len(s) /\ h \in 0 .. n /\ h \in Nat /\ (h = 0 => n = 0) /\ (n > h => d > 0)
    BY <1>1, <1>3, <1>4
  <2>2. \A i \in h + 2 .. n : s[i] \notin Stops
    BY <1>4 DEF Letter, Stops
  <2> QED
    BY <1>4, <2>1, <2>2
<1>6. \A i \in 1 .. h : s[i] \notin Stops
  BY <1>3 DEF Letter, Stops
<1> HIDE DEF n
<1>7. ~bad
  BY <1>2
<1>8. /\ u.header = h
      /\ (h > 0 /\ u.type = "header") \/ (~(h > 0) /\ u.type = "unknown")
  BY <1>2, <1>7
<1>9. \/ u.used = n + 1 /\ n < Len(s) /\ s[n+1] \in {";", "n"}
      \/ u.used = n /\ n = Len(s)
  <2>1. CASE term # "none"
    <3>1. n < Len(s) /\ s[n+1] \in {";", "n"}
      BY <2>1
    <3>2. u.used = n + 1
      BY <1>2, <1>7, <2>1
    <3> QED
      BY <3>1, <3>2
  <2>2. CASE term = "none"
    <3>1. u.used = n /\ ~(n < Len(s))
      BY <1>2, <1>7, <2>2
    <3>2. n = Len(s)
      BY <1>1, <1>5, <3>1
    <3> QED
      BY <3>1, <3>2
  <2> QED
    BY <2>1, <2>2
<1> HIDE DEF term, bad
<1>10. (u.type = "header" /\ u.header > 0) \/ (u.type = "unknown" /\ n = 0)
  <2>1. CASE h > 0
    BY <1>8, <2>1
  <2>2. CASE ~(h > 0)
    <3>1. h = 0
      BY <1>5, <2>2
    <3> QED
      BY <1>5, <1>8, <2>2, <3>1
  <2> QED
    BY <2>1, <2>2
<1>11. UnitText(s, u, n)
  BY <1>5, <1>6, <1>8, <1>9, <1>10 DEF UnitText
<1> QED
  BY <1>5, <1>11

(* A header of h characters, and data up to the n-th, behind the first at  *)
(* characters of a line.                                                   *)
TextAt(line, at, h, n) ==
  /\ \A i \in 1 .. h : line[at+i] \notin Stops
  /\ n > h => line[at+h+1] = "p"
  /\ \A i \in h + 2 .. n : line[at+i] \notin Stops

(* Reading a unit, from its first character to its n-th, collects its      *)
(* header.                                                                 *)
LEMMA ReadUnit ==
  ASSUME NEW line \in Seq(STRING), NEW at \in Nat, NEW n \in Nat, at + n <= Len(line),
         NEW h \in 0 .. n, TextAt(line, at, h, n),
         NEW p, NEW hs, Read(line)[at] = InHeader(<<>>, p, hs)
  PROVE  \/ Read(line)[at+n] = InHeader(SubSeq(line, at + 1, at + h), p, hs)
         \/ Read(line)[at+n] = InData(SubSeq(line, at + 1, at + h), p, hs)
<1> DEFINE r == Read(line)
           hd == SubSeq(line, at + 1, at + h)
<1>1. Len(line) \in Nat /\ h \in Nat /\ at \in 0 .. Len(line) /\ at + 0 = at
  OBVIOUS
<1>2. ASSUME NEW i \in 1 .. n
      PROVE  r[at+i] = ReadChar(r[at + (i - 1)], line[at+i])
  <2>1. at + i \in 1 .. Len(line) /\ (at + i) - 1 = at + (i - 1)
    BY <1>1
  <2> QED
    BY <2>1, ReadFacts
<1>3. r[at+h] = InHeader(hd, p, hs)
  <2> DEFINE T == {i \in 0 .. h : r[at+i] = InHeader(SubSeq(line, at + 1, at + i), p, hs)}
  <2>1. 0 \in T
    <3>1. SubSeq(line, at + 1, at) = <<>>
      BY <1>1, EmptyPart
    <3>2. 0 \in 0 .. h
      BY <1>1
    <3>3. r[at+0] = InHeader(SubSeq(line, at + 1, at + 0), p, hs)
      BY <1>1, <3>1
    <3> QED
      BY <3>2, <3>3
  <2>2. ASSUME NEW i \in 0 .. h, i \in T, i < h
        PROVE  i + 1 \in T
    <3>1. i + 1 \in 1 .. h /\ i + 1 \in 1 .. n /\ i + 1 \in 0 .. h /\ (i + 1) - 1 = i
      BY <1>1, <2>2
    <3>2. r[at+(i+1)] = ReadChar(InHeader(SubSeq(line, at + 1, at + i), p, hs), line[at+(i+1)])
      BY <1>2, <2>2, <3>1
    <3>3. line[at+(i+1)] \notin {";", "n", "p"}
      BY <3>1 DEF TextAt, Stops
    <3>4. r[at+(i+1)] = InHeader(Append(SubSeq(line, at + 1, at + i), line[at+(i+1)]), p, hs)
      <4> DEFINE a == SubSeq(line, at + 1, at + i)
                 e == line[at+(i+1)]
      <4>1. ReadChar(InHeader(a, p, hs), e) = InHeader(Append(a, e), p, hs)
        <5>1. e \notin {";", "n", "p"}
          BY <3>3
        <5> HIDE DEF a, e
        <5> QED
          BY <5>1, ReadHeaderChar
      <4> QED
        BY <3>2, <4>1
    <3>5. SubSeq(line, at + 1, at + (i+1)) = Append(SubSeq(line, at + 1, at + i), line[at+(i+1)])
      <4>1. at + i \in Nat /\ at <= at + i /\ at + i < Len(line) /\ (at + i) + 1 = at + (i + 1)
        BY <1>1, <3>1
      <4> QED
        BY <4>1, PartGrows
    <3> QED
      BY <3>1, <3>4, <3>5
  <2>3. PICK k \in 0 .. h : 0 .. k \subseteq T /\ (k < h => k + 1 \notin T)
    <3>1. 0 \in Nat /\ 0 <= h
      BY <1>1
    <3> HIDE DEF T
    <3> QED
      BY <1>1, <2>1, <3>1, FirstOutside
  <2>4. k \in T
    BY <1>1, <2>3
  <2>5. k = h
    BY <1>1, <2>2, <2>3, <2>4
  <2> QED
    BY <2>4, <2>5
<1>4. CASE n = h
  BY <1>3, <1>4
<1>5. CASE n > h
  <2> DEFINE T == {i \in h + 1 .. n : r[at+i] = InData(hd, p, hs)}
  <2>1. h + 1 \in T
    <3>1. h + 1 \in 1 .. n /\ (h + 1) - 1 = h /\ at + (h + 1) = at + h + 1 /\ h + 1 \in h + 1 .. n
      BY <1>1, <1>5
    <3>2. r[at+(h+1)] = ReadChar(InHeader(hd, p, hs), "p")
      BY <1>2, <1>3, <1>5, <3>1 DEF TextAt
    <3>3. r[at+(h+1)] = InData(hd, p, hs)
      BY <3>2, ReadDigit
    <3> QED
      BY <3>1, <3>3
  <2>2. ASSUME NEW i \in h + 1 .. n, i \in T, i < n
        PROVE  i + 1 \in T
    <3>1. i + 1 \in h + 2 .. n /\ i + 1 \in 1 .. n /\ i + 1 \in h + 1 .. n /\ (i + 1) - 1 = i
      BY <1>1, <2>2
    <3>2. r[at+(i+1)] = ReadChar(InData(hd, p, hs), line[at+(i+1)])
      BY <1>2, <2>2, <3>1
    <3>3. line[at+(i+1)] \notin {";", "n", "p"}
      BY <3>1 DEF TextAt, Stops
    <3> QED
      BY <3>1, <3>2, <3>3, ReadDataChar
  <2>3. PICK k \in h + 1 .. n : h + 1 .. k \subseteq T /\ (k < n => k + 1 \notin T)
    <3>1. h + 1 \in Nat /\ h + 1 <= n
      BY <1>1, <1>5
    <3> HIDE DEF T
    <3> QED
      BY <2>1, <3>1, FirstOutside
  <2>4. k \in T
    BY <1>1, <2>3
  <2>5. k = n
    BY <1>1, <2>2, <2>3, <2>4
  <2> QED
    BY <2>4, <2>5
<1> QED
  BY <1>1, <1>4, <1>5

(* The part of the invariant composing needs: as long as no unit of the    *)
(* line was rejected, the headers so far, and the text cmd_prev points to, *)
(* are those reading the line up to off gives.                             *)
ErrorNames ==
  {"INPUT_BUFFER_OVERRUN", "INVALID_CHARACTER", "UNDEFINED_HEADER", "MISSING_PARAMETER",
   "EXECUTION_ERROR", "PARAMETER_NOT_ALLOWED"}
Pushed == errors \in Seq(ErrorNames)
Clean == ~Has("INVALID_CHARACTER") /\ ~Has("UNDEFINED_HEADER")

Followed ==
  pc \in {"parse", "flush"} /\ Clean =>
    /\ off < tot => Read(Line)[off] = InHeader(<<>>, Text(buf, prev), headers)
    /\ off = tot => CloseUnit(Read(Line)[off]).done = headers

LEMMA LineFacts ==
  ASSUME InputInv, pc \in {"parse", "flush"}
  PROVE  /\ Line \in Seq(STRING) /\ Len(Line) = tot
         /\ tot \in Nat /\ off \in Nat /\ off <= tot /\ tot <= Len(buf)
         /\ \A i \in off + 1 .. tot : Line[i] = buf[i]
<1>1. /\ given \in Seq(STRING) /\ taken \in Nat /\ Len(buf) \in Nat
      /\ tot \in 0 .. Len(buf) /\ off \in 0 .. tot
      /\ Len(given) = taken + Len(buf)
  BY LengthFacts DEF InputInv, Shapes, InBuffer, Rest
<1>2. taken + tot \in 0 .. Len(given) /\ taken \in 0 .. taken + tot /\ (taken + tot) - taken = tot
  BY <1>1
<1>3. Line \in Seq(STRING) /\ Len(Line) = tot /\ \A i \in 1 .. tot : Line[i] = given[taken+i]
  BY <1>1, <1>2, PartFacts DEF Line
<1>4. ASSUME NEW i \in off + 1 .. tot
      PROVE  Line[i] = buf[i]
  <2>1. i \in 1 .. tot /\ i \in 1 .. Len(buf) /\ off < i
    BY <1>1
  <2>2. buf[i] = given[taken+i]
    BY <2>1 DEF InputInv, Rest
  <2> QED
    BY <1>3, <2>1, <2>2
<1> QED
  BY <1>1, <1>3, <1>4

(* A turn on a unit that is not invalid, in terms of reading the line: t   *)
(* is what reading the unit without its terminator leaves.                 *)
TurnRead(unit, t) ==
  /\ unit.type = "unknown" => t = InHeader(<<>>, Text(buf, prev), headers)
  /\ unit.type = "header" =>
       LET hd == SubSeq(buf, off + 1, off + unit.header) IN
       /\ unit.header > 0 /\ off + unit.header <= Len(buf)
       /\ t = InHeader(hd, Text(buf, prev), headers) \/ t = InData(hd, Text(buf, prev), headers)
  /\ \/ Read(Line)[off'] = Closed(t)
     \/ Read(Line)[off'] = t /\ off' = tot

LEMMA TurnReads ==
  ASSUME InputInv, Followed, Clean, NEW unit, unit = Unit, Parsing(unit), unit.type # "invalid"
  PROVE  (unit.type \in {"unknown", "header"}) /\ \E t : TurnRead(unit, t)
<1> DEFINE s == SubSeq(buf, off + 1, tot)
           line == Line
           r == Read(line)
           p == Text(buf, prev)
           k == unit.header
<1>1. /\ pc \in {"parse", "flush"} /\ off < tot /\ off' = off + unit.used
  BY DEF Parsing
<1>2. /\ line \in Seq(STRING) /\ Len(line) = tot
      /\ tot \in Nat /\ off \in Nat /\ off <= tot /\ tot <= Len(buf)
      /\ \A i \in off + 1 .. tot : line[i] = buf[i]
  BY <1>1, LineFacts
<1>3. r[off] = InHeader(<<>>, p, headers)
  BY <1>1 DEF Followed
<1>4. buf \in Seq(STRING) /\ Len(buf) \in Nat
  BY DEF InputInv, Shapes
<1>5. s \in Seq(STRING) /\ Len(s) = tot - off /\ \A i \in 1 .. tot - off : s[i] = buf[off+i]
  <2>1. tot \in 0 .. Len(buf) /\ off \in 0 .. tot
    BY <1>2, <1>4
  <2> QED
    BY <1>4, <2>1, PartFacts
<1>6. unit = scpiParser_detectProgramMessageUnit(s)
  BY <1>1 DEF Unit
<1> HIDE DEF s, line
<1>7. PICK n \in 0 .. Len(s) : UnitText(s, unit, n)
  BY <1>5, <1>6, UnitTextFacts
<1>8. /\ n \in Nat /\ k \in 0 .. n /\ k \in Nat /\ n <= tot - off /\ off + n <= Len(line)
      /\ off + k <= Len(buf) /\ off + k <= tot
  <2>1. n \in 0 .. tot - off /\ k \in 0 .. n
    BY <1>5, <1>7 DEF UnitText
  <2> QED
    BY <1>2, <1>4, <2>1
<1>9. ASSUME NEW i \in 1 .. tot - off
      PROVE  s[i] = line[off+i]
  <2>1. off + i \in off + 1 .. tot
    BY <1>2
  <2> QED
    BY <1>2, <1>5, <2>1
<1>10. SubSeq(line, off + 1, off + k) = SubSeq(buf, off + 1, off + k)
  <2> DEFINE x == SubSeq(line, off + 1, off + k)
             y == SubSeq(buf, off + 1, off + k)
  <2>1. off + k \in 0 .. Len(line) /\ off + k \in 0 .. Len(buf) /\ off \in 0 .. off + k /\ (off + k) - off = k
    BY <1>2, <1>4, <1>8
  <2>2. x \in Seq(STRING) /\ Len(x) = k /\ \A i \in 1 .. k : x[i] = line[off+i]
    BY <1>2, <2>1, PartFacts
  <2>3. y \in Seq(STRING) /\ Len(y) = k /\ \A i \in 1 .. k : y[i] = buf[off+i]
    BY <1>4, <2>1, PartFacts
  <2>4. \A i \in 1 .. k : off + i \in off + 1 .. tot
    BY <1>2, <1>8
  <2> HIDE DEF x, y
  <2>5. \A i \in 1 .. k : x[i] = y[i]
    BY <1>2, <2>2, <2>3, <2>4
  <2>6. x = y
    BY <2>2, <2>3, <2>5, SeqEqual
  <2> QED
    BY <2>6 DEF x, y
<1> DEFINE t == r[off+n]
           hd == SubSeq(line, off + 1, off + k)
<1>11. t = InHeader(hd, p, headers) \/ t = InData(hd, p, headers)
  <2>1. \A i \in 1 .. k : line[off+i] \notin Stops
    <3>1. \A i \in 1 .. k : i \in 1 .. tot - off
      BY <1>2, <1>8
    <3> QED
      BY <1>7, <1>9, <3>1 DEF UnitText
  <2>2. n > k => line[off+k+1] = "p"
    <3>1. n > k => k + 1 \in 1 .. tot - off /\ off + (k + 1) = off + k + 1
      BY <1>2, <1>8
    <3> QED
      BY <1>7, <1>9, <3>1 DEF UnitText
  <2>3. \A i \in k + 2 .. n : line[off+i] \notin Stops
    <3>1. \A i \in k + 2 .. n : i \in 1 .. tot - off
      BY <1>2, <1>8
    <3> QED
      BY <1>7, <1>9, <3>1 DEF UnitText
  <2> HIDE DEF p, k
  <2>5. TextAt(line, off, k, n)
    BY <2>1, <2>2, <2>3 DEF TextAt
  <2>4. line \in Seq(STRING) /\ off \in Nat /\ n \in Nat /\ off + n <= Len(line) /\ k \in 0 .. n
    BY <1>2, <1>8
  <2> QED
    BY <1>3, <2>4, <2>5, ReadUnit
<1>12. \/ r[off'] = Closed(t)
       \/ r[off'] = t /\ off' = tot
  <2>1. CASE unit.used = n + 1 /\ n < Len(s) /\ s[n+1] \in {";", "n"}
    <3>1. /\ n + 1 \in 1 .. tot - off /\ off' = off + (n + 1) /\ off + (n + 1) \in 1 .. Len(line)
          /\ (off + (n + 1)) - 1 = off + n
      <4>1. n < tot - off /\ off' = off + (n + 1)
        BY <1>1, <1>5, <2>1
      <4> QED
        BY <1>2, <1>8, <4>1
    <3>2. line[off + (n + 1)] \in {";", "n"}
      BY <1>9, <2>1, <3>1
    <3>3. r[off + (n + 1)] = ReadChar(t, line[off + (n + 1)])
      <4>1. \A m \in 1 .. Len(line) : r[m] = ReadChar(r[m - 1], line[m])
        BY <1>2, ReadFacts
      <4> HIDE DEF r
      <4> QED
        BY <3>1, <4>1
    <3> HIDE DEF r, t
    <3> QED
      BY <3>1, <3>2, <3>3 DEF ReadChar, Closed
  <2>2. CASE unit.used = n /\ n = Len(s)
    <3>1. off' = off + n /\ off + n = tot
      BY <1>1, <1>2, <1>5, <1>8, <2>2
    <3> QED
      BY <3>1
  <2> QED
    BY <1>7, <2>1, <2>2 DEF UnitText
<1>13. (unit.type = "header" /\ k > 0) \/ (unit.type = "unknown" /\ n = 0)
  BY <1>7 DEF UnitText
<1>14. unit.type = "unknown" => t = InHeader(<<>>, p, headers)
  <2> SUFFICES ASSUME unit.type = "unknown" PROVE t = InHeader(<<>>, p, headers)
    OBVIOUS
  <2>1. n = 0
    BY <1>13
  <2>2. off + n = off
    BY <1>2, <2>1
  <2> QED
    BY <1>3, <2>2
<1>15. TurnRead(unit, t)
  BY <1>8, <1>10, <1>11, <1>12, <1>13, <1>14 DEF TurnRead, line
<1> QED
  BY <1>13, <1>15

(* What is pushed stays pushed.                                            *)
LEMMA PushFacts ==
  ASSUME Pushed, NEW e \in Seq(ErrorNames), errors' = errors \o e
  PROVE  /\ Pushed'
         /\ Clean' => Clean
         /\ \A n \in ErrorNames : e = <<n>> => Has(n)'
<1>1. /\ errors' \in Seq(ErrorNames) /\ Len(errors') = Len(errors) + Len(e)
      /\ \A i \in 1 .. Len(errors) + Len(e) :
           errors'[i] = IF i <= Len(errors) THEN errors[i] ELSE e[i - Len(errors)]
  BY ConcatProperties DEF Pushed
<1>2. Len(errors) \in Nat /\ Len(e) \in Nat
  BY DEF Pushed
<1>3. ASSUME NEW i \in 1 .. Len(errors)
      PROVE  i \in 1 .. Len(errors') /\ errors'[i] = errors[i]
  BY <1>1, <1>2
<1>4. Clean' => Clean
  BY <1>3 DEF Clean, Has
<1>5. ASSUME NEW n \in ErrorNames, e = <<n>>
      PROVE  Has(n)'
  <2>1. Len(e) = 1 /\ e[1] = n
    BY <1>5
  <2>2. /\ Len(errors) + 1 \in 1 .. Len(errors') /\ Len(errors) + 1 \in 1 .. Len(errors) + Len(e)
        /\ ~(Len(errors) + 1 <= Len(errors)) /\ (Len(errors) + 1) - Len(errors) = 1
    BY <1>1, <1>2, <2>1
  <2>3. errors'[Len(errors) + 1] = n
    BY <1>1, <2>1, <2>2
  <2> QED
    BY <2>2, <2>3 DEF Has
<1> QED
  BY <1>1, <1>4, <1>5 DEF Pushed

LEMMA RejectFacts ==
  ASSUME Pushed, NEW n \in {"INVALID_CHARACTER", "UNDEFINED_HEADER"}, errors' = Append(errors, n)
  PROVE  Pushed' /\ ~Clean'
<1>1. n \in ErrorNames
  BY DEF ErrorNames
<1>2. <<n>> \in Seq(ErrorNames) /\ errors' = errors \o <<n>>
  BY <1>1, AppendIsConcat DEF Pushed
<1>3. Pushed' /\ Has(n)'
  BY <1>1, <1>2, PushFacts
<1> QED
  BY <1>3 DEF Clean

LEMMA CommandErrorFacts ==
  ASSUME NEW kind, NEW data
  PROVE  CommandError(kind, data) \in Seq(ErrorNames)
<1>1. CommandError(kind, data) \in
        {<<"MISSING_PARAMETER">>, <<"EXECUTION_ERROR">>, <<"PARAMETER_NOT_ALLOWED">>, <<>>}
  BY DEF CommandError
<1>2. ASSUME NEW n \in ErrorNames
      PROVE  <<n>> \in Seq(ErrorNames)
  OBVIOUS
<1>3. <<>> \in Seq(ErrorNames)
  OBVIOUS
<1>4. "MISSING_PARAMETER" \in ErrorNames /\ "EXECUTION_ERROR" \in ErrorNames
      /\ "PARAMETER_NOT_ALLOWED" \in ErrorNames
  BY DEF ErrorNames
<1> QED
  BY <1>1, <1>2, <1>3, <1>4

LEMMA WithinSum ==
  ASSUME NEW a \in Nat, NEW n \in Nat, NEW b \in 0 .. n, NEW m, m = a + n
  PROVE  b \in Nat /\ a + b \in 0 .. m /\ a \in 0 .. a + b
OBVIOUS

(* SCPI_Parse starts with nothing read and no previous command.            *)
LEMMA BeginFacts ==
  ASSUME InputInv', BeginParse, pc' \in {"parse", "flush"}
  PROVE  Pushed' /\ Followed'
<1>1. off' = 0 /\ prev' = NoToken /\ errors' = <<>> /\ headers' = <<>>
  BY DEF BeginParse
<1>2. /\ given' \in Seq(STRING) /\ taken' \in Nat /\ tot' \in Nat /\ buf' \in Seq(STRING)
      /\ taken' + tot' \in 0 .. Len(given') /\ taken' \in 0 .. taken' + tot'
  <2>1. /\ given' \in Seq(STRING) /\ taken' \in Nat /\ buf' \in Seq(STRING)
        /\ tot' \in 0 .. Len(buf') /\ Len(given') = taken' + Len(buf')
    BY DEF InputInv, Shapes, InBuffer, Rest
  <2>2. Len(buf') \in Nat
    BY <2>1
  <2> QED
    BY <2>1, <2>2, WithinSum
<1>3. Line' \in Seq(STRING)
  BY <1>2, PartFacts DEF Line
<1>4. Read(Line')[0] = InHeader(<<>>, <<>>, <<>>)
  BY <1>3, ReadFacts
<1>5. Text(buf', prev') = <<>>
  <2>1. 0 \in 0 .. Len(buf')
    BY <1>2
  <2>2. SubSeq(buf', 0 + 1, 0) = <<>>
    BY <1>2, <2>1, EmptyPart
  <2>3. prev'.ptr = 0 /\ prev'.len = 0 /\ 0 + 0 = 0
    BY <1>1 DEF NoToken
  <2> QED
    BY <2>2, <2>3 DEF Text
<1>6. CloseUnit(Read(Line')[0]).done = <<>>
  BY <1>4, CloseEmpty
<1> QED
  BY <1>1, <1>4, <1>5, <1>6 DEF Pushed, Followed

LEMMA EmptyFollows ==
  ASSUME InputInv, Pushed, Followed, NEW unit, unit = Unit, UnitEmpty(unit)
  PROVE  Pushed' /\ Followed'
<1>1. /\ Parsing(unit) /\ unit.type = "unknown"
      /\ buf' = buf /\ prev' = prev /\ errors' = errors /\ headers' = headers
  BY DEF UnitEmpty
<1>2. pc' = pc /\ tot' = tot /\ given' = given /\ taken' = taken /\ tot \in Nat
      /\ pc \in {"parse", "flush"}
  BY <1>1, ParsingFacts
<1>3. Line' = Line /\ (Clean' <=> Clean)
  BY <1>1, <1>2 DEF Line, Clean, Has
<1>4. Pushed'
  BY <1>1 DEF Pushed
<1>5. ASSUME Clean
      PROVE  /\ off' < tot => Read(Line)[off'] = InHeader(<<>>, Text(buf, prev), headers)
             /\ off' = tot => CloseUnit(Read(Line)[off']).done = headers
  <2>1. PICK t : TurnRead(unit, t)
    BY <1>1, <1>5, TurnReads
  <2> DEFINE p == Text(buf, prev)
             r == Read(Line)[off']
  <2>2. t = InHeader(<<>>, p, headers)
    BY <1>1, <2>1 DEF TurnRead
  <2>3. r = Closed(t) \/ (r = t /\ off' = tot)
    BY <2>1 DEF TurnRead
  <2> HIDE DEF p, r
  <2>4. /\ CloseUnit(t).done = headers
        /\ Closed(t) = InHeader(<<>>, p, headers)
    BY <2>2, CloseEmpty
  <2>5. /\ off' < tot => r = InHeader(<<>>, p, headers)
        /\ off' = tot => CloseUnit(r).done = headers
    <3>1. CASE r = Closed(t)
      <4>1. r = InHeader(<<>>, p, headers)
        BY <2>4, <3>1
      <4>2. CloseUnit(r).done = headers
        BY <4>1, CloseEmpty
      <4> QED
        BY <4>1, <4>2
    <3>2. CASE r = t /\ off' = tot
      <4>1. ~(off' < tot)
        BY <1>2, <3>2
      <4> QED
        BY <2>4, <3>2, <4>1
    <3> QED
      BY <2>3, <3>1, <3>2
  <2> QED
    BY <2>5 DEF p, r
<1> QED
  BY <1>1, <1>2, <1>3, <1>4, <1>5 DEF Followed

LEMMA CommandFollows ==
  ASSUME InputInv, Pushed, Followed, NEW unit, unit = Unit, UnitCommand(unit)
  PROVE  Pushed' /\ Followed'
<1>1. Parsing(unit) /\ unit.type = "header"
  BY DEF UnitCommand
<1>2. PICK c, h : /\ c = Composed(unit) /\ h = Text(c.buf, c.cur) /\ findCommandHeader(h)
                  /\ buf' = c.buf /\ prev' = c.cur /\ headers' = Append(headers, h)
                  /\ processCommand(Known[Entry(h)], unit.data)
  BY DEF UnitCommand
<1>3. /\ pc' = pc /\ tot' = tot /\ given' = given /\ taken' = taken /\ tot \in Nat
      /\ pc \in {"parse", "flush"} /\ Line' = Line
  <2>1. /\ pc' = pc /\ tot' = tot /\ given' = given /\ taken' = taken /\ tot \in 0 .. Len(buf)
        /\ pc \in {"parse", "flush"} /\ Len(buf) \in Nat
    BY <1>1, ParsingFacts
  <2> QED
    BY <2>1 DEF Line
<1>4. Pushed' /\ (Clean' => Clean)
  <2>1. \E e \in Seq(ErrorNames) : errors' = errors \o e
    BY <1>2, CommandErrorFacts DEF processCommand
  <2> QED
    BY <2>1, PushFacts
<1>5. ASSUME Clean
      PROVE  /\ off' < tot => Read(Line)[off'] = InHeader(<<>>, h, headers')
             /\ off' = tot => CloseUnit(Read(Line)[off']).done = headers'
  <2>1. PICK t : TurnRead(unit, t)
    BY <1>1, <1>5, TurnReads
  <2> DEFINE p == Text(buf, prev)
             r == Read(Line)[off']
             hd == SubSeq(buf, off + 1, off + unit.header)
  <2>2. /\ unit.header > 0 /\ off + unit.header <= Len(buf)
        /\ t = InHeader(hd, p, headers) \/ t = InData(hd, p, headers)
    BY <1>1, <2>1 DEF TurnRead
  <2>3. r = Closed(t) \/ (r = t /\ off' = tot)
    BY <2>1 DEF TurnRead
  <2>4. /\ buf \in Seq(STRING) /\ Len(buf) \in Nat /\ off \in Nat /\ unit.header \in Nat
        /\ prev \in Token /\ prev.ptr + prev.len <= off
    <3>1. /\ unit.header \in 0 .. unit.used /\ prev \in Token /\ prev.ptr + prev.len <= off
      BY <1>1, ParsingFacts
    <3> QED
      BY <3>1 DEF InputInv, Shapes
  <2>5. h = Resolve(p, hd)
    <3>1. c = composeCompoundCommand(buf, prev, [ptr |-> off, len |-> unit.header])
      BY <1>2 DEF Composed
    <3>2. Text(c.buf, c.cur) = Resolve(p, hd)
      BY <2>2, <2>4, <3>1, ComposedText
    <3> QED
      BY <1>2, <3>2
  <2>6. hd # <<>>
    <3>1. /\ off + unit.header \in 0 .. Len(buf) /\ off \in 0 .. off + unit.header
          /\ (off + unit.header) - off > 0
      BY <2>2, <2>4
    <3>2. Len(hd) = (off + unit.header) - off
      BY <2>4, <3>1, PartFacts
    <3>3. Len(<<>>) = 0
      OBVIOUS
    <3> HIDE DEF hd
    <3> QED
      BY <3>1, <3>2, <3>3
  <2> HIDE DEF p, r, hd
  <2>7. /\ CloseUnit(t).done = Append(headers, h)
        /\ Closed(t) = InHeader(<<>>, h, Append(headers, h))
    <3>1. t \in {InHeader(hd, p, headers), InData(hd, p, headers)} /\ findCommandHeader(h)
      BY <1>2, <2>2
    <3>2. Names(p, hd, h)
      BY <1>2, <2>5, <2>6 DEF Names
    <3> QED
      BY <3>1, <3>2, CloseHeader
  <2>8. /\ CloseUnit(t).done = headers'
        /\ Closed(t) = InHeader(<<>>, h, headers')
    BY <1>2, <2>7
  <2>9. /\ off' < tot => r = InHeader(<<>>, h, headers')
        /\ off' = tot => CloseUnit(r).done = headers'
    <3>1. CASE r = Closed(t)
      <4>1. r = InHeader(<<>>, h, headers')
        BY <2>8, <3>1
      <4>2. CloseUnit(r).done = headers'
        BY <4>1, CloseEmpty
      <4> QED
        BY <4>1, <4>2
    <3>2. CASE r = t /\ off' = tot
      <4>1. ~(off' < tot)
        BY <1>3, <3>2
      <4> QED
        BY <2>8, <3>2, <4>1
    <3> QED
      BY <2>3, <3>1, <3>2
  <2> QED
    BY <2>9 DEF r
<1>6. Text(buf', prev') = h
  BY <1>2
<1> QED
  BY <1>3, <1>4, <1>5, <1>6 DEF Followed

LEMMA FollowStep ==
  ASSUME InputInv, InputInv', Pushed, Followed, [Next]_vars
  PROVE  Pushed' /\ Followed'
<1>1. CASE InputFlush
  BY <1>1, BeginFacts DEF InputFlush
<1>2. CASE \E data \in Chunks(length) : InputOverrun(data)
  <2>1. pc' = "done" /\ errors' = <<"INPUT_BUFFER_OVERRUN">>
    BY <1>2 DEF InputOverrun
  <2>2. "INPUT_BUFFER_OVERRUN" \in ErrorNames
    BY DEF ErrorNames
  <2>3. errors' \in Seq(ErrorNames)
    BY <2>1, <2>2
  <2> QED
    BY <2>1, <2>3 DEF Pushed, Followed
<1>3. CASE \E data \in Chunks(length) : InputAppend(data)
  BY <1>3 DEF InputAppend, parse, Pushed, Followed
<1>4. CASE \E unit \in {Unit} : ScanLine(unit)
  BY <1>4, BeginFacts DEF ScanLine
<1>5. CASE \E unit \in {Unit} : ScanUnit(unit)
  BY <1>5 DEF ScanUnit, parse, Pushed, Followed
<1>6. CASE \E unit \in {Unit} : UnitInvalid(unit)
  BY <1>6, RejectFacts DEF UnitInvalid, Followed
<1>7. CASE \E unit \in {Unit} : UnitEmpty(unit)
  BY <1>7, EmptyFollows
<1>8. CASE \E unit \in {Unit} : UnitUndefined(unit)
  BY <1>8, RejectFacts DEF UnitUndefined, Followed
<1>9. CASE \E unit \in {Unit} : UnitCommand(unit)
  BY <1>9, CommandFollows
<1>10. CASE EndLine \/ EndFlush
  BY <1>10 DEF EndLine, EndFlush, parse, Pushed, Followed
<1>11. CASE Return
  BY <1>11 DEF Return, Pushed, Followed
<1>12. CASE UNCHANGED vars
  BY <1>12 DEF vars, parse, Pushed, Followed, Clean, Has, Line
<1> QED
  BY <1>1, <1>2, <1>3, <1>4, <1>5, <1>6, <1>7, <1>8, <1>9, <1>10, <1>11, <1>12
  DEF Next, Calls, Turn, Inside

(* Composing headers in place, over the text of earlier units, gives what  *)
(* composing them from copies of the text would, for every line of which   *)
(* no unit was rejected: composeCompoundCommand never reads a path that an *)
(* earlier composition has overwritten.                                    *)
THEOREM InputComposedInPlace == Spec => []ComposedInPlace
<1>1. Init => Pushed /\ Followed
  BY DEF Init, Pushed, Followed
<1>2. InputInv /\ InputInv' /\ Pushed /\ Followed /\ [Next]_vars => Pushed' /\ Followed'
  BY FollowStep
<1>3. InputInv /\ Followed => ComposedInPlace
  <2> SUFFICES ASSUME InputInv, Followed, LineDone, Clean
               PROVE  headers = LineHeaders(Line)
    BY DEF ComposedInPlace, Clean
  <2>1. pc \in {"parse", "flush"} /\ off = tot
    BY DEF LineDone
  <2>2. CloseUnit(Read(Line)[off]).done = headers
    BY <2>1 DEF Followed
  <2>3. Len(Line) = tot
    BY <2>1, LineFacts
  <2> QED
    BY <2>1, <2>2, <2>3 DEF LineHeaders
<1> QED
  BY <1>1, <1>2, <1>3, InputInvariant, PTL DEF Spec
=============================================================================
