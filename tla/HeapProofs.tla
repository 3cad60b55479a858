----------------------------- MODULE HeapProofs -----------------------------
(***************************************************************************)
(* Proofs about Heap.tla: whatever interrupts a call of mem_malloc between *)
(* the block it finds and its taking that block, the list of blocks stays  *)
(* well formed, every owner has the room it asked for, and a search never  *)
(* misses a block, until a call takes a block that it had lost; and a call *)
(* loses its block only to an operation that touches it.  This is for      *)
(* every size of the heap, of its structs and of the requests, and every   *)
(* number of levels.                                                       *)
(***************************************************************************)
EXTENDS Heap, WellFoundedInduction, TLAPS

(* A set of numbers that is not empty has a least element.                 *)
LEMMA LeastFacts ==
  ASSUME NEW S \in SUBSET Nat, S # {}
  PROVE  Least(S) \in S /\ \A y \in S : Least(S) <= y
<1> DEFINE R == OpToRel(<, Nat)
<1>1. \A x, y \in Nat : y < x => <<y, x>> \in R
  BY DEF OpToRel
<1>2. IsWellFoundedOn(R, Nat)
  BY NatLessThanWellFounded
<1> HIDE DEF R
<1>3. PICK x \in S : \A y \in S : ~(<<y, x>> \in R)
  BY <1>2, WFMin
<1>4. ASSUME NEW y \in S
      PROVE  x <= y
  <2>1. x \in Nat /\ y \in Nat
    OBVIOUS
  <2>2. ~(<<y, x>> \in R)
    BY <1>3
  <2>3. ~(y < x)
    BY <1>1, <2>1, <2>2
  <2> QED
    BY <2>1, <2>3
<1> QED
  BY <1>4 DEF Least

(* What is handed out for a request of n bytes is at least n bytes.        *)
LEMMA DataSizeFacts ==
  ASSUME NEW n \in Sizes
  PROVE  DataSize(n) \in Nat /\ n \in Nat /\ n <= DataSize(n) /\ MinSize <= DataSize(n)
<1> DEFINE k == (n + Align - 1) \div Align
<1>1. n \in Nat /\ Align \in Nat \ {0} /\ W \in Nat /\ n <= W - Align /\ MinSize \in Nat
  BY HeapAssumption
<1>2. k \in Nat /\ n <= k * Align /\ k * Align <= n + Align - 1
  <2> DEFINE m == n + Align - 1
  <2>1. m \in Nat
    BY <1>1
  <2>2. /\ m \div Align \in Nat /\ m % Align \in 0 .. Align - 1
        /\ m = Align * (m \div Align) + (m % Align)
    BY <1>1, <2>1
  <2> QED
    BY <1>1, <2>1, <2>2
<1> HIDE DEF k
<1>3. k * Align \in Nat /\ k * Align < W
  BY <1>1, <1>2
<1>4. (k * Align) % W = k * Align
  <2> DEFINE z == k * Align
  <2> HIDE DEF z
  <2>1. z \in Nat /\ z < W
    BY <1>3 DEF z
  <2>2. z % W = z
    BY <1>1, <2>1
  <2> QED
    BY <2>2 DEF z
<1> QED
  BY <1>1, <1>2, <1>3, <1>4 DEF DataSize, k
-----------------------------------------------------------------------------
Mem == [next : Nat, prev : Nat, used : BOOLEAN]
Structs(h) == DOMAIN h \ {MemSize}

(* h is a whole list: Chain, with the converse that prev of a struct is    *)
(* the struct in front of it.                                              *)
Listed(h) ==
  /\ DOMAIN h \subseteq 0 .. MemSize /\ h \in [DOMAIN h -> Mem]
  /\ 0 \in DOMAIN h /\ MemSize \in DOMAIN h
  /\ h[MemSize].used /\ h[0].prev = 0
  /\ \A p \in Structs(h) :
       /\ h[p].next \in DOMAIN h
       /\ p + Struct + MinSize <= h[p].next
       /\ h[p].next # MemSize => h[h[p].next].prev = p
  /\ \A p \in Structs(h), q \in DOMAIN h : q <= p \/ h[p].next <= q
  /\ \A p \in Structs(h) \ {0} :
       /\ h[p].prev \in Structs(h)
       /\ h[p].prev < p
       /\ h[h[p].prev].next = p

(* The links of q are the same in g as in h.                               *)
SameLinks(h, g, q) == g[q].next = h[q].next /\ g[q].prev = h[q].prev

(* g is h with a struct at x between p and the one behind it.              *)
Inserted(h, g, p, x) ==
  LET n == h[p].next IN
  /\ g \in [DOMAIN h \cup {x} -> Mem]
  /\ g[p].next = x /\ g[p].prev = h[p].prev
  /\ g[x].next = n /\ g[x].prev = p
  /\ n # MemSize => g[n].prev = x /\ g[n].next = h[n].next
  /\ \A q \in Structs(h) \ {p, n} : SameLinks(h, g, q)
  /\ g[MemSize].used

(* g is h without the struct behind p.                                     *)
Merged(h, g, p) ==
  LET n == h[p].next
      a == h[n].next
  IN
  /\ g \in [DOMAIN h \ {n} -> Mem]
  /\ g[p].next = a /\ g[p].prev = h[p].prev
  /\ a # MemSize => g[a].prev = p /\ g[a].next = h[a].next
  /\ \A q \in Structs(h) \ {p, n, a} : SameLinks(h, g, q)
  /\ g[MemSize].used

(* g is h with the struct behind p moved to x.                             *)
Moved(h, g, p, x) ==
  LET n == h[p].next
      a == h[n].next
  IN
  /\ g \in [(DOMAIN h \ {n}) \cup {x} -> Mem]
  /\ g[p].next = x /\ g[p].prev = h[p].prev
  /\ g[x].next = a /\ g[x].prev = p
  /\ a # MemSize => g[a].prev = x /\ g[a].next = h[a].next
  /\ \A q \in Structs(h) \ {p, n, a} : SameLinks(h, g, q)
  /\ g[MemSize].used

(* The constants are numbers.                                              *)
LEMMA HeapNumbers ==
  /\ MemSize \in Nat /\ Struct \in Nat /\ MinSize \in Nat /\ Levels \in Nat
  /\ 0 < Struct /\ 0 < MinSize /\ Struct + MinSize <= MemSize
  BY HeapAssumption

(* Inserting a struct where there is room for it keeps the list whole.     *)
LEMMA InsertKeepsList ==
  ASSUME NEW h, Listed(h), NEW p \in Structs(h), NEW x \in Nat,
         p + Struct + MinSize <= x, x + Struct + MinSize <= h[p].next,
         NEW g, Inserted(h, g, p, x)
  PROVE  Listed(g)
<1> DEFINE n == h[p].next
<1>1. /\ DOMAIN g = DOMAIN h \cup {x} /\ p \in Nat /\ n \in Nat /\ n \in DOMAIN h
      /\ p < x /\ x < n /\ n <= MemSize /\ \A q \in DOMAIN h : q \in Nat /\ q <= MemSize
      /\ p \in DOMAIN h /\ p # MemSize
  BY HeapNumbers DEF Listed, Inserted, Structs, Mem
<1>2. x \notin DOMAIN h /\ x # MemSize /\ \A q \in DOMAIN h : q <= p \/ n <= q
  BY <1>1 DEF Listed
<1>3. \A q \in Structs(h) : q # p => g[q].next = h[q].next
  BY DEF Inserted, SameLinks, Structs
<1>4. \A q \in Structs(h) : q # n => g[q].prev = h[q].prev
  BY DEF Inserted, SameLinks, Structs
<1>5. Structs(g) = Structs(h) \cup {x}
  BY <1>1, <1>2 DEF Structs
<1>6. g[p].next = x /\ g[x].next = n /\ g[x].prev = p /\ (n # MemSize => g[n].prev = x)
  BY DEF Inserted
<1>7. DOMAIN g \subseteq 0 .. MemSize /\ g \in [DOMAIN g -> Mem]
  <2>1. \A q \in DOMAIN g : q \in 0 .. MemSize
    BY <1>1, HeapNumbers
  <2>2. g \in [DOMAIN g -> Mem]
    BY <1>1 DEF Inserted
  <2> QED
    BY <2>1, <2>2
<1>8. g[MemSize].used /\ g[0].prev = 0 /\ 0 \in DOMAIN g /\ MemSize \in DOMAIN g
  BY <1>1, <1>4, HeapNumbers DEF Listed, Inserted, Structs
<1>9. ASSUME NEW q \in Structs(g)
      PROVE  /\ g[q].next \in DOMAIN g
             /\ q + Struct + MinSize <= g[q].next
             /\ g[q].next # MemSize => g[g[q].next].prev = q
  <2>1. CASE q = x
    BY <1>1, <1>6, <2>1
  <2>2. CASE q = p
    BY <1>1, <1>6, <2>2
  <2>3. CASE q # x /\ q # p
    <3>1. q \in Structs(h) /\ g[q].next = h[q].next
      BY <1>3, <1>5, <2>3
    <3>2. h[q].next # MemSize => h[h[q].next].prev = q
      BY <3>1 DEF Listed
    <3>3. h[q].next \in DOMAIN h /\ q + Struct + MinSize <= h[q].next
      BY <3>1 DEF Listed
    <3>4. h[q].next # n
      <4>1. n # MemSize => h[n].prev = p
        BY DEF Listed
      <4>2. n = MemSize => h[q].next # n
        BY <1>1, <2>3, <3>1, <3>3, HeapNumbers DEF Listed, Structs, Mem
      <4> QED
        BY <2>3, <3>2, <4>1, <4>2
    <3> QED
      BY <1>1, <1>4, <3>1, <3>2, <3>3, <3>4 DEF Structs
  <2> QED
    BY <2>1, <2>2, <2>3
<1>10. ASSUME NEW q \in Structs(g), NEW r \in DOMAIN g
       PROVE  r <= q \/ g[q].next <= r
  <2>1. CASE q = x
    BY <1>1, <1>2, <1>6, <2>1
  <2>2. CASE q = p
    BY <1>1, <1>2, <1>6, <2>2
  <2>3. CASE q # x /\ q # p
    <3>1. q \in Structs(h) /\ g[q].next = h[q].next /\ q \in Nat /\ h[q].next \in Nat
      BY <1>1, <1>3, <1>5, <2>3 DEF Listed, Structs
    <3>2. \A s \in DOMAIN h : s <= q \/ h[q].next <= s
      BY <3>1 DEF Listed
    <3>3. CASE r = x
      BY <1>1, <1>2, <2>3, <3>1, <3>2, <3>3 DEF Structs
    <3>4. CASE r # x
      BY <1>1, <3>1, <3>2, <3>4
    <3> QED
      BY <3>3, <3>4
  <2> QED
    BY <2>1, <2>2, <2>3
<1>11. ASSUME NEW q \in Structs(g) \ {0}
       PROVE  /\ g[q].prev \in Structs(g)
              /\ g[q].prev < q
              /\ g[g[q].prev].next = q
  <2>1. CASE q = x
    BY <1>1, <1>5, <1>6, <2>1
  <2>2. CASE q = n
    BY <1>1, <1>5, <1>6, <2>2 DEF Structs
  <2>3. CASE q # x /\ q # n
    <3>1. q \in Structs(h) \ {0} /\ g[q].prev = h[q].prev
      BY <1>4, <1>5, <2>3
    <3>2. h[q].prev \in Structs(h) /\ h[q].prev < q /\ h[h[q].prev].next = q
      BY <3>1 DEF Listed
    <3>3. h[q].prev # p
      BY <2>3, <3>2
    <3> QED
      BY <1>3, <1>5, <3>1, <3>2, <3>3
  <2> QED
    BY <2>1, <2>2, <2>3
<1> QED
  BY <1>7, <1>8, <1>9, <1>10, <1>11 DEF Listed

(* Merging a struct with the one behind it keeps the list whole.           *)
LEMMA MergeKeepsList ==
  ASSUME NEW h, Listed(h), NEW p \in Structs(h), h[p].next # MemSize,
         NEW g, Merged(h, g, p)
  PROVE  Listed(g)
<1> DEFINE n == h[p].next
           a == h[n].next
<1>1. /\ DOMAIN g = DOMAIN h \ {n} /\ p \in Nat /\ p \in DOMAIN h /\ p # MemSize
      /\ n \in Nat /\ n \in Structs(h) /\ h[n].prev = p /\ p + Struct + MinSize <= n
      /\ \A q \in DOMAIN h : q \in Nat /\ q <= MemSize
  BY HeapNumbers DEF Listed, Merged, Structs, Mem
<1>2. /\ a \in DOMAIN h /\ a \in Nat /\ n + Struct + MinSize <= a
      /\ a # MemSize => h[a].prev = n
  BY <1>1 DEF Listed
<1>3. p < n /\ n < a /\ n # MemSize
  BY <1>1, <1>2, HeapNumbers
<1>4. Structs(g) = Structs(h) \ {n}
  BY <1>1 DEF Structs
<1>5. \A q \in Structs(g) : q # p => g[q].next = h[q].next
  BY <1>4 DEF Merged, SameLinks, Structs
<1>6. \A q \in Structs(g) : q # a => g[q].prev = h[q].prev
  BY <1>4 DEF Merged, SameLinks, Structs
<1>7. g[p].next = a /\ (a # MemSize => g[a].prev = p)
  BY DEF Merged
<1>8. DOMAIN g \subseteq 0 .. MemSize /\ g \in [DOMAIN g -> Mem]
  <2>1. \A q \in DOMAIN g : q \in 0 .. MemSize
    BY <1>1, HeapNumbers
  <2>2. g \in [DOMAIN g -> Mem]
    BY <1>1 DEF Merged
  <2> QED
    BY <2>1, <2>2
<1>9. g[MemSize].used /\ g[0].prev = 0 /\ 0 \in DOMAIN g /\ MemSize \in DOMAIN g
  <2>1. 0 \in DOMAIN h /\ MemSize \in DOMAIN h /\ h[0].prev = 0
    BY DEF Listed
  <2>2. 0 \in Structs(g) /\ 0 # a
    BY <1>1, <1>2, <1>3, <1>4, <2>1, HeapNumbers DEF Structs
  <2> QED
    BY <1>1, <1>3, <1>6, <2>1, <2>2 DEF Merged
<1>10. ASSUME NEW q \in Structs(g)
       PROVE  /\ g[q].next \in DOMAIN g
              /\ q + Struct + MinSize <= g[q].next
              /\ g[q].next # MemSize => g[g[q].next].prev = q
  <2>1. CASE q = p
    BY <1>1, <1>2, <1>3, <1>7, <2>1, HeapNumbers
  <2>2. CASE q # p
    <3>1. q \in Structs(h) /\ q # n /\ g[q].next = h[q].next
      BY <1>4, <1>5, <2>2
    <3>2. /\ h[q].next \in DOMAIN h /\ q + Struct + MinSize <= h[q].next
          /\ h[q].next # MemSize => h[h[q].next].prev = q
      BY <3>1 DEF Listed
    <3>3. h[q].next # n
      BY <1>1, <1>3, <2>2, <3>2
    <3>4. a # MemSize => h[q].next # a
      BY <1>2, <3>1, <3>2
    <3>5. h[q].next # MemSize => g[h[q].next].prev = h[h[q].next].prev
      BY <1>4, <1>6, <3>2, <3>3, <3>4 DEF Structs
    <3> QED
      BY <1>1, <3>1, <3>2, <3>3, <3>5
  <2> QED
    BY <2>1, <2>2
<1>11. ASSUME NEW q \in Structs(g), NEW r \in DOMAIN g
       PROVE  r <= q \/ g[q].next <= r
  <2>1. CASE q = p
    <3>1. r \in DOMAIN h /\ r # n /\ r \in Nat
      BY <1>1
    <3>2. (r <= p \/ n <= r) /\ (r <= n \/ a <= r)
      BY <1>1, <3>1 DEF Listed
    <3> QED
      BY <1>1, <1>2, <1>7, <2>1, <3>1, <3>2
  <2>2. CASE q # p
    BY <1>1, <1>4, <1>5, <2>2 DEF Listed
  <2> QED
    BY <2>1, <2>2
<1>12. ASSUME NEW q \in Structs(g) \ {0}
       PROVE  /\ g[q].prev \in Structs(g)
              /\ g[q].prev < q
              /\ g[g[q].prev].next = q
  <2>1. CASE q = a
    BY <1>1, <1>2, <1>3, <1>4, <1>7, <2>1 DEF Structs
  <2>2. CASE q # a
    <3>1. q \in Structs(h) \ {0} /\ q # n /\ g[q].prev = h[q].prev
      BY <1>4, <1>6, <2>2
    <3>2. h[q].prev \in Structs(h) /\ h[q].prev < q /\ h[h[q].prev].next = q
      BY <3>1 DEF Listed
    <3>3. h[q].prev # p /\ h[q].prev # n
      BY <2>2, <3>1, <3>2
    <3> QED
      BY <1>4, <1>5, <3>1, <3>2, <3>3
  <2> QED
    BY <2>1, <2>2
<1> QED
  BY <1>8, <1>9, <1>10, <1>11, <1>12 DEF Listed

(* Moving the struct behind p down, towards p, keeps the list whole.       *)
LEMMA MoveKeepsList ==
  ASSUME NEW h, Listed(h), NEW p \in Structs(h), h[p].next # MemSize,
         NEW x \in Nat, p + Struct + MinSize <= x, x < h[p].next,
         NEW g, Moved(h, g, p, x)
  PROVE  Listed(g)
<1> DEFINE n == h[p].next
           a == h[n].next
<1>1. /\ DOMAIN g = (DOMAIN h \ {n}) \cup {x}
      /\ p \in Nat /\ p \in DOMAIN h /\ p # MemSize
      /\ n \in Nat /\ n \in Structs(h) /\ h[n].prev = p /\ p + Struct + MinSize <= n
      /\ \A q \in DOMAIN h : q \in Nat /\ q <= MemSize
  BY HeapNumbers DEF Listed, Moved, Structs, Mem
<1>2. /\ a \in DOMAIN h /\ a \in Nat /\ n + Struct + MinSize <= a
      /\ a # MemSize => h[a].prev = n
  BY <1>1 DEF Listed
<1>3. p < x /\ x < n /\ n < a /\ n # MemSize /\ a <= MemSize
  BY <1>1, <1>2, HeapNumbers
<1>4. /\ x \notin DOMAIN h /\ x # MemSize
      /\ \A q \in DOMAIN h : (q <= p \/ n <= q) /\ (q <= n \/ a <= q)
  BY <1>1, <1>2, <1>3 DEF Listed
<1>5. Structs(g) = (Structs(h) \ {n}) \cup {x}
  BY <1>1, <1>4 DEF Structs
<1>6. \A q \in Structs(g) : q # p /\ q # x => g[q].next = h[q].next
  BY <1>5 DEF Moved, SameLinks, Structs
<1>7. \A q \in Structs(g) : q # a /\ q # x => g[q].prev = h[q].prev
  BY <1>5 DEF Moved, SameLinks, Structs
<1>8. g[p].next = x /\ g[x].next = a /\ g[x].prev = p /\ (a # MemSize => g[a].prev = x)
  BY DEF Moved
<1>9. DOMAIN g \subseteq 0 .. MemSize /\ g \in [DOMAIN g -> Mem]
  <2>1. \A q \in DOMAIN g : q \in 0 .. MemSize
    BY <1>1, <1>2, <1>3, HeapNumbers
  <2>2. g \in [DOMAIN g -> Mem]
    BY <1>1 DEF Moved
  <2> QED
    BY <2>1, <2>2
<1>10. g[MemSize].used /\ g[0].prev = 0 /\ 0 \in DOMAIN g /\ MemSize \in DOMAIN g
  <2>1. 0 \in DOMAIN h /\ MemSize \in DOMAIN h /\ h[0].prev = 0
    BY DEF Listed
  <2>2. 0 \in Structs(g) /\ 0 # a /\ 0 # x
    BY <1>1, <1>2, <1>3, <1>5, <2>1, HeapNumbers DEF Structs
  <2> QED
    BY <1>1, <1>3, <1>7, <2>1, <2>2 DEF Moved
<1>11. ASSUME NEW q \in Structs(g)
       PROVE  /\ g[q].next \in DOMAIN g
              /\ q + Struct + MinSize <= g[q].next
              /\ g[q].next # MemSize => g[g[q].next].prev = q
  <2>1. CASE q = p
    BY <1>1, <1>3, <1>8, <2>1
  <2>2. CASE q = x
    BY <1>1, <1>2, <1>3, <1>8, <2>2, HeapNumbers
  <2>3. CASE q # p /\ q # x
    <3>1. q \in Structs(h) /\ q # n /\ g[q].next = h[q].next
      BY <1>5, <1>6, <2>3
    <3>2. /\ h[q].next \in DOMAIN h /\ q + Struct + MinSize <= h[q].next
          /\ h[q].next # MemSize => h[h[q].next].prev = q
      BY <3>1 DEF Listed
    <3>3. h[q].next # n /\ h[q].next # x
      BY <1>1, <1>3, <1>4, <2>3, <3>2
    <3>4. a # MemSize => h[q].next # a
      BY <1>2, <3>1, <3>2
    <3>5. h[q].next # MemSize => g[h[q].next].prev = h[h[q].next].prev
      BY <1>5, <1>7, <3>2, <3>3, <3>4 DEF Structs
    <3> QED
      BY <1>1, <3>1, <3>2, <3>3, <3>5
  <2> QED
    BY <2>1, <2>2, <2>3
<1>12. ASSUME NEW q \in Structs(g), NEW r \in DOMAIN g
       PROVE  r <= q \/ g[q].next <= r
  <2>1. CASE q = p
    BY <1>1, <1>3, <1>4, <1>8, <2>1
  <2>2. CASE q = x
    <3>1. r = x \/ (r \in DOMAIN h /\ r # n /\ r \in Nat)
      BY <1>1
    <3>2. r # x => (r <= p \/ n <= r) /\ (r <= n \/ a <= r)
      BY <1>4, <3>1
    <3> QED
      BY <1>1, <1>2, <1>3, <1>8, <2>2, <3>1, <3>2
  <2>3. CASE q # p /\ q # x
    <3>1. /\ q \in Structs(h) /\ q # n /\ g[q].next = h[q].next
          /\ q \in Nat /\ h[q].next \in Nat
      BY <1>1, <1>5, <1>6, <2>3 DEF Listed, Structs
    <3>2. \A s \in DOMAIN h : s <= q \/ h[q].next <= s
      BY <3>1 DEF Listed
    <3>3. CASE r = x
      <4>1. q <= p \/ n <= q
        BY <1>4, <3>1 DEF Structs
      <4>2. n <= q \/ h[q].next <= p
        BY <1>1, <2>3, <3>1, <3>2, <4>1
      <4> QED
        BY <1>1, <1>3, <3>1, <3>3, <4>2
    <3>4. CASE r # x
      BY <1>1, <3>1, <3>2, <3>4
    <3> QED
      BY <3>3, <3>4
  <2> QED
    BY <2>1, <2>2, <2>3
<1>13. ASSUME NEW q \in Structs(g) \ {0}
       PROVE  /\ g[q].prev \in Structs(g)
              /\ g[q].prev < q
              /\ g[g[q].prev].next = q
  <2>1. CASE q = x
    BY <1>1, <1>3, <1>5, <1>8, <2>1 DEF Structs
  <2>2. CASE q = a
    BY <1>1, <1>2, <1>3, <1>5, <1>8, <2>2 DEF Structs
  <2>3. CASE q # a /\ q # x
    <3>1. q \in Structs(h) \ {0} /\ q # n /\ g[q].prev = h[q].prev
      BY <1>5, <1>7, <2>3
    <3>2. h[q].prev \in Structs(h) /\ h[q].prev < q /\ h[h[q].prev].next = q
      BY <3>1 DEF Listed
    <3>3. h[q].prev # p /\ h[q].prev # n /\ h[q].prev # x
      BY <1>4, <2>3, <3>1, <3>2 DEF Structs
    <3> QED
      BY <1>5, <1>6, <3>1, <3>2, <3>3
  <2> QED
    BY <2>1, <2>2, <2>3
<1> QED
  BY <1>9, <1>10, <1>11, <1>12, <1>13 DEF Listed

-----------------------------------------------------------------------------
(* Writing one field of one struct.                                        *)
LEMMA SetNext ==
  ASSUME NEW D, NEW h \in [D -> Mem], NEW p \in D, NEW x \in Nat
  PROVE  LET g == [h EXCEPT ![p].next = x]
         IN /\ g \in [D -> Mem] /\ \A q \in D \ {p} : g[q] = h[q]
            /\ g[p].next = x /\ g[p].prev = h[p].prev /\ g[p].used = h[p].used
<1> DEFINE t == [h[p] EXCEPT !.next = x]
<1>1. t \in Mem /\ t.next = x /\ t.prev = h[p].prev /\ t.used = h[p].used
  BY DEF Mem
<1> HIDE DEF t
<1>2. LET g == [h EXCEPT ![p] = t] IN g \in [D -> Mem] /\ g[p] = t /\ \A q \in D \ {p} : g[q] = h[q]
  BY <1>1
<1> QED
  BY <1>1, <1>2 DEF t

LEMMA SetPrev ==
  ASSUME NEW D, NEW h \in [D -> Mem], NEW p \in D, NEW x \in Nat
  PROVE  LET g == [h EXCEPT ![p].prev = x]
         IN /\ g \in [D -> Mem] /\ \A q \in D \ {p} : g[q] = h[q]
            /\ g[p].prev = x /\ g[p].next = h[p].next /\ g[p].used = h[p].used
<1> DEFINE t == [h[p] EXCEPT !.prev = x]
<1>1. t \in Mem /\ t.prev = x /\ t.next = h[p].next /\ t.used = h[p].used
  BY DEF Mem
<1> HIDE DEF t
<1>2. LET g == [h EXCEPT ![p] = t] IN g \in [D -> Mem] /\ g[p] = t /\ \A q \in D \ {p} : g[q] = h[q]
  BY <1>1
<1> QED
  BY <1>1, <1>2 DEF t

LEMMA SetUsed ==
  ASSUME NEW D, NEW h \in [D -> Mem], NEW p \in D, NEW b \in BOOLEAN
  PROVE  LET g == [h EXCEPT ![p].used = b]
         IN /\ g \in [D -> Mem] /\ \A q \in D \ {p} : g[q] = h[q]
            /\ g[p].used = b /\ g[p].next = h[p].next /\ g[p].prev = h[p].prev
<1> DEFINE t == [h[p] EXCEPT !.used = b]
<1>1. t \in Mem /\ t.used = b /\ t.next = h[p].next /\ t.prev = h[p].prev
  BY DEF Mem
<1> HIDE DEF t
<1>2. LET g == [h EXCEPT ![p] = t] IN g \in [D -> Mem] /\ g[p] = t /\ \A q \in D \ {p} : g[q] = h[q]
  BY <1>1
<1> QED
  BY <1>1, <1>2 DEF t

(* A new struct v at x to which the struct at n points back.               *)
LinkedTo(D, h, g, x, v, n) ==
  /\ g \in [D \cup {x} -> Mem]
  /\ g[x] = v
  /\ \A q \in D : q # n \/ n = MemSize => g[q] = h[q]
  /\ n # MemSize => g[n].prev = x /\ g[n].next = h[n].next /\ g[n].used = h[n].used

LEMMA LinkFacts ==
  ASSUME NEW D, NEW h \in [D -> Mem], NEW x \in Nat, x \notin D, NEW v \in Mem, NEW n \in D
  PROVE  LinkedTo(D, h, LinkedBack(With(h, x, v), n, x), x, v, n)
<1> DEFINE w == With(h, x, v)
           g == LinkedBack(w, n, x)
<1>1. w \in [D \cup {x} -> Mem] /\ w[x] = v /\ \A q \in D : w[q] = h[q]
  BY DEF With
<1> HIDE DEF w
<1>2. /\ g \in [D \cup {x} -> Mem]
      /\ \A q \in D \cup {x} : q # n \/ n = MemSize => g[q] = w[q]
      /\ n # MemSize => g[n].prev = x /\ g[n].next = w[n].next /\ g[n].used = w[n].used
  <2>1. CASE n = MemSize
    BY <1>1, <2>1 DEF LinkedBack
  <2>2. CASE n # MemSize
    <3>1. g = [w EXCEPT ![n].prev = x]
      BY <2>2 DEF LinkedBack
    <3> HIDE DEF g
    <3> QED
      BY <1>1, <2>2, <3>1, SetPrev
  <2> QED
    BY <2>1, <2>2
<1> HIDE DEF g
<1>3. /\ g[x] = v /\ \A q \in D : q # n \/ n = MemSize => g[q] = h[q]
      /\ n # MemSize => g[n].prev = x /\ g[n].next = h[n].next /\ g[n].used = h[n].used
  BY <1>1, <1>2
<1>4. LinkedTo(D, h, g, x, v, n)
  BY <1>2, <1>3 DEF LinkedTo
<1> QED
  BY <1>4 DEF g, w

(* The block p is taken and the rest of it is a free block.                *)
LEMMA SplitFacts ==
  ASSUME Listed(heap), NEW p \in Structs(heap), NEW size \in Nat, MinSize <= size,
         Splits(p, size)
  PROVE  LET g == Split(p, size)
             x == p + Struct + size
         IN /\ Listed(g) /\ Inserted(heap, g, p, x)
            /\ g[p].used /\ ~g[x].used
            /\ \A q \in Structs(heap) \ {p} : g[q].used = heap[q].used
<1> DEFINE x == p + Struct + size
           n == heap[p].next
           D == DOMAIN heap
           cut == [heap EXCEPT ![p].next = x]
           taken == [cut EXCEPT ![p].used = TRUE]
           v == [next |-> n, prev |-> p, used |-> FALSE]
           g == LinkedBack(With(taken, x, v), n, x)
<1>1. /\ heap \in [D -> Mem] /\ p \in D /\ p # MemSize /\ p \in Nat
      /\ n \in D /\ n \in Nat /\ MemSize \in D /\ heap[MemSize].used
      /\ \A q \in D : q \in Nat /\ (q <= p \/ n <= q)
  BY DEF Listed, Structs
<1>2. /\ x \in Nat /\ p < x /\ x < n /\ p + Struct + MinSize <= x
      /\ x + Struct + MinSize <= n
  BY <1>1, HeapNumbers DEF Splits, Room
<1>3. Split(p, size) = g
  BY DEF Split
<1>4. x \in Nat \ D /\ v \in Mem
  BY <1>1, <1>2 DEF Mem
<1>5. v.next = n /\ v.prev = p /\ ~v.used
  OBVIOUS
<1> HIDE DEF x, n, D, v
<1>6. /\ cut \in [D -> Mem] /\ \A q \in D \ {p} : cut[q] = heap[q]
      /\ cut[p].next = x /\ cut[p].prev = heap[p].prev
  BY <1>1, <1>2, SetNext
<1> HIDE DEF cut
<1>7. /\ taken \in [D -> Mem] /\ \A q \in D \ {p} : taken[q] = cut[q]
      /\ taken[p].next = cut[p].next /\ taken[p].prev = cut[p].prev /\ taken[p].used = TRUE
  BY <1>1, <1>6, SetUsed
<1> HIDE DEF taken
<1>8. LinkedTo(D, taken, g, x, v, n)
  BY <1>1, <1>4, <1>7, LinkFacts
<1> HIDE DEF g
<1>9. Inserted(heap, g, p, x)
  <2>1. /\ g[p].next = x /\ g[p].prev = heap[p].prev
        /\ g[x].next = n /\ g[x].prev = p
        /\ n # MemSize => g[n].prev = x /\ g[n].next = heap[n].next
    BY <1>1, <1>2, <1>5, <1>6, <1>7, <1>8 DEF LinkedTo
  <2>2. g[MemSize].used
    BY <1>1, <1>6, <1>7, <1>8 DEF LinkedTo
  <2>3. \A q \in D \ {p, n} : g[q] = heap[q]
    BY <1>6, <1>7, <1>8 DEF LinkedTo
  <2> QED
    BY <1>8, <2>1, <2>2, <2>3 DEF LinkedTo, Inserted, Structs, SameLinks, D, n
<1>10. Listed(g)
  BY <1>2, <1>9, InsertKeepsList DEF n
<1>11. g[p].used /\ ~g[x].used
  BY <1>1, <1>2, <1>5, <1>7, <1>8 DEF LinkedTo
<1>12. \A q \in Structs(heap) \ {p} : g[q].used = heap[q].used
  BY <1>6, <1>7, <1>8 DEF LinkedTo, Structs, D
<1> QED
  BY <1>3, <1>9, <1>10, <1>11, <1>12 DEF x

(* Two neighbours become one.                                              *)
LEMMA MergeFacts ==
  ASSUME NEW h, Listed(h), NEW p \in Structs(h), h[p].next # MemSize
  PROVE  LET n == h[p].next
             a == h[n].next
             g == Without([h EXCEPT ![p].next = a, ![a].prev = p], n)
         IN /\ Listed(g) /\ Merged(h, g, p)
            /\ \A q \in DOMAIN h \ {n} : g[q].used = h[q].used
<1> DEFINE D == DOMAIN h
           n == h[p].next
           a == h[n].next
           f == [h EXCEPT ![p].next = a]
           e == [f EXCEPT ![a].prev = p]
           g == Without(e, n)
<1>1. /\ h \in [D -> Mem] /\ p \in D /\ p # MemSize /\ p \in Nat
      /\ n \in Structs(h) /\ n \in Nat /\ p < n /\ MemSize \in D /\ h[MemSize].used
  BY HeapNumbers DEF Listed, Structs, Mem
<1>2. a \in D /\ a \in Nat /\ n < a
  BY <1>1, HeapNumbers DEF Listed, Structs, Mem
<1>3. [h EXCEPT ![p].next = a, ![a].prev = p] = e
  OBVIOUS
<1> HIDE DEF a, n, D
<1>4. /\ f \in [D -> Mem] /\ f[p].next = a /\ f[p].prev = h[p].prev
      /\ f[p].used = h[p].used /\ \A q \in D \ {p} : f[q] = h[q]
  BY <1>1, <1>2, SetNext
<1> HIDE DEF f
<1>5. /\ e \in [D -> Mem] /\ e[a].prev = p /\ e[a].next = f[a].next
      /\ e[a].used = f[a].used /\ \A q \in D \ {a} : e[q] = f[q]
  BY <1>1, <1>2, <1>4, SetPrev
<1> HIDE DEF e
<1>6. g \in [D \ {n} -> Mem] /\ \A q \in D \ {n} : g[q] = e[q]
  BY <1>5 DEF Without
<1> HIDE DEF g
<1>7. Merged(h, g, p)
  <2>1. /\ g[p].next = a /\ g[p].prev = h[p].prev
        /\ a # MemSize => g[a].prev = p /\ g[a].next = h[a].next
    BY <1>1, <1>2, <1>4, <1>5, <1>6
  <2>2. \A q \in D \ {p, n, a} : g[q] = h[q]
    BY <1>4, <1>5, <1>6
  <2>3. g[MemSize].used
    BY <1>1, <1>2, <1>4, <1>5, <1>6 DEF Structs
  <2> QED
    BY <1>6, <2>1, <2>2, <2>3 DEF Merged, Structs, SameLinks, D, n, a
<1>8. Listed(g)
  BY <1>7, MergeKeepsList
<1>9. \A q \in D \ {n} : g[q].used = h[q].used
  BY <1>1, <1>2, <1>4, <1>5, <1>6
<1> QED
  BY <1>3, <1>7, <1>8, <1>9 DEF g, a, n, D

(* A free block is cut off the block p.                                    *)
LEMMA CutFacts ==
  ASSUME Listed(heap), NEW p \in Structs(heap), NEW x \in Nat,
         p + Struct + MinSize <= x, x + Struct + MinSize <= heap[p].next
  PROVE  LET n == heap[p].next
             g == LinkedBack(With([heap EXCEPT ![p].next = x], x,
                                  [next |-> n, prev |-> p, used |-> FALSE]), n, x)
         IN /\ Listed(g) /\ Inserted(heap, g, p, x)
            /\ ~g[x].used
            /\ \A q \in Structs(heap) : g[q].used = heap[q].used
<1> DEFINE n == heap[p].next
           D == DOMAIN heap
           cut == [heap EXCEPT ![p].next = x]
           v == [next |-> n, prev |-> p, used |-> FALSE]
           g == LinkedBack(With(cut, x, v), n, x)
<1>1. /\ heap \in [D -> Mem] /\ p \in D /\ p # MemSize /\ p \in Nat
      /\ n \in D /\ n \in Nat /\ MemSize \in D /\ heap[MemSize].used
      /\ \A q \in D : q \in Nat /\ (q <= p \/ n <= q)
  BY DEF Listed, Structs
<1>2. p < x /\ x < n
  BY <1>1, HeapNumbers
<1>4. x \notin D /\ v \in Mem
  BY <1>1, <1>2 DEF Mem
<1>5. v.next = n /\ v.prev = p /\ ~v.used
  OBVIOUS
<1> HIDE DEF n, D, v
<1>6. /\ cut \in [D -> Mem] /\ \A q \in D \ {p} : cut[q] = heap[q]
      /\ cut[p].next = x /\ cut[p].prev = heap[p].prev /\ cut[p].used = heap[p].used
  BY <1>1, SetNext
<1> HIDE DEF cut
<1>8. LinkedTo(D, cut, g, x, v, n)
  BY <1>1, <1>4, <1>6, LinkFacts
<1> HIDE DEF g
<1>9. Inserted(heap, g, p, x)
  <2>1. /\ g[p].next = x /\ g[p].prev = heap[p].prev
        /\ g[x].next = n /\ g[x].prev = p
        /\ n # MemSize => g[n].prev = x /\ g[n].next = heap[n].next
    BY <1>1, <1>2, <1>5, <1>6, <1>8 DEF LinkedTo
  <2>2. g[MemSize].used
    BY <1>1, <1>6, <1>8 DEF LinkedTo
  <2>3. \A q \in D \ {p, n} : g[q] = heap[q]
    BY <1>6, <1>8 DEF LinkedTo
  <2> QED
    BY <1>8, <2>1, <2>2, <2>3 DEF LinkedTo, Inserted, Structs, SameLinks, D, n
<1>10. Listed(g)
  BY <1>9, InsertKeepsList
<1>11. ~g[x].used
  BY <1>5, <1>8 DEF LinkedTo
<1>12. \A q \in Structs(heap) : g[q].used = heap[q].used
  BY <1>6, <1>8 DEF LinkedTo, Structs, D
<1> QED
  BY <1>9, <1>10, <1>11, <1>12 DEF g, cut, v, n

(* The block p gives room to the free block behind it.                     *)
MovedFree(g, p, x) ==
  /\ Listed(g) /\ Moved(heap, g, p, x)
  /\ ~g[x].used
  /\ \A q \in Structs(heap) \ {heap[p].next} : g[q].used = heap[q].used

LEMMA MoveFacts ==
  ASSUME Listed(heap), NEW p \in Structs(heap), heap[p].next # MemSize,
         NEW x \in Nat, p + Struct + MinSize <= x, x < heap[p].next
  PROVE  LET n == heap[p].next
             a == heap[n].next
         IN MovedFree(LinkedBack(With(Without([heap EXCEPT ![p].next = x], n), x,
                                      [next |-> a, prev |-> p, used |-> FALSE]), a, x), p, x)
<1> DEFINE D == DOMAIN heap
           n == heap[p].next
           a == heap[n].next
           cut == [heap EXCEPT ![p].next = x]
           rest == Without(cut, n)
           v == [next |-> a, prev |-> p, used |-> FALSE]
           g == LinkedBack(With(rest, x, v), a, x)
<1>1. /\ heap \in [D -> Mem] /\ p \in D /\ p # MemSize /\ p \in Nat
      /\ n \in Structs(heap) /\ n \in Nat /\ MemSize \in D /\ heap[MemSize].used
      /\ n # MemSize /\ \A q \in D : q \in Nat /\ (q <= p \/ n <= q)
  BY DEF Listed, Structs
<1>2. p < x /\ x < n /\ a \in D /\ a \in Nat /\ n < a
  BY <1>1, HeapNumbers DEF Listed
<1>4. x \notin D /\ v \in Mem
  BY <1>1, <1>2 DEF Mem
<1>5. v.next = a /\ v.prev = p /\ ~v.used
  OBVIOUS
<1> HIDE DEF a, n, D, v
<1>6. /\ cut \in [D -> Mem] /\ \A q \in D \ {p} : cut[q] = heap[q]
      /\ cut[p].next = x /\ cut[p].prev = heap[p].prev /\ cut[p].used = heap[p].used
  BY <1>1, SetNext
<1> HIDE DEF cut
<1>7. rest \in [D \ {n} -> Mem] /\ \A q \in D \ {n} : rest[q] = cut[q]
  BY <1>6 DEF Without
<1> HIDE DEF rest
<1>8. LinkedTo(D \ {n}, rest, g, x, v, a)
  <2> DEFINE E == D \ {n}
  <2>1. rest \in [E -> Mem] /\ x \notin E /\ a \in E
    BY <1>2, <1>4, <1>7
  <2> HIDE DEF E
  <2>2. LinkedTo(E, rest, g, x, v, a)
    BY <1>4, <2>1, LinkFacts
  <2> QED
    BY <2>2 DEF E
<1> HIDE DEF g
<1>9. Moved(heap, g, p, x)
  <2>1. /\ g[p].next = x /\ g[p].prev = heap[p].prev
        /\ g[x].next = a /\ g[x].prev = p
        /\ a # MemSize => g[a].prev = x /\ g[a].next = heap[a].next
    BY <1>1, <1>2, <1>5, <1>6, <1>7, <1>8 DEF LinkedTo
  <2>2. g[MemSize].used
    BY <1>1, <1>6, <1>7, <1>8 DEF LinkedTo
  <2>3. \A q \in D \ {p, n, a} : g[q] = heap[q]
    BY <1>6, <1>7, <1>8 DEF LinkedTo
  <2> QED
    BY <1>8, <2>1, <2>2, <2>3 DEF LinkedTo, Moved, Structs, SameLinks, D, n, a
<1>10. Listed(g)
  BY <1>9, MoveKeepsList DEF n
<1>11. ~g[x].used
  BY <1>5, <1>8 DEF LinkedTo
<1>12. \A q \in Structs(heap) \ {n} : g[q].used = heap[q].used
  BY <1>6, <1>7, <1>8 DEF LinkedTo, Structs, D
<1>13. MovedFree(g, p, x)
  BY <1>9, <1>10, <1>11, <1>12 DEF MovedFree, n
<1> QED
  BY <1>13 DEF g, rest, cut, v, a, n

(* g is h with another flag at p.                                          *)
Flagged(h, g, p, b) ==
  /\ DOMAIN g = DOMAIN h
  /\ g[p].used = b
  /\ \A q \in DOMAIN h : SameLinks(h, g, q)
  /\ \A q \in DOMAIN h \ {p} : g[q].used = h[q].used

(* Taking or freeing a block changes its flag and nothing else.            *)
LEMMA FlagFacts ==
  ASSUME NEW h, Listed(h), NEW p \in Structs(h), NEW b \in BOOLEAN,
         NEW g, g = [h EXCEPT ![p].used = b]
  PROVE  Listed(g) /\ Flagged(h, g, p, b)
<1> DEFINE D == DOMAIN h
<1>1. h \in [D -> Mem] /\ p \in D /\ p # MemSize /\ MemSize \in D
  BY DEF Listed, Structs
<1> HIDE DEF D
<1>2. /\ g \in [D -> Mem] /\ \A q \in D \ {p} : g[q] = h[q]
      /\ g[p].used = b /\ g[p].next = h[p].next /\ g[p].prev = h[p].prev
  BY <1>1, SetUsed
<1>3. DOMAIN g = DOMAIN h /\ \A q \in DOMAIN h : SameLinks(h, g, q)
  BY <1>2 DEF SameLinks, D
<1>4. Structs(g) = Structs(h)
  BY <1>3 DEF Structs
<1>5. /\ DOMAIN g \subseteq 0 .. MemSize /\ g \in [DOMAIN g -> Mem]
      /\ 0 \in DOMAIN g /\ MemSize \in DOMAIN g
      /\ g[MemSize].used /\ g[0].prev = 0
  BY <1>1, <1>2, <1>3 DEF Listed, SameLinks, D
<1>6. \A q \in Structs(g) :
        /\ g[q].next \in DOMAIN g
        /\ q + Struct + MinSize <= g[q].next
        /\ g[q].next # MemSize => g[g[q].next].prev = q
  BY <1>3, <1>4 DEF Listed, SameLinks, Structs
<1>7. \A q \in Structs(g), r \in DOMAIN g : r <= q \/ g[q].next <= r
  BY <1>3, <1>4 DEF Listed, SameLinks, Structs
<1>8. \A q \in Structs(g) \ {0} :
        /\ g[q].prev \in Structs(g)
        /\ g[q].prev < q
        /\ g[g[q].prev].next = q
  BY <1>3, <1>4 DEF Listed, SameLinks, Structs
<1>9. Listed(g)
  BY <1>5, <1>6, <1>7, <1>8 DEF Listed
<1> QED
  BY <1>2, <1>3, <1>9 DEF Flagged, D

-----------------------------------------------------------------------------
(* No free block is in front of a free block.                              *)
Holeless(h) == \A p \in Structs(h) : ~h[p].used => h[h[p].next].used

(* lf is a struct, and no free struct is below it.                         *)
Lowest(h, lf) == lf \in DOMAIN h /\ \A q \in DOMAIN h : ~h[q].used => lf <= q

(* The used blocks are those of al, and each has the room for what its     *)
(* owner asked for, rounded as it was when the block was chosen.           *)
Owned(h, al) ==
  /\ {p \in Structs(h) : h[p].used} = DOMAIN al
  /\ \A p \in DOMAIN al : al[p] \in Sizes /\ p + Struct + DataSize(al[p]) <= h[p].next

(* The free blocks of h other than x are free blocks of g, as big at least.*)
Kept(h, g, x) ==
  \A q \in Structs(h) \ {x} : ~h[q].used => q \in Structs(g) /\ ~g[q].used /\ h[q].next <= g[q].next

(* The heap is in order, and each call wants what it was asked for.        *)
HInv == Listed(heap) /\ Holeless(heap) /\ Lowest(heap, lfree) /\ Owned(heap, alloc)
Call == [at : Nat, size : Nat, asked : Sizes]
CallsInv == calls \in Seq(Call) /\ \A i \in 1 .. Len(calls) : calls[i].size = DataSize(calls[i].asked)

(* The inductive invariant, up to a call that takes a block it has lost.   *)
IInv == raced \/ (HInv /\ CallsInv)

(* mem_init                                                                *)
LEMMA InitInv == Init => IInv
<1> SUFFICES ASSUME Init
             PROVE  IInv
  OBVIOUS
<1>1. /\ DOMAIN heap = {0, MemSize} /\ 0 # MemSize
      /\ heap[0] = [next |-> MemSize, prev |-> 0, used |-> FALSE]
      /\ heap[MemSize] = [next |-> MemSize, prev |-> MemSize, used |-> TRUE]
  BY HeapNumbers DEF Init
<1>2. heap[0] \in Mem /\ heap[MemSize] \in Mem
  BY <1>1, HeapNumbers DEF Mem
<1>3. heap \in [DOMAIN heap -> Mem]
  BY <1>1, <1>2 DEF Init
<1>4. Structs(heap) = {0}
  BY <1>1 DEF Structs
<1>5. Listed(heap)
  BY <1>1, <1>3, <1>4, HeapNumbers DEF Listed
<1>6. heap[0].next = MemSize /\ heap[MemSize].used /\ lfree = 0
  BY <1>1 DEF Init
<1>8. Holeless(heap)
  BY <1>4, <1>6 DEF Holeless
<1>9. Lowest(heap, lfree)
  BY <1>1, <1>6, HeapNumbers DEF Lowest
<1>7. Owned(heap, alloc)
  BY <1>1, <1>4 DEF Owned, Init
<1> QED
  BY <1>5, <1>7, <1>8, <1>9 DEF IInv, HInv, CallsInv, Init

(* One more call, or one call less, leaves the others as they are.         *)
LEMMA CallsFacts ==
  ASSUME CallsInv
  PROVE  /\ Len(calls) \in Nat /\ DOMAIN calls = 1 .. Len(calls)
         /\ \A c \in Call : c.size = DataSize(c.asked) /\ calls' = Append(calls, c) => CallsInv'
         /\ calls # <<>> /\ calls' = SubSeq(calls, 1, Len(calls) - 1) => CallsInv'
         /\ \/ \E c \in Call : calls' = Append(calls, c)
            \/ calls # <<>> /\ calls' = SubSeq(calls, 1, Len(calls) - 1)
            \/ calls' = calls
            => \A i \in DOMAIN calls \cap DOMAIN calls' : calls'[i] = calls[i]
<1>1. calls \in Seq(Call) /\ Len(calls) \in Nat /\ DOMAIN calls = 1 .. Len(calls)
  BY DEF CallsInv
<1>2. ASSUME NEW c \in Call, calls' = Append(calls, c)
      PROVE  /\ c.size = DataSize(c.asked) => CallsInv'
             /\ \A i \in DOMAIN calls \cap DOMAIN calls' : calls'[i] = calls[i]
  <2>1. /\ calls' \in Seq(Call) /\ Len(calls') = Len(calls) + 1 /\ calls'[Len(calls) + 1] = c
        /\ \A i \in 1 .. Len(calls) : calls'[i] = calls[i]
    BY <1>1, <1>2
  <2>2. ASSUME c.size = DataSize(c.asked), NEW i \in 1 .. Len(calls')
        PROVE  calls'[i].size = DataSize(calls'[i].asked)
    <3>1. CASE i = Len(calls) + 1
      BY <2>1, <2>2, <3>1
    <3>2. CASE i # Len(calls) + 1
      <4>1. i \in 1 .. Len(calls)
        BY <1>1, <2>1, <3>2
      <4> QED
        BY <2>1, <4>1 DEF CallsInv
    <3> QED
      BY <3>1, <3>2
  <2>3. c.size = DataSize(c.asked) => CallsInv'
    BY <2>1, <2>2 DEF CallsInv
  <2> QED
    BY <1>1, <2>1, <2>3
<1>3. ASSUME calls # <<>>, calls' = SubSeq(calls, 1, Len(calls) - 1)
      PROVE  /\ CallsInv'
             /\ \A i \in DOMAIN calls \cap DOMAIN calls' : calls'[i] = calls[i]
  <2>1. Len(calls) - 1 \in Nat
    BY <1>1, <1>3
  <2>2. /\ calls' \in Seq(Call) /\ Len(calls') = Len(calls) - 1
        /\ \A i \in 1 .. Len(calls) - 1 : calls'[i] = calls[i]
    BY <1>1, <1>3, <2>1
  <2>3. \A i \in 1 .. Len(calls') : i \in 1 .. Len(calls)
    BY <1>1, <2>2
  <2>4. CallsInv'
    BY <2>2, <2>3 DEF CallsInv
  <2>5. DOMAIN calls' = 1 .. Len(calls) - 1
    BY <2>2
  <2> QED
    BY <2>2, <2>4, <2>5
<1> QED
  BY <1>1, <1>2, <1>3

(* The search of mem_malloc ends at a free block with room.                *)
LEMMA MallocInv ==
  ASSUME HInv, CallsInv, NEW n \in Sizes, mem_malloc(n)
  PROVE  /\ CallsInv'
         /\ \A i \in DOMAIN calls \cap DOMAIN calls' : calls'[i] = calls[i]
<1> DEFINE size == DataSize(n)
           p == Least(Blocks(size))
           c == [at |-> p, size |-> size, asked |-> n]
<1>1. size \in Nat
  BY DataSizeFacts
<1>2. Blocks(size) \in SUBSET Nat /\ Blocks(size) # {}
  BY DEF HInv, Listed, Blocks, mem_malloc
<1>3. p \in Nat
  BY <1>2, LeastFacts
<1>4. calls' = Append(calls, c)
  BY DEF mem_malloc
<1>5. c \in Call /\ c.size = DataSize(c.asked)
  BY <1>1, <1>3 DEF Call
<1> HIDE DEF c
<1> QED
  BY <1>4, <1>5, CallsFacts

(* The next free block, or the end.                                        *)
LEMMA NextFreeFacts ==
  ASSUME NEW h, Listed(h), NEW from \in Nat, from <= MemSize,
         \A q \in DOMAIN h : ~h[q].used => from <= q
  PROVE  Lowest(h, NextFree(h, from))
<1> DEFINE S == {q \in DOMAIN h : q >= from /\ (~h[q].used \/ q = MemSize)}
<1>1. S \in SUBSET Nat /\ MemSize \in S
  BY HeapNumbers DEF Listed
<1>2. Least(S) \in S /\ \A q \in S : Least(S) <= q
  BY <1>1, LeastFacts
<1>3. \A q \in DOMAIN h : ~h[q].used => q \in S
  BY DEF Listed
<1> HIDE DEF S
<1>4. Least(S) \in DOMAIN h
  BY <1>2 DEF S
<1> QED
  BY <1>2, <1>3, <1>4 DEF Lowest, NextFree, S

(* What taking the block at p leaves, whether it is split or not.          *)
LEMMA TakenFacts ==
  ASSUME Listed(heap), Holeless(heap), Lowest(heap, lfree), Owned(heap, alloc),
         NEW p \in Structs(heap), ~heap[p].used, NEW n \in Sizes,
         p + Struct + DataSize(n) <= heap[p].next
  PROVE  LET h == Taken(p, DataSize(n))
         IN /\ Listed(h) /\ Holeless(h) /\ Owned(h, With(alloc, p, n))
            /\ DOMAIN heap \subseteq DOMAIN h
            /\ \A q \in DOMAIN h : ~h[q].used => lfree <= q
            /\ Kept(heap, h, p)
<1> DEFINE size == DataSize(n)
           h == Taken(p, size)
           x == p + Struct + size
           next == heap[p].next
           al == With(alloc, p, n)
<1>1. /\ size \in Nat /\ MinSize <= size /\ p \in Nat /\ p \in DOMAIN heap /\ p # MemSize
      /\ next \in DOMAIN heap /\ next # p /\ heap[next].used
      /\ lfree \in Nat /\ lfree <= p /\ MemSize \in DOMAIN heap
  BY DataSizeFacts, HeapNumbers DEF Listed, Holeless, Lowest, Structs, Mem
<1>2. DOMAIN al = DOMAIN alloc \cup {p} /\ al[p] = n /\ \A q \in DOMAIN alloc \ {p} : al[q] = alloc[q]
  BY DEF With
<1> HIDE DEF al
<1>3. p \notin DOMAIN alloc /\ DOMAIN alloc \subseteq Structs(heap)
  BY DEF Owned
<1>4. CASE Splits(p, size)
  <2>1. h = Split(p, size)
    BY <1>4 DEF Taken
  <2>2. /\ Listed(h) /\ Inserted(heap, h, p, x)
        /\ h[p].used /\ ~h[x].used
        /\ \A q \in Structs(heap) \ {p} : h[q].used = heap[q].used
    BY <1>1, <1>4, <2>1, SplitFacts
  <2> HIDE DEF h, size
  <2>3. /\ DOMAIN h = DOMAIN heap \cup {x} /\ h[MemSize].used
        /\ h[p].next = x /\ h[x].next = next /\ x \in Nat /\ p < x
        /\ \A q \in Structs(heap) \ {p} : h[q].next = heap[q].next
    BY <1>1, <2>2, HeapNumbers DEF Inserted, SameLinks, Structs
  <2>4. x # MemSize /\ Structs(h) = Structs(heap) \cup {x}
    BY <2>2, <2>3 DEF Structs
  <2>5. \A q \in DOMAIN heap : heap[q].used => h[q].used
    BY <1>1, <2>2, <2>3 DEF Structs
  <2>6. Holeless(h)
    <3> SUFFICES ASSUME NEW q \in Structs(h), ~h[q].used
                 PROVE  h[h[q].next].used
      BY DEF Holeless
    <3>1. CASE q = x
      BY <1>1, <2>3, <2>5, <3>1
    <3>2. CASE q # x
      <4>1. q \in Structs(heap) \ {p}
        BY <2>2, <2>4, <3>2
      <4>2. ~heap[q].used /\ heap[q].next \in DOMAIN heap
        BY <2>2, <4>1 DEF Listed
      <4>3. heap[heap[q].next].used
        BY <4>1, <4>2 DEF Holeless
      <4> QED
        BY <2>3, <2>5, <4>1, <4>2, <4>3
    <3> QED
      BY <3>1, <3>2
  <2>7. ASSUME NEW q \in DOMAIN h, ~h[q].used
        PROVE  lfree <= q
    <3>1. CASE q = x
      BY <1>1, <2>3, <3>1
    <3>2. CASE q # x
      BY <2>3, <2>5, <2>7, <3>2 DEF Lowest
    <3> QED
      BY <3>1, <3>2
  <2>8. Owned(h, al)
    <3>1. {q \in Structs(h) : h[q].used} = DOMAIN al
      <4>1. {q \in Structs(heap) : heap[q].used} = DOMAIN alloc
        BY DEF Owned
      <4>2. \A q \in Structs(h) : h[q].used <=> q \in DOMAIN al
        BY <1>2, <1>3, <2>2, <2>4, <4>1
      <4>3. DOMAIN al \subseteq Structs(h)
        BY <1>2, <1>3, <2>4
      <4> QED
        BY <4>2, <4>3
    <3>2. ASSUME NEW q \in DOMAIN al
          PROVE  al[q] \in Sizes /\ q + Struct + DataSize(al[q]) <= h[q].next
      <4>1. CASE q = p
        BY <1>1, <1>2, <2>3, <4>1, HeapNumbers DEF size
      <4>2. CASE q # p
        BY <1>2, <1>3, <2>3, <4>2 DEF Owned
      <4> QED
        BY <4>1, <4>2
    <3> QED
      BY <3>1, <3>2 DEF Owned
  <2>9. Kept(heap, h, p)
    <3>1. \A q \in Structs(heap) : heap[q].next \in Nat
      BY HeapNumbers DEF Listed
    <3> QED
      BY <2>2, <2>3, <2>4, <3>1 DEF Kept
  <2> QED
    BY <2>2, <2>3, <2>6, <2>7, <2>8, <2>9 DEF h, size, al
<1>5. CASE ~Splits(p, size)
  <2>1. h = [heap EXCEPT ![p].used = TRUE]
    BY <1>5 DEF Taken
  <2> HIDE DEF h, size
  <2>2. /\ Listed(h) /\ DOMAIN h = DOMAIN heap /\ h[p].used = TRUE
        /\ \A q \in DOMAIN heap : SameLinks(heap, h, q)
        /\ \A q \in DOMAIN heap \ {p} : h[q].used = heap[q].used
    <3>1. Listed(h) /\ Flagged(heap, h, p, TRUE)
      BY <2>1, FlagFacts
    <3> QED
      BY <3>1 DEF Flagged
  <2>3. Structs(h) = Structs(heap) /\ \A q \in DOMAIN heap : heap[q].used => h[q].used
    BY <2>2 DEF Structs
  <2>4. Holeless(h)
    <3> SUFFICES ASSUME NEW q \in Structs(h), ~h[q].used
                 PROVE  h[h[q].next].used
      BY DEF Holeless
    <3>1. q \in Structs(heap) /\ ~heap[q].used /\ heap[q].next \in DOMAIN heap
      BY <2>2, <2>3 DEF Listed, Structs
    <3>2. heap[heap[q].next].used
      BY <3>1 DEF Holeless
    <3> QED
      BY <2>2, <2>3, <3>1, <3>2 DEF SameLinks, Structs
  <2>5. ASSUME NEW q \in DOMAIN h, ~h[q].used
        PROVE  lfree <= q
    BY <2>2, <2>3, <2>5 DEF Lowest
  <2>6. Owned(h, al)
    <3>1. {q \in Structs(h) : h[q].used} = DOMAIN al
      <4>1. {q \in Structs(heap) : heap[q].used} = DOMAIN alloc
        BY DEF Owned
      <4>2. \A q \in Structs(h) : h[q].used <=> q \in DOMAIN al
        BY <1>2, <1>3, <2>2, <2>3, <4>1 DEF Structs
      <4>3. DOMAIN al \subseteq Structs(h)
        BY <1>2, <1>3, <2>3
      <4> QED
        BY <4>2, <4>3
    <3>2. ASSUME NEW q \in DOMAIN al
          PROVE  al[q] \in Sizes /\ q + Struct + DataSize(al[q]) <= h[q].next
      <4>0. h[q].next = heap[q].next
        BY <1>2, <1>3, <2>2 DEF SameLinks, Structs
      <4>1. CASE q = p
        BY <1>2, <4>0, <4>1
      <4>2. CASE q # p
        BY <1>2, <1>3, <4>0, <4>2 DEF Owned
      <4> QED
        BY <4>1, <4>2
    <3> QED
      BY <3>1, <3>2 DEF Owned
  <2>7. Kept(heap, h, p)
    <3>1. \A q \in Structs(heap) : heap[q].next \in Nat
      BY HeapNumbers DEF Listed
    <3> QED
      BY <2>2, <2>3, <3>1 DEF Kept, SameLinks, Structs
  <2> QED
    BY <2>2, <2>4, <2>5, <2>6, <2>7 DEF h, size, al
<1> QED
  BY <1>4, <1>5

(* mem_malloc takes the block it has found.                                *)
LEMMA TakesInv ==
  ASSUME HInv, CallsInv, MallocTakes
  PROVE  /\ HInv' /\ CallsInv' /\ Kept(heap, heap', calls[Len(calls)].at)
         /\ \A i \in DOMAIN calls \cap DOMAIN calls' : calls'[i] = calls[i]
<1> DEFINE c == calls[Len(calls)]
           h == Taken(c.at, c.size)
<1>1. calls # <<>> /\ Takeable(c) /\ calls' = SubSeq(calls, 1, Len(calls) - 1)
  BY DEF MallocTakes
<1>2. c \in Call /\ c.size = DataSize(c.asked)
  <2>1. calls \in Seq(Call) /\ Len(calls) \in 1 .. Len(calls)
    BY <1>1 DEF CallsInv
  <2> QED
    BY <2>1 DEF CallsInv
<1>3. /\ c.asked \in Sizes /\ c.at \in Structs(heap) /\ ~heap[c.at].used
      /\ c.at + Struct + DataSize(c.asked) <= heap[c.at].next
  <2>1. c.asked \in Sizes /\ c.at \in Nat /\ c.size \in Nat
    BY <1>2 DEF Call
  <2> HIDE DEF c
  <2>2. c.at \in Structs(heap) /\ ~heap[c.at].used /\ Room(c.at) >= c.size
    BY <1>1 DEF Takeable, Structs
  <2>3. heap[c.at].next \in Nat
    BY <2>2, HeapNumbers DEF HInv, Listed
  <2> QED
    BY <1>2, <2>1, <2>2, <2>3, HeapNumbers DEF Room
<1>4. /\ heap' = h /\ alloc' = With(alloc, c.at, c.asked)
      /\ lfree' = IF c.at = lfree THEN NextFree(h, lfree) ELSE lfree
  BY DEF MallocTakes
<1> HIDE DEF c
<1>5. /\ Listed(h) /\ Holeless(h) /\ Owned(h, With(alloc, c.at, c.asked))
      /\ DOMAIN heap \subseteq DOMAIN h
      /\ \A q \in DOMAIN h : ~h[q].used => lfree <= q
      /\ Kept(heap, h, c.at)
  BY <1>2, <1>3, TakenFacts DEF HInv
<1> HIDE DEF h
<1>6. lfree \in DOMAIN heap /\ lfree \in Nat /\ lfree <= MemSize
  BY HeapNumbers DEF HInv, Lowest, Listed
<1>7. Lowest(h, lfree')
  <2>1. CASE c.at = lfree
    BY <1>4, <1>5, <1>6, <2>1, NextFreeFacts
  <2>2. CASE c.at # lfree
    BY <1>4, <1>5, <1>6, <2>2 DEF Lowest
  <2> QED
    BY <2>1, <2>2
<1>8. HInv' /\ Kept(heap, heap', c.at)
  BY <1>4, <1>5, <1>7 DEF HInv
<1> QED
  BY <1>1, <1>8, CallsFacts DEF c

-----------------------------------------------------------------------------
(* No free block is in front of a free block, but for those of S.          *)
HolelessBut(h, S) == \A q \in Structs(h) \ S : ~h[q].used => h[h[q].next].used

(* g is h after plug_holes has merged the free block at p with the one     *)
(* behind it.                                                              *)
Plugged(h, g, p, r, lf, al) ==
  /\ Listed(g) /\ HolelessBut(g, {r}) /\ Lowest(g, lf) /\ Owned(g, al)
  /\ lf # h[p].next
  /\ p \in Structs(g) /\ ~g[p].used /\ g[p].prev = h[p].prev
  /\ Structs(g) = Structs(h) \ {h[p].next}
  /\ \A q \in Structs(g) : g[q].used = h[q].used
  /\ Kept(h, g, h[p].next)

LEMMA PlugFacts ==
  ASSUME NEW h, Listed(h), NEW p \in Structs(h), h[p].next # MemSize,
         ~h[p].used, ~h[h[p].next].used,
         NEW lf, Lowest(h, lf), NEW al, Owned(h, al),
         NEW r, h[p].next # r, HolelessBut(h, {p, r}),
         NEW g, g = LET n == h[p].next
                        a == h[n].next
                    IN Without([h EXCEPT ![p].next = a, ![a].prev = p], n)
  PROVE  Plugged(h, g, p, r, lf, al)
<1> DEFINE n == h[p].next
           a == h[n].next
<1>1. /\ Listed(g) /\ Merged(h, g, p)
      /\ \A q \in DOMAIN h \ {n} : g[q].used = h[q].used
  BY MergeFacts
<1>2. /\ p \in Nat /\ n \in Structs(h) /\ n \in Nat /\ p < n /\ p # MemSize
      /\ h[n].prev = p /\ a \in DOMAIN h /\ n < a /\ a \in Nat
      /\ \A q \in DOMAIN h : q \in Nat
  <2>1. /\ p \in Nat /\ n \in Structs(h) /\ n \in Nat /\ p < n /\ p # MemSize
        /\ h[n].prev = p /\ \A q \in DOMAIN h : q \in Nat
    BY HeapNumbers DEF Listed, Structs, Mem
  <2>2. a \in DOMAIN h /\ a \in Nat /\ n < a
    BY <2>1, HeapNumbers DEF Listed, Structs, Mem
  <2> QED
    BY <2>1, <2>2
<1>3. DOMAIN g = DOMAIN h \ {n} /\ g[p].next = a /\ g[p].prev = h[p].prev
  BY <1>1 DEF Merged
<1>4. Structs(g) = Structs(h) \ {n} /\ p \in Structs(g)
  BY <1>2, <1>3 DEF Structs
<1>5. \A q \in Structs(g) : q # p => g[q].next = h[q].next
  BY <1>1, <1>4 DEF Merged, SameLinks, Structs
<1>6. lf \in DOMAIN h /\ lf <= p /\ lf # n
  BY <1>2 DEF Lowest, Structs
<1>7. \A q \in Structs(g) : g[q].used = h[q].used
  BY <1>1, <1>4 DEF Structs
<1>8. Lowest(g, lf)
  BY <1>1, <1>3, <1>6 DEF Lowest
<1>9. Owned(g, al)
  <2>1. {q \in Structs(g) : g[q].used} = DOMAIN al
    BY <1>4, <1>7 DEF Owned
  <2>2. p \notin DOMAIN al /\ DOMAIN al \subseteq Structs(g)
    BY <2>1, <1>7
  <2>3. \A q \in DOMAIN al : g[q].next = h[q].next
    BY <1>5, <2>2
  <2> QED
    BY <2>1, <2>3 DEF Owned
<1>10. HolelessBut(g, {r})
  <2> SUFFICES ASSUME NEW q \in Structs(g) \ {r}, ~g[q].used
               PROVE  g[g[q].next].used
    BY DEF HolelessBut
  <2>1. CASE q = p
    <3>1. h[a].used
      BY <1>2 DEF HolelessBut
    <3>2. a \in DOMAIN h \ {n}
      BY <1>2
    <3>3. g[a].used = h[a].used
      BY <1>1, <3>2
    <3> QED
      BY <1>3, <2>1, <3>1, <3>3
  <2>2. CASE q # p
    <3>1. q \in Structs(h) /\ ~h[q].used /\ g[q].next = h[q].next
      BY <1>4, <1>5, <1>7, <2>2
    <3>2. h[h[q].next].used /\ h[q].next \in DOMAIN h
      BY <2>2, <3>1 DEF HolelessBut, Listed
    <3>3. h[q].next # n
      BY <3>2
    <3> QED
      BY <1>1, <3>1, <3>2, <3>3
  <2> QED
    BY <2>1, <2>2
<1>11. Kept(h, g, n)
  <2>1. \A q \in Structs(h) : h[q].next \in Nat
    BY HeapNumbers DEF Listed
  <2>2. h[p].next <= g[p].next
    BY <1>2, <1>3
  <2> SUFFICES ASSUME NEW q \in Structs(h) \ {n}, ~h[q].used
               PROVE  q \in Structs(g) /\ ~g[q].used /\ h[q].next <= g[q].next
    BY DEF Kept
  <2>3. q \in Structs(g) /\ ~g[q].used
    BY <1>4, <1>7
  <2>4. h[q].next <= g[q].next
    <3>1. CASE q = p
      BY <2>2, <3>1
    <3>2. CASE q # p
      <4>1. g[q].next = h[q].next
        BY <1>5, <2>3, <3>2
      <4>2. h[q].next \in Nat
        BY <2>1
      <4> HIDE DEF n, a
      <4> QED
        BY <4>1, <4>2
    <3> QED
      BY <3>1, <3>2
  <2> QED
    BY <2>3, <2>4
<1> HIDE DEF n, a
<1> QED
  BY <1>1, <1>3, <1>4, <1>6, <1>7, <1>8, <1>9, <1>10, <1>11 DEF Plugged, n

(* Once p is free, only p and the struct in front of it can be in front of *)
(* a free block.                                                           *)
LEMMA FreedFacts ==
  ASSUME HInv, NEW p \in DOMAIN alloc, NEW r,
         p # 0 => r = heap[p].prev,
         NEW h, h = [heap EXCEPT ![p].used = FALSE]
  PROVE  /\ Listed(h) /\ HolelessBut(h, {p, r}) /\ Lowest(h, LowestWith(p))
         /\ Owned(h, Without(alloc, p))
         /\ p \in Structs(h) /\ ~h[p].used /\ h[p].prev = heap[p].prev /\ h[p].next = heap[p].next
         /\ \A q \in Structs(heap) : ~heap[q].used => q \in Structs(h) /\ ~h[q].used /\ h[q].next = heap[q].next
<1> DEFINE al == Without(alloc, p)
<1>1. /\ Listed(heap) /\ Holeless(heap) /\ Lowest(heap, lfree) /\ Owned(heap, alloc)
      /\ p \in Structs(heap) /\ heap[p].used
  BY DEF HInv, Owned
<1>2. Listed(h) /\ Flagged(heap, h, p, FALSE)
  BY <1>1, FlagFacts
<1>3. /\ DOMAIN h = DOMAIN heap /\ ~h[p].used
      /\ \A q \in DOMAIN heap : h[q].next = heap[q].next /\ h[q].prev = heap[q].prev
      /\ \A q \in DOMAIN heap \ {p} : h[q].used = heap[q].used
  BY <1>2 DEF Flagged, SameLinks
<1>4. /\ Structs(h) = Structs(heap) /\ p \in DOMAIN heap /\ p # MemSize
      /\ p \in Nat /\ lfree \in DOMAIN heap /\ lfree \in Nat
      /\ \A q \in DOMAIN heap : q \in Nat
  BY <1>1, <1>3, HeapNumbers DEF Structs, Listed, Lowest
<1>5. HolelessBut(h, {p, r})
  <2> SUFFICES ASSUME NEW q \in Structs(h) \ {p, r}, ~h[q].used
               PROVE  h[h[q].next].used
    BY DEF HolelessBut
  <2>1. q \in Structs(heap) /\ q \in DOMAIN heap /\ ~heap[q].used /\ h[q].next = heap[q].next
    BY <1>3, <1>4 DEF Structs
  <2>2. heap[heap[q].next].used /\ heap[q].next \in DOMAIN heap
    BY <1>1, <2>1 DEF Holeless, Listed
  <2>3. heap[q].next # p
    <3> SUFFICES ASSUME heap[q].next = p
                 PROVE  FALSE
      OBVIOUS
    <3>1. heap[p].prev = q
      BY <1>1, <1>4, <2>1 DEF Listed
    <3>2. q + Struct + MinSize <= p /\ q \in Nat
      BY <1>1, <1>4, <2>1 DEF Listed
    <3>3. p # 0
      BY <1>4, <3>2, HeapNumbers
    <3> QED
      BY <3>1, <3>3
  <2> QED
    BY <1>3, <2>1, <2>2, <2>3
<1>6. Lowest(h, LowestWith(p))
  <2>1. LowestWith(p) \in DOMAIN h /\ LowestWith(p) \in Nat /\ LowestWith(p) <= p /\ LowestWith(p) <= lfree
    BY <1>3, <1>4 DEF LowestWith
  <2>2. ASSUME NEW q \in DOMAIN h, ~h[q].used
        PROVE  LowestWith(p) <= q
    <3>1. CASE q = p
      BY <2>1, <3>1
    <3>2. CASE q # p
      <4>1. lfree <= q /\ q \in Nat
        BY <1>1, <1>3, <1>4, <2>2, <3>2 DEF Lowest
      <4> QED
        BY <1>4, <2>1, <4>1
    <3> QED
      BY <3>1, <3>2
  <2> QED
    BY <2>1, <2>2 DEF Lowest
<1>7. Owned(h, al)
  <2>1. DOMAIN al = DOMAIN alloc \ {p} /\ \A q \in DOMAIN al : al[q] = alloc[q]
    BY DEF Without
  <2> HIDE DEF al
  <2>2. {q \in Structs(heap) : heap[q].used} = DOMAIN alloc
    BY <1>1 DEF Owned
  <2>3. {q \in Structs(h) : h[q].used} = DOMAIN al
    BY <1>3, <1>4, <2>1, <2>2 DEF Structs
  <2>4. ASSUME NEW q \in DOMAIN al
        PROVE  al[q] \in Sizes /\ q + Struct + DataSize(al[q]) <= h[q].next
    <3>1. q \in DOMAIN alloc /\ q \in DOMAIN heap
      BY <2>1, <2>2 DEF Structs
    <3> QED
      BY <1>1, <1>3, <2>1, <3>1 DEF Owned
  <2> QED
    BY <2>3, <2>4 DEF Owned
<1>8. \A q \in Structs(heap) : ~heap[q].used => q \in Structs(h) /\ ~h[q].used /\ h[q].next = heap[q].next
  BY <1>1, <1>3, <1>4 DEF Structs
<1> QED
  BY <1>1, <1>2, <1>3, <1>4, <1>5, <1>6, <1>7, <1>8

(* mem_free with plug_holes, in which the free block takes in the free     *)
(* neighbours that it has.  The repairs of lfree in plug_holes have        *)
(* nothing to do: lfree is at most the lower of the two blocks that are    *)
(* merged.                                                                 *)
LEMMA FreeInv ==
  ASSUME HInv, NEW p \in DOMAIN alloc, mem_free(p)
  PROVE  HInv' /\ Kept(heap, heap', heap[p].next)
<1> DEFINE h0 == [heap EXCEPT ![p].used = FALSE]
           lf == LowestWith(p)
           al == Without(alloc, p)
           b == heap[p].prev
           r == IF p = 0 THEN MemSize ELSE b
           m0 == [heap |-> h0, lfree |-> lf]
           m1 == PlugForward(m0, p)
           m2 == PlugBackward(m1, p)
<1>2. heap' = m2.heap /\ lfree' = m2.lfree /\ alloc' = al
  BY DEF mem_free, plug_holes
<1>3. /\ Listed(h0) /\ HolelessBut(h0, {p, r}) /\ Lowest(h0, lf) /\ Owned(h0, al)
      /\ p \in Structs(h0) /\ ~h0[p].used /\ h0[p].prev = b /\ h0[p].next = heap[p].next
      /\ \A q \in Structs(heap) : ~heap[q].used => q \in Structs(h0) /\ ~h0[q].used /\ h0[q].next = heap[q].next
  BY FreedFacts
<1>4. m0.heap = h0 /\ m0.lfree = lf
  OBVIOUS
<1> HIDE DEF h0, lf, al, b, m0
<1>5. p \in Nat /\ p # MemSize /\ MemSize \in Nat
  BY <1>3, HeapNumbers DEF Listed, Structs
<1>6. p = 0 => b = 0
  BY <1>3 DEF Listed
<1>7. p # 0 => b \in Structs(h0) /\ b < p /\ h0[b].next = p
  BY <1>3 DEF Listed
<1>8. /\ Listed(m1.heap) /\ HolelessBut(m1.heap, {r}) /\ Lowest(m1.heap, lf)
      /\ Owned(m1.heap, al) /\ m1.lfree = lf
      /\ p \in Structs(m1.heap) /\ ~m1.heap[p].used /\ m1.heap[p].prev = b
      /\ Kept(h0, m1.heap, h0[p].next)
  <2> DEFINE n == h0[p].next
             a == h0[n].next
             g == Without([h0 EXCEPT ![p].next = a, ![a].prev = p], n)
  <2>1. n \in DOMAIN h0 /\ n \in Nat /\ p < n /\ (n = MemSize => h0[n].used)
    BY <1>3, <1>5, HeapNumbers DEF Listed
  <2>2. CASE n # p /\ ~h0[n].used /\ n # MemSize
    <3>1. m1 = [heap |-> g, lfree |-> IF lf = n THEN p ELSE lf]
      BY <1>4, <2>2 DEF PlugForward
    <3>2. n # r
      BY <1>5, <1>7, <2>1, <2>2 DEF Listed, Structs
    <3>3. Plugged(h0, g, p, r, lf, al)
      BY <1>3, <2>2, <3>2, PlugFacts
    <3> HIDE DEF g
    <3>4. m1.heap = g /\ m1.lfree = lf
      BY <3>1, <3>3 DEF Plugged
    <3> QED
      BY <1>3, <3>3, <3>4 DEF Plugged
  <2>3. CASE h0[n].used
    <3>1. m1 = m0
      BY <1>4, <2>3 DEF PlugForward
    <3>2. HolelessBut(h0, {r})
      BY <1>3, <2>3 DEF HolelessBut
    <3>3. Kept(h0, h0, n)
      <4>1. \A q \in Structs(h0) : h0[q].next \in Nat
        BY <1>3, HeapNumbers DEF Listed
      <4> QED
        BY <4>1 DEF Kept
    <3> QED
      BY <1>3, <1>4, <3>1, <3>2, <3>3
  <2> QED
    BY <1>5, <2>1, <2>2, <2>3
<1> HIDE DEF m1
<1>9. /\ Listed(m2.heap) /\ Holeless(m2.heap) /\ Lowest(m2.heap, lf)
      /\ Owned(m2.heap, al) /\ m2.lfree = lf
      /\ Kept(m1.heap, m2.heap, p)
  <2> DEFINE h1 == m1.heap
             a == h1[p].next
             g == Without([h1 EXCEPT ![b].next = a, ![a].prev = b], p)
  <2>1. p # 0 => b \in Structs(h1) /\ b < p /\ h1[b].next = p
    BY <1>8 DEF Listed
  <2>2. CASE b # p /\ ~h1[b].used
    <3>1. m2 = [heap |-> g, lfree |-> IF lf = p THEN b ELSE lf]
      BY <1>8, <2>2 DEF PlugBackward
    <3>2. p # 0 /\ b \in Structs(h1) /\ h1[b].next = p
      BY <1>6, <2>1, <2>2
    <3>3. HolelessBut(h1, {b, MemSize})
      BY <1>8, <3>2 DEF HolelessBut
    <3> HIDE DEF h1
    <3>4. Listed(h1) /\ ~h1[p].used /\ Lowest(h1, lf) /\ Owned(h1, al)
      BY <1>8 DEF h1
    <3>5. g = LET nn == h1[b].next
                  aa == h1[nn].next
              IN Without([h1 EXCEPT ![b].next = aa, ![aa].prev = b], nn)
      BY <3>2
    <3> HIDE DEF g
    <3>6. Plugged(h1, g, b, MemSize, lf, al)
      BY <1>5, <2>2, <3>2, <3>3, <3>4, <3>5, PlugFacts
    <3>7. m2.heap = g /\ m2.lfree = lf
      BY <3>1, <3>2, <3>6 DEF Plugged
    <3>8. Holeless(g)
      BY <3>6 DEF Plugged, HolelessBut, Holeless, Structs
    <3>9. Kept(h1, g, p)
      BY <3>2, <3>6 DEF Plugged
    <3> QED
      BY <3>6, <3>7, <3>8, <3>9 DEF Plugged, h1
  <2>3. CASE b = p \/ h1[b].used
    <3>1. m2 = m1
      BY <1>8, <2>3 DEF PlugBackward
    <3>2. Holeless(h1)
      <4>1. CASE p = 0
        BY <1>8, <4>1 DEF HolelessBut, Holeless, Structs
      <4>2. CASE p # 0
        <5>1. h1[b].used
          BY <1>5, <2>1, <2>3, <4>2
        <5> QED
          BY <1>8, <4>2, <5>1 DEF HolelessBut, Holeless
      <4> QED
        BY <4>1, <4>2
    <3>3. Kept(h1, h1, p)
      <4>1. \A q \in Structs(h1) : h1[q].next \in Nat
        BY <1>8, HeapNumbers DEF Listed
      <4> QED
        BY <4>1 DEF Kept
    <3> QED
      BY <1>8, <3>1, <3>2, <3>3
  <2> QED
    BY <2>2, <2>3
<1>10. Kept(heap, m2.heap, heap[p].next)
  <2> SUFFICES ASSUME NEW q \in Structs(heap) \ {heap[p].next}, ~heap[q].used
               PROVE  q \in Structs(m2.heap) /\ ~m2.heap[q].used /\ heap[q].next <= m2.heap[q].next
    BY DEF Kept
  <2>1. q # p
    BY DEF HInv, Owned
  <2>2. q \in Structs(h0) \ {h0[p].next} /\ ~h0[q].used /\ h0[q].next = heap[q].next
    BY <1>3
  <2>3. q \in Structs(m1.heap) \ {p} /\ ~m1.heap[q].used /\ h0[q].next <= m1.heap[q].next
    BY <1>8, <2>1, <2>2 DEF Kept
  <2>4. q \in Structs(m2.heap) /\ ~m2.heap[q].used /\ m1.heap[q].next <= m2.heap[q].next
    BY <1>9, <2>3 DEF Kept
  <2>5. h0[q].next \in Nat /\ m1.heap[q].next \in Nat /\ m2.heap[q].next \in Nat
    BY <1>3, <1>8, <1>9, <2>2, <2>3, <2>4, HeapNumbers DEF Listed
  <2> QED
    BY <2>2, <2>3, <2>4, <2>5
<1> HIDE DEF m2
<1> QED
  BY <1>2, <1>9, <1>10 DEF HInv

-----------------------------------------------------------------------------
(* What the three ways to shrink a block have in common: g is the heap     *)
(* after the block p got smaller, lf its lowest free struct.               *)
Shrunk(g, lf, p, n) ==
  /\ Listed(g) /\ Holeless(g) /\ Lowest(g, lf)
  /\ Owned(g, [alloc EXCEPT ![p] = n])
  /\ Kept(heap, g, heap[p].next)

(* If the used blocks are the same, p ends where n bytes end, and the      *)
(* others end where they did, every owner has its room.                    *)
LEMMA ShrunkOwned ==
  ASSUME Owned(heap, alloc), NEW p \in DOMAIN alloc, NEW n \in Sizes, NEW g,
         {q \in Structs(g) : g[q].used} = {q \in Structs(heap) : heap[q].used},
         p + Struct + DataSize(n) <= g[p].next,
         \A q \in DOMAIN alloc \ {p} : g[q].next = heap[q].next
  PROVE  Owned(g, [alloc EXCEPT ![p] = n])
<1> DEFINE al == [alloc EXCEPT ![p] = n]
<1>1. DOMAIN al = DOMAIN alloc /\ \A q \in DOMAIN al : al[q] = IF q = p THEN n ELSE alloc[q]
  OBVIOUS
<1> HIDE DEF al
<1>2. {q \in Structs(g) : g[q].used} = DOMAIN al
  BY <1>1 DEF Owned
<1>3. ASSUME NEW q \in DOMAIN al
      PROVE  al[q] \in Sizes /\ q + Struct + DataSize(al[q]) <= g[q].next
  BY <1>1 DEF Owned
<1>4. Owned(g, al)
  BY <1>2, <1>3 DEF Owned
<1> QED
  BY <1>4 DEF al

(* The block behind p is free: it begins further down.                     *)
LEMMA ShrinkIntoFreeFacts ==
  ASSUME Listed(heap), Holeless(heap), Lowest(heap, lfree), Owned(heap, alloc),
         NEW p \in DOMAIN alloc, NEW n \in Sizes, DataSize(n) < Room(p),
         ShrinkIntoFree(p, DataSize(n))
  PROVE  Shrunk(heap', lfree', p, n)
<1> DEFINE size == DataSize(n)
           old == heap[p].next
           a == heap[old].next
           x == p + Struct + size
           g == LinkedBack(With(Without([heap EXCEPT ![p].next = x], old), x,
                                [next |-> a, prev |-> p, used |-> FALSE]), a, x)
<1>1. size \in Nat /\ MinSize <= size
  BY DataSizeFacts
<1>2. heap' = g /\ lfree' = (IF lfree = old THEN x ELSE lfree) /\ ~heap[old].used
  BY DEF ShrinkIntoFree
<1>3. {q \in Structs(heap) : heap[q].used} = DOMAIN alloc /\ p \in Structs(heap) /\ heap[p].used
  BY DEF Owned
<1>4. /\ p \in Nat /\ old \in Nat /\ old \in DOMAIN heap /\ p \in DOMAIN heap
      /\ \A q \in DOMAIN heap : q \in Nat /\ (q <= p \/ old <= q)
      /\ heap[MemSize].used
  BY <1>3 DEF Listed, Structs
<1>5. old # MemSize /\ heap[old].prev = p /\ old \in Structs(heap)
  BY <1>2, <1>3, <1>4 DEF Listed, Structs
<1>6. x \in Nat /\ p + Struct + MinSize <= x /\ x < old /\ p < x
  BY <1>1, <1>4, HeapNumbers DEF Room
<1> HIDE DEF size, x
<1>16. MovedFree(g, p, x)
  BY <1>3, <1>5, <1>6, MoveFacts
<1> HIDE DEF g
<1>7. /\ Listed(g) /\ Moved(heap, g, p, x) /\ ~g[x].used
      /\ \A q \in Structs(heap) \ {old} : g[q].used = heap[q].used
  BY <1>16 DEF MovedFree
<1>8. /\ DOMAIN g = (DOMAIN heap \ {old}) \cup {x} /\ g[p].next = x /\ g[x].next = a
      /\ g[MemSize].used
  BY <1>7 DEF Moved
<1>9. /\ x \notin DOMAIN heap /\ x # MemSize
      /\ Structs(g) = (Structs(heap) \ {old}) \cup {x}
  <2>1. x \notin DOMAIN heap
    BY <1>4, <1>6
  <2>2. MemSize \in DOMAIN heap
    BY DEF Listed
  <2> QED
    BY <1>8, <2>1, <2>2 DEF Structs
<1>10. \A q \in Structs(heap) \ {p, old} : g[q].next = heap[q].next
  BY <1>7 DEF Moved, SameLinks, Structs
<1>11. a \in DOMAIN heap /\ heap[a].used /\ a # old
  BY <1>2, <1>5 DEF Listed, Holeless
<1>12. \A q \in DOMAIN heap \ {old} : g[q].used <=> heap[q].used
  BY <1>4, <1>7, <1>8 DEF Structs
<1>13. Holeless(g)
  <2> SUFFICES ASSUME NEW q \in Structs(g), ~g[q].used
               PROVE  g[g[q].next].used
    BY DEF Holeless
  <2>1. CASE q = x
    BY <1>8, <1>11, <1>12, <2>1
  <2>2. CASE q # x
    <3>1. q \in Structs(heap) \ {old} /\ ~heap[q].used
      BY <1>7, <1>9, <2>2
    <3>2. q # p
      BY <1>3, <3>1
    <3>3. heap[heap[q].next].used /\ heap[q].next \in DOMAIN heap
      BY <3>1 DEF Holeless, Listed
    <3>4. heap[q].next # old
      BY <1>2, <3>3
    <3> QED
      BY <1>10, <1>12, <3>1, <3>2, <3>3, <3>4
  <2> QED
    BY <2>1, <2>2
<1>14. Lowest(g, lfree')
  <2>1. lfree \in DOMAIN heap /\ lfree \in Nat /\ lfree <= old
    BY <1>2, <1>4 DEF Lowest
  <2>2. lfree' \in DOMAIN g /\ lfree' \in Nat /\ lfree' <= x /\ (lfree' = lfree \/ lfree = old)
    BY <1>2, <1>4, <1>6, <1>8, <2>1
  <2>3. ASSUME NEW q \in DOMAIN g, ~g[q].used
        PROVE  lfree' <= q
    <3>1. CASE q = x
      BY <2>2, <3>1
    <3>2. CASE q # x
      <4>1. q \in DOMAIN heap \ {old} /\ ~heap[q].used /\ q \in Nat
        BY <1>4, <1>8, <1>12, <2>3, <3>2
      <4>2. lfree <= q
        BY <4>1 DEF Lowest
      <4> QED
        BY <1>4, <1>6, <2>1, <2>2, <4>1, <4>2
    <3> QED
      BY <3>1, <3>2
  <2> QED
    BY <2>2, <2>3 DEF Lowest
<1>15. Owned(g, [alloc EXCEPT ![p] = n])
  <2>1. {q \in Structs(g) : g[q].used} = {q \in Structs(heap) : heap[q].used}
    BY <1>2, <1>7, <1>9
  <2>2. p + Struct + DataSize(n) <= g[p].next
    BY <1>4, <1>6, <1>8 DEF x, size
  <2>3. \A q \in DOMAIN alloc \ {p} : g[q].next = heap[q].next
    BY <1>2, <1>3, <1>10
  <2> QED
    BY <2>1, <2>2, <2>3, ShrunkOwned
<1>17. Kept(heap, g, old)
  <2>1. \A q \in Structs(heap) : heap[q].next \in Nat
    BY HeapNumbers DEF Listed
  <2> SUFFICES ASSUME NEW q \in Structs(heap) \ {old}, ~heap[q].used
               PROVE  q \in Structs(g) /\ ~g[q].used /\ heap[q].next <= g[q].next
    BY DEF Kept
  <2>2. q # p
    BY <1>3
  <2> QED
    BY <1>7, <1>9, <1>10, <2>1, <2>2
<1> QED
  BY <1>2, <1>7, <1>13, <1>14, <1>15, <1>17 DEF Shrunk

(* The block behind p is used: the rest of p becomes a free block.         *)
LEMMA ShrinkOffFacts ==
  ASSUME Listed(heap), Holeless(heap), Lowest(heap, lfree), Owned(heap, alloc),
         NEW p \in DOMAIN alloc, NEW n \in Sizes,
         ShrinkOff(p, DataSize(n))
  PROVE  Shrunk(heap', lfree', p, n)
<1> DEFINE size == DataSize(n)
           old == heap[p].next
           x == p + Struct + size
           g == LinkedBack(With([heap EXCEPT ![p].next = x], x,
                                [next |-> old, prev |-> p, used |-> FALSE]), old, x)
<1>1. size \in Nat /\ MinSize <= size
  BY DataSizeFacts
<1>2. /\ heap' = g /\ lfree' = LowestWith(x) /\ heap[old].used
      /\ size + Struct + MinSize <= Room(p)
  BY DEF ShrinkOff
<1>3. {q \in Structs(heap) : heap[q].used} = DOMAIN alloc /\ p \in Structs(heap) /\ heap[p].used
  BY DEF Owned
<1>4. /\ p \in Nat /\ old \in Nat /\ old \in DOMAIN heap /\ p \in DOMAIN heap
      /\ \A q \in DOMAIN heap : q \in Nat /\ (q <= p \/ old <= q)
      /\ heap[MemSize].used /\ MemSize \in DOMAIN heap
  BY <1>3 DEF Listed, Structs
<1>5. x \in Nat /\ p + Struct + MinSize <= x /\ x + Struct + MinSize <= old /\ p < x /\ x < old
  BY <1>1, <1>2, <1>4, HeapNumbers DEF Room
<1> HIDE DEF size, x
<1>6. /\ Listed(g) /\ Inserted(heap, g, p, x) /\ ~g[x].used
      /\ \A q \in Structs(heap) : g[q].used = heap[q].used
  BY <1>3, <1>5, CutFacts
<1> HIDE DEF g
<1>7. /\ DOMAIN g = DOMAIN heap \cup {x} /\ g[p].next = x /\ g[x].next = old
      /\ g[MemSize].used
  BY <1>6 DEF Inserted
<1>8. x \notin DOMAIN heap /\ x # MemSize /\ Structs(g) = Structs(heap) \cup {x}
  <2>1. x \notin DOMAIN heap
    BY <1>4, <1>5
  <2> QED
    BY <1>4, <1>7, <2>1 DEF Structs
<1>9. \A q \in Structs(heap) \ {p} : g[q].next = heap[q].next
  BY <1>6 DEF Inserted, SameLinks, Structs
<1>10. \A q \in DOMAIN heap : g[q].used <=> heap[q].used
  BY <1>4, <1>6, <1>7 DEF Structs
<1>11. Holeless(g)
  <2> SUFFICES ASSUME NEW q \in Structs(g), ~g[q].used
               PROVE  g[g[q].next].used
    BY DEF Holeless
  <2>1. CASE q = x
    BY <1>2, <1>4, <1>7, <1>10, <2>1
  <2>2. CASE q # x
    <3>1. q \in Structs(heap) /\ ~heap[q].used
      BY <1>6, <1>8, <2>2
    <3>2. q # p
      BY <1>3, <3>1
    <3>3. heap[heap[q].next].used /\ heap[q].next \in DOMAIN heap
      BY <3>1 DEF Holeless, Listed
    <3> QED
      BY <1>9, <1>10, <3>1, <3>2, <3>3
  <2> QED
    BY <2>1, <2>2
<1>12. Lowest(g, lfree')
  <2>1. lfree \in DOMAIN heap /\ lfree \in Nat
    BY <1>4 DEF Lowest
  <2>2. lfree' \in DOMAIN g /\ lfree' \in Nat /\ lfree' <= x /\ lfree' <= lfree
    BY <1>2, <1>5, <1>7, <2>1 DEF LowestWith
  <2>3. ASSUME NEW q \in DOMAIN g, ~g[q].used
        PROVE  lfree' <= q
    <3>1. CASE q = x
      BY <2>2, <3>1
    <3>2. CASE q # x
      <4>1. q \in DOMAIN heap /\ ~heap[q].used /\ q \in Nat
        BY <1>4, <1>7, <1>10, <2>3, <3>2
      <4>2. lfree <= q
        BY <4>1 DEF Lowest
      <4> QED
        BY <2>1, <2>2, <4>1, <4>2
    <3> QED
      BY <3>1, <3>2
  <2> QED
    BY <2>2, <2>3 DEF Lowest
<1>13. Owned(g, [alloc EXCEPT ![p] = n])
  <2>1. {q \in Structs(g) : g[q].used} = {q \in Structs(heap) : heap[q].used}
    BY <1>6, <1>8
  <2>2. p + Struct + DataSize(n) <= g[p].next
    BY <1>4, <1>5, <1>7 DEF x, size
  <2>3. \A q \in DOMAIN alloc \ {p} : g[q].next = heap[q].next
    BY <1>3, <1>9
  <2> QED
    BY <2>1, <2>2, <2>3, ShrunkOwned
<1>14. Kept(heap, g, old)
  <2>1. \A q \in Structs(heap) : heap[q].next \in Nat
    BY HeapNumbers DEF Listed
  <2> SUFFICES ASSUME NEW q \in Structs(heap) \ {old}, ~heap[q].used
               PROVE  q \in Structs(g) /\ ~g[q].used /\ heap[q].next <= g[q].next
    BY DEF Kept
  <2>2. q # p
    BY <1>3
  <2> QED
    BY <1>6, <1>8, <1>9, <2>1, <2>2
<1> QED
  BY <1>2, <1>6, <1>11, <1>12, <1>13, <1>14 DEF Shrunk

LEMMA ReallocInv ==
  ASSUME HInv, NEW p \in DOMAIN alloc, NEW n \in Sizes, mem_realloc(p, n)
  PROVE  HInv' /\ Kept(heap, heap', heap[p].next)
<1>2. Listed(heap) /\ Holeless(heap) /\ Lowest(heap, lfree) /\ Owned(heap, alloc)
  BY DEF HInv
<1>3. /\ DataSize(n) < Room(p) /\ alloc' = [alloc EXCEPT ![p] = n]
      /\ ShrinkIntoFree(p, DataSize(n)) \/ ShrinkOff(p, DataSize(n)) \/ ShrinkNot(p, DataSize(n))
  BY DEF mem_realloc
<1>4. Shrunk(heap', lfree', p, n)
  <2>1. CASE ShrinkIntoFree(p, DataSize(n))
    BY <1>2, <1>3, <2>1, ShrinkIntoFreeFacts
  <2>2. CASE ShrinkOff(p, DataSize(n))
    BY <1>2, <1>3, <2>2, ShrinkOffFacts
  <2>3. CASE ShrinkNot(p, DataSize(n))
    <3>1. heap' = heap /\ lfree' = lfree
      BY <2>3 DEF ShrinkNot
    <3>2. p \in Nat /\ heap[p].next \in Nat /\ DataSize(n) \in Nat
      BY <1>2, DataSizeFacts DEF Owned, Listed, Structs
    <3>3. p + Struct + DataSize(n) <= heap[p].next
      BY <1>3, <3>2, HeapNumbers DEF Room
    <3>4. Owned(heap, [alloc EXCEPT ![p] = n])
      BY <1>2, <3>3, ShrunkOwned
    <3>5. \A q \in Structs(heap) : heap[q].next \in Nat
      BY <1>2, HeapNumbers DEF Listed
    <3>6. Kept(heap, heap, heap[p].next)
      BY <3>5 DEF Kept
    <3> QED
      BY <1>2, <3>1, <3>4, <3>6 DEF Shrunk
  <2> QED
    BY <1>3, <2>1, <2>2, <2>3
<1> QED
  BY <1>3, <1>4 DEF HInv, Shrunk

-----------------------------------------------------------------------------
(* The block of the call c can be taken in the heap h.                     *)
CanTake(h, c) ==
  c.at \in Structs(h) /\ ~h[c.at].used /\ h[c.at].next - (c.at + Struct) >= c.size

(* A free block that is kept can still be taken.                           *)
LEMMA KeptTakeable ==
  ASSUME NEW h, Listed(h), NEW g, Listed(g), NEW x, Kept(h, g, x), NEW c \in Call, c.at # x, CanTake(h, c)
  PROVE  CanTake(g, c)
<1>1. c.at \in Structs(h) /\ ~h[c.at].used /\ h[c.at].next - (c.at + Struct) >= c.size
  BY DEF CanTake
<1>2. c.at \in Structs(g) /\ ~g[c.at].used /\ h[c.at].next <= g[c.at].next
  BY <1>1 DEF Kept
<1>3. c.at \in Nat /\ c.size \in Nat /\ h[c.at].next \in Nat /\ g[c.at].next \in Nat
  BY <1>1, <1>2, HeapNumbers DEF Listed, Call
<1>4. g[c.at].next - (c.at + Struct) >= c.size
  BY <1>1, <1>2, <1>3, HeapNumbers
<1> QED
  BY <1>2, <1>4 DEF CanTake

(* What every step does while the heap is followed: it keeps the heap in   *)
(* order, the calls that go on are as they were, and a block that one of   *)
(* them has found stays free unless the step touches it.                   *)
SameCalls == \A i \in DOMAIN calls \cap DOMAIN calls' : calls'[i] = calls[i]
GoodStep == HInv' /\ CallsInv' /\ FoundIsKept

(* An operation that can only cost a call the block at x.                  *)
LEMMA OnlyOneLost ==
  ASSUME HInv, HInv', CallsInv, SameCalls, NEW x, Kept(heap, heap', x),
         \A i \in DOMAIN calls : calls[i].at = x => Touches(calls[i])
  PROVE  FoundIsKept
<1> SUFFICES ASSUME NEW i \in DOMAIN calls \cap DOMAIN calls', Takeable(calls[i]), ~Touches(calls[i])
             PROVE  Takeable(calls[i])'
  BY DEF FoundIsKept
<1> DEFINE c == calls[i]
<1>1. c \in Call /\ c.at # x /\ calls'[i] = c
  BY DEF CallsInv, SameCalls
<1>2. CanTake(heap, c)
  BY DEF Takeable, CanTake, Structs, Room
<1> HIDE DEF c
<1>3. CanTake(heap', c)
  BY <1>1, <1>2, KeptTakeable DEF HInv
<1> QED
  BY <1>1, <1>3 DEF Takeable, CanTake, Structs, Room

(* An operation that leaves the heap alone costs no call its block.        *)
LEMMA NoneLost ==
  ASSUME heap' = heap, SameCalls
  PROVE  FoundIsKept
BY DEF FoundIsKept, SameCalls, Takeable, Room

(* Every step of the operations is good; a race ends what is followed.     *)
LEMMA StepInv ==
  ASSUME HInv, CallsInv, [Next]_vars
  PROVE  (raced' = TRUE /\ FoundIsKept) \/ GoodStep
<1>1. ASSUME NEW n \in Sizes, mem_malloc(n)
      PROVE  GoodStep
  <2>1. heap' = heap /\ lfree' = lfree /\ alloc' = alloc
    BY <1>1 DEF mem_malloc
  <2>2. CallsInv' /\ SameCalls
    BY <1>1, MallocInv DEF SameCalls
  <2>3. HInv'
    BY <2>1 DEF HInv
  <2> QED
    BY <2>1, <2>2, <2>3, NoneLost DEF GoodStep
<1>2. CASE MallocTakes
  <2> DEFINE x == calls[Len(calls)].at
  <2>1. HInv' /\ CallsInv' /\ Kept(heap, heap', x) /\ SameCalls
    BY <1>2, TakesInv DEF SameCalls
  <2>2. \A i \in DOMAIN calls : calls[i].at = x => Touches(calls[i])
    BY <1>2 DEF Touches
  <2> HIDE DEF x
  <2> QED
    BY <2>1, <2>2, OnlyOneLost DEF GoodStep
<1>3. CASE MallocRaces
  <2>1. raced' = TRUE /\ heap' = heap /\ SameCalls
    BY <1>3, CallsFacts DEF MallocRaces, SameCalls
  <2> QED
    BY <2>1, NoneLost
<1>4. ASSUME NEW p \in DOMAIN alloc,
             mem_free(p) \/ \E n \in Sizes : mem_realloc(p, n)
      PROVE  GoodStep
  <2> DEFINE x == heap[p].next
  <2>1. HInv' /\ Kept(heap, heap', x)
    BY <1>4, FreeInv, ReallocInv
  <2>2. calls' = calls
    BY <1>4 DEF mem_free, mem_realloc
  <2>3. CallsInv' /\ SameCalls
    BY <2>2 DEF CallsInv, SameCalls
  <2>4. \A i \in DOMAIN calls : calls[i].at = x => Touches(calls[i])
    BY <1>4 DEF Touches
  <2> HIDE DEF x
  <2> QED
    BY <2>1, <2>3, <2>4, OnlyOneLost DEF GoodStep
<1>5. CASE UNCHANGED vars
  <2>1. heap' = heap /\ lfree' = lfree /\ alloc' = alloc /\ calls' = calls
    BY <1>5 DEF vars
  <2>2. HInv' /\ CallsInv' /\ SameCalls
    BY <2>1 DEF HInv, CallsInv, SameCalls
  <2> QED
    BY <2>1, <2>2, NoneLost DEF GoodStep
<1> QED
  BY <1>1, <1>2, <1>3, <1>4, <1>5 DEF Next

(* What has raced stays so.                                                *)
LEMMA RacedStays ==
  ASSUME raced, [Next]_vars
  PROVE  raced'
BY DEF Next, mem_malloc, MallocTakes, MallocRaces, mem_free, mem_realloc, vars

LEMMA HeapInvariant == Spec => []IInv
<1>1. Init => IInv
  BY InitInv
<1>2. IInv /\ [Next]_vars => IInv'
  BY StepInv, RacedStays DEF IInv, GoodStep
<1> QED
  BY <1>1, <1>2, PTL DEF Spec

(* The list of blocks is whole after every operation of mem.c and no free  *)
(* block lies in front of a free block, whatever the sizes and whatever    *)
(* interrupts a call of mem_malloc at the block it has found, until a call *)
(* takes a block that it had lost.                                         *)
THEOREM HeapWellFormed == Spec => []WellFormed
<1>1. IInv => WellFormed
  <2> SUFFICES ASSUME HInv
               PROVE  Chain /\ NoHoles
    BY DEF IInv, WellFormed
  <2>1. Listed(heap) /\ Holeless(heap)
    BY DEF HInv
  <2>2. NoHoles
    BY <2>1 DEF NoHoles, Holeless, Structs
  <2>3. {0, MemSize} \subseteq DOMAIN heap /\ heap[MemSize].used /\ heap[0].prev = 0
    BY <2>1 DEF Listed
  <2>4. ASSUME NEW p \in DOMAIN heap \ {MemSize}
        PROVE  /\ heap[p].next \in DOMAIN heap
               /\ p + Struct + MinSize <= heap[p].next
               /\ \A q \in DOMAIN heap : q <= p \/ heap[p].next <= q
               /\ heap[p].next # MemSize => heap[heap[p].next].prev = p
    BY <2>1 DEF Listed, Structs
  <2>5. Chain
    BY <2>3, <2>4 DEF Chain
  <2> QED
    BY <2>2, <2>5
<1> QED
  BY <1>1, HeapInvariant, PTL

(* The blocks marked as used are exactly the ones that mem_malloc has      *)
(* handed out and mem_free has not taken back, and each holds what its     *)
(* owner asked for, also after mem_realloc and in the 16 bits of a         *)
(* mem_size_t, until a call takes a block that it had lost.                *)
THEOREM HeapEnoughRoom == Spec => []EnoughRoom
<1>1. IInv => EnoughRoom
  <2> SUFFICES ASSUME HInv
               PROVE  /\ {p \in DOMAIN heap \ {MemSize} : heap[p].used} = DOMAIN alloc
                      /\ \A p \in DOMAIN alloc : alloc[p] <= Room(p)
    BY DEF IInv, EnoughRoom
  <2>1. Listed(heap) /\ Owned(heap, alloc)
    BY DEF HInv
  <2>2. {p \in DOMAIN heap \ {MemSize} : heap[p].used} = DOMAIN alloc
    BY <2>1 DEF Owned, Structs
  <2>3. ASSUME NEW p \in DOMAIN alloc
        PROVE  alloc[p] <= Room(p)
    <3>1. alloc[p] \in Sizes /\ p + Struct + DataSize(alloc[p]) <= heap[p].next
      BY <2>1 DEF Owned
    <3>2. DataSize(alloc[p]) \in Nat /\ alloc[p] \in Nat /\ alloc[p] <= DataSize(alloc[p])
      BY <3>1, DataSizeFacts
    <3>3. p \in Structs(heap)
      BY <2>2 DEF Structs
    <3>4. p \in Nat /\ heap[p].next \in Nat
      BY <2>1, <3>3 DEF Listed, Structs
    <3> QED
      BY <3>1, <3>2, <3>4, HeapNumbers DEF Room
  <2> QED
    BY <2>2, <2>3
<1> QED
  BY <1>1, HeapInvariant, PTL

(* mem_malloc does not return NULL while a free block is big enough: its   *)
(* search may begin at lfree and end where the data no longer fits; until  *)
(* a call takes a block that it had lost.                                  *)
THEOREM HeapNoFalseNull == Spec => []NoFalseNull
<1>1. IInv => NoFalseNull
  <2> SUFFICES ASSUME HInv, NEW p \in DOMAIN heap, NEW n \in Sizes,
                      ~heap[p].used, Room(p) >= DataSize(n)
               PROVE  Blocks(DataSize(n)) # {}
    BY DEF IInv, NoFalseNull
  <2>1. Listed(heap) /\ Lowest(heap, lfree)
    BY DEF HInv
  <2>2. p \in Structs(heap) /\ lfree <= p
    BY <2>1 DEF Listed, Lowest, Structs
  <2>3. p \in Nat /\ heap[p].next \in Nat /\ heap[p].next <= MemSize
    BY <2>1, <2>2, HeapNumbers DEF Listed, Structs
  <2>4. DataSize(n) \in Nat
    BY DataSizeFacts
  <2>5. p < MemSize - DataSize(n)
    BY <2>3, <2>4, HeapNumbers DEF Room
  <2>6. p \in Blocks(DataSize(n))
    BY <2>2, <2>5 DEF Blocks
  <2> QED
    BY <2>6
<1> QED
  BY <1>1, HeapInvariant, PTL

(* A block that mem_malloc takes while it is still free overlaps none that *)
(* has an owner, and of the operations that may interrupt a call only one  *)
(* that takes the block it has found, or frees or shrinks the block in     *)
(* front of it, costs the call that block: for any number of levels.       *)
THEOREM HeapHandsOutOnce == Spec => HandedOutOnce
<1> DEFINE end(p, n) == p + Struct + DataSize(n)
           Once == raced \/ (TakenApart /\ FoundIsKept)
<1>1. ASSUME HInv, CallsInv
      PROVE  TakenApart
  <2> SUFFICES ASSUME MallocTakes, NEW p \in DOMAIN alloc
               PROVE  LET call == calls[Len(calls)]
                      IN end(p, alloc[p]) <= call.at \/ end(call.at, call.asked) <= p
    BY DEF TakenApart
  <2> DEFINE c == calls[Len(calls)]
  <2>1. Takeable(c) /\ calls # <<>>
    BY DEF MallocTakes
  <2>2. c \in Call /\ c.size = DataSize(c.asked)
    <3>1. calls \in Seq(Call) /\ Len(calls) \in 1 .. Len(calls)
      BY <1>1, <2>1 DEF CallsInv
    <3> QED
      BY <1>1, <3>1 DEF CallsInv
  <2> HIDE DEF c
  <2>3. /\ Listed(heap) /\ p \in Structs(heap) /\ heap[p].used
        /\ alloc[p] \in Sizes /\ end(p, alloc[p]) <= heap[p].next
    BY <1>1 DEF HInv, Owned
  <2>4. c.asked \in Sizes /\ c.at \in Structs(heap) /\ ~heap[c.at].used /\ Room(c.at) >= c.size
    BY <2>1, <2>2 DEF Takeable, Structs, Call
  <2>5. /\ p \in Nat /\ c.at \in Nat /\ heap[p].next \in Nat /\ heap[c.at].next \in Nat
        /\ end(p, alloc[p]) \in Nat /\ end(c.at, c.asked) \in Nat
    BY <2>3, <2>4, DataSizeFacts, HeapNumbers DEF Listed, Structs
  <2>6. end(c.at, c.asked) <= heap[c.at].next
    <3>1. DataSize(c.asked) \in Nat
      BY <2>4, DataSizeFacts
    <3> QED
      BY <2>2, <2>4, <2>5, <3>1, HeapNumbers DEF Room
  <2> HIDE DEF end
  <2>7. (c.at <= p \/ heap[p].next <= c.at) /\ (p <= c.at \/ heap[c.at].next <= p)
    BY <2>3, <2>4 DEF Listed, Structs
  <2>8. p # c.at
    BY <2>3, <2>4
  <2>9. end(p, alloc[p]) <= c.at \/ end(c.at, c.asked) <= p
    BY <2>3, <2>5, <2>6, <2>7, <2>8
  <2> QED
    BY <2>9 DEF c
<1>2. IInv /\ [Next]_vars => [Once]_vars
  <2>1. ASSUME IInv, [Next]_vars
        PROVE  Once
    <3>1. CASE raced
      BY <3>1
    <3>2. CASE HInv /\ CallsInv
      <4>1. FoundIsKept
        BY <2>1, <3>2, StepInv DEF GoodStep
      <4> QED
        BY <1>1, <3>2, <4>1
    <3> QED
      BY <2>1, <3>1, <3>2 DEF IInv
  <2> QED
    BY <2>1
<1>3. [][Once]_vars <=> HandedOutOnce
  BY DEF HandedOutOnce
<1> HIDE DEF Once
<1> QED
  BY <1>2, <1>3, HeapInvariant, PTL DEF Spec
=============================================================================
