----------------------------- MODULE FifoProofs -----------------------------
(* Proofs about Fifo.tla, for every buffer size and every set of values.   *)
EXTENDS Fifo, SequenceTheorems, TLAPS

(* The arithmetic of the ring, free of %: an index moves up by one and     *)
(* falls from Size to 0.                                                   *)
LEMMA SuccIsWrap ==
  ASSUME NEW i \in Slot
  PROVE  Succ(i) = IF i = Size THEN 0 ELSE i + 1
<1>1. CASE i = Size
  BY <1>1, SizeAssumption DEF Slot, Succ
<1>2. CASE i # Size
  <2>1. i + 1 \in 0 .. Size
    BY <1>2, SizeAssumption DEF Slot
  <2> QED
    BY <2>1, <1>2, SizeAssumption DEF Slot, Succ
<1> QED
  BY <1>1, <1>2

(* The slots of the ring are cells of the array, or the one behind it.     *)
LEMMA SlotIsCell == Slot \subseteq Cell
  BY SizeAssumption, DeclaredAssumption DEF Slot, Cell

(* % over two turns of the ring, without %.                                *)
LEMMA RingIndex ==
  ASSUME NEW i \in 0 .. 2 * Size + 1
  PROVE  i % (Size + 1) = IF i <= Size THEN i ELSE i - (Size + 1)
  BY SizeAssumption

(* n elements of a ring d from slot r on.                                  *)
Ring(d, r, n) == [i \in 1 .. n |-> d[(r + i - 1) % (Size + 1)]]

(* Where the i-th element of the ring lies.                                *)
At(r, i) == IF r + i - 1 <= Size THEN r + i - 1 ELSE r + i - 1 - (Size + 1)

(* The elements of the ring are a sequence, slot by slot.                  *)
LEMMA RingIsSeq ==
  ASSUME NEW d \in [Cell -> Value], NEW r \in Slot, NEW n \in 0 .. Size + 1
  PROVE  /\ Ring(d, r, n) \in Seq(Value)
         /\ Len(Ring(d, r, n)) = n
         /\ \A i \in 1 .. n : /\ At(r, i) \in Slot
                              /\ (r + i - 1) % (Size + 1) = At(r, i)
                              /\ Ring(d, r, n)[i] = d[At(r, i)]
<1>1. \A i \in 1 .. n : /\ (r + i - 1) % (Size + 1) = At(r, i)
                       /\ At(r, i) \in Slot
  <2> SUFFICES ASSUME NEW i \in 1 .. n
               PROVE  /\ (r + i - 1) % (Size + 1) = At(r, i)
                      /\ At(r, i) \in Slot
    OBVIOUS
  <2>1. n \in Nat /\ i \in Nat /\ i >= 1 /\ i <= Size + 1 /\ r \in Nat /\ r <= Size
    BY SizeAssumption DEF Slot
  <2> DEFINE j == r + i - 1
  <2>3. j \in 0 .. 2 * Size + 1
    BY <2>1, SizeAssumption
  <2>2. j % (Size + 1) = At(r, i)
    <3>1. At(r, i) = IF j <= Size THEN j ELSE j - (Size + 1)
      BY <2>1, SizeAssumption DEF At
    <3> HIDE DEF j
    <3> QED
      BY <3>1, <2>3, RingIndex
  <2> QED
    BY <2>1, <2>2, SizeAssumption DEF At, Slot
<1>2. \A i \in 1 .. n : d[(r + i - 1) % (Size + 1)] \in Value
  BY <1>1, SlotIsCell
<1>3. Ring(d, r, n) \in [1 .. n -> Value]
  BY <1>2 DEF Ring
<1>4. Ring(d, r, n) \in Seq(Value) /\ Len(Ring(d, r, n)) = n
  <2>1. n \in Nat
    BY SizeAssumption
  <2> QED
    BY <1>3, <2>1, SeqDef, LenProperties
<1> QED
  BY <1>1, <1>4 DEF Ring

(* Storing behind the last element appends to the sequence.                *)
LEMMA RingAppend ==
  ASSUME NEW d \in [Cell -> Value], NEW r \in Slot, NEW n \in 0 .. Size,
         NEW v \in Value, n < Size + 1
  PROVE  Ring([d EXCEPT ![At(r, n + 1)] = v], r, n + 1)
           = Append(Ring(d, r, n), v)
<1> DEFINE w == At(r, n + 1)
           e == [d EXCEPT ![w] = v]
<1>0. n \in Nat /\ n + 1 \in 0 .. Size + 1 /\ n \in 0 .. Size + 1 /\ r \in Nat /\ r <= Size
  BY SizeAssumption DEF Slot
<1>1. w \in Slot
  BY <1>0, SizeAssumption DEF At, Slot
<1>2. e \in [Cell -> Value] /\ e[w] = v /\ \A k \in Slot \ {w} : e[k] = d[k]
  BY <1>1, SlotIsCell
<1> HIDE DEF e, w
<1>3. \A i \in 1 .. n : At(r, i) # w
  BY <1>0, SizeAssumption DEF At, w
<1>4. \A i \in 1 .. n : e[At(r, i)] = d[At(r, i)]
  BY <1>0, <1>2, <1>3, RingIsSeq
<1>5. /\ Append(Ring(d, r, n), v) \in Seq(Value)
      /\ Len(Append(Ring(d, r, n), v)) = n + 1
      /\ \A i \in 1 .. n : Append(Ring(d, r, n), v)[i] = d[At(r, i)]
      /\ Append(Ring(d, r, n), v)[n + 1] = v
  BY <1>0, RingIsSeq, AppendProperties
<1>6. \A i \in 1 .. n + 1 : Ring(e, r, n + 1)[i] = Append(Ring(d, r, n), v)[i]
  <2> SUFFICES ASSUME NEW i \in 1 .. n + 1
               PROVE  Ring(e, r, n + 1)[i] = Append(Ring(d, r, n), v)[i]
    OBVIOUS
  <2>1. Ring(e, r, n + 1)[i] = e[At(r, i)]
    BY <1>0, <1>2, RingIsSeq
  <2>2. CASE i = n + 1
    BY <2>1, <2>2, <1>2, <1>5 DEF w
  <2>3. CASE i \in 1 .. n
    BY <2>1, <2>3, <1>4, <1>5
  <2>4. i = n + 1 \/ i \in 1 .. n
    BY <1>0
  <2> QED
    BY <2>2, <2>3, <2>4
<1>7. Ring(e, r, n + 1) \in Seq(Value) /\ Len(Ring(e, r, n + 1)) = n + 1
  BY <1>0, <1>2, RingIsSeq
<1>8. Ring(e, r, n + 1) = Append(Ring(d, r, n), v)
  BY <1>5, <1>6, <1>7, SeqEqual
<1> QED
  BY <1>8 DEF e, w

(* What lies outside the elements does not show in the sequence.           *)
LEMMA RingAgree ==
  ASSUME NEW d \in [Cell -> Value], NEW e \in [Cell -> Value],
         NEW r \in Slot, NEW n \in 0 .. Size + 1,
         \A i \in 1 .. n : e[At(r, i)] = d[At(r, i)]
  PROVE  Ring(e, r, n) = Ring(d, r, n)
<1>1. \A i \in 1 .. n : Ring(e, r, n)[i] = Ring(d, r, n)[i]
  BY RingIsSeq
<1>2. /\ Ring(e, r, n) \in Seq(Value) /\ Len(Ring(e, r, n)) = n
      /\ Ring(d, r, n) \in Seq(Value) /\ Len(Ring(d, r, n)) = n
  BY RingIsSeq
<1> QED
  BY <1>1, <1>2, SeqEqual

(* Advancing rd drops the first element of the sequence.                   *)
LEMMA RingTail ==
  ASSUME NEW d \in [Cell -> Value], NEW r \in Slot, NEW n \in 1 .. Size + 1
  PROVE  /\ Ring(d, r, n) # << >>
         /\ Head(Ring(d, r, n)) = d[r]
         /\ Tail(Ring(d, r, n)) = Ring(d, Succ(r), n - 1)
<1>0. n \in Nat /\ n - 1 \in 0 .. Size + 1 /\ n \in 0 .. Size + 1 /\ r \in Nat /\ r <= Size
  BY SizeAssumption DEF Slot
<1>1. Succ(r) \in Slot
  BY SuccIsWrap, SizeAssumption DEF Slot
<1>2. /\ Ring(d, r, n) \in Seq(Value) /\ Len(Ring(d, r, n)) = n
      /\ \A i \in 1 .. n : Ring(d, r, n)[i] = d[At(r, i)]
  BY <1>0, RingIsSeq
<1>3. /\ Ring(d, Succ(r), n - 1) \in Seq(Value)
      /\ Len(Ring(d, Succ(r), n - 1)) = n - 1
      /\ \A i \in 1 .. n - 1 : Ring(d, Succ(r), n - 1)[i] = d[At(Succ(r), i)]
  BY <1>0, <1>1, RingIsSeq
<1>4. Ring(d, r, n) # << >>
  BY <1>0, <1>2
<1>5. Head(Ring(d, r, n)) = d[r]
  <2>1. At(r, 1) = r
    BY <1>0, SizeAssumption DEF At
  <2>2. 1 \in 1 .. n
    BY <1>0
  <2> QED
    BY <2>1, <2>2, <1>2, <1>4, HeadTailProperties
<1>6. /\ Tail(Ring(d, r, n)) \in Seq(Value)
      /\ Len(Tail(Ring(d, r, n))) = n - 1
      /\ \A i \in 1 .. n - 1 : Tail(Ring(d, r, n))[i] = Ring(d, r, n)[i + 1]
  BY <1>2, <1>4, HeadTailProperties
<1>7. \A i \in 1 .. n - 1 : At(r, i + 1) = At(Succ(r), i)
  BY <1>0, SuccIsWrap, SizeAssumption DEF At, Slot
<1>8. \A i \in 1 .. n - 1 : Tail(Ring(d, r, n))[i] = Ring(d, Succ(r), n - 1)[i]
  BY <1>0, <1>2, <1>3, <1>6, <1>7
<1>9. Tail(Ring(d, r, n)) = Ring(d, Succ(r), n - 1)
  BY <1>3, <1>6, <1>8, SeqEqual
<1> QED
  BY <1>4, <1>5, <1>9

-----------------------------------------------------------------------------
(* fifo_count is the distance from rd to wr.                               *)
LEMMA RingDistance ==
  ASSUME NEW w \in Slot, NEW r \in Slot
  PROVE  (IF w - r < 0 THEN w - r + (Size + 1) ELSE w - r) \in 0 .. Size
  BY SizeAssumption DEF Slot

(* fifo_count is at most Size.                                             *)
LEMMA CountInRange ==
  TypeOK => /\ Count \in 0 .. Size
            /\ wr = At(rd, Count + 1)
            /\ Full <=> (Count = Size)
            /\ Empty <=> (Count = 0)
<1> SUFFICES ASSUME TypeOK
             PROVE  /\ Count \in 0 .. Size
                    /\ wr = At(rd, Count + 1)
                    /\ Full <=> (Count = Size)
                    /\ Empty <=> (Count = 0)
  OBVIOUS
<1>1. wr \in Nat /\ wr <= Size /\ rd \in Nat /\ rd <= Size /\ Size \in Nat
  BY SizeAssumption DEF TypeOK, Slot
<1>2. Count \in 0 .. Size /\ wr = At(rd, Count + 1) /\ (Empty <=> (Count = 0))
  BY <1>1 DEF Count, At, Empty
<1>3. rd + Size \in 0 .. 2 * Size + 1
  BY <1>1
<1>4. (rd + Size) % (Size + 1)
        = IF rd + Size <= Size THEN rd + Size ELSE rd + Size - (Size + 1)
  <2> DEFINE j == rd + Size
  <2>1. j \in 0 .. 2 * Size + 1
    BY <1>3
  <2> HIDE DEF j
  <2>2. j % (Size + 1) = IF j <= Size THEN j ELSE j - (Size + 1)
    BY <2>1, RingIndex
  <2> QED
    BY <2>2, <1>1 DEF j
<1>5. Full <=> (Count = Size)
  BY <1>1, <1>4 DEF Count, Full
<1> QED
  BY <1>2, <1>5

(* The indices stay on the ring and the slots hold values, whatever the    *)
(* callers of fifo.c do.                                                   *)
THEOREM FifoTypeOK == Spec => []TypeOK
<1>1. Init => TypeOK
  BY SizeAssumption DEF Init, TypeOK, Slot
<1>2. TypeOK /\ [Next]_vars => TypeOK'
  <2> SUFFICES ASSUME TypeOK, [Next]_vars
               PROVE  TypeOK'
    OBVIOUS
  <2>0. Succ(wr) \in Slot /\ Succ(rd) \in Slot
    BY SuccIsWrap, SizeAssumption DEF TypeOK, Slot
  <2>1. ASSUME NEW v \in Value, fifo_add(v)
        PROVE  TypeOK'
    BY <2>0, <2>1, SlotIsCell DEF TypeOK, fifo_add
  <2>2. CASE fifo_remove
    BY <2>0, <2>2, SlotIsCell DEF TypeOK, fifo_remove
  <2>3. CASE fifo_remove_empty
    BY <2>3 DEF TypeOK, fifo_remove_empty
  <2>4. CASE fifo_clear
    BY <2>4, SizeAssumption DEF TypeOK, fifo_clear, Slot
  <2>5. CASE ForeignStore
    BY <2>5 DEF TypeOK, ForeignStore
  <2>6. CASE UNCHANGED vars
    BY <2>6 DEF TypeOK, vars
  <2> QED
    BY <2>1, <2>2, <2>3, <2>4, <2>5, <2>6 DEF Next
<1> QED
  BY <1>1, <1>2, PTL DEF Spec

-----------------------------------------------------------------------------
(* One step of the ring buffer is one step of the abstract queue, or none. *)
LEMMA StepIsQueueStep ==
  ASSUME TypeOK, TypeOK', [Next]_vars, [ForeignStore => ~HoldsElement]_vars
  PROVE  [Queue!Next]_(Queue!vars)
<1>t. /\ Size \in Nat /\ Size > 0
      /\ wr \in Nat /\ wr <= Size /\ rd \in Nat /\ rd <= Size
      /\ wr' \in Nat /\ wr' <= Size /\ rd' \in Nat /\ rd' <= Size
      /\ Succ(wr) = IF wr = Size THEN 0 ELSE wr + 1
      /\ Succ(rd) = IF rd = Size THEN 0 ELSE rd + 1
  BY SuccIsWrap, SizeAssumption DEF TypeOK, Slot
<1> USE DEF TypeOK
<1>0. /\ Contents = Ring(data, rd, Count)
      /\ Contents' = Ring(data', rd', Count')
  BY DEF Contents, Ring
<1>1. /\ Count \in 0 .. Size /\ Count' \in 0 .. Size
      /\ wr = At(rd, Count + 1)
      /\ Full <=> (Count = Size)
      /\ Empty <=> (Count = 0)
  <2>1. Count' \in 0 .. Size
    <3>1. Count' = IF wr' - rd' < 0 THEN wr' - rd' + (Size + 1) ELSE wr' - rd'
      BY DEF Count
    <3>2. wr' \in Slot /\ rd' \in Slot
      OBVIOUS
    <3> HIDE DEF TypeOK
    <3> QED
      BY <3>1, <3>2, RingDistance
  <2> QED
    BY <2>1, CountInRange
<1>2. Contents \in Seq(Value) /\ Len(Contents) = Count
  <2> DEFINE n == Count
  <2>1. /\ n \in 0 .. Size + 1 /\ rd \in Slot /\ data \in [Cell -> Value]
        /\ Contents = Ring(data, rd, n)
    BY <1>0, <1>1, SizeAssumption
  <2> HIDE DEF n, TypeOK
  <2>2. Ring(data, rd, n) \in Seq(Value) /\ Len(Ring(data, rd, n)) = n
    BY <2>1, RingIsSeq
  <2> QED
    BY <2>1, <2>2 DEF n
<1>3. ASSUME NEW v \in Value, fifo_add(v)
      PROVE  Contents' = Queue!Pushed(Contents, v) /\ UNCHANGED value /\ call' = "add"
  <2>1. /\ wr' = Succ(wr)
        /\ data' = [data EXCEPT ![wr] = v]
        /\ rd' = IF Full THEN Succ(rd) ELSE rd
        /\ value' = value /\ call' = "add"
    BY <1>3 DEF fifo_add
  <2>2. CASE ~Full
    <3>1. Count' = Count + 1
      BY <2>1, <2>2, <1>1, <1>t DEF Count
    <3>2. Ring([data EXCEPT ![wr] = v], rd, Count + 1)
            = Append(Ring(data, rd, Count), v)
      <4> DEFINE n == Count
      <4>1. n \in 0 .. Size /\ n < Size + 1 /\ wr = At(rd, n + 1)
        BY <1>1, <1>t
      <4> HIDE DEF n
      <4>2. Ring([data EXCEPT ![wr] = v], rd, n + 1) = Append(Ring(data, rd, n), v)
        BY <4>1, RingAppend
      <4> QED
        BY <4>2 DEF n
    <3> QED
      BY <2>1, <2>2, <3>1, <3>2, <1>0, <1>1, <1>2 DEF Queue!Pushed
  <2>3. CASE Full
    <3>1. Count' = Count
      BY <2>1, <2>3, <1>1, <1>t DEF Count
    <3>2. /\ Succ(rd) \in Slot
          /\ wr = At(Succ(rd), Size)
      <4>1. Succ(rd) \in Slot
        BY <1>t DEF Slot
      <4>2. wr = At(rd, Size + 1)
        BY <2>3, <1>1
      <4>3. At(rd, Size + 1) = At(Succ(rd), Size)
        BY <1>t DEF At
      <4> QED
        BY <4>1, <4>2, <4>3
    <3>3. Tail(Ring(data, rd, Size)) = Ring(data, Succ(rd), Size - 1)
      BY RingTail, SizeAssumption
    <3>4. Ring([data EXCEPT ![wr] = v], Succ(rd), Size)
            = Append(Ring(data, Succ(rd), Size - 1), v)
      <4> DEFINE n == Size - 1
      <4>1. n \in 0 .. Size /\ n < Size + 1 /\ n + 1 = Size
        BY SizeAssumption
      <4> HIDE DEF n
      <4>2. Ring([data EXCEPT ![At(Succ(rd), n + 1)] = v], Succ(rd), n + 1)
              = Append(Ring(data, Succ(rd), n), v)
        BY <3>2, <4>1, RingAppend
      <4> QED
        BY <4>1, <4>2, <3>2 DEF n
    <3> QED
      BY <2>1, <2>3, <3>1, <3>3, <3>4, <1>0, <1>1, <1>2 DEF Queue!Pushed
  <2> QED
    BY <2>1, <2>2, <2>3
<1>4. CASE fifo_remove
  <2>1. Count \in 1 .. Size + 1 /\ Count' = Count - 1
    BY <1>4, <1>1, <1>t DEF fifo_remove, Count, Empty
  <2>2. /\ Contents # << >>
        /\ Head(Contents) = data[rd]
        /\ Tail(Contents) = Ring(data, Succ(rd), Count - 1)
    BY <2>1, <1>0, RingTail
  <2>3. Queue!Remove
    BY <1>4, <2>1, <2>2, <1>0 DEF fifo_remove, Queue!Remove
  <2> QED
    BY <2>3 DEF Queue!Next
<1>5. CASE fifo_remove_empty
  <2>1. Count = 0 /\ Contents = << >>
    BY <1>5, <1>1, <1>2, EmptySeq DEF fifo_remove_empty
  <2>2. Contents' = Contents
    BY <1>5 DEF fifo_remove_empty, Contents, Count
  <2>3. Queue!RemoveNone
    BY <1>5, <2>1, <2>2 DEF fifo_remove_empty, Queue!RemoveNone
  <2> QED
    BY <2>3 DEF Queue!Next
<1>6. CASE fifo_clear
  <2>1. Count' = 0 /\ value' = value /\ call' = "clear"
    BY <1>6 DEF fifo_clear, Count
  <2>2. Contents' \in Seq(Value) /\ Len(Contents') = 0
    <3>1. /\ Contents' = Ring(data', rd', 0) /\ 0 \in 0 .. Size + 1
          /\ data' \in [Cell -> Value] /\ rd' \in Slot
      BY <2>1, <1>0, <1>t
    <3> HIDE DEF TypeOK
    <3> QED
      BY <3>1, RingIsSeq
  <2>3. Contents' = << >>
    BY <2>2, EmptySeq
  <2> QED
    BY <2>1, <2>3 DEF Queue!Next, Queue!Clear
<1>8. CASE UNCHANGED vars
  BY <1>8 DEF vars, Queue!vars, Contents, Count
<1>7. CASE ForeignStore
  <2> SUFFICES ASSUME ~HoldsElement
               PROVE  UNCHANGED Queue!vars
    BY <1>7, <1>8
  <2>1. UNCHANGED <<wr, rd, value, call>> /\ \A s \in Slot \ {Declared} : data'[s] = data[s]
    BY <1>7, SlotIsCell DEF ForeignStore
  <2>2. Count' = Count
    BY <2>1 DEF Count
  <2>3. Ring(data', rd, Count) = Ring(data, rd, Count)
    <3> DEFINE n == Count
    <3>1. n \in 0 .. Size + 1
      BY <1>1, <1>t
    <3>2. data \in [Cell -> Value] /\ data' \in [Cell -> Value] /\ rd \in Slot
      OBVIOUS
    <3>4. \A i \in 1 .. n : (rd + i - 1) % (Size + 1) # Declared
      BY DEF HoldsElement
    <3> HIDE DEF n, TypeOK
    <3>5. \A i \in 1 .. n : At(rd, i) \in Slot /\ (rd + i - 1) % (Size + 1) = At(rd, i)
      BY <3>1, <3>2, RingIsSeq
    <3>6. \A i \in 1 .. n : data'[At(rd, i)] = data[At(rd, i)]
      BY <2>1, <3>4, <3>5
    <3>3. Ring(data', rd, n) = Ring(data, rd, n)
      BY <3>1, <3>2, <3>6, RingAgree
    <3> QED
      BY <3>3 DEF n
  <2>4. Contents' = Contents
    BY <2>1, <2>2, <2>3, <1>0
  <2> QED
    BY <2>1, <2>4 DEF Queue!vars
<1> QED
  <2>1. (\E v \in Value : fifo_add(v)) => Queue!Next
    BY <1>3 DEF Queue!Next, Queue!Add
  <2> QED
    BY <2>1, <1>4, <1>5, <1>6, <1>7, <1>8 DEF Next

(* fifo.c is the bounded drop-oldest queue for every size, every set of    *)
(* values and every sequence of calls, in the array as declared and in any *)
(* larger one, as long as nothing else stores into the cell behind the     *)
(* array while an element of the queue is there: the only way to spoil it. *)
THEOREM FifoIsBoundedQueue == Spec /\ OwnerKeepsOff => IsBoundedQueue
<1>1. Init => Queue!Init
  <2> SUFFICES ASSUME Init
               PROVE  Queue!Init
    OBVIOUS
  <2>1. Count = 0 /\ rd \in Slot /\ data \in [Cell -> Value]
    BY SizeAssumption DEF Init, Count, Slot
  <2>2. Contents = Ring(data, rd, 0)
    BY <2>1 DEF Contents, Ring
  <2>3. Contents \in Seq(Value) /\ Len(Contents) = 0
    BY <2>1, <2>2, RingIsSeq, SizeAssumption
  <2> QED
    BY <2>3, EmptySeq DEF Init, Queue!Init
<1>2. TypeOK /\ TypeOK' /\ [Next]_vars /\ [ForeignStore => ~HoldsElement]_vars => [Queue!Next]_(Queue!vars)
  BY StepIsQueueStep
<1> QED
  BY <1>1, <1>2, FifoTypeOK, PTL DEF Spec, OwnerKeepsOff, IsBoundedQueue, Queue!Spec

(* In an array with one element more than the size nothing can spoil it.   *)
THEOREM FifoInLargerArray ==
  ASSUME Declared > Size
  PROVE  Spec => IsBoundedQueue
<1>1. TypeOK => ~HoldsElement
  <2> SUFFICES ASSUME TypeOK, NEW i \in 1 .. Count, (rd + i - 1) % (Size + 1) = Declared
               PROVE  FALSE
    BY DEF HoldsElement
  <2> DEFINE n == Count
  <2>1. n \in 0 .. Size + 1 /\ i \in 1 .. n
    BY CountInRange, SizeAssumption
  <2>2. rd \in Slot /\ data \in [Cell -> Value]
    BY DEF TypeOK
  <2> HIDE DEF n
  <2>3. At(rd, i) \in Slot /\ (rd + i - 1) % (Size + 1) = At(rd, i)
    BY <2>1, <2>2, RingIsSeq
  <2> QED
    BY <2>3, SizeAssumption, DeclaredAssumption DEF Slot
<1>2. TypeOK => [ForeignStore => ~HoldsElement]_vars
  BY <1>1
<1>3. Spec => OwnerKeepsOff
  BY <1>2, FifoTypeOK, PTL DEF OwnerKeepsOff
<1> QED
  BY <1>3, FifoIsBoundedQueue
=============================================================================
