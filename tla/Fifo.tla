-------------------------------- MODULE Fifo --------------------------------
(***************************************************************************)
(* The ring buffer of Utilities/Scpi/Src/fifo.c (struct _scpi_fifo_t in    *)
(* Scpi/Inc/fifo_private.h).  wr and rd run over Size + 1 slots, so that   *)
(* wr = rd means empty and wr one behind rd means full.                    *)
(*                                                                         *)
(* The array has Declared elements, and the cell behind it belongs to some *)
(* other object, which may store into it at any time (ForeignStore).       *)
(* fifo_init sets size to FIFO_SIZE, the length of the array, so as built  *)
(* slot Size of the ring is that cell; test/test_fifo.c runs with size 4   *)
(* in an array of 16.                                                      *)
(***************************************************************************)
EXTENDS Naturals, Integers, Sequences

CONSTANTS Size,      \* fifo->size
          Declared,  \* elements of fifo->data
          Value,     \* the 16-bit values stored
          NoValue    \* the caller's variable when fifo_remove returns FALSE

ASSUME SizeAssumption == Size \in Nat \ {0}
ASSUME DeclaredAssumption == Declared \in Nat /\ Size <= Declared

VARIABLES wr, rd,    \* fifo->wr, fifo->rd
          data,      \* fifo->data and the cell that follows it
          value,     \* *value after the last fifo_remove(fifo, &value)
          call       \* the function last called

vars == <<wr, rd, data, value, call>>

Slot == 0 .. Size

Cell == 0 .. Declared

(* (i + 1) % (fifo->size + 1)                                              *)
Succ(i) == (i + 1) % (Size + 1)

(* fifo->wr == ((fifo->rd + fifo->size) % (fifo->size + 1))                *)
Full == wr = (rd + Size) % (Size + 1)

Empty == wr = rd

(* fifo_count: the number of elements, from the two indices.               *)
Count == IF wr - rd < 0 THEN wr - rd + (Size + 1) ELSE wr - rd

(* fifo_init leaves data as it finds it: test_fifo.c has it on the stack.  *)
Init ==
  /\ wr = 0
  /\ rd = 0
  /\ data \in [Cell -> Value]
  /\ value = NoValue
  /\ call = "init"

fifo_clear ==
  /\ call' = "clear"
  /\ wr' = 0
  /\ rd' = 0
  /\ UNCHANGED <<data, value>>

(* Bug form: a full buffer does not give up its oldest element.            *)
AddNoDrop(v) ==
  /\ call' = "add"
  /\ data' = [data EXCEPT ![wr] = v]
  /\ wr' = Succ(wr)
  /\ UNCHANGED <<rd, value>>

(* A full buffer first drops its oldest element: fifo_remove(fifo, NULL).  *)
fifo_add(v) ==
  /\ call' = "add"
  /\ rd' = IF Full THEN Succ(rd) ELSE rd
  /\ data' = [data EXCEPT ![wr] = v]
  /\ wr' = Succ(wr)
  /\ UNCHANGED value

fifo_remove ==
  /\ call' = "remove"
  /\ ~Empty
  /\ value' = data[rd]
  /\ rd' = Succ(rd)
  /\ UNCHANGED <<wr, data>>

(* fifo_remove returns FALSE and leaves the buffer alone.                  *)
fifo_remove_empty ==
  /\ call' = "remove"
  /\ Empty
  /\ value' = NoValue
  /\ UNCHANGED <<wr, rd, data>>

(* The owner of the memory behind the array stores into it.                *)
ForeignStore ==
  /\ \E v \in Value : data' = [data EXCEPT ![Declared] = v]
  /\ UNCHANGED <<wr, rd, value, call>>

Next ==
  \/ \E v \in Value : fifo_add(v)
  \/ fifo_remove
  \/ fifo_remove_empty
  \/ fifo_clear
  \/ ForeignStore

Spec == Init /\ [][Next]_vars

-----------------------------------------------------------------------------
(* The abstract queue: the slots from rd up to wr, in ring order.          *)
Contents == [i \in 1 .. Count |-> data[(rd + i - 1) % (Size + 1)]]

Queue == INSTANCE BoundedQueue
           WITH Capacity <- Size, queue <- Contents, removed <- value

(* The cell behind the array is a slot of the ring and holds an element.   *)
HoldsElement == \E i \in 1 .. Count : (rd + i - 1) % (Size + 1) = Declared

(* The owner of that cell does not store into it while it holds one.       *)
OwnerKeepsOff == [][ForeignStore => ~HoldsElement]_vars

TypeOK ==
  /\ wr \in Slot
  /\ rd \in Slot
  /\ data \in [Cell -> Value]
  /\ value \in Value \cup {NoValue}
  /\ call \in {"init", "add", "remove", "clear"}

(* Every call of fifo.c does what the bounded drop-oldest queue does: what *)
(* fifo_remove hands out is the oldest value still held, whatever mixture  *)
(* of wrap-around, overflow and clearing came before (fifo.c:29-60).       *)
IsBoundedQueue == Queue!Spec

(* fifo_add stores inside the array that fifo_private.h declares.          *)
StoreInsideArray == [][(data' # data /\ wr' # wr) => wr < Declared]_vars
=============================================================================
