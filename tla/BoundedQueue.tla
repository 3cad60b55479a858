---------------------------- MODULE BoundedQueue ----------------------------
(***************************************************************************)
(* What the SCPI error queue promises its callers: a first-in first-out    *)
(* queue of at most Capacity values that makes room for a new value by     *)
(* discarding the OLDEST one.  Fifo.tla, the ring buffer of                *)
(* Utilities/Scpi/Src/fifo.c, is shown to implement this module, and       *)
(* Status.tla uses its operators for the error queue of a context.         *)
(***************************************************************************)
EXTENDS Naturals, Sequences

CONSTANTS Capacity,  \* how many values the queue holds
          Value,     \* the values (error numbers)
          NoValue    \* what a caller sees when there was nothing to remove

VARIABLES queue,     \* the values held, the oldest first
          removed,   \* what the last removal handed to its caller
          call       \* the operation last called

vars == <<queue, removed, call>>

(* The queue after v is added to q: the oldest value leaves a full queue.  *)
Pushed(q, v) ==
  IF Len(q) = Capacity THEN Append(Tail(q), v) ELSE Append(q, v)

Init == queue = << >> /\ removed = NoValue /\ call = "init"

Add(v) ==
  /\ call' = "add"
  /\ queue' = Pushed(queue, v)
  /\ UNCHANGED removed

Remove ==
  /\ call' = "remove"
  /\ queue # << >>
  /\ removed' = Head(queue)
  /\ queue' = Tail(queue)

RemoveNone ==
  /\ call' = "remove"
  /\ queue = << >>
  /\ removed' = NoValue
  /\ UNCHANGED queue

Clear ==
  /\ call' = "clear"
  /\ queue' = << >>
  /\ UNCHANGED removed

Next == (\E v \in Value : Add(v)) \/ Remove \/ RemoveNone \/ Clear

Spec == Init /\ [][Next]_vars
=============================================================================
