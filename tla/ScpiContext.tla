---------------------------- MODULE ScpiContext -----------------------------
(***************************************************************************)
(* The status part of a scpi_t context as a value, and the functions of    *)
(* Utilities/Scpi/Src/ieee488.c and error.c as operators from context to   *)
(* context.  The actions of Status.tla are built from them.                *)
(*                                                                         *)
(* A register is the set of its bits that are 1: | is \cup, & ~ is \ and   *)
(* "val & mask" is true when the sets meet.  The conversion of an INT32    *)
(* parameter to the 16-bit register keeps the bits the register has.       *)
(***************************************************************************)
EXTENDS Integers, Sequences

CONSTANTS Capacity,   \* how many errors the queue holds (FIFO_SIZE)
          CondBit     \* the bits a device uses in its OPER and QUES registers

ASSUME CapacityAssumption == Capacity \in Nat \ {0}

Reg == {"STB", "SRE", "ESR", "ESE", "OPER", "OPERE", "QUES", "QUESE"}

StbBit == {"PRO", "QMA", "QES", "MAV", "ESR", "SRQ", "OPS"}

EsrBit == {"OPC", "REQ", "QER", "DER", "EER", "CER", "URQ", "PON"}

Bit == StbBit \cup EsrBit \cup CondBit

(* The event registers, the enable register of each and its STB bit.       *)
EventReg == {"ESR", "OPER", "QUES"}

Enable == [ESR |-> "ESE", OPER |-> "OPERE", QUES |-> "QUESE"]

Summary == [ESR |-> "ESR", OPER |-> "OPS", QUES |-> "QES"]

INVALID_CHARACTER == -101
PARAMETER_NOT_ALLOWED == -108
MISSING_PARAMETER == -109
UNDEFINED_HEADER == -113
EXECUTION_ERROR == -200
INPUT_BUFFER_OVERRUN == -363

Meets(s, t) == s \cap t # {}

(* srqTold is the STB last passed to interface->control, errTold the error *)
(* last passed to interface->error; both functions belong to the device.   *)
Context ==
  [regs : [Reg -> SUBSET Bit],
   errq : Seq(Int),
   cmd_error : BOOLEAN,
   srqTold : SUBSET Bit,
   errTold : Int]

(* A context after SCPI_Init: zeroed registers and an empty error queue.   *)
SCPI_Init ==
  [regs |-> [r \in Reg |-> {}],
   errq |-> << >>,
   cmd_error |-> FALSE,
   srqTold |-> {},
   errTold |-> 0]

-----------------------------------------------------------------------------
(* SCPI_RegSet by register.  The recursion of the code is two calls deep:  *)
(* an enable register updates its event register, which updates STB.       *)

(* Bug form: SRQ follows STB & SRE only when it has to be raised.          *)
SetSTBSticky(c, val) ==
  LET hit == Meets(val, c.regs["SRE"] \ {"SRQ"})
      stb == IF hit THEN val \cup {"SRQ"} ELSE val
  IN [c EXCEPT !.regs = [@ EXCEPT !["STB"] = stb],
               !.srqTold = IF hit /\ stb # c.regs["STB"] THEN stb ELSE @]

(* Bug form: the host is told only when SRQ rises.                         *)
SetSTBQuiet(c, val) ==
  LET hit == Meets(val, c.regs["SRE"] \ {"SRQ"})
      stb == IF hit THEN val \cup {"SRQ"} ELSE val \ {"SRQ"}
  IN [c EXCEPT !.regs = [@ EXCEPT !["STB"] = stb],
               !.srqTold = IF hit /\ "SRQ" \notin c.regs["STB"] THEN stb ELSE @]

(* case SCPI_REG_STB: SRQ follows STB & SRE; control is called on a change.*)
SetSTB(c, val) ==
  LET hit == Meets(val, c.regs["SRE"] \ {"SRQ"})
      stb == IF hit THEN val \cup {"SRQ"} ELSE val \ {"SRQ"}
  IN [c EXCEPT !.regs = [@ EXCEPT !["STB"] = stb],
               !.srqTold = IF hit /\ stb # c.regs["STB"] THEN stb ELSE @]

Stored(c, r, val) == [c EXCEPT !.regs = [@ EXCEPT ![r] = val]]

(* regUpdateSTB                                                            *)
regUpdateSTB(c, val, mask, stbBit) ==
  IF Meets(val, c.regs[mask])
  THEN SetSTB(c, c.regs["STB"] \cup {stbBit})
  ELSE SetSTB(c, c.regs["STB"] \ {stbBit})

SetEvent(c, r, val) == regUpdateSTB(Stored(c, r, val), val, Enable[r], Summary[r])

(* Bug form: a new enable mask waits for the next event.                   *)
SetEnableLazy(c, r, val) == Stored(c, Enable[r], val)

SetEnable(c, r, val) == SetEvent(Stored(c, Enable[r], val), r, c.regs[r])

SetSRE(c, val) == LET d == Stored(c, "SRE", val) IN SetSTB(d, d.regs["STB"])

-----------------------------------------------------------------------------
(* The error queue.  An error number falls in the class of the first range *)
(* with err <= from and err >= to; the ranges are disjoint.                *)

errs == << [from |-> -100, to |-> -199, bit |-> "CER"],
           [from |-> -200, to |-> -299, bit |-> "EER"],
           [from |-> -300, to |-> -399, bit |-> "DER"],
           [from |-> 1, to |-> 32767, bit |-> "DER"],
           [from |-> -400, to |-> -499, bit |-> "QER"],
           [from |-> -500, to |-> -599, bit |-> "PON"],
           [from |-> -600, to |-> -699, bit |-> "URQ"],
           [from |-> -700, to |-> -799, bit |-> "REQ"],
           [from |-> -800, to |-> -899, bit |-> "OPC"] >>

ErrorBits(err) ==
  {errs[i].bit : i \in {j \in 1 .. 9 : err <= errs[j].from /\ err >= errs[j].to}}

(* Bug form: a full queue gives up its newest error.                       *)
PushedOverNewest(q, err) ==
  IF Len(q) = Capacity THEN [q EXCEPT ![Capacity] = err] ELSE Append(q, err)

(* fifo_add: a full queue gives up its oldest error.                       *)
Pushed(q, err) ==
  IF Len(q) = Capacity THEN Append(Tail(q), err) ELSE Append(q, err)

(* SCPI_ErrorEmitEmpty: QMA goes with the last error.                      *)
SCPI_ErrorEmitEmpty(c) ==
  IF c.errq = << >> /\ "QMA" \in c.regs["STB"]
  THEN [SetSTB(c, c.regs["STB"] \ {"QMA"}) EXCEPT !.errTold = 0]
  ELSE c

(* SCPI_ErrorEmit                                                          *)
SCPI_ErrorEmit(c, err) ==
  [SetSTB(c, c.regs["STB"] \cup {"QMA"}) EXCEPT !.errTold = err]

SCPI_ErrorClear(c) == SCPI_ErrorEmitEmpty([c EXCEPT !.errq = << >>])

(* SCPI_ErrorPop: the context after it; the caller gets PoppedError.       *)
SCPI_ErrorPop(c) ==
  SCPI_ErrorEmitEmpty([c EXCEPT !.errq = IF @ = << >> THEN @ ELSE Tail(@)])

PoppedError(c) == IF c.errq = << >> THEN 0 ELSE Head(c.errq)

(* Bug form: the device is not told of the error, nor QMA raised.          *)
ErrorPushNoEmit(c, err) ==
  [SetEvent(c, "ESR", c.regs["ESR"] \cup ErrorBits(err))
     EXCEPT !.errq = Pushed(@, err), !.cmd_error = TRUE]

(* SCPI_ErrorPush: store, note the class in ESR, raise QMA, flag command.  *)
SCPI_ErrorPush(c, err) ==
  LET stored == [c EXCEPT !.errq = Pushed(@, err)]
      bits == ErrorBits(err)
      noted == IF bits = {} THEN stored
               ELSE SetEvent(stored, "ESR", stored.regs["ESR"] \cup bits)
  IN [SCPI_ErrorEmit(noted, err) EXCEPT !.cmd_error = TRUE]

-----------------------------------------------------------------------------
(* processCommand: before the callback ...                                 *)
Begun(c) == [c EXCEPT !.cmd_error = FALSE]

(* ... and after it.  ok: it returned SCPI_RES_OK.  extra: it left         *)
(* parameters of the command unread.                                       *)
Finished(c, ok, extra) ==
  LET d == IF ~ok /\ ~c.cmd_error THEN SCPI_ErrorPush(c, EXECUTION_ERROR) ELSE c
  IN IF extra /\ ~d.cmd_error THEN SCPI_ErrorPush(d, PARAMETER_NOT_ALLOWED) ELSE d
=============================================================================
