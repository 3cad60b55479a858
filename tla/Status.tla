------------------------------- MODULE Status -------------------------------
(***************************************************************************)
(* The status system of a device: the IEEE 488.2 commands of ieee488.c and *)
(* the required SCPI commands of minimal.c, each executed by               *)
(* processCommand (parser.c), and the calls a device's own code makes into *)
(* the library.  Everything runs in the main loop: a command is one step.  *)
(***************************************************************************)
EXTENDS ScpiContext, FiniteSets

CONSTANTS SreVals, EseVals, CondVals,  \* the masks and conditions written
          DeviceErrors,                \* error numbers pushed by the device
          ParamFaults                  \* errors of SCPI_ParamInt32

ASSUME ValsAssumption ==
  /\ SreVals \subseteq SUBSET Bit
  /\ EseVals \subseteq SUBSET Bit
  /\ CondVals \subseteq SUBSET Bit
  /\ DeviceErrors \subseteq Int \ {0}
  /\ ParamFaults \subseteq Int \ {0}

VARIABLES context,   \* the scpi_t context
          bits,      \* the register value answered by the last command
          number     \* the number answered by the last command

vars == <<context, bits, number>>

regs == context.regs

NoAnswer == bits' = {} /\ number' = 0

AnswerBits(b) == bits' = b /\ number' = 0

AnswerNumber(n) == bits' = {} /\ number' = n

Init == context = SCPI_Init /\ bits = {} /\ number = 0

-----------------------------------------------------------------------------
(* Bug form: *CLS forgets the questionable status.                         *)
ClearedNoQues(c) ==
  SetEvent(SCPI_ErrorClear(SetEvent(c, "ESR", {})), "OPER", {})

(* What *CLS does to a context: ESR, the errors, OPER and QUES in turn.    *)
Cleared(c) ==
  SetEvent(SetEvent(SCPI_ErrorClear(SetEvent(c, "ESR", {})), "OPER", {}), "QUES", {})

(* *CLS                                                                    *)
SCPI_CoreCls(extra) ==
  context' = Finished(Cleared(Begun(context)), TRUE, extra) /\ NoAnswer

(* *ESE <val>                                                              *)
SCPI_CoreEse(val, extra) ==
  context' = Finished(SetEnable(Begun(context), "ESR", val), TRUE, extra) /\ NoAnswer

(* *SRE <val>                                                              *)
SCPI_CoreSre(val, extra) ==
  context' = Finished(SetSRE(Begun(context), val), TRUE, extra) /\ NoAnswer

(* STATus:QUEStionable:ENABle <val>                                        *)
SCPI_StatusQuestionableEnable(val, extra) ==
  context' = Finished(SetEnable(Begun(context), "QUES", val), TRUE, extra) /\ NoAnswer

(* The parameter of *ESE, *SRE or STAT:QUES:ENAB is missing or no number.  *)
(* SCPI_ParamInt32 pushes the error; whatever the callback then returns,   *)
(* processCommand adds none.                                               *)
ParameterRejected(fault, ok, extra) ==
  context' = Finished(SCPI_ErrorPush(Begun(context), fault), ok, extra) /\ NoAnswer

(* Bug form: *ESR? clears before it reads.                                 *)
EsrQClearFirst(extra) ==
  LET c == SetEvent(Begun(context), "ESR", {})
  IN context' = Finished(c, TRUE, extra) /\ AnswerBits(c.regs["ESR"])

(* *ESR?: answer and clear.                                                *)
SCPI_CoreEsrQ(extra) ==
  /\ context' = Finished(SetEvent(Begun(context), "ESR", {}), TRUE, extra)
  /\ AnswerBits(regs["ESR"])

(* STATus:QUEStionable[:EVENt]?: answer and clear.                         *)
SCPI_StatusQuestionableEventQ(extra) ==
  /\ context' = Finished(SetEvent(Begun(context), "QUES", {}), TRUE, extra)
  /\ AnswerBits(regs["QUES"])

(* STATus:PRESet                                                           *)
SCPI_StatusPreset(extra) ==
  context' = Finished(SetEvent(Begun(context), "QUES", {}), TRUE, extra) /\ NoAnswer

(* *STB?, *SRE?, *ESE?, STATus:QUEStionable:ENABle?                        *)
RegisterQ(r, extra) ==
  context' = Finished(Begun(context), TRUE, extra) /\ AnswerBits(regs[r])

(* *OPC                                                                    *)
SCPI_CoreOpc(extra) ==
  /\ context' = Finished(SetEvent(Begun(context), "ESR", regs["ESR"] \cup {"OPC"}),
                         TRUE, extra)
  /\ NoAnswer

(* SYSTem:ERRor[:NEXT]?                                                    *)
SCPI_SystemErrorNextQ(extra) ==
  /\ context' = Finished(SCPI_ErrorPop(Begun(context)), TRUE, extra)
  /\ AnswerNumber(PoppedError(context))

(* SYSTem:ERRor:COUNt?                                                     *)
SCPI_SystemErrorCountQ(extra) ==
  /\ context' = Finished(Begun(context), TRUE, extra)
  /\ AnswerNumber(Len(context.errq))

(* A command that leaves the status alone -- *WAI, *RST, *OPC?, *IDN? -- *)
(* or one that fails without pushing an error itself.                      *)
OtherCommand(ok, extra) ==
  context' = Finished(Begun(context), ok, extra) /\ NoAnswer

(* A header that matches no pattern, or a character that starts none.      *)
RejectedHeader(err) ==
  context' = SCPI_ErrorPush(context, err) /\ NoAnswer

(* Device code: conditions come and go, its enable mask, its own errors.   *)
DeviceCondition(r, val) ==
  context' = SetEvent(context, r, val) /\ NoAnswer

DeviceEnable(val) ==
  context' = SetEnable(context, "OPER", val) /\ NoAnswer

DeviceError(err) ==
  context' = SCPI_ErrorPush(context, err) /\ NoAnswer

Next ==
  \/ \E extra \in BOOLEAN :
       \/ SCPI_CoreCls(extra)
       \/ \E val \in EseVals : SCPI_CoreEse(val, extra)
       \/ \E val \in SreVals : SCPI_CoreSre(val, extra)
       \/ \E val \in CondVals : SCPI_StatusQuestionableEnable(val, extra)
       \/ \E fault \in ParamFaults, ok \in BOOLEAN : ParameterRejected(fault, ok, extra)
       \/ SCPI_CoreEsrQ(extra)
       \/ SCPI_StatusQuestionableEventQ(extra)
       \/ SCPI_StatusPreset(extra)
       \/ \E r \in {"STB", "SRE", "ESE", "QUESE"} : RegisterQ(r, extra)
       \/ SCPI_CoreOpc(extra)
       \/ SCPI_SystemErrorNextQ(extra)
       \/ SCPI_SystemErrorCountQ(extra)
       \/ \E ok \in BOOLEAN : OtherCommand(ok, extra)
  \/ \E err \in {UNDEFINED_HEADER, INVALID_CHARACTER} : RejectedHeader(err)
  \/ \E r \in {"OPER", "QUES"}, val \in CondVals : DeviceCondition(r, val)
  \/ \E val \in CondVals : DeviceEnable(val)
  \/ \E err \in DeviceErrors : DeviceError(err)

Spec == Init /\ [][Next]_vars

-----------------------------------------------------------------------------
(* Each summary bit of STB says whether its event register has an enabled  *)
(* bit, whichever of event, enable mask and STB was written last           *)
(* (ieee488.c:60-66, 131-148).                                             *)
SummaryBits ==
  \A r \in EventReg :
    Summary[r] \in regs["STB"] <=> Meets(regs[r], regs[Enable[r]])

(* Service is requested exactly while STB has a bit that SRE enables, SRQ  *)
(* itself not counted (ieee488.c:118-128).                                 *)
MasterSummary ==
  "SRQ" \in regs["STB"] <=> Meets(regs["STB"], regs["SRE"] \ {"SRQ"})

(* QMA says whether the error queue holds something, through overflow,     *)
(* reading and clearing (error.c:63-100, 179-196).                         *)
QueueBit == "QMA" \in regs["STB"] <=> context.errq # << >>

(* The status byte is true after every command, though it is derived state *)
(* that nested calls of SCPI_RegSet rewrite in whatever order.             *)
StatusByte == SummaryBits /\ MasterSummary /\ QueueBit

(* While service is requested the host has been told the STB of now: no    *)
(* change is lost, though every command may write STB several times and a  *)
(* write that changes nothing is not announced (ieee488.c:121-125, 156).   *)
HostKnowsSTB == "SRQ" \in regs["STB"] => context.srqTold = regs["STB"]

(* The device's error callback was last given the newest queued error, or  *)
(* 0 exactly when the queue is empty (error.c:63-84).                      *)
DeviceKnowsErrors ==
  context.errTold = IF context.errq = << >> THEN 0
                    ELSE context.errq[Len(context.errq)]

(* *CLS leaves nothing behind, whatever state it is given in: no event, no *)
(* error, no STB bit, though each of its four steps rewrites STB from      *)
(* registers that the later ones have yet to clear (ieee488.c:199-205).    *)
ClsClearsAll ==
  LET c == Finished(Cleared(Begun(context)), TRUE, FALSE)
  IN (\A r \in EventReg \cup {"STB"} : c.regs[r] = {}) /\ c.errq = << >>

(* An event of ESR disappears only into the answer of the query that read  *)
(* it, or by *CLS (ieee488.c:199-205, 236-240).                            *)
EventsAreReported ==
  [][\A b \in regs["ESR"] :
       b \in regs'["ESR"] \/ b \in bits' \/ \E x \in BOOLEAN : SCPI_CoreCls(x)]_vars

(* Errors leave the queue oldest first: by being answered, by *CLS, or,    *)
(* when the queue is full, to make room for a newer one.                   *)
ErrorsLeaveInOrder ==
  [][LET old == context.errq
         new == context'.errq
     IN \/ \E n \in 0 .. 1 : \* the errors this step added
             /\ Len(new) >= n
             /\ LET rest == SubSeq(new, 1, Len(new) - n)
                IN \/ rest = old
                   \/ old # << >> /\ rest = Tail(old)
                        /\ (number' = Head(old) \/ Len(new) = Capacity)
        \/ \E x \in BOOLEAN : SCPI_CoreCls(x)]_vars

=============================================================================
