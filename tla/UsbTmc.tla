------------------------------- MODULE UsbTmc -------------------------------
(***************************************************************************)
(* The USB test and measurement class layer: Utilities/Usb/Src/usb_endp.c  *)
(* and usb_tmc.c, and the class requests of usb_prop.c that change its     *)
(* state.  The endpoint callbacks and the requests run in the USB          *)
(* interrupt; the application calls tmcGetDat and tmcSendDat from the main *)
(* loop and may be interrupted at any step, except where tmcGetDat         *)
(* disables interrupts.                                                    *)
(*                                                                         *)
(* External: the host, which sends transfers packet by packet, and the     *)
(* application, which polls tmcRxFinished, tmcIsHostWrite and              *)
(* tmcIsHostRead (no caller of the layer is in the repository).            *)
(***************************************************************************)
EXTENDS Integers, Sequences

CONSTANTS Pkg,      \* EP_MAXPKGSIZE
          Hdr,      \* TMC_HEADER_SIZE
          Buf,      \* USB_BUF_SIZE
          M,        \* 2^32: the counters are UINT32
          MsgIds,   \* values of msgId the host uses
          Tags,     \* values of bTag
          Sizes,    \* values of transferSize
          BufSize,  \* bufSize of the application's tmcGetDat
          Lens,     \* bufLen of its tmcSendDat
          TxMax,    \* bound on the bytes sent between two host writes
          Patient,  \* the host waits until a message is taken or answered
          Faulty,   \* the host repeats tags, sends bad ones and unknown ids
          Resets,   \* the bus may be reset
          Aborts,   \* the host may abort a transfer, or clear the interface
          Traced    \* the bytes of messages are told apart

MsgId == {"DEV_DEP_MSG_OUT", "REQUEST_DEV_DEP_MSG_IN", "VENDOR_SPECIFIC_OUT", "other"}

ASSUME SizeAssumption ==
  /\ Hdr \in Nat \ {0} /\ Pkg \in Nat /\ Buf \in Nat /\ M \in Nat
  /\ Hdr < Pkg /\ Pkg < Buf /\ 2 * Buf < M

ASSUME ValueAssumption ==
  /\ MsgIds \subseteq MsgId /\ Tags \subseteq Nat \ {0} /\ Sizes \subseteq 0 .. M - 1
  /\ BufSize \in Nat /\ Lens \subseteq Nat \ {0} /\ TxMax \in Nat
  /\ Patient \in BOOLEAN /\ Faulty \in BOOLEAN /\ Resets \in BOOLEAN
  /\ Aborts \in BOOLEAN /\ Traced \in BOOLEAN

VARIABLES rxState, rxFinished, rxCount, lastError,
          outHeader, inHeader,   \* lastTmcBulkOutHeader, lastTmcBulkInHeader
          rx,                    \* tmcLayerRxBuffer
          hostRead, hostWrite,
          txCount, gTxFinished,
          pc,        \* the main loop: "poll", "get", "wait", "valid"
          tx,        \* the locals of tmcSendDat
          pma,       \* the packet the bulk-in endpoint has to send, or NoPacket
          xfer,      \* the transfer the host is sending
          owed,      \* the message last written and not yet taken
          read       \* how much data of the current response the host has

rxVars == <<rxState, rxFinished, rxCount, lastError, outHeader, rx>>
flags == <<inHeader, hostRead, hostWrite>>
txVars == <<gTxFinished, tx, pma, read>>
host == <<xfer, owed>>
vars == <<rxVars, flags, txCount, txVars, pc, host>>

Header == [msgId : MsgIds \cup {"other"}, bTag : Tags \cup {0}, inverseOk : BOOLEAN, size : Sizes \cup {0}]
NoHeader == [msgId |-> "other", bTag |-> 0, inverseOk |-> FALSE, size |-> 0]

First == Pkg - Hdr      \* MAXHRADERDATASIZE: data in the first packet
Lesser(a, b) == IF a < b THEN a ELSE b

(* Byte i of the data of the transfer with tag t; junk is anything else.   *)
Junk == <<0, 0>>
Byte(t, i) == IF Traced THEN <<t, i>> ELSE Junk
Data(t, from, n) == [i \in 1 .. n |-> Byte(t, from + i - 1)]
HeaderBytes == [i \in 1 .. Hdr |-> Junk]

Stored(to, bytes) ==
  [i \in DOMAIN rx |-> IF i - to + 1 \in DOMAIN bytes THEN bytes[i - to + 1] ELSE rx[i]]

NoPacket == [hdr |-> FALSE, tag |-> 0, from |-> 0, n |-> 0]
NoTx == [len |-> 0, xmit |-> 0, at |-> 0, started |-> FALSE, count |-> 0, tag |-> 0]
NoXfer == [bTag |-> 0, size |-> 0, sent |-> 0]

Init ==
  /\ rxState = "IDLE" /\ rxFinished = TRUE /\ rxCount = 0 /\ lastError = "NONE"
  /\ outHeader = NoHeader /\ inHeader = NoHeader
  /\ rx = [i \in 0 .. Buf - 1 |-> Junk]
  /\ hostRead = FALSE /\ hostWrite = FALSE
  /\ txCount = 0 /\ gTxFinished = TRUE
  /\ pc = "poll" /\ tx = NoTx /\ pma = NoPacket /\ read = 0
  /\ xfer = NoXfer /\ owed = NoXfer

-----------------------------------------------------------------------------
(* tmcCmdAnalize: header is lastTmcBulkOutHeader, err the error noted so   *)
(* far.  It is called when the callback leaves rxFinished TRUE.            *)
tmcCmdAnalize(header, err) ==
  /\ hostRead' = CASE header.msgId = "REQUEST_DEV_DEP_MSG_IN" -> TRUE
                   [] header.msgId = "DEV_DEP_MSG_OUT" -> FALSE
                   [] OTHER -> hostRead
  /\ hostWrite' = CASE header.msgId = "REQUEST_DEV_DEP_MSG_IN" -> FALSE
                    [] header.msgId = "DEV_DEP_MSG_OUT" -> TRUE
                    [] OTHER -> hostWrite
  /\ txCount' = IF header.msgId = "DEV_DEP_MSG_OUT" THEN 0 ELSE txCount
  /\ inHeader' = IF header.msgId = "REQUEST_DEV_DEP_MSG_IN" THEN header ELSE inHeader
  /\ lastError' = IF header.msgId = "other" THEN "MSGID" ELSE err

Analized(finished, header, err) ==
  IF finished THEN tmcCmdAnalize(header, err)
  ELSE lastError' = err /\ UNCHANGED <<flags, txCount>>

(* rxCount after the first packet, an unsigned difference.                 *)
DataCount(n) == (n - Hdr) % M

(* Bug form: the header is taken for data.                                 *)
FirstIsAllWithHeader(size, count) == count < First \/ size <= Pkg

(* The first packet was not full, or it had room for all the data.         *)
FirstIsAll(size, count) == count < First \/ size <= First

(* EP1_OUT_Callback in TMC_IDLE: the packet starts a transfer.  header is  *)
(* what its first bytes say, bytes the whole packet.                       *)
OutIdle(header, bytes) ==
  LET count == DataCount(Len(bytes)) IN
  /\ rxState = "IDLE"
  /\ rx' = Stored(0, bytes)
  /\ rxCount' = count
  /\ \/ /\ header.bTag = outHeader.bTag
        /\ lastError' = "TAG"
        /\ rxFinished' = FALSE
        /\ UNCHANGED <<rxState, outHeader, flags, txCount>>
     \/ /\ header.bTag # outHeader.bTag
        /\ ~header.inverseOk
        /\ lastError' = "TAGINV"
        /\ rxFinished' = FALSE
        /\ UNCHANGED <<rxState, outHeader, flags, txCount>>
     \/ /\ header.bTag # outHeader.bTag
        /\ header.inverseOk
        /\ outHeader' = header
        /\ rxFinished' = FirstIsAll(header.size, count)
        /\ rxState' = IF rxFinished' THEN "IDLE" ELSE "RUN"
        /\ Analized(rxFinished', header, "NONE")

(* Bug form: the bytes of the header are not counted.                      *)
NoRoomForData(n) == (rxCount + n) % M >= Buf

(* TMC_HEADER_SIZE + rxCount + GetEPRxCount(ENDP1) >= USB_BUF_SIZE         *)
NoRoom(n) == (Hdr + rxCount + n) % M >= Buf

(* Bug form: one byte too many is waited for.                              *)
CompleteLate(count) == outHeader.size < count

(* lastTmcBulkOutHeader.transferSize <= rxCount                            *)
Complete(count) == outHeader.size <= count

(* Bug form: the state is left as it is at the end of a transfer.          *)
StateAfterRunStays(complete) == "RUN"

StateAfterRun(complete) == IF complete THEN "IDLE" ELSE "RUN"

(* ... in TMC_RUN: the packet is all data.                                 *)
OutRun(bytes) ==
  LET count == (rxCount + Len(bytes)) % M
      complete == Complete(count)
  IN
  /\ rxState = "RUN"
  /\ \/ /\ NoRoom(Len(bytes))
        /\ rxState' = "IDLE"
        /\ Analized(rxFinished, outHeader, "MSGOVERFLOW")
        /\ UNCHANGED <<rxFinished, rxCount, outHeader, rx>>
     \/ /\ ~NoRoom(Len(bytes))
        /\ rx' = Stored((Hdr + rxCount) % M, bytes)
        /\ rxCount' = count
        /\ rxFinished' = (rxFinished \/ complete)
        /\ rxState' = StateAfterRun(complete)
        /\ Analized(rxFinished', outHeader, IF complete THEN "NONE" ELSE lastError)
        /\ UNCHANGED outHeader

EP1_OUT_Callback(header, bytes) ==
  /\ OutIdle(header, bytes) \/ OutRun(bytes)
  /\ UNCHANGED <<txVars, pc>>

(* The host starts a transfer: a header and, if it writes, the first data. *)
HostSends(header) ==
  LET write == header.msgId = "DEV_DEP_MSG_OUT"
      n == IF write THEN Lesser(header.size, First) ELSE 0
  IN
  /\ xfer.sent = xfer.size
  /\ Patient => owed = NoXfer /\ ~hostRead /\ pc = "poll" /\ pma = NoPacket
  /\ ~Faulty => /\ header.msgId \in {"DEV_DEP_MSG_OUT", "REQUEST_DEV_DEP_MSG_IN"}
                /\ header.bTag # xfer.bTag /\ header.inverseOk
  /\ header.bTag # 0 /\ header.size # 0
  /\ EP1_OUT_Callback(header, HeaderBytes \o Data(header.bTag, 0, n))
  /\ xfer' = [bTag |-> header.bTag, sent |-> n,
              size |-> IF write THEN header.size ELSE 0]
  /\ owed' = IF write THEN [xfer' EXCEPT !.sent = 0] ELSE owed

(* It goes on with it.  A callback that is not in RUN takes the data for   *)
(* a header, whatever it says.                                             *)
HostContinues(header) ==
  LET n == Lesser(xfer.size - xfer.sent, Pkg) IN
  /\ xfer.sent < xfer.size
  /\ rxState = "RUN" => header = NoHeader
  /\ EP1_OUT_Callback(header, Data(xfer.bTag, xfer.sent, n))
  /\ xfer' = [xfer EXCEPT !.sent = @ + n]
  /\ UNCHANGED owed

(* Bug form: tmcSendDat is not told that the packet is gone.               *)
InNotTold ==
  /\ pma # NoPacket
  /\ pma' = NoPacket
  /\ read' = read + pma.n
  /\ UNCHANGED <<rxVars, flags, txCount, gTxFinished, tx, pc, host>>

(* The host has read the packet.                                           *)
EP2_IN_Callback ==
  /\ pma # NoPacket
  /\ pma' = NoPacket
  /\ read' = read + pma.n
  /\ gTxFinished' = TRUE
  /\ UNCHANGED <<rxVars, flags, txCount, tx, pc, host>>

(* A bus reset: the endpoints are emptied and the host gives up a transfer *)
(* it has not finished.                                                    *)
(* txState is TMC_IDLE whenever a callback can see it.                     *)
RESET_Callback ==
  /\ Resets
  /\ gTxFinished' = TRUE
  /\ pma' = NoPacket
  /\ xfer' = [NoXfer EXCEPT !.bTag = xfer.bTag]
  /\ owed' = IF xfer.sent < xfer.size THEN NoXfer ELSE owed
  /\ UNCHANGED <<rxVars, flags, txCount, tx, read, pc>>

(* INITIATE_ABORT_BULK_OUT and INITIATE_CLEAR: the host gives up what it   *)
(* has not finished; the device forgets the transfer, and nothing else.    *)
TMC_initiate_abort_bulk_out ==
  /\ Aborts
  /\ rxState' = "IDLE"
  /\ xfer' = [NoXfer EXCEPT !.bTag = xfer.bTag]
  /\ owed' = IF xfer.sent < xfer.size THEN NoXfer ELSE owed
  /\ UNCHANGED <<rxFinished, rxCount, lastError, outHeader, rx, flags, txCount, txVars, pc>>

-----------------------------------------------------------------------------
(* The application finds a message, and calls tmcHostWriteClear ...        *)
PollWrite ==
  /\ pc = "poll"
  /\ rxFinished /\ hostWrite
  /\ hostWrite' = FALSE
  /\ pc' = "get"
  /\ UNCHANGED <<rxVars, inHeader, hostRead, txCount, txVars, host>>

(* What tmcGetDat returns and, if the message fits, copies.                *)
GetCount == IF rxFinished THEN outHeader.size ELSE 0
GetBytes ==
  [i \in 1 .. (IF GetCount <= BufSize THEN GetCount ELSE 0) |->
     IF Hdr + i - 1 < Buf THEN rx[Hdr + i - 1] ELSE Junk]

(* ... and then tmcGetDat, with interrupts disabled.                       *)
tmcGetDat ==
  /\ pc = "get"
  /\ rxFinished' = FALSE
  /\ rxCount' = 0
  /\ pc' = "poll"
  /\ owed' = NoXfer
  /\ UNCHANGED <<rxState, lastError, outHeader, rx, flags, txCount, txVars, xfer>>

(* It finds a request, calls tmcHostReadClear and answers with tmcSendDat. *)
PollRead(len) ==
  /\ pc = "poll"
  /\ hostRead
  /\ txCount + len <= TxMax
  /\ hostRead' = FALSE
  /\ pc' = "wait"
  /\ tx' = [NoTx EXCEPT !.len = len]
  /\ UNCHANGED <<rxVars, inHeader, hostWrite, txCount, gTxFinished, pma, read, host>>

(* CounterArrived(&counter) before gTxFinished.  Timers.tla shows that it  *)
(* may come too late or never, so nothing below rests on it.               *)
SendTimeout ==
  /\ pc = "wait"
  /\ ~gTxFinished
  /\ pc' = "poll"
  /\ tx' = NoTx
  /\ UNCHANGED <<rxVars, flags, txCount, gTxFinished, pma, read, host>>

(* The last packet is gone: the next is prepared in tmcLayerTxBuffer, the  *)
(* first with a copy of lastTmcBulkInHeader.                               *)
(* txCount is read here and written in SendValid, as the compiler may do   *)
(* for txCount += UserToPMABufferCopy(...).                                *)
SendReady ==
  /\ pc = "wait"
  /\ gTxFinished
  /\ tx' = [tx EXCEPT !.count = txCount, !.started = TRUE,
                      !.xmit = IF tx.started THEN @ ELSE Lesser(outHeader.size, tx.len),
                      !.tag = inHeader.bTag]
  /\ read' = IF tx.started THEN read ELSE 0
  /\ gTxFinished' = FALSE
  /\ pc' = "valid"
  /\ UNCHANGED <<rxVars, flags, txCount, pma, host>>

(* Bug form: every packet is filled from the start of the user's data.     *)
PacketFromStart(first) ==
  [hdr |-> first, tag |-> IF first THEN tx.tag ELSE 0, from |-> 0,
   n |-> Lesser(tx.xmit - tx.at, IF first THEN First ELSE Pkg)]

(* The first packet has the header and the first data, the others data.    *)
Packet(first) ==
  [hdr |-> first, tag |-> IF first THEN tx.tag ELSE 0, from |-> tx.at,
   n |-> Lesser(tx.xmit - tx.at, IF first THEN First ELSE Pkg)]

(* UserToPMABufferCopy and SetEPTxValid.                                   *)
SendValid ==
  LET packet == Packet(tx.at = 0)
      at == tx.at + packet.n
  IN
  /\ pc = "valid"
  /\ pma' = packet
  /\ txCount' = (tx.count + packet.n) % M
  /\ pc' = IF at < tx.xmit THEN "wait" ELSE "poll"
  /\ tx' = IF at < tx.xmit THEN [tx EXCEPT !.at = at] ELSE NoTx
  /\ UNCHANGED <<rxVars, flags, gTxFinished, read, host>>

Next ==
  \/ \E header \in Header : HostSends(header)
  \/ \E header \in Header : HostContinues(header)
  \/ EP2_IN_Callback
  \/ RESET_Callback
  \/ TMC_initiate_abort_bulk_out
  \/ PollWrite
  \/ tmcGetDat
  \/ \E len \in Lens : PollRead(len)
  \/ SendTimeout
  \/ SendReady
  \/ SendValid

(* The main loop goes on and the host reads what it is sent, but it may    *)
(* stop sending at any time.                                               *)
Spec ==
  /\ Init /\ [][Next]_vars
  /\ WF_vars(tmcGetDat) /\ WF_vars(PollWrite)
  /\ WF_vars(SendReady) /\ WF_vars(SendValid) /\ WF_vars(EP2_IN_Callback)

-----------------------------------------------------------------------------
(* The received data, with which every store of the callback ends, end     *)
(* inside tmcLayerRxBuffer: also when data is taken for a header and a     *)
(* packet shorter than a header makes rxCount wrap around, and when        *)
(* tmcGetDat clears rxCount in the middle of a transfer.                   *)
RxInBuffer == (Hdr + rxCount) % M <= Buf

(* No message is reported complete while a transfer is under way.          *)
FinishedIsIdle == rxFinished => rxState = "IDLE"

(* tmcSendDat never waits for a packet that is already gone: gTxFinished   *)
(* is cleared before the packet is made valid, so the interrupt that sets  *)
(* it cannot come too early, and a reset sets it too.                      *)
NoLostWakeup == pc = "wait" /\ pma = NoPacket => gTxFinished

(* What the host reads of a response is a prefix of it, in order, with a   *)
(* header in front that has the tag of its request, whatever the packet    *)
(* boundaries and time-outs are.                                           *)
ResponseInOrder ==
  [][EP2_IN_Callback => /\ pma.from = read
                        /\ pma.hdr <=> read = 0
                        /\ pma.hdr => pma.tag = xfer.bTag]_vars

(* tmcSendDat returns while the host goes on reading: it does not have to  *)
(* count on CounterArrived.                                                *)
SendReturns == (pc \in {"wait", "valid"}) ~> (pc = "poll")

(* tmcGetDat returns "received count": the message it hands over is all    *)
(* the data of the message last written and nothing else.                  *)
MessageIsWhole ==
  [][tmcGetDat /\ GetCount > 0 => GetBytes = Data(owed.bTag, 0, owed.size)]_vars

(* A message of a patient host, however many packets it takes, is taken by *)
(* the application: the end of the transfer is recognised.                 *)
MessageIsTaken == (owed # NoXfer /\ xfer.sent = xfer.size) ~> (owed = NoXfer)
=============================================================================
