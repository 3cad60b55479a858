---------------------------- MODULE UsbTmcProofs ----------------------------
(***************************************************************************)
(* Proofs about UsbTmc.tla, for every size of packets, header and buffer,  *)
(* every width of the counters and every behaviour of the host.            *)
(***************************************************************************)
EXTENDS UsbTmc, SequenceTheorems, TLAPS

(* The receiving side: the counter is UINT32, the data end inside the      *)
(* buffer, and the host's bookkeeping makes packets of at most Pkg bytes.  *)
RxType ==
  /\ rxState \in {"IDLE", "RUN"}
  /\ rxFinished \in BOOLEAN
  /\ rxCount \in 0 .. M - 1

XferType == xfer \in [bTag : Nat, size : Nat, sent : Nat] /\ xfer.sent <= xfer.size

RxInv == RxType /\ XferType /\ RxInBuffer /\ FinishedIsIdle

(* A first packet of n bytes, header included, ends at n, even when it is  *)
(* shorter than a header and the count of its data wraps around.           *)
LEMMA FirstPacketEnd ==
  ASSUME NEW n \in 0 .. Pkg
  PROVE  DataCount(n) \in 0 .. M - 1 /\ (Hdr + DataCount(n)) % M = n
<1>1. Hdr \in Nat /\ Pkg \in Nat /\ M \in Nat /\ Hdr < Pkg /\ Pkg < M /\ n \in Nat
  BY SizeAssumption
<1>2. CASE n >= Hdr
  <2>1. (n - Hdr) % M = n - Hdr
    BY <1>1, <1>2
  <2>2. n % M = n
    BY <1>1
  <2> QED
    BY <1>1, <1>2, <2>1, <2>2 DEF DataCount
<1>3. CASE n < Hdr
  <2>1. (n - Hdr) % M = n - Hdr + M
    BY <1>1, <1>3
  <2>2. (n + M) % M = n
    BY <1>1
  <2> QED
    BY <1>1, <1>3, <2>1, <2>2 DEF DataCount
<1> QED
  BY <1>1, <1>2, <1>3

(* A packet that is found to have room ends inside the buffer.             *)
LEMMA NextPacketEnd ==
  ASSUME NEW c \in 0 .. M - 1, NEW n \in 0 .. Pkg, NEW v,
         v = (c + n) % M, ~ ((Hdr + c + n) % M >= Buf)
  PROVE  v \in 0 .. M - 1 /\ (Hdr + v) % M <= Buf
<1>1. Hdr \in Nat /\ Pkg \in Nat /\ M \in Nat /\ Hdr < Pkg /\ 2 * Pkg < M
      /\ c \in Nat /\ n \in Nat /\ Buf \in Nat /\ c < M /\ n <= Pkg
  BY SizeAssumption
<1>2. CASE c + n < M
  <2>1. (c + n) % M = c + n
    BY <1>1, <1>2
  <2> QED
    BY <1>1, <1>2, <2>1
<1>3. CASE c + n >= M
  <2> DEFINE k == c + n - M
  <2>1. (c + n) % M = k /\ k \in 0 .. M - 1 /\ k < Pkg
    BY <1>1, <1>3
  <2>2. (Hdr + k) % M = Hdr + k
    BY <1>1, <2>1
  <2>3. (Hdr + k + M) % M = Hdr + k
    BY <1>1, <2>1
  <2> QED
    BY <1>1, <1>3, <2>1, <2>2, <2>3
<1> QED
  BY <1>1, <1>2, <1>3

(* The callback, for any packet of at most Pkg bytes.                      *)
LEMMA CallbackInBuffer ==
  ASSUME RxInv, NEW header \in Header, NEW bytes, Len(bytes) \in 0 .. Pkg,
         EP1_OUT_Callback(header, bytes)
  PROVE  RxType' /\ RxInBuffer' /\ FinishedIsIdle'
<1>1. CASE OutIdle(header, bytes)
  <2> DEFINE n == Len(bytes)
  <2>1. rxCount' \in 0 .. M - 1 /\ (Hdr + rxCount') % M = n
    BY <1>1, FirstPacketEnd DEF OutIdle
  <2>2. RxInBuffer'
    <3>1. n \in 0 .. Pkg
      OBVIOUS
    <3> HIDE DEF n
    <3>2. n <= Buf
      BY <3>1, SizeAssumption
    <3> QED
      BY <2>1, <3>2, Zenon DEF RxInBuffer
  <2>3. rxState' \in {"IDLE", "RUN"} /\ rxFinished' \in BOOLEAN /\ FinishedIsIdle'
    BY <1>1 DEF OutIdle, RxInv, RxType, FinishedIsIdle, FirstIsAll
  <2> QED
    BY <2>1, <2>2, <2>3 DEF RxType
<1>2. CASE OutRun(bytes)
  <2> DEFINE n == Len(bytes)
  <2>0. rxCount \in 0 .. M - 1 /\ n \in 0 .. Pkg
    BY DEF RxInv, RxType
  <2>1. CASE NoRoom(Len(bytes))
    BY <1>2, <2>1 DEF OutRun, RxInv, RxType, RxInBuffer, FinishedIsIdle
  <2>2. CASE ~NoRoom(Len(bytes))
    <3>1. rxCount' = (rxCount + n) % M
      BY <1>2, <2>2 DEF OutRun
    <3>2. ~ ((Hdr + rxCount + n) % M >= Buf)
      BY <2>2 DEF NoRoom
    <3>3. rxCount' \in 0 .. M - 1 /\ RxInBuffer'
      <4> DEFINE c == rxCount
                 v == rxCount'
      <4>1. /\ c \in 0 .. M - 1 /\ n \in 0 .. Pkg
            /\ v = (c + n) % M /\ ~ ((Hdr + c + n) % M >= Buf)
        BY <2>0, <3>1, <3>2
      <4> HIDE DEF c, v, n
      <4>2. v \in 0 .. M - 1 /\ (Hdr + v) % M <= Buf
        BY <4>1, NextPacketEnd
      <4> QED
        BY <4>2 DEF v, RxInBuffer
    <3>4. rxState' \in {"IDLE", "RUN"} /\ rxFinished' \in BOOLEAN /\ FinishedIsIdle'
      BY <1>2, <2>2 DEF OutRun, RxInv, RxType, FinishedIsIdle, StateAfterRun, Complete
    <3> QED
      BY <3>3, <3>4 DEF RxType
  <2> QED
    BY <2>1, <2>2
<1> QED
  BY <1>1, <1>2 DEF EP1_OUT_Callback

(* Every step keeps the receiving side in order.                           *)
LEMMA RxStep == RxInv /\ [Next]_vars => RxInv'
<1> SUFFICES ASSUME RxInv, [Next]_vars PROVE RxInv'
  OBVIOUS
<1>0. Hdr \in Nat /\ Pkg \in Nat /\ M \in Nat /\ Buf \in Nat /\ Hdr < Pkg /\ Pkg < Buf
      /\ 2 * Buf < M
  BY SizeAssumption
<1>1. ASSUME NEW header \in Header, HostSends(header) PROVE RxInv'
  <2> DEFINE n == IF header.msgId = "DEV_DEP_MSG_OUT"
                  THEN Lesser(header.size, First) ELSE 0
             bytes == HeaderBytes \o Data(header.bTag, 0, n)
  <2>1. header.size \in Nat /\ header.bTag \in Nat
    <3>1. header.size \in Sizes \cup {0} /\ header.bTag \in Tags \cup {0}
      BY DEF Header
    <3>2. \A x \in Sizes : x \in Nat
      BY ValueAssumption, <1>0
    <3>3. \A x \in Tags : x \in Nat
      BY ValueAssumption
    <3> QED
      BY <3>1, <3>2, <3>3
  <2>2. n \in 0 .. Pkg - Hdr /\ n <= header.size
    BY <1>0, <2>1 DEF Lesser, First
  <2>3. HeaderBytes \in Seq({Junk}) /\ Len(HeaderBytes) = Hdr
    BY <1>0 DEF HeaderBytes
  <2>4. Data(header.bTag, 0, n) \in Seq({Byte(header.bTag, i) : i \in Int})
        /\ Len(Data(header.bTag, 0, n)) = n
    <3> HIDE DEF n
    <3> QED
      BY <2>2 DEF Data
  <2>5. Len(bytes) = Hdr + n
    <3> HIDE DEF n
    <3> QED
      BY <2>3, <2>4, <1>0
  <2>6. EP1_OUT_Callback(header, bytes)
    BY <1>1 DEF HostSends
  <2>7. Len(bytes) \in 0 .. Pkg
    <3> HIDE DEF n, bytes
    <3> QED
      BY <1>0, <2>2, <2>5
  <2>8. RxType' /\ RxInBuffer' /\ FinishedIsIdle'
    <3> HIDE DEF n, bytes
    <3> QED
      BY <2>6, <2>7, CallbackInBuffer
  <2>9. XferType'
    <3>1. xfer' = [bTag |-> header.bTag, sent |-> n,
                   size |-> IF header.msgId = "DEV_DEP_MSG_OUT" THEN header.size ELSE 0]
      BY <1>1 DEF HostSends
    <3> QED
      BY <3>1, <2>1, <2>2, <1>0 DEF XferType
  <2> QED
    BY <2>8, <2>9 DEF RxInv
<1>2. ASSUME NEW header \in Header, HostContinues(header) PROVE RxInv'
  <2> DEFINE n == Lesser(xfer.size - xfer.sent, Pkg)
             bytes == Data(xfer.bTag, xfer.sent, n)
  <2>1. xfer \in [bTag : Nat, size : Nat, sent : Nat] /\ xfer.sent < xfer.size
    BY <1>2 DEF HostContinues, RxInv, XferType
  <2>2. n \in 0 .. Pkg /\ n <= xfer.size - xfer.sent
    BY <1>0, <2>1 DEF Lesser
  <2>3. Len(bytes) = n
    <3> HIDE DEF n
    <3> QED
      BY <2>2 DEF Data
  <2>4. EP1_OUT_Callback(header, bytes)
    BY <1>2 DEF HostContinues
  <2>5. RxType' /\ RxInBuffer' /\ FinishedIsIdle'
    <3> HIDE DEF n, bytes
    <3> QED
      BY <2>2, <2>3, <2>4, CallbackInBuffer
  <2>6. XferType'
    <3>1. xfer' = [xfer EXCEPT !.sent = @ + n]
      BY <1>2 DEF HostContinues
    <3> HIDE DEF n
    <3> QED
      BY <3>1, <2>1, <2>2, <1>0 DEF XferType
  <2> QED
    BY <2>5, <2>6 DEF RxInv
<1>3. ASSUME RESET_Callback \/ TMC_initiate_abort_bulk_out PROVE RxInv'
  <2>1. /\ UNCHANGED <<rxFinished, rxCount>> /\ rxState' \in {rxState, "IDLE"}
        /\ xfer' = [NoXfer EXCEPT !.bTag = xfer.bTag]
    BY <1>3 DEF RESET_Callback, TMC_initiate_abort_bulk_out, rxVars
  <2>2. xfer' = [bTag |-> xfer.bTag, size |-> 0, sent |-> 0] /\ xfer.bTag \in Nat
    BY <2>1 DEF NoXfer, RxInv, XferType
  <2>3. XferType'
    BY <2>2 DEF XferType
  <2> QED
    BY <2>1, <2>3 DEF RxInv, RxType, RxInBuffer, FinishedIsIdle
<1>4. ASSUME tmcGetDat PROVE RxInv'
  <2>1. rxCount' = 0 /\ rxFinished' = FALSE /\ UNCHANGED <<rxState, xfer>>
    BY <1>4 DEF tmcGetDat
  <2>2. (Hdr + 0) % M = Hdr
    BY <1>0
  <2>3. RxInBuffer'
    BY <1>0, <2>1, <2>2, Hdr <= Buf, Zenon DEF RxInBuffer
  <2>4. 0 \in 0 .. M - 1
    BY <1>0
  <2> QED
    BY <2>1, <2>3, <2>4 DEF RxInv, RxType, XferType, FinishedIsIdle
<1>5. ASSUME UNCHANGED <<rxVars, xfer>> PROVE RxInv'
  BY <1>5 DEF rxVars, RxInv, RxType, XferType, RxInBuffer, FinishedIsIdle
<1>6. CASE Next
  BY <1>1, <1>2, <1>3, <1>4, <1>5, <1>6
  DEF Next, host, EP2_IN_Callback, PollWrite, PollRead, SendTimeout, SendReady, SendValid
<1>7. CASE UNCHANGED vars
  BY <1>5, <1>7 DEF vars, host
<1> QED
  BY <1>6, <1>7

(* The receiving side is in order at the start.                            *)
LEMMA RxInit == Init => RxInv
<1>1. Hdr \in Nat /\ M \in Nat /\ Buf \in Nat /\ Hdr < Buf /\ 2 * Buf < M
  BY SizeAssumption
<1>2. (Hdr + 0) % M = Hdr
  BY <1>1
<1> QED
  BY <1>1, <1>2 DEF Init, RxInv, RxType, XferType, RxInBuffer, FinishedIsIdle, NoXfer

(* EP1_OUT_Callback never writes outside tmcLayerRxBuffer, whatever the    *)
(* host sends and whenever the application calls tmcGetDat.                *)
THEOREM ReceiveInBuffer == Spec => []RxInBuffer
<1>1. RxInv => RxInBuffer
  BY DEF RxInv
<1> QED
  BY RxInit, RxStep, <1>1, PTL DEF Spec

(* tmcRxFinished() is FALSE all through a transfer of several packets.     *)
THEOREM FinishedOnlyIdle == Spec => []FinishedIsIdle
<1>1. RxInv => FinishedIsIdle
  BY DEF RxInv
<1> QED
  BY RxInit, RxStep, <1>1, PTL DEF Spec

-----------------------------------------------------------------------------
(* The sending side: gTxFinished is FALSE only while the endpoint has a    *)
(* packet or tmcSendDat is about to give it one, and after its first       *)
(* packet tmcSendDat always has data left for the next.                    *)
TxLocals == [len : Nat, xmit : Nat, at : Nat, started : BOOLEAN, count : Nat, tag : Nat]

TxInv ==
  /\ outHeader \in Header /\ inHeader \in Header /\ txCount \in Nat
  /\ tx \in TxLocals
  /\ gTxFinished \in BOOLEAN
  /\ tx.at > 0 => tx.started /\ tx.at < tx.xmit
  /\ pc = "valid" => tx.started
  /\ pma = NoPacket /\ pc # "valid" => gTxFinished

(* The callback leaves the sending side alone, but for header and txCount. *)
LEMMA CallbackKeepsTx ==
  ASSUME TxInv, NEW header \in Header, NEW bytes, EP1_OUT_Callback(header, bytes)
  PROVE  TxInv'
<1> DEFINE Kept == txCount' \in {0, txCount} /\ inHeader' \in {header, outHeader, inHeader}
<1>1. ASSUME NEW f, NEW h \in {header, outHeader}, NEW e, Analized(f, h, e) PROVE Kept
  BY <1>1 DEF Analized, tmcCmdAnalize, flags
<1>2. outHeader' \in {header, outHeader}
  BY DEF EP1_OUT_Callback, OutIdle, OutRun
<1>3. ASSUME OutIdle(header, bytes) PROVE Kept
  BY <1>1, <1>3 DEF OutIdle, flags
<1>4. ASSUME OutRun(bytes) PROVE Kept
  BY <1>1, <1>4 DEF OutRun
<1>5. Kept
  BY <1>3, <1>4 DEF EP1_OUT_Callback
<1>6. UNCHANGED <<txVars, pc>>
  BY DEF EP1_OUT_Callback
<1> QED
  BY <1>2, <1>5, <1>6 DEF TxInv, txVars

(* Every step keeps the sending side in order.                             *)
LEMMA TxStep == TxInv /\ [Next]_vars => TxInv'
<1> SUFFICES ASSUME TxInv, [Next]_vars PROVE TxInv'
  OBVIOUS
<1>0. /\ outHeader \in Header /\ outHeader.size \in Nat /\ txCount \in Nat
      /\ inHeader \in Header /\ inHeader.size \in Nat /\ inHeader.bTag \in Nat
      /\ tx \in TxLocals /\ gTxFinished \in BOOLEAN
      /\ Pkg \in Nat /\ Hdr \in Nat /\ M \in Nat /\ 0 < Pkg /\ Hdr < Pkg /\ 0 < M
  <2>1. outHeader \in Header /\ inHeader \in Header
    BY DEF TxInv
  <2>2. /\ outHeader.size \in Sizes \cup {0} /\ inHeader.size \in Sizes \cup {0}
        /\ inHeader.bTag \in Tags \cup {0}
    BY <2>1 DEF Header
  <2>3. (\A x \in Sizes : x \in Nat) /\ (\A x \in Tags : x \in Nat)
    BY ValueAssumption, SizeAssumption
  <2> QED
    BY <2>1, <2>2, <2>3, SizeAssumption DEF TxInv
<1>1. ASSUME NEW header \in Header, HostSends(header) \/ HostContinues(header)
      PROVE TxInv'
  BY <1>1, CallbackKeepsTx DEF HostSends, HostContinues
<1>2. ASSUME EP2_IN_Callback \/ RESET_Callback \/ TMC_initiate_abort_bulk_out
      PROVE  TxInv'
  BY <1>2 DEF EP2_IN_Callback, RESET_Callback, TMC_initiate_abort_bulk_out,
              TxInv, rxVars, txVars, flags
<1>3. ASSUME PollWrite \/ tmcGetDat PROVE TxInv'
  BY <1>3 DEF PollWrite, tmcGetDat, TxInv, rxVars, txVars, flags
<1>4. ASSUME NEW len \in Lens, PollRead(len) PROVE TxInv'
  <2>1. len \in Nat
    BY ValueAssumption
  <2>2. tx' = [len |-> len, xmit |-> 0, at |-> 0, started |-> FALSE, count |-> 0, tag |-> 0]
    BY <1>4 DEF PollRead, NoTx
  <2>3. tx' \in TxLocals /\ ~ (tx'.at > 0)
    BY <2>1, <2>2 DEF TxLocals
  <2>4. /\ UNCHANGED <<outHeader, inHeader, txCount, gTxFinished, pma>>
        /\ pc = "poll" /\ pc' = "wait"
    BY <1>4 DEF PollRead, rxVars, flags
  <2> QED
    BY <2>3, <2>4 DEF TxInv
<1>5. ASSUME SendTimeout PROVE TxInv'
  <2>1. tx' \in TxLocals /\ ~ (tx'.at > 0)
    BY <1>5 DEF SendTimeout, NoTx, TxLocals
  <2>2. /\ UNCHANGED <<outHeader, inHeader, txCount, gTxFinished, pma>>
        /\ pc = "wait" /\ pc' = "poll"
    BY <1>5 DEF SendTimeout, rxVars, flags
  <2> QED
    BY <2>1, <2>2 DEF TxInv
<1>6. ASSUME SendReady PROVE TxInv'
  <2> DEFINE xmit == IF tx.started THEN tx.xmit ELSE Lesser(outHeader.size, tx.len)
  <2>1. xmit \in Nat
    BY <1>0 DEF Lesser, TxLocals
  <2>2. tx' = [tx EXCEPT !.count = txCount, !.started = TRUE, !.xmit = xmit,
                         !.tag = inHeader.bTag]
    BY <1>6 DEF SendReady
  <2>3. tx' \in TxLocals /\ tx'.started /\ tx'.at = tx.at /\ tx'.xmit = xmit
    <3> HIDE DEF xmit
    <3> QED
      BY <1>0, <2>1, <2>2 DEF TxLocals
  <2>4. tx'.at > 0 => tx'.at < tx'.xmit
    BY <2>3 DEF TxInv
  <2>5. UNCHANGED <<outHeader, inHeader, txCount>> /\ gTxFinished' = FALSE /\ pc' = "valid"
    BY <1>6 DEF SendReady, rxVars, flags
  <2> QED
    BY <2>3, <2>4, <2>5 DEF TxInv
<1>7. ASSUME SendValid PROVE TxInv'
  <2> DEFINE packet == Packet(tx.at = 0)
             at == tx.at + packet.n
  <2>0. tx.at \in Nat /\ tx.xmit \in Nat /\ tx.count \in Nat
        /\ (tx.at > 0 => tx.started /\ tx.at < tx.xmit)
    BY <1>0 DEF TxLocals, TxInv
  <2>1. packet.n \in Nat /\ (tx.at > 0 => packet.n > 0)
    <3>1. packet.n = Lesser(tx.xmit - tx.at, IF tx.at = 0 THEN First ELSE Pkg)
      BY DEF Packet
    <3> HIDE DEF packet
    <3> QED
      BY <1>0, <2>0, <3>1 DEF Lesser, First
  <2>2. packet # NoPacket
    <3>1. CASE tx.at = 0
      BY <3>1 DEF Packet, NoPacket
    <3>2. CASE tx.at # 0
      <4>1. packet.n > 0 /\ NoPacket.n = 0
        BY <2>0, <2>1, <3>2 DEF NoPacket
      <4> HIDE DEF packet
      <4> QED
        BY <4>1
    <3> QED
      BY <3>1, <3>2
  <2>3. /\ pma' = packet
        /\ txCount' = (tx.count + packet.n) % M
        /\ tx' = IF at < tx.xmit THEN [tx EXCEPT !.at = at] ELSE NoTx
        /\ pc' # "valid"
        /\ UNCHANGED <<outHeader, inHeader, gTxFinished>>
    BY <1>7 DEF SendValid, rxVars, flags
  <2>4. txCount' \in Nat
    <3> HIDE DEF packet
    <3> QED
      BY <1>0, <2>1, <2>3 DEF TxLocals
  <2>5. tx' \in TxLocals /\ (tx'.at > 0 => tx'.started /\ tx'.at < tx'.xmit)
    <3>1. tx.started
      BY <1>7, <2>0 DEF SendValid, TxInv
    <3> HIDE DEF packet
    <3>2. CASE at < tx.xmit
      <4>1. at \in Nat
        BY <2>0, <2>1
      <4> HIDE DEF at
      <4>2. tx' = [tx EXCEPT !.at = at]
        BY <2>3, <3>2
      <4>3. tx' \in TxLocals /\ tx'.at = at /\ tx'.xmit = tx.xmit /\ tx'.started = tx.started
        BY <1>0, <4>1, <4>2 DEF TxLocals
      <4> QED
        BY <3>1, <3>2, <4>3
    <3>3. CASE ~ (at < tx.xmit)
      BY <2>3, <3>3 DEF NoTx, TxLocals
    <3> QED
      BY <3>2, <3>3
  <2> QED
    BY <1>0, <2>2, <2>3, <2>4, <2>5 DEF TxInv
<1>8. CASE Next
  BY <1>1, <1>2, <1>3, <1>4, <1>5, <1>6, <1>7, <1>8 DEF Next
<1>9. CASE UNCHANGED vars
  BY <1>9 DEF vars, rxVars, txVars, flags, TxInv
<1> QED
  BY <1>8, <1>9

(* The sending side is in order at the start.                              *)
LEMMA TxInit == Init => TxInv
  BY DEF Init, TxInv, TxLocals, NoTx, NoHeader, Header, NoPacket

(* A wait of tmcSendDat always has a packet to wait for: it cannot miss    *)
(* the interrupt that ends it, resets of the bus included.                 *)
THEOREM WakeupIsNotLost == Spec => []NoLostWakeup
<1>1. TxInv => NoLostWakeup
  BY DEF TxInv, NoLostWakeup
<1> QED
  BY TxInit, TxStep, <1>1, PTL DEF Spec
-----------------------------------------------------------------------------
(* A whole conversation: the host waits for the device, follows the        *)
(* protocol, sends what the buffer holds and does not reset the bus (it    *)
(* may abort transfers).                                                   *)
Orderly ==
  /\ Patient /\ ~Faulty /\ ~Resets
  /\ \A s \in Sizes : Hdr + s < Buf

(* The first k bytes of the data of the last message are in the buffer.    *)
Received(k) == \A i \in 0 .. k - 1 : rx[Hdr + i] = Byte(outHeader.bTag, i)

(* In the middle of a transfer the device has what the host has sent, and  *)
(* nothing else goes on.                                                   *)
Running ==
  /\ outHeader.msgId = "DEV_DEP_MSG_OUT" /\ outHeader.size = xfer.size
  /\ rxCount = xfer.sent /\ Received(xfer.sent)
  /\ ~rxFinished /\ ~hostRead /\ ~hostWrite
  /\ pc = "poll" /\ owed # NoXfer

(* The message last written is the one the device has or is receiving.     *)
Owed ==
  /\ owed.bTag = outHeader.bTag /\ owed.size = outHeader.size /\ owed.size \in Sizes
  /\ ~hostRead /\ pc \in {"poll", "get"}
  /\ rxState = "IDLE" => Received(outHeader.size)

Receiving ==
  /\ DOMAIN rx = 0 .. Buf - 1 /\ pc \in {"poll", "get", "wait", "valid"}
  /\ outHeader.bTag = xfer.bTag
  /\ xfer.sent < xfer.size <=> rxState = "RUN"
  /\ rxState = "RUN" => Running
  /\ owed # NoXfer => Owed
  /\ hostWrite \/ pc = "get" => owed # NoXfer /\ rxState = "IDLE"
  /\ pc = "get" => ~hostWrite

(* tmcSendDat is as far as the host has read, but for the packet under     *)
(* way, and answers the request last received.                             *)
Sending ==
  /\ hostRead \/ pc \in {"wait", "valid"} => inHeader.bTag = xfer.bTag
  /\ read \in Nat
  /\ gTxFinished => pma = NoPacket
  /\ pc = "valid" => pma = NoPacket /\ ~gTxFinished /\ tx.at = read /\ tx.tag = xfer.bTag
  /\ pc = "wait" /\ tx.started =>
       tx.at = read + (IF pma = NoPacket THEN 0 ELSE pma.n)
  /\ pma # NoPacket =>
       /\ pma.n \in Nat /\ pma.from = read
       /\ pma.hdr <=> read = 0
       /\ pma.hdr => pma.tag = xfer.bTag

TalkInv == Receiving /\ Sending

LEMMA TalkHeader ==
  ASSUME NEW header \in Header
  PROVE  /\ header.size \in Nat /\ header.bTag \in Nat
         /\ header.size # 0 => header.size \in Sizes
<1>1. header.size \in Sizes \cup {0} /\ header.bTag \in Tags \cup {0}
  BY DEF Header
<1>2. (\A x \in Sizes : x \in Nat) /\ (\A x \in Tags : x \in Nat)
  BY ValueAssumption, SizeAssumption
<1> QED
  BY <1>1, <1>2

LEMMA TalkSizes ==
  Hdr \in Nat \ {0} /\ Pkg \in Nat /\ Buf \in Nat /\ M \in Nat /\ Hdr < Pkg /\ Pkg < Buf
  /\ Buf < M /\ First \in Nat \ {0} /\ Hdr + First = Pkg
BY SizeAssumption DEF First

(* The bytes of a packet of data, and of the first packet of a transfer.   *)
LEMMA DataBytes ==
  ASSUME NEW t, NEW from \in Nat, NEW n \in Nat, NEW b, b = Data(t, from, n)
  PROVE  /\ Len(b) = n /\ DOMAIN b = 1 .. n
         /\ \A i \in 1 .. n : b[i] = Byte(t, from + i - 1)
BY DEF Data

LEMMA FirstBytes ==
  ASSUME NEW t, NEW n \in Nat, NEW b, b = HeaderBytes \o Data(t, 0, n)
  PROVE  /\ Len(b) = Hdr + n /\ DOMAIN b = 1 .. Hdr + n
         /\ \A i \in 0 .. n - 1 : b[Hdr + i + 1] = Byte(t, i)
<1> DEFINE S == {Byte(t, i) : i \in Int} \cup {Junk}
           d == Data(t, 0, n)
           h == HeaderBytes
<1>1. Hdr \in Nat
  BY TalkSizes
<1>2. Len(d) = n /\ \A i \in 1 .. n : d[i] = Byte(t, 0 + i - 1)
  BY DEF Data
<1>3. d \in Seq(S)
  BY DEF Data
<1>4. h \in Seq(S) /\ Len(h) = Hdr
  BY <1>1 DEF HeaderBytes
<1>5. b = h \o d
  OBVIOUS
<1> HIDE DEF d, S, h
<1>6. /\ h \o d \in Seq(S)
      /\ Len(h \o d) = Len(h) + Len(d)
      /\ \A i \in 1 .. Len(h) + Len(d) : (h \o d)[i] = IF i <= Len(h) THEN h[i] ELSE d[i - Len(h)]
  BY <1>3, <1>4, ConcatProperties
<1>7. /\ b \in Seq(S) /\ Len(b) = Hdr + n
      /\ \A i \in 1 .. Hdr + n : b[i] = IF i <= Hdr THEN h[i] ELSE d[i - Hdr]
  BY <1>2, <1>4, <1>5, <1>6
<1>8. DOMAIN b = 1 .. Hdr + n
  BY <1>7, LenProperties
<1>9. ASSUME NEW i \in 0 .. n - 1
      PROVE  b[Hdr + i + 1] = Byte(t, i)
  <2>1. /\ Hdr + i + 1 \in 1 .. Hdr + n /\ ~(Hdr + i + 1 <= Hdr)
        /\ (Hdr + i + 1) - Hdr = i + 1 /\ i + 1 \in 1 .. n /\ 0 + (i + 1) - 1 = i
    BY <1>1
  <2>2. b[Hdr + i + 1] = d[(Hdr + i + 1) - Hdr]
    <3> DEFINE j == Hdr + i + 1
    <3>1. j \in 1 .. Hdr + n /\ ~(j <= Hdr)
      BY <2>1
    <3> HIDE DEF j
    <3>2. b[j] = d[j - Hdr]
      BY <1>7, <3>1
    <3> QED
      BY <3>2 DEF j
  <2>3. d[i + 1] = Byte(t, 0 + (i + 1) - 1)
    BY <1>2, <2>1
  <2> QED
    BY <2>1, <2>2, <2>3
<1> QED
  BY <1>7, <1>8, <1>9

(* k bytes stored in the buffer from to on.                                *)
LEMMA StoredFacts ==
  ASSUME DOMAIN rx = 0 .. Buf - 1, NEW to \in Nat, NEW k \in Nat, NEW bytes, DOMAIN bytes = 1 .. k,
         NEW g, g = Stored(to, bytes)
  PROVE  /\ DOMAIN g = 0 .. Buf - 1
         /\ \A i \in 0 .. Buf - 1 :
              /\ i >= to /\ i < to + k => g[i] = bytes[i - to + 1]
              /\ i < to \/ i >= to + k => g[i] = rx[i]
<1>1. Buf \in Nat
  BY TalkSizes
<1>2. DOMAIN g = 0 .. Buf - 1
  BY DEF Stored
<1>3. \A i \in 0 .. Buf - 1 : g[i] = IF i - to + 1 \in 1 .. k THEN bytes[i - to + 1] ELSE rx[i]
  BY DEF Stored
<1>4. \A i \in 0 .. Buf - 1 : (i - to + 1 \in 1 .. k) <=> (i >= to /\ i < to + k)
  BY <1>1
<1>5. \A i \in 0 .. Buf - 1 : i < to \/ i >= to + k => ~(i >= to /\ i < to + k)
  BY <1>1
<1> QED
  BY <1>2, <1>3, <1>4, <1>5

(* The first packet of a transfer brings its first n bytes of data ...     *)
LEMMA FirstStored ==
  ASSUME DOMAIN rx = 0 .. Buf - 1, NEW t, NEW n \in Nat, Hdr + n <= Buf,
         NEW g, g = Stored(0, HeaderBytes \o Data(t, 0, n))
  PROVE  DOMAIN g = 0 .. Buf - 1 /\ \A i \in 0 .. n - 1 : g[Hdr + i] = Byte(t, i)
<1> DEFINE b == HeaderBytes \o Data(t, 0, n)
<1>1. Hdr \in Nat /\ Buf \in Nat /\ Hdr + n \in Nat
  BY TalkSizes
<1>2. DOMAIN b = 1 .. Hdr + n /\ \A i \in 0 .. n - 1 : b[Hdr + i + 1] = Byte(t, i)
  BY FirstBytes
<1> HIDE DEF b
<1>3. /\ DOMAIN g = 0 .. Buf - 1
      /\ \A i \in 0 .. Buf - 1 : i >= 0 /\ i < 0 + (Hdr + n) => g[i] = b[i - 0 + 1]
  <2>1. g = Stored(0, b) /\ 0 \in Nat
    BY DEF b
  <2>2. DOMAIN b = 1 .. Hdr + n
    BY <1>2
  <2> QED
    BY <1>1, <2>1, <2>2, StoredFacts
<1>4. ASSUME NEW i \in 0 .. n - 1
      PROVE  g[Hdr + i] = Byte(t, i)
  <2>1. /\ Hdr + i \in 0 .. Buf - 1 /\ Hdr + i >= 0 /\ Hdr + i < 0 + (Hdr + n)
        /\ (Hdr + i) - 0 + 1 = Hdr + i + 1
    BY <1>1
  <2>2. g[Hdr + i] = b[Hdr + i + 1]
    BY <1>3, <2>1
  <2> QED
    BY <1>2, <2>2
<1> QED
  BY <1>3, <1>4

(* ... and the next one, behind the first c bytes, n more.                 *)
LEMMA NextStored ==
  ASSUME DOMAIN rx = 0 .. Buf - 1, NEW t, NEW c \in Nat, NEW n \in Nat, Hdr + c + n <= Buf,
         \A i \in 0 .. c - 1 : rx[Hdr + i] = Byte(t, i),
         NEW g, g = Stored(Hdr + c, Data(t, c, n))
  PROVE  DOMAIN g = 0 .. Buf - 1 /\ \A i \in 0 .. c + n - 1 : g[Hdr + i] = Byte(t, i)
<1> DEFINE b == Data(t, c, n)
<1>1. Hdr \in Nat /\ Buf \in Nat /\ Hdr + c \in Nat
  BY TalkSizes
<1>2. DOMAIN b = 1 .. n /\ \A i \in 1 .. n : b[i] = Byte(t, c + i - 1)
  BY DEF Data
<1> HIDE DEF b
<1>3. /\ DOMAIN g = 0 .. Buf - 1
      /\ \A i \in 0 .. Buf - 1 :
           /\ i >= Hdr + c /\ i < (Hdr + c) + n => g[i] = b[i - (Hdr + c) + 1]
           /\ i < Hdr + c \/ i >= (Hdr + c) + n => g[i] = rx[i]
  <2> DEFINE to == Hdr + c
  <2>1. g = Stored(to, b)
    BY DEF b
  <2>2. to \in Nat
    BY <1>1
  <2>3. DOMAIN b = 1 .. n
    BY <1>2
  <2> HIDE DEF to
  <2>4. /\ DOMAIN g = 0 .. Buf - 1
        /\ \A i \in 0 .. Buf - 1 :
             /\ i >= to /\ i < to + n => g[i] = b[i - to + 1]
             /\ i < to \/ i >= to + n => g[i] = rx[i]
    BY <2>1, <2>2, <2>3, StoredFacts
  <2> QED
    BY <2>4 DEF to
<1>4. ASSUME NEW i \in 0 .. c + n - 1
      PROVE  g[Hdr + i] = Byte(t, i)
  <2>1. Hdr + i \in 0 .. Buf - 1 /\ i \in Nat
    BY <1>1
  <2>2. CASE i < c
    <3>1. Hdr + i < Hdr + c /\ i \in 0 .. c - 1
      BY <1>1, <2>1, <2>2
    <3> QED
      BY <1>3, <2>1, <3>1
  <2>3. CASE ~(i < c)
    <3>1. /\ Hdr + i >= Hdr + c /\ Hdr + i < (Hdr + c) + n
          /\ (Hdr + i) - (Hdr + c) + 1 = i - c + 1
          /\ i - c + 1 \in 1 .. n /\ c + (i - c + 1) - 1 = i
      BY <1>1, <2>1, <2>3
    <3>2. g[Hdr + i] = b[i - c + 1]
      BY <1>3, <2>1, <3>1
    <3>3. b[i - c + 1] = Byte(t, c + (i - c + 1) - 1)
      BY <1>2, <3>1
    <3> QED
      BY <3>1, <3>2, <3>3
  <2> QED
    BY <2>2, <2>3
<1> QED
  BY <1>3, <1>4

-----------------------------------------------------------------------------
(* Every step keeps the conversation in order.                             *)

(* The start of a transfer, seen from the device.                          *)
Started(header, n) ==
  LET write == header.msgId = "DEV_DEP_MSG_OUT" IN
  /\ n = IF write THEN Lesser(header.size, First) ELSE 0
  /\ outHeader' = header
  /\ rxCount' = n
  /\ rx' = Stored(0, HeaderBytes \o Data(header.bTag, 0, n))
  /\ rxFinished' <=> (~write \/ header.size <= First)
  /\ rxState' = IF ~write \/ header.size <= First THEN "IDLE" ELSE "RUN"
  /\ write => ~hostRead' /\ (hostWrite' => header.size <= First)
  /\ ~write => ~hostWrite' /\ inHeader' = header
  /\ xfer' = [bTag |-> header.bTag, sent |-> n, size |-> IF write THEN header.size ELSE 0]
  /\ owed' = IF write THEN [bTag |-> header.bTag, sent |-> 0, size |-> header.size] ELSE owed
  /\ pc = "poll" /\ pc' = "poll" /\ pma = NoPacket /\ UNCHANGED txVars
  /\ header.size \in Sizes /\ header.size \in Nat /\ header.bTag \in Nat /\ header.bTag # 0
  /\ owed = NoXfer

LEMMA StartFacts ==
  ASSUME Orderly, RxInv, TxInv, TalkInv, NEW header \in Header, HostSends(header)
  PROVE  \E n \in Nat : Started(header, n)
<1> DEFINE write == header.msgId = "DEV_DEP_MSG_OUT"
           n == IF write THEN Lesser(header.size, First) ELSE 0
           bytes == HeaderBytes \o Data(header.bTag, 0, n)
<1>1. /\ xfer.sent = xfer.size
      /\ owed = NoXfer /\ ~hostRead /\ pc = "poll" /\ pma = NoPacket
      /\ header.msgId \in {"DEV_DEP_MSG_OUT", "REQUEST_DEV_DEP_MSG_IN"}
      /\ header.bTag # xfer.bTag /\ header.inverseOk
      /\ header.bTag # 0 /\ header.size # 0
      /\ EP1_OUT_Callback(header, bytes)
      /\ xfer' = [bTag |-> header.bTag, sent |-> n, size |-> IF write THEN header.size ELSE 0]
      /\ owed' = IF write THEN [xfer' EXCEPT !.sent = 0] ELSE owed
  BY DEF HostSends, Orderly
<1>2. header.size \in Nat /\ header.size \in Sizes /\ header.bTag \in Nat
  BY <1>1, TalkHeader
<1>3. n \in Nat /\ n <= First /\ (write => (n < First \/ header.size <= First <=> header.size <= First))
  <2>1. First \in Nat
    BY TalkSizes
  <2>2. CASE write /\ header.size < First
    BY <1>2, <2>1, <2>2 DEF Lesser
  <2>3. CASE write /\ ~(header.size < First)
    BY <1>2, <2>1, <2>3 DEF Lesser
  <2>4. CASE ~write
    BY <2>1, <2>4
  <2> QED
    BY <2>2, <2>3, <2>4
<1>4. ~write => n = 0
  OBVIOUS
<1>5. owed' = IF write THEN [bTag |-> header.bTag, sent |-> 0, size |-> header.size] ELSE owed
  <2> HIDE DEF n
  <2> QED
    BY <1>1
<1>6. Len(bytes) = Hdr + n
  <2> HIDE DEF n
  <2> QED
    BY <1>3, FirstBytes
<1>7. rxState = "IDLE"
  <2>1. ~(xfer.sent < xfer.size)
    BY <1>1 DEF RxInv, XferType
  <2> QED
    BY <2>1 DEF TalkInv, Receiving, RxInv, RxType
<1>8. OutIdle(header, bytes) /\ UNCHANGED <<txVars, pc>>
  <2>1. ~OutRun(bytes)
    BY <1>7 DEF OutRun
  <2> QED
    BY <1>1, <2>1 DEF EP1_OUT_Callback
<1>9. DataCount(Len(bytes)) = n
  <2> HIDE DEF n, bytes
  <2>1. Hdr \in Nat /\ M \in Nat /\ n < M /\ (Hdr + n) - Hdr = n
    BY <1>3, TalkSizes
  <2>2. n % M = n
    BY <1>3, <2>1
  <2> QED
    BY <1>6, <2>1, <2>2 DEF DataCount
<1> HIDE DEF n
<1>10. header.bTag # outHeader.bTag
  BY <1>1 DEF TalkInv, Receiving
<1>11. /\ rx' = Stored(0, bytes) /\ rxCount' = n /\ outHeader' = header
       /\ rxFinished' = FirstIsAll(header.size, n)
       /\ rxState' = IF rxFinished' THEN "IDLE" ELSE "RUN"
       /\ Analized(rxFinished', header, "NONE")
  <2> HIDE DEF bytes
  <2> QED
    BY <1>1, <1>8, <1>9, <1>10 DEF OutIdle
<1>12. rxFinished' <=> (~write \/ header.size <= First)
  <2>1. First \in Nat \ {0}
    BY TalkSizes
  <2>2. CASE write
    BY <1>3, <1>11, <2>2 DEF FirstIsAll
  <2>3. CASE ~write
    <3>1. n < First
      BY <1>4, <2>1, <2>3
    <3> QED
      BY <1>11, <2>3, <3>1 DEF FirstIsAll
  <2> QED
    BY <2>2, <2>3
<1>13. write => ~hostRead' /\ (hostWrite' => header.size <= First)
  <2> SUFFICES ASSUME write PROVE ~hostRead' /\ (hostWrite' => header.size <= First)
    OBVIOUS
  <2>1. CASE rxFinished'
    BY <1>11, <1>12, <2>1 DEF Analized, tmcCmdAnalize
  <2>2. CASE ~rxFinished'
    <3>1. hostRead' = hostRead /\ hostWrite' = hostWrite
      BY <1>11, <2>2 DEF Analized, flags
    <3>2. ~hostWrite
      BY <1>1 DEF TalkInv, Receiving
    <3> QED
      BY <1>1, <3>1, <3>2
  <2> QED
    BY <2>1, <2>2
<1>14. ~write => ~hostWrite' /\ inHeader' = header
  <2> SUFFICES ASSUME ~write PROVE ~hostWrite' /\ inHeader' = header
    OBVIOUS
  <2>1. header.msgId = "REQUEST_DEV_DEP_MSG_IN" /\ rxFinished'
    BY <1>1, <1>12
  <2> QED
    BY <1>11, <2>1 DEF Analized, tmcCmdAnalize
<1>15. rxState' = IF ~write \/ header.size <= First THEN "IDLE" ELSE "RUN"
  BY <1>11, <1>12
<1>16. Started(header, n)
  <2>1. n = IF write THEN Lesser(header.size, First) ELSE 0
    BY DEF n
  <2>2. pc' = "poll" /\ UNCHANGED txVars
    BY <1>1, <1>8
  <2> QED
    BY <1>1, <1>2, <1>5, <1>11, <1>12, <1>13, <1>14, <1>15, <2>1, <2>2 DEF Started
<1> QED
  BY <1>3, <1>16

LEMMA SendsTalk ==
  ASSUME Orderly, RxInv, TxInv, TalkInv, NEW header \in Header, HostSends(header)
  PROVE  TalkInv'
<1>1. PICK n \in Nat : Started(header, n)
  BY StartFacts
<1> DEFINE write == header.msgId = "DEV_DEP_MSG_OUT"
<1>2. /\ First \in Nat \ {0} /\ Hdr \in Nat /\ Buf \in Nat
      /\ header.size \in Nat /\ header.size \in Sizes /\ Hdr + header.size < Buf
      /\ header.bTag \in Nat /\ header.bTag # 0
  BY <1>1, TalkSizes DEF Started, Orderly
<1>3. n = IF write THEN Lesser(header.size, First) ELSE 0
  BY <1>1 DEF Started
<1>4. /\ write => n <= header.size /\ (header.size <= First <=> n = header.size)
      /\ Hdr + n <= Buf
  BY <1>2, <1>3 DEF Lesser
<1>5. DOMAIN rx' = 0 .. Buf - 1 /\ \A i \in 0 .. n - 1 : rx'[Hdr + i] = Byte(header.bTag, i)
  BY <1>1, <1>4, FirstStored DEF Started, TalkInv, Receiving
<1>6. Received(n)'
  BY <1>1, <1>5 DEF Started, Received
<1>7. /\ outHeader' = header /\ rxCount' = n
      /\ rxFinished' <=> (~write \/ header.size <= First)
      /\ rxState' = IF ~write \/ header.size <= First THEN "IDLE" ELSE "RUN"
      /\ write => ~hostRead' /\ (hostWrite' => header.size <= First)
      /\ ~write => ~hostWrite' /\ inHeader' = header
      /\ pc' = "poll" /\ owed = NoXfer
  BY <1>1 DEF Started
<1>8. /\ xfer'.bTag = header.bTag /\ xfer'.sent = n
      /\ xfer'.size = IF write THEN header.size ELSE 0
  BY <1>1 DEF Started
<1>9. /\ write => owed'.bTag = header.bTag /\ owed'.size = header.size /\ owed' # NoXfer
      /\ ~write => owed' = NoXfer
  BY <1>1, <1>2 DEF Started, NoXfer
<1>10. (xfer'.sent < xfer'.size) <=> (rxState' = "RUN")
  BY <1>2, <1>3, <1>4, <1>7, <1>8
<1>11. rxState' = "RUN" => Running'
  <2> SUFFICES ASSUME rxState' = "RUN" PROVE Running'
    OBVIOUS
  <2>1. write /\ ~(header.size <= First)
    BY <1>7
  <2>2. ~rxFinished' /\ ~hostRead' /\ ~hostWrite'
    BY <1>7, <2>1
  <2>3. Received(xfer.sent)'
    BY <1>6, <1>8 DEF Received
  <2> QED
    BY <1>7, <1>8, <1>9, <2>1, <2>2, <2>3 DEF Running
<1>12. owed' # NoXfer => Owed'
  <2> SUFFICES ASSUME write PROVE Owed'
    BY <1>9
  <2>1. ASSUME rxState' = "IDLE" PROVE Received(outHeader.size)'
    <3>1. n = header.size
      BY <1>4, <1>7, <2>1
    <3> QED
      BY <1>6, <1>7, <3>1 DEF Received
  <2> QED
    BY <1>2, <1>7, <1>9, <2>1 DEF Owed
<1>13. hostWrite' \/ pc' = "get" => owed' # NoXfer /\ rxState' = "IDLE"
  BY <1>7, <1>9
<1>14. Receiving'
  BY <1>5, <1>7, <1>8, <1>10, <1>11, <1>12, <1>13 DEF Receiving
<1>15. Sending'
  <2>1. pma' = pma /\ gTxFinished' = gTxFinished /\ read' = read /\ pma = NoPacket
    BY <1>1 DEF Started, txVars
  <2>2. hostRead' => inHeader'.bTag = xfer'.bTag
    BY <1>7, <1>8
  <2>3. read \in Nat
    BY DEF TalkInv, Sending
  <2> QED
    BY <1>7, <2>1, <2>2, <2>3 DEF Sending
<1> QED
  BY <1>14, <1>15 DEF TalkInv

LEMMA ContinuesTalk ==
  ASSUME Orderly, RxInv, TxInv, TalkInv, NEW header \in Header, HostContinues(header)
  PROVE  TalkInv'
<1> DEFINE n == Lesser(xfer.size - xfer.sent, Pkg)
           bytes == Data(xfer.bTag, xfer.sent, n)
<1>1. /\ xfer.sent < xfer.size
      /\ EP1_OUT_Callback(header, bytes)
      /\ xfer' = [xfer EXCEPT !.sent = @ + n]
      /\ owed' = owed
  BY DEF HostContinues
<1>2. xfer.sent \in Nat /\ xfer.size \in Nat /\ xfer \in [bTag : Nat, size : Nat, sent : Nat]
  BY DEF RxInv, XferType
<1>3. n \in Nat /\ xfer.sent + n <= xfer.size
  BY <1>1, <1>2, TalkSizes DEF Lesser
<1>4. Len(bytes) = n
  <2> HIDE DEF n
  <2> QED
    BY <1>2, <1>3 DEF Data
<1> HIDE DEF n
<1>5. rxState = "RUN" /\ Running
  BY <1>1 DEF TalkInv, Receiving
<1>6. Owed /\ outHeader.bTag = xfer.bTag /\ DOMAIN rx = 0 .. Buf - 1
  BY <1>5 DEF TalkInv, Receiving, Running
<1>7. /\ outHeader.msgId = "DEV_DEP_MSG_OUT" /\ outHeader.size = xfer.size
      /\ rxCount = xfer.sent /\ Received(xfer.sent)
      /\ ~rxFinished /\ ~hostRead /\ ~hostWrite /\ pc = "poll" /\ owed # NoXfer
      /\ xfer.size \in Sizes
  BY <1>5, <1>6 DEF Running, Owed
<1>8. Hdr \in Nat /\ Buf \in Nat /\ M \in Nat /\ Buf < M /\ Hdr + xfer.size < Buf
  BY <1>7, TalkSizes DEF Orderly
<1>9. /\ (Hdr + rxCount + n) % M = Hdr + xfer.sent + n
      /\ (Hdr + rxCount) % M = Hdr + xfer.sent
      /\ (rxCount + n) % M = xfer.sent + n
      /\ Hdr + xfer.sent + n < Buf
  <2>1. ASSUME NEW x \in Nat, x < M PROVE x % M = x
    BY <1>8, <2>1
  <2>2. /\ Hdr + xfer.sent + n \in Nat /\ Hdr + xfer.sent + n < Buf
        /\ Hdr + xfer.sent \in Nat /\ xfer.sent + n \in Nat
    BY <1>2, <1>3, <1>8
  <2>3. Hdr + xfer.sent + n < M /\ Hdr + xfer.sent < M /\ xfer.sent + n < M
    BY <1>2, <1>3, <1>8, <2>2
  <2> QED
    BY <1>7, <2>1, <2>2, <2>3
<1>10. OutRun(bytes) /\ UNCHANGED <<txVars, pc>>
  <2>1. ~OutIdle(header, bytes)
    BY <1>5 DEF OutIdle
  <2> QED
    BY <1>1, <2>1 DEF EP1_OUT_Callback
<1>11. ~NoRoom(Len(bytes))
  <2>1. ~((Hdr + rxCount + n) % M >= Buf)
    BY <1>2, <1>3, <1>8, <1>9
  <2> QED
    BY <1>4, <2>1 DEF NoRoom
<1> DEFINE c == xfer.sent + n
           complete == outHeader.size <= c
<1>12. /\ rx' = Stored(Hdr + xfer.sent, bytes) /\ rxCount' = c
       /\ rxFinished' = (rxFinished \/ complete)
       /\ rxState' = IF complete THEN "IDLE" ELSE "RUN"
       /\ Analized(rxFinished', outHeader, IF complete THEN "NONE" ELSE lastError)
       /\ outHeader' = outHeader
  <2> HIDE DEF bytes
  <2> QED
    BY <1>4, <1>9, <1>10, <1>11 DEF OutRun, Complete, StateAfterRun
<1>13. complete <=> c = xfer.size
  BY <1>2, <1>3, <1>7
<1>14. rxFinished' <=> complete
  BY <1>7, <1>12
<1>15. ~hostRead' /\ (hostWrite' => complete)
  <2>1. CASE rxFinished'
    BY <1>7, <1>12, <1>14, <2>1 DEF Analized, tmcCmdAnalize
  <2>2. CASE ~rxFinished'
    BY <1>7, <1>12, <2>2 DEF Analized, flags
  <2> QED
    BY <2>1, <2>2
<1>16. xfer'.sent = c /\ xfer'.size = xfer.size /\ xfer'.bTag = xfer.bTag
  BY <1>1, <1>2
<1>17. DOMAIN rx' = 0 .. Buf - 1 /\ \A i \in 0 .. c - 1 : rx'[Hdr + i] = Byte(xfer.bTag, i)
  <2>1. \A i \in 0 .. xfer.sent - 1 : rx[Hdr + i] = Byte(xfer.bTag, i)
    BY <1>6, <1>7 DEF Received
  <2>2. Hdr + xfer.sent + n <= Buf
    BY <1>2, <1>3, <1>8, <1>9
  <2> QED
    BY <1>2, <1>3, <1>6, <1>12, <2>1, <2>2, NextStored
<1> HIDE DEF c, complete
<1>18. \A i \in 0 .. c - 1 : rx'[Hdr + i] = Byte(outHeader'.bTag, i)
  BY <1>6, <1>12, <1>17
<1>19. (xfer'.sent < xfer'.size) <=> (rxState' = "RUN")
  <2>1. c \in Nat /\ c <= xfer.size
    BY <1>2, <1>3 DEF c
  <2> QED
    BY <1>2, <1>12, <1>13, <1>16, <2>1
<1>20. pc' = "poll" /\ UNCHANGED txVars
  BY <1>7, <1>10
<1>21. rxState' = "RUN" => Running'
  <2> SUFFICES ASSUME rxState' = "RUN" PROVE Running'
    OBVIOUS
  <2>1. ~complete
    BY <1>12
  <2>2. Received(xfer.sent)'
    BY <1>16, <1>18 DEF Received
  <2> QED
    BY <1>1, <1>7, <1>12, <1>14, <1>15, <1>16, <1>20, <2>1, <2>2 DEF Running
<1>22. Owed'
  <2>1. ASSUME rxState' = "IDLE" PROVE Received(outHeader.size)'
    <3>1. c = outHeader.size
      BY <1>7, <1>12, <1>13, <2>1
    <3> QED
      BY <1>12, <1>18, <3>1 DEF Received
  <2> QED
    BY <1>1, <1>6, <1>12, <1>15, <1>20, <2>1 DEF Owed
<1>23. Receiving'
  <2>1. hostWrite' \/ pc' = "get" => owed' # NoXfer /\ rxState' = "IDLE"
    BY <1>1, <1>7, <1>12, <1>15, <1>20
  <2> QED
    BY <1>6, <1>12, <1>16, <1>17, <1>19, <1>20, <1>21, <1>22, <2>1 DEF Receiving
<1>24. Sending'
  BY <1>7, <1>15, <1>16, <1>20 DEF TalkInv, Sending, txVars
<1> QED
  BY <1>23, <1>24 DEF TalkInv

(* Nothing of the receiving side but rxFinished and rxCount changes while  *)
(* no transfer is under way.                                               *)
LEMMA ReceivingKept ==
  ASSUME Receiving, UNCHANGED <<rxState, outHeader, rx, xfer, owed>>,
         rxState = "RUN" => UNCHANGED <<rxFinished, rxCount, hostRead, hostWrite, pc>>,
         hostWrite' => hostWrite, pc' \in {"poll", "get", "wait", "valid"},
         pc' = "get" => owed # NoXfer /\ rxState = "IDLE" /\ ~hostWrite',
         owed # NoXfer => ~hostRead' /\ pc' \in {"poll", "get"}
  PROVE  Receiving'
<1>1. rxState = "RUN" => Running'
  BY DEF Receiving, Running, Received
<1>2. owed # NoXfer => Owed'
  BY DEF Receiving, Owed, Received
<1>3. hostWrite' \/ pc' = "get" => owed # NoXfer /\ rxState = "IDLE"
  BY DEF Receiving
<1> QED
  BY <1>1, <1>2, <1>3 DEF Receiving

LEMMA AbortTalk ==
  ASSUME Orderly, RxInv, TxInv, TalkInv, TMC_initiate_abort_bulk_out
  PROVE  TalkInv'
<1>1. /\ rxState' = "IDLE"
      /\ xfer' = [NoXfer EXCEPT !.bTag = xfer.bTag]
      /\ owed' = IF xfer.sent < xfer.size THEN NoXfer ELSE owed
      /\ UNCHANGED <<rxFinished, rxCount, outHeader, rx, inHeader, hostRead, hostWrite>>
      /\ UNCHANGED <<gTxFinished, tx, pma, read, pc>>
  BY DEF TMC_initiate_abort_bulk_out, flags, txVars
<1>2. xfer'.bTag = xfer.bTag /\ xfer'.size = 0 /\ xfer'.sent = 0
  BY <1>1 DEF NoXfer
<1>3. rxState \in {"IDLE", "RUN"}
  BY DEF RxInv, RxType
<1>4. Sending'
  BY <1>1, <1>2 DEF TalkInv, Sending
<1>5. CASE rxState = "RUN"
  <2>1. owed' = NoXfer /\ ~hostWrite' /\ pc' = "poll"
    BY <1>1, <1>5 DEF TalkInv, Receiving, Running
  <2>2. Receiving'
    BY <1>1, <1>2, <2>1 DEF TalkInv, Receiving
  <2> QED
    BY <1>4, <2>2 DEF TalkInv
<1>6. CASE rxState = "IDLE"
  <2>1. owed' = owed
    BY <1>1, <1>6 DEF TalkInv, Receiving
  <2>2. owed # NoXfer => Owed'
    BY <1>1, <1>6, <2>1 DEF TalkInv, Receiving, Owed, Received
  <2>3. Receiving'
    BY <1>1, <1>2, <1>6, <2>1, <2>2 DEF TalkInv, Receiving
  <2> QED
    BY <1>4, <2>3 DEF TalkInv
<1> QED
  BY <1>3, <1>5, <1>6

LEMMA GetTalk ==
  ASSUME Orderly, RxInv, TxInv, TalkInv, PollWrite \/ tmcGetDat
  PROVE  TalkInv'
<1>1. UNCHANGED <<rxState, outHeader, rx, xfer, inHeader, hostRead, gTxFinished, tx, pma, read>>
  BY DEF PollWrite, tmcGetDat, rxVars, flags, txVars, host
<1>2. pc \in {"poll", "get"} /\ pc' \in {"poll", "get"}
  BY DEF PollWrite, tmcGetDat
<1>3. Sending'
  BY <1>1, <1>2 DEF TalkInv, Sending
<1>4. CASE PollWrite
  <2>1. /\ UNCHANGED <<rxFinished, rxCount, owed>> /\ hostWrite /\ ~hostWrite' /\ pc' = "get"
    BY <1>4 DEF PollWrite, rxVars, host
  <2>2. owed # NoXfer /\ rxState = "IDLE"
    BY <2>1 DEF TalkInv, Receiving
  <2>3. ~hostRead'
    BY <1>1, <2>2 DEF TalkInv, Receiving, Owed
  <2>4. Receiving /\ rxState # "RUN"
    BY <2>2 DEF TalkInv
  <2>5. Receiving'
    BY <1>1, <2>1, <2>2, <2>3, <2>4, ReceivingKept
  <2> QED
    BY <1>3, <2>5 DEF TalkInv
<1>5. CASE tmcGetDat
  <2>1. owed' = NoXfer /\ pc = "get" /\ pc' = "poll" /\ hostWrite' = hostWrite
    BY <1>5 DEF tmcGetDat, flags
  <2>2. rxState = "IDLE"
    BY <2>1 DEF TalkInv, Receiving
  <2>3. ~hostWrite
    BY <2>1 DEF TalkInv, Receiving
  <2>4. Receiving'
    BY <1>1, <2>1, <2>2, <2>3 DEF TalkInv, Receiving
  <2> QED
    BY <1>3, <2>4 DEF TalkInv
<1> QED
  BY <1>4, <1>5

LEMMA SendTalk ==
  ASSUME Orderly, RxInv, TxInv, TalkInv,
         (\E len \in Lens : PollRead(len)) \/ SendTimeout \/ SendReady \/ SendValid
  PROVE  TalkInv'
<1>1. /\ UNCHANGED <<rxState, rxFinished, rxCount, outHeader, rx, inHeader, hostWrite, xfer, owed>>
      /\ pc' \in {"poll", "wait", "valid"}
  BY DEF PollRead, SendTimeout, SendReady, SendValid, rxVars, flags, host
<1>2. (pc = "poll" /\ hostRead) \/ pc \in {"wait", "valid"}
  BY DEF PollRead, SendTimeout, SendReady, SendValid
<1>3. owed = NoXfer /\ rxState # "RUN"
  BY <1>2 DEF TalkInv, Receiving, Owed, Running
<1>4. Receiving'
  BY <1>1, <1>3, ReceivingKept DEF TalkInv
<1>5. inHeader.bTag = xfer.bTag
  BY <1>2 DEF TalkInv, Sending
<1>6. tx \in TxLocals /\ read \in Nat /\ gTxFinished \in BOOLEAN /\ tx.at \in Nat
  BY DEF TalkInv, Sending, TxInv, TxLocals
<1>7. ASSUME NEW len \in Lens, PollRead(len) PROVE Sending'
  <2>1. /\ UNCHANGED <<gTxFinished, pma, read>> /\ pc' = "wait"
        /\ tx' = [NoTx EXCEPT !.len = len]
    BY <1>7 DEF PollRead
  <2>2. tx'.started = FALSE
    BY <2>1 DEF NoTx
  <2> QED
    BY <1>1, <1>5, <2>1, <2>2 DEF TalkInv, Sending
<1>8. ASSUME SendTimeout PROVE Sending'
  <2>1. UNCHANGED <<gTxFinished, pma, read>> /\ pc' = "poll"
    BY <1>8 DEF SendTimeout
  <2> QED
    BY <1>1, <1>5, <2>1 DEF TalkInv, Sending
<1>9. ASSUME SendReady PROVE Sending'
  <2>1. /\ pc = "wait" /\ gTxFinished /\ pc' = "valid" /\ gTxFinished' = FALSE /\ pma' = pma
        /\ read' = IF tx.started THEN read ELSE 0
        /\ tx' = [tx EXCEPT !.count = txCount, !.started = TRUE,
                      !.xmit = IF tx.started THEN @ ELSE Lesser(outHeader.size, tx.len),
                      !.tag = inHeader.bTag]
    BY <1>9 DEF SendReady
  <2>2. tx'.at = tx.at /\ tx'.tag = inHeader.bTag
    BY <1>6, <2>1 DEF TxLocals
  <2>3. pma = NoPacket
    BY <2>1 DEF TalkInv, Sending
  <2>4. tx.at = read'
    <3>1. CASE tx.started
      <4>1. tx.at = read + 0
        BY <2>1, <2>3, <3>1 DEF TalkInv, Sending
      <4> QED
        BY <1>6, <2>1, <3>1, <4>1
    <3>2. CASE ~tx.started
      <4>1. ~(tx.at > 0)
        BY <3>2 DEF TxInv
      <4> QED
        BY <1>6, <2>1, <3>2, <4>1
    <3> QED
      BY <3>1, <3>2
  <2>5. read' \in Nat
    BY <1>6, <2>4
  <2> QED
    BY <1>1, <1>5, <2>1, <2>2, <2>3, <2>4, <2>5 DEF Sending
<1>10. ASSUME SendValid PROVE Sending'
  <2> DEFINE packet == Packet(tx.at = 0)
             at == tx.at + packet.n
  <2>1. /\ pc = "valid" /\ pma' = packet /\ UNCHANGED <<gTxFinished, read>>
        /\ pc' = IF at < tx.xmit THEN "wait" ELSE "poll"
        /\ tx' = IF at < tx.xmit THEN [tx EXCEPT !.at = at] ELSE NoTx
    BY <1>10 DEF SendValid
  <2>2. ~gTxFinished /\ tx.at = read /\ tx.tag = xfer.bTag
    BY <2>1 DEF TalkInv, Sending
  <2>3. packet.n \in Nat
    <3>1. packet.n = Lesser(tx.xmit - tx.at, IF tx.at = 0 THEN First ELSE Pkg)
      BY DEF Packet
    <3>2. tx.xmit \in Nat /\ (tx.at > 0 => tx.at < tx.xmit)
      BY DEF TxInv, TxLocals
    <3> HIDE DEF packet
    <3> QED
      BY <1>6, <3>1, <3>2, TalkSizes DEF Lesser
  <2>4. /\ packet.from = read /\ (packet.hdr <=> read = 0)
        /\ packet.hdr => packet.tag = xfer.bTag
    BY <2>2 DEF Packet
  <2>5. pc' = "wait" => tx'.at = read + packet.n
    <3> HIDE DEF packet
    <3> QED
      BY <1>6, <2>1, <2>2 DEF TxLocals
  <2> HIDE DEF packet
  <2>6. pc' # "valid" /\ UNCHANGED <<hostRead, inHeader, xfer>>
    BY <1>1, <1>10, <2>1 DEF SendValid, flags
  <2>7. packet # NoPacket
    <3>1. TxInv' /\ pc' # "valid" /\ ~gTxFinished'
      BY <1>10, <2>1, <2>2, <2>6, TxStep DEF Next
    <3> QED
      BY <2>1, <3>1 DEF TxInv
  <2> QED
    BY <1>5, <1>6, <2>1, <2>2, <2>3, <2>4, <2>5, <2>6, <2>7 DEF TalkInv, Sending
<1> QED
  BY <1>4, <1>7, <1>8, <1>9, <1>10 DEF TalkInv

LEMMA InTalk ==
  ASSUME Orderly, RxInv, TxInv, TalkInv, EP2_IN_Callback
  PROVE  TalkInv'
<1>1. /\ pma # NoPacket /\ pma' = NoPacket /\ read' = read + pma.n /\ gTxFinished' = TRUE
      /\ UNCHANGED <<rxState, rxFinished, rxCount, outHeader, rx, inHeader, hostRead, hostWrite>>
      /\ UNCHANGED <<tx, pc, xfer, owed>>
  BY DEF EP2_IN_Callback, rxVars, flags, host
<1>2. Receiving'
  BY <1>1 DEF TalkInv, Receiving, Running, Owed, Received
<1>3. read \in Nat /\ pma.n \in Nat /\ read' \in Nat /\ pc # "valid"
  BY <1>1 DEF TalkInv, Sending
<1>4. pc = "wait" /\ tx.started => tx.at = read' + 0
  BY <1>1, <1>3 DEF TalkInv, Sending
<1>5. Sending'
  BY <1>1, <1>3, <1>4 DEF TalkInv, Sending
<1> QED
  BY <1>2, <1>5 DEF TalkInv

LEMMA TalkStep ==
  ASSUME Orderly, RxInv, TxInv, TalkInv, [Next]_vars
  PROVE  TalkInv'
<1>1. CASE UNCHANGED vars
  BY <1>1 DEF vars, rxVars, flags, txVars, host, TalkInv, Receiving, Sending, Running, Owed, Received
<1>2. CASE Next
  <2>1. ~RESET_Callback
    BY DEF Orderly, RESET_Callback
  <2> QED
    BY <1>2, <2>1, SendsTalk, ContinuesTalk, AbortTalk, GetTalk, SendTalk, InTalk DEF Next
<1> QED
  BY <1>1, <1>2

LEMMA TalkInit == Init => TalkInv
<1> SUFFICES ASSUME Init PROVE TalkInv
  OBVIOUS
<1>1. /\ rxState = "IDLE" /\ outHeader = NoHeader /\ rx = [i \in 0 .. Buf - 1 |-> Junk]
      /\ hostRead = FALSE /\ hostWrite = FALSE /\ pc = "poll" /\ pma = NoPacket /\ read = 0
      /\ xfer = NoXfer /\ owed = NoXfer
  BY DEF Init
<1>2. Receiving
  BY <1>1 DEF Receiving, NoHeader, NoXfer
<1>3. Sending
  BY <1>1 DEF Sending
<1> QED
  BY <1>2, <1>3 DEF TalkInv

LEMMA TalkInvariant ==
  ASSUME Orderly
  PROVE  Spec => [](RxInv /\ TxInv /\ TalkInv)
<1>1. Init => RxInv /\ TxInv /\ TalkInv
  BY RxInit, TxInit, TalkInit
<1>2. RxInv /\ TxInv /\ TalkInv /\ [Next]_vars => (RxInv /\ TxInv /\ TalkInv)'
  BY RxStep, TxStep, TalkStep
<1> QED
  BY <1>1, <1>2, PTL DEF Spec

(* In an orderly conversation the host reads a response in order, behind a *)
(* header with the tag of its request, whatever the sizes of packets,      *)
(* header and response are and whenever tmcSendDat gives up.               *)
THEOREM ResponsesInOrder ==
  ASSUME Orderly
  PROVE  Spec => ResponseInOrder
<1>1. RxInv /\ TxInv /\ TalkInv /\ [Next]_vars =>
        [EP2_IN_Callback => /\ pma.from = read
                            /\ pma.hdr <=> read = 0
                            /\ pma.hdr => pma.tag = xfer.bTag]_vars
  BY DEF TalkInv, Sending, EP2_IN_Callback
<1> QED
  BY <1>1, TalkInvariant, PTL DEF Spec, ResponseInOrder

(* ... and a message that the application's buffer holds is handed over    *)
(* whole: the bytes of all its packets, in order, and no others.           *)
THEOREM MessagesAreWhole ==
  ASSUME Orderly, \A s \in Sizes : s <= BufSize
  PROVE  Spec => MessageIsWhole
<1>1. ASSUME RxInv, TxInv, TalkInv, tmcGetDat, GetCount > 0
      PROVE  GetBytes = Data(owed.bTag, 0, owed.size)
  <2>1. pc = "get" /\ rxFinished
    BY <1>1 DEF tmcGetDat, GetCount
  <2>2. owed # NoXfer /\ rxState = "IDLE" /\ Owed
    BY <1>1, <2>1 DEF TalkInv, Receiving
  <2> DEFINE k == owed.size
  <2>3. /\ GetCount = k /\ k \in Sizes /\ k <= BufSize /\ Hdr + k < Buf
        /\ \A i \in 0 .. k - 1 : rx[Hdr + i] = Byte(owed.bTag, i)
    BY <2>1, <2>2 DEF Owed, GetCount, Received, Orderly
  <2>4. k \in Nat /\ Hdr \in Nat /\ Buf \in Nat
    <3>1. \A x \in Sizes : x \in Nat
      BY ValueAssumption, SizeAssumption
    <3> QED
      BY <2>3, <3>1, TalkSizes
  <2>5. GetBytes = [i \in 1 .. k |-> IF Hdr + i - 1 < Buf THEN rx[Hdr + i - 1] ELSE Junk]
    BY <2>3 DEF GetBytes
  <2> HIDE DEF k
  <2>6. ASSUME NEW i \in 1 .. k
        PROVE  (IF Hdr + i - 1 < Buf THEN rx[Hdr + i - 1] ELSE Junk) = Byte(owed.bTag, 0 + i - 1)
    <3>1. /\ Hdr + i - 1 = Hdr + (i - 1) /\ i - 1 \in 0 .. k - 1 /\ 0 + i - 1 = i - 1
          /\ Hdr + i - 1 < Buf
      BY <2>3, <2>4
    <3> QED
      BY <2>3, <3>1
  <2>7. GetBytes = [i \in 1 .. k |-> Byte(owed.bTag, 0 + i - 1)]
    BY <2>5, <2>6
  <2> QED
    BY <2>7 DEF Data, k
<1>2. RxInv /\ TxInv /\ TalkInv /\ [Next]_vars =>
        [tmcGetDat /\ GetCount > 0 => GetBytes = Data(owed.bTag, 0, owed.size)]_vars
  BY <1>1
<1> QED
  BY <1>2, TalkInvariant, PTL DEF Spec, MessageIsWhole
=============================================================================
