----------------------------- MODULE UsbControl -----------------------------
(***************************************************************************)
(* The control endpoint of the USB device: Utilities/Usb/Src/usb_core.c,   *)
(* the requests of usb_prop.c, the interrupt of usb_int.c and usb_istr.c,  *)
(* and the power states of usb_pwr.c and hw_config.c.                      *)
(*                                                                         *)
(* External: the host, and the endpoint registers.  A register has a       *)
(* status for each direction; a transaction in a direction that is VALID   *)
(* leaves it NAK and sets CTR, a SETUP is taken at any time but while the  *)
(* last one waits to be served, and makes both directions NAK.  A bus      *)
(* reset leaves CTR as it is.                                              *)
(***************************************************************************)
EXTENDS Integers, Sequences

CONSTANTS MaxPacketSize,  \* Device_Property.MaxPacketSize
          Requests,       \* the requests the host makes
          Paced,          \* it lets the device serve a transaction before the next SETUP or reset
          GiveUps         \* bound on the transfers the host gives up and the resets

(* A request: name is bRequest, to the recipient or the descriptor, value  *)
(* what wValue or wIndex says beside, dir the direction of its data and    *)
(* wLength their number.                                                   *)
Endpoints == {"EP0", "EP1_OUT", "EP2_IN"}     \* those that are not disabled
ClassSize ==
  [INITIATE_ABORT_BULK_OUT |-> 2, CHECK_ABORT_BULK_OUT_STATUS |-> 8,
   INITIATE_ABORT_BULK_IN |-> 2, CHECK_ABORT_BULK_IN_STATUS |-> 8,
   INITIATE_CLEAR |-> 1, CHECK_CLEAR_STATUS |-> 2, GET_CAPABILITIES |-> 24]
StringSize == <<4, 20, 18, 26, 16, 16>>

ASSUME RequestAssumption ==
  /\ MaxPacketSize \in Nat \ {0} /\ GiveUps \in Nat /\ Paced \in BOOLEAN
  /\ \A r \in Requests : /\ DOMAIN r = {"name", "to", "value", "dir", "wLength"}
                         /\ r.dir \in {"IN", "OUT", "NONE"} /\ r.wLength \in Nat
                         /\ r.dir = "NONE" <=> r.wLength = 0

VARIABLES ControlState,
          req,        \* the request: the USB* fields of pInformation
          info,       \* Ctrl_Info: Usb_wLength and Usb_wOffset
          mul,        \* Data_Mul_MaxPacketSize
          packetSize, \* Ctrl_Info.PacketSize: 0 until data was asked for
          ram,        \* Current_AlternateSetting, and whose the serial number string is
          dev,        \* address, Current_Configuration, bulk endpoints, bDeviceState
          resume,     \* ResumeS
          ep0,        \* the statuses of ENDP0 and what waits to be served
          save,       \* SaveRState, SaveTState, and what is being served
          txBuf,      \* the packet in it: where its bytes come from
          host        \* the host's transfer and what it knows of the device

core == <<ControlState, req, info, mul, packetSize, ram>>
vars == <<core, dev, resume, ep0, save, txBuf, host>>

NoRequest == [name |-> "none", to |-> "none", value |-> 0, dir |-> "NONE", wLength |-> 0]
Nothing == [name |-> "none", to |-> "none", value |-> 0]
Empty == [src |-> Nothing, from |-> 0, n |-> 0]
Idle == [rx |-> "NAK", tx |-> "NAK", serves |-> "none"]

(* What TMC_Reset makes of the device.                                     *)
AfterReset ==
  [address |-> 0, config |-> 0, EP1_OUT |-> "VALID", EP2_IN |-> "NAK", state |-> "ATTACHED"]

(* USB_Init and the reset that follows it; the host knows the device.      *)
Init ==
  /\ ControlState = "IN_DATA"
  /\ req = NoRequest
  /\ info = [wLength |-> 0, wOffset |-> 0] /\ mul = FALSE
  /\ packetSize = 0 /\ ram = [alternate |-> 0, serial |-> "STRING"]
  /\ dev = AfterReset
  /\ resume = [eState |-> "EXTERNAL", bESOFcnt |-> 0]
  /\ ep0 = [rx |-> "VALID", tx |-> "STALL", ctrRx |-> "none", ctrTx |-> FALSE]
  /\ save = Idle
  /\ txBuf = Empty
  /\ host = [req |-> NoRequest, phase |-> "idle", result |-> "none", got |-> <<>>,
             address |-> 0, givenUp |-> 0, offered |-> {},
             config |-> {0}, EP1_OUT |-> {0}, EP2_IN |-> {0}]

-----------------------------------------------------------------------------
Flag(b) == IF b THEN 1 ELSE 0
Lesser(a, b) == IF a < b THEN a ELSE b

(* ENDP0 is never seen halted: its status is NAK while a request is served *)
(* and the saved one is restored at the end.                               *)
Halted(e) == e \in {"EP1_OUT", "EP2_IN"} /\ dev[e] = "STALL"

(* What the copy routine of r points to, if that keeps what is stored in   *)
(* it.  StatusInfo is made anew by each copy; the other descriptors, and   *)
(* what is at NULL, are in flash memory.                                   *)
Kept(r) ==
  CASE r.name = "GET_CONFIGURATION" -> "config"
    [] r.name = "GET_INTERFACE" -> "alternate"
    [] r.name = "GET_DESCRIPTOR" /\ r.to = "STRING" /\ r.value = 3 -> "serial"
    [] OTHER -> "none"

(* What the copy routine of r copies: the source and, for what changes,    *)
(* its value when it is copied.  There are six strings.  The device is     *)
(* self-powered.                                                           *)
NoString(r) == r.name = "GET_DESCRIPTOR" /\ r.to = "STRING" /\ r.value > 5
Source(r) ==
  CASE NoString(r) -> [Nothing EXCEPT !.name = "NULL"]
    [] r.name = "GET_CONFIGURATION" -> [name |-> r.name, to |-> r.to, value |-> dev.config]
    [] r.name = "GET_INTERFACE" -> [name |-> r.name, to |-> r.to, value |-> ram.alternate]
    [] r.name = "GET_STATUS" ->
         [name |-> r.name, to |-> r.to, value |-> Flag(r.to = "DEVICE" \/ Halted(r.to))]
    [] Kept(r) = "serial" -> [name |-> r.name, to |-> ram.serial, value |-> r.value]
    [] OTHER -> [name |-> r.name, to |-> r.to, value |-> r.value]

StandardSize(r) ==
  CASE r.name = "GET_DESCRIPTOR" /\ r.to = "DEVICE" -> 18
    [] r.name = "GET_DESCRIPTOR" /\ r.to = "CONFIG" -> 32
    [] r.name = "GET_DESCRIPTOR" /\ r.to = "STRING" -> StringSize[r.value + 1]
    [] r.name = "GET_STATUS" -> 2
    [] OTHER -> 1

(* Usb_wLength after the copy routine of r was called for length bytes     *)
(* when it was old and the offset at.  The routines of the class set it    *)
(* every time, the one for strings not at all for a string there is not.   *)
CopyData(r, length, old, at) ==
  IF r.name \in DOMAIN ClassSize THEN ClassSize[r.name]
  ELSE IF NoString(r) \/ length # 0 THEN old
  ELSE StandardSize(r) - (IF r.name = "GET_DESCRIPTOR" THEN at ELSE 0)

(* The request has a copy routine, of the core or of TMC_Data_Setup.       *)
CopyRoutine(r) ==
  \/ r.name = "GET_DESCRIPTOR" /\ r.to \in {"DEVICE", "CONFIG", "STRING"}
  \/ /\ r.name = "GET_STATUS" /\ r.wLength = 2
     /\ r.to \in Endpoints \cup {"DEVICE"} \/ (r.to = "INTERFACE" /\ dev.config # 0)
  \/ r.name = "GET_CONFIGURATION"
  \/ r.name = "GET_INTERFACE" /\ r.wLength = 1 /\ r.value = 0 /\ dev.config # 0
  \/ r.name \in DOMAIN ClassSize /\ r.dir = "IN"

(* The handlers below compute the state st of the transfer, Ctrl_Info i,   *)
(* Data_Mul_MaxPacketSize m, the saved statuses s (vSetEPRxStatus and      *)
(* vSetEPTxStatus) and the packet b.                                       *)

(* Bug form: only the direction of the data is enabled.                    *)
DataNoStatusOut(s) == [s EXCEPT !.tx = "VALID"]

(* A packet is sent; the host may end the data stage after it.             *)
DataAndStatusOut(s) == [s EXCEPT !.tx = "VALID", !.rx = "VALID"]

(* DataStageIn for request r, in the state st.                             *)
DataStageIn(r, st, i, m, s) ==
  LET length == Lesser(MaxPacketSize, i.wLength) IN
  IF i.wLength = 0 /\ st = "LAST_IN_DATA"
  THEN IF m
       THEN [st |-> st, i |-> i, m |-> FALSE, s |-> [s EXCEPT !.tx = "VALID"], b |-> Empty]
       ELSE [st |-> "WAIT_STATUS_OUT", i |-> i, m |-> m, s |-> [s EXCEPT !.tx = "STALL"], b |-> txBuf]
  ELSE [st |-> IF i.wLength <= MaxPacketSize THEN "LAST_IN_DATA" ELSE "IN_DATA",
        i |-> [wLength |-> CopyData(r, length, i.wLength, i.wOffset) - length,
               wOffset |-> i.wOffset + length],
        m |-> m,
        s |-> DataAndStatusOut(s),
        b |-> [src |-> Source(r), n |-> length,
               from |-> IF r.name = "GET_DESCRIPTOR" THEN i.wOffset ELSE 0]]

(* DataStageOut for request r: Usb_rLength and Usb_rOffset are other names *)
(* of Usb_wLength and Usb_wOffset.                                         *)
DataStageOut(r, s) ==
  LET length == Lesser(packetSize, info.wLength)
      left == IF info.wLength = 0 THEN 0
              ELSE CopyData(r, length, info.wLength, info.wOffset) - length
      st == IF left >= packetSize THEN "OUT_DATA"
            ELSE IF left > 0 THEN "LAST_OUT_DATA" ELSE "WAIT_STATUS_IN"
      sends == left # 0 \/ st = "WAIT_STATUS_IN"
  IN [st |-> st, i |-> [wLength |-> left, wOffset |-> info.wOffset + length], m |-> mul,
      s |-> IF left # 0 THEN DataAndStatusOut(s)
            ELSE IF sends THEN [s EXCEPT !.tx = "VALID"] ELSE s,
      b |-> IF sends THEN Empty ELSE txBuf]

(* PMAToUserBufferCopy: the host's bytes, the first of them v, are stored  *)
(* into what the copy routine of r points to.                              *)
PMAToUserBufferCopy(r, v) ==
  LET into == IF Lesser(packetSize, info.wLength) = 0 THEN "none" ELSE Kept(r) IN
  /\ dev' = IF into = "config" THEN [dev EXCEPT !.config = v] ELSE dev
  /\ ram' = CASE into = "alternate" -> [ram EXCEPT !.alternate = v]
              [] into = "serial" -> [ram EXCEPT !.serial = "HOST"]
              [] OTHER -> ram

Ends(st) == [st |-> st, i |-> info, m |-> mul, s |-> save, b |-> txBuf]

(* Bug form: a transfer begins where the last one ended.                   *)
FirstOffsetStale == info.wOffset

(* Usb_wOffset when a transfer begins.                                     *)
FirstOffset == 0

Data_Setup0(r) ==
  LET size == CopyData(r, 0, info.wLength, FirstOffset)
      i == [wLength |-> Lesser(size, r.wLength), wOffset |-> FirstOffset]
      m == IF size >= r.wLength THEN mul
           ELSE size >= MaxPacketSize /\ (size % MaxPacketSize = 0 \/ mul)
  IN
  IF ~CopyRoutine(r) \/ size = 0
  THEN [Ends("STALLED") EXCEPT !.i = IF CopyRoutine(r) THEN i ELSE info]
  ELSE IF r.dir = "IN"
       THEN DataStageIn(r, "SETTING_UP", i, m, save)
       ELSE [Ends("OUT_DATA") EXCEPT !.i = [i EXCEPT !.wLength = size],
                                     !.s = [save EXCEPT !.rx = "VALID"]]

(* The request is one of the core or of TMC_NoData_Setup, and is accepted. *)
Accepted(r) ==
  \/ r.name = "SET_CONFIGURATION" /\ r.value <= 1
  \/ r.name = "SET_ADDRESS" /\ r.value <= 127 /\ dev.config = 0
  \/ r.name = "SET_INTERFACE" /\ r.value = 0 /\ dev.config # 0
  \/ r.name \in {"SET_FEATURE", "CLEAR_FEATURE"} /\ r.to \in Endpoints /\ dev.config # 0
  \/ r.name = "SET_PROTOCOL"

NoData_Setup0(r) ==
  IF Accepted(r)
  THEN [Ends("WAIT_STATUS_IN") EXCEPT !.s = [save EXCEPT !.tx = "VALID"], !.b = Empty]
  ELSE Ends("STALLED")

(* What an accepted request changes at once.  A bulk endpoint whose halt   *)
(* is cleared becomes VALID.                                               *)
Performed(r) ==
  IF ~Accepted(r) THEN dev
  ELSE CASE r.name = "SET_CONFIGURATION" ->
              [dev EXCEPT !.config = r.value, !.state = IF r.value # 0 THEN "CONFIGURED" ELSE @]
         [] r.name = "SET_FEATURE" /\ r.to # "EP0" -> [dev EXCEPT ![r.to] = "STALL"]
         [] r.name = "CLEAR_FEATURE" /\ Halted(r.to) -> [dev EXCEPT ![r.to] = "VALID"]
         [] OTHER -> dev
-----------------------------------------------------------------------------
(* CTR_LP: what waits is taken, an IN transaction first, the statuses are  *)
(* saved and both set to NAK.                                              *)
CTR_LP ==
  LET served == IF ep0.ctrTx THEN "in" ELSE ep0.ctrRx IN
  /\ save.serves = "none" /\ served # "none"
  /\ save' = [rx |-> ep0.rx, tx |-> ep0.tx, serves |-> served]
  /\ ep0' = [rx |-> "NAK", tx |-> "NAK", ctrTx |-> FALSE,
             ctrRx |-> IF served = "in" THEN ep0.ctrRx ELSE "none"]
  /\ UNCHANGED <<core, dev, resume, txBuf, host>>

(* Post0_Process, and the end of CTR_LP.                                   *)
Post0_Process(d) ==
  /\ ControlState' = d.st /\ info' = d.i /\ mul' = d.m /\ txBuf' = d.b
  /\ ep0' = [ep0 EXCEPT !.rx = IF d.st = "STALLED" THEN "STALL" ELSE d.s.rx,
                        !.tx = IF d.st = "STALLED" THEN "STALL" ELSE d.s.tx]
  /\ save' = Idle
  /\ UNCHANGED <<resume, host>>

(* The request in the packet memory is the one the host sent last.         *)
(* SET_INTERFACE sets the only alternate setting there is.                 *)
Setup0_Process ==
  /\ save.serves = "setup"
  /\ req' = host.req
  /\ IF host.req.wLength = 0
     THEN /\ Post0_Process(NoData_Setup0(host.req)) /\ dev' = Performed(host.req)
          /\ ram' = IF Accepted(host.req) /\ host.req.name = "SET_INTERFACE"
                    THEN [ram EXCEPT !.alternate = 0] ELSE ram
          /\ UNCHANGED packetSize
     ELSE /\ Post0_Process(Data_Setup0(host.req))
          /\ packetSize' = IF ControlState' \in {"IN_DATA", "LAST_IN_DATA"}
                           THEN MaxPacketSize ELSE packetSize
          /\ UNCHANGED <<dev, ram>>

(* Bug form: every status stage sets the address.                          *)
AddressByAny == TRUE

(* The status stage is that of SET_ADDRESS.                                *)
AddressIsSet == req.name = "SET_ADDRESS"

In0_Process ==
  /\ save.serves = "in"
  /\ IF ControlState \in {"IN_DATA", "LAST_IN_DATA"}
     THEN Post0_Process(DataStageIn(req, ControlState, info, mul, save)) /\ UNCHANGED dev
     ELSE /\ Post0_Process(Ends("STALLED"))
          /\ dev' = IF ControlState = "WAIT_STATUS_IN" /\ AddressIsSet
                    THEN [dev EXCEPT !.address = req.value, !.state = "ADDRESSED"] ELSE dev
  /\ UNCHANGED <<req, packetSize, ram>>

Out0_Process ==
  /\ save.serves = "out"
  /\ IF ControlState \in {"OUT_DATA", "LAST_OUT_DATA"}
     THEN /\ Post0_Process(DataStageOut(req, save))
          /\ \E v \in 0 .. 255 : PMAToUserBufferCopy(req, v)
     ELSE Post0_Process(Ends("STALLED")) /\ UNCHANGED <<dev, ram>>
  /\ UNCHANGED <<req, packetSize>>
-----------------------------------------------------------------------------
(* Bug form: the device is always taken for unconfigured.                  *)
AwakeUnconfigured == "ATTACHED"

(* bDeviceState after Leave_LowPowerMode.                                  *)
Leave_LowPowerMode == IF dev.config # 0 THEN "CONFIGURED" ELSE "ATTACHED"

(* Resume: set is the state asked for, or "ESOF" to leave it.              *)
Resume(set) ==
  LET st == IF set = "ESOF" THEN resume.eState ELSE set
      left == (resume.bESOFcnt - 1) % 256
  IN
  /\ resume' = CASE st = "INTERNAL" -> [resume EXCEPT !.eState = "START"]
                 [] st = "LATER" -> [eState |-> "WAIT", bESOFcnt |-> 2]
                 [] st = "WAIT" -> [eState |-> IF left = 0 THEN "START" ELSE st, bESOFcnt |-> left]
                 [] st = "START" -> [eState |-> "ON", bESOFcnt |-> 10]
                 [] st = "ON" -> [eState |-> IF left = 0 THEN "OFF" ELSE st, bESOFcnt |-> left]
                 [] OTHER -> [resume EXCEPT !.eState = "OFF"]
  /\ dev' = IF st \in {"EXTERNAL", "INTERNAL"} THEN [dev EXCEPT !.state = Leave_LowPowerMode] ELSE dev

Quiet == save.serves = "none" /\ ep0.ctrRx = "none" /\ ~ep0.ctrTx

(* A frame did not start.                                                  *)
ESOF ==
  /\ Quiet /\ dev.state # "SUSPENDED"
  /\ Resume("ESOF")
  /\ UNCHANGED <<core, ep0, save, txBuf, host>>

(* The bus is quiet; fSuspendEnabled is constant.                          *)
Suspend ==
  /\ Quiet /\ host.phase = "idle" /\ dev.state # "SUSPENDED"
  /\ dev' = [dev EXCEPT !.state = "SUSPENDED"]
  /\ UNCHANGED <<core, resume, ep0, save, txBuf, host>>

WakeUp ==
  /\ dev.state = "SUSPENDED"
  /\ Resume("EXTERNAL")
  /\ UNCHANGED <<core, ep0, save, txBuf, host>>

(* A bus reset and TMC_Reset.  The transfer under way in the core stays,   *)
(* and so does what waits to be served, a SETUP perhaps not as a SETUP.    *)
TMC_Reset ==
  /\ save.serves = "none" /\ host.givenUp < GiveUps
  /\ Paced => Quiet
  /\ dev' = AfterReset
  /\ \E waits \in {ep0.ctrRx, IF ep0.ctrRx = "setup" THEN "out" ELSE ep0.ctrRx} :
       ep0' = [ep0 EXCEPT !.rx = "VALID", !.tx = "STALL", !.ctrRx = waits]
  /\ host' = [host EXCEPT !.phase = "idle", !.result = "none", !.got = <<>>,
                          !.address = 0, !.givenUp = @ + 1,
                          !.config = {0}, !.EP1_OUT = {0}, !.EP2_IN = {0}]
  /\ UNCHANGED <<core, resume, save, txBuf>>
-----------------------------------------------------------------------------
(* The host.  It keeps, for each thing a request can change, the values it *)
(* may have: a request that was not finished may have been performed.      *)
HostPacket == 64      \* bMaxPacketSize0 of the device descriptor

Told(h, r, sure) ==
  LET what == CASE r.name = "SET_CONFIGURATION" -> "config"
                [] r.name \in {"SET_FEATURE", "CLEAR_FEATURE"} -> r.to
                [] OTHER -> "none"
      value == CASE r.name = "SET_CONFIGURATION" -> r.value
                 [] r.name = "SET_FEATURE" -> 1
                 [] OTHER -> 0
  IN IF what \notin {"config", "EP1_OUT", "EP2_IN"} THEN h
     ELSE [h EXCEPT ![what] = IF sure THEN {value} ELSE @ \cup {value}]

(* What a device in configuration c offers.                                *)
Offered(r, c) ==
  /\ r.name # "UNKNOWN" /\ r.to \notin {"QUALIFIER", "EP1_IN"} /\ ~NoString(r)
  /\ r.name = "SET_CONFIGURATION" => r.value <= 1
  /\ r.name = "SET_ADDRESS" => c = 0
  /\ r.name \in {"GET_INTERFACE", "SET_INTERFACE", "SET_FEATURE", "CLEAR_FEATURE"} \/ r.to = "INTERFACE"
       => c # 0

HostSetup(r) ==
  LET h == IF host.phase = "idle" THEN host ELSE Told(host, host.req, FALSE) IN
  /\ ep0.ctrRx = "none" /\ dev.state # "SUSPENDED" /\ host.address = dev.address
  /\ Paced => Quiet
  /\ host.phase # "idle" => host.givenUp < GiveUps
  /\ ep0' = [ep0 EXCEPT !.rx = "NAK", !.tx = "NAK", !.ctrRx = "setup"]
  /\ host' = [h EXCEPT !.req = r, !.result = "none", !.got = <<>>, !.offered = {Offered(r, c) : c \in h.config},
                       !.phase = CASE r.dir = "IN" -> "data" [] r.dir = "OUT" -> "data_out"
                                   [] OTHER -> "status_in",
                       !.givenUp = IF host.phase = "idle" THEN @ ELSE @ + 1]
  /\ UNCHANGED <<core, dev, resume, save, txBuf>>

HostStalled ==
  /\ \/ host.phase \in {"data", "status_in"} /\ ep0.tx = "STALL"
     \/ host.phase \in {"data_out", "status_out"} /\ ep0.rx = "STALL"
  /\ host.address = dev.address
  /\ host' = [host EXCEPT !.phase = "idle", !.result = "stall"]
  /\ UNCHANGED <<core, dev, resume, ep0, save, txBuf>>

Total(packets) == IF packets = <<>> THEN 0 ELSE packets[Len(packets)].from + packets[Len(packets)].n

(* The host reads a packet of data, until one is short or it has all.      *)
HostReads ==
  LET got == Append(host.got, txBuf) IN
  /\ host.phase = "data" /\ ep0.tx = "VALID" /\ host.address = dev.address
  /\ ep0' = [ep0 EXCEPT !.tx = "NAK", !.ctrTx = TRUE]
  /\ host' = [host EXCEPT !.got = got,
                          !.phase = IF txBuf.n < HostPacket \/ Total(got) = host.req.wLength
                                    THEN "status_out" ELSE "data"]
  /\ txBuf' = Empty
  /\ UNCHANGED <<core, dev, resume, save>>

(* It reads the empty packet of a status stage: the request is done.       *)
HostReadsStatus ==
  LET h == Told(host, host.req, TRUE) IN
  /\ host.phase = "status_in" /\ ep0.tx = "VALID" /\ host.address = dev.address
  /\ ep0' = [ep0 EXCEPT !.tx = "NAK", !.ctrTx = TRUE]
  /\ host' = [h EXCEPT !.phase = "idle", !.result = "ok",
                       !.got = IF txBuf.n = 0 THEN @ ELSE Append(@, txBuf),
                       !.address = IF host.req.name = "SET_ADDRESS" THEN host.req.value ELSE @]
  /\ txBuf' = Empty
  /\ UNCHANGED <<core, dev, resume, save>>

(* It writes: its data, in one packet, or the empty packet of a status.    *)
HostWrites ==
  /\ host.phase \in {"data_out", "status_out"} /\ ep0.rx = "VALID" /\ host.address = dev.address
  /\ ep0' = [ep0 EXCEPT !.rx = "NAK", !.ctrRx = "out"]
  /\ host' = IF host.phase = "data_out" THEN [host EXCEPT !.phase = "status_in"]
             ELSE [host EXCEPT !.phase = "idle", !.result = "ok"]
  /\ UNCHANGED <<core, dev, resume, save, txBuf>>

Next ==
  \/ \E r \in Requests : HostSetup(r)
  \/ HostStalled
  \/ HostReads
  \/ HostReadsStatus
  \/ HostWrites
  \/ CTR_LP
  \/ Setup0_Process
  \/ In0_Process
  \/ Out0_Process
  \/ ESOF
  \/ Suspend
  \/ WakeUp
  \/ TMC_Reset

(* Interrupts are served, a host goes on with a transfer it does not give  *)
(* up, and wakes the device up.                                            *)
Spec ==
  /\ Init /\ [][Next]_vars
  /\ WF_vars(CTR_LP) /\ WF_vars(Setup0_Process) /\ WF_vars(In0_Process) /\ WF_vars(Out0_Process)
  /\ WF_vars(HostStalled) /\ WF_vars(HostReads) /\ WF_vars(HostReadsStatus) /\ WF_vars(HostWrites)
  /\ WF_vars(WakeUp)
-----------------------------------------------------------------------------
(* The data the host may expect of r.                                      *)
Answer(r) ==
  LET size == IF r.name \in DOMAIN ClassSize THEN ClassSize[r.name] ELSE StandardSize(r)
      values == CASE r.name = "GET_CONFIGURATION" -> host.config
                  [] r.name = "GET_STATUS" /\ r.to \in {"EP1_OUT", "EP2_IN"} -> host[r.to]
                  [] r.name = "GET_STATUS" /\ r.to \notin {"EP1_OUT", "EP2_IN"} -> {Flag(r.to = "DEVICE")}
                  [] OTHER -> {r.value}
  IN {<<[src |-> [name |-> r.name, to |-> r.to, value |-> v], from |-> 0,
         n |-> Lesser(size, r.wLength)]>> : v \in values}

(* A transfer that the host has finished had the result the device offers: *)
(* it was stalled if the request is not offered (Unsupported request, in   *)
(* Data_Setup0) and performed otherwise, and the data read is the answer   *)
(* to this request, from its first byte, as much as was asked for and      *)
(* there is, whatever transfers were given up before.                      *)
AnswerIsRight ==
  /\ host.result = "ok" =>
       /\ TRUE \in host.offered
       /\ IF host.req.dir = "IN" THEN host.got \in Answer(host.req) ELSE host.got = <<>>
  /\ host.result = "stall" => FALSE \in host.offered /\ host.got = <<>>

(* The device has the address the host gave it last: SET_ADDRESS is        *)
(* performed after its status stage, which still uses the old one.         *)
AddressAgreed == Quiet => dev.address = host.address

(* bDeviceState says CONFIGURED of a configured device, whatever resets,   *)
(* suspensions and changes of address there were.                          *)
ConfiguredIsKnown == dev.config # 0 => dev.state \in {"CONFIGURED", "SUSPENDED"}

(* Every transfer ends: the device never leaves an endpoint NAK that the   *)
(* host waits for.                                                         *)
TransferEnds == (host.phase # "idle") ~> (host.phase = "idle")
=============================================================================
