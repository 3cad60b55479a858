-------------------------- MODULE UsbControlProofs --------------------------
(***************************************************************************)
(* Proofs about UsbControl.tla.  That bDeviceState knows of every          *)
(* configuration holds for every host that does not write to               *)
(* Current_Configuration by a GET_CONFIGURATION whose data it sends; that  *)
(* device and host agree on the address, and that every request gets the   *)
(* answer it should, for a host that lets the device serve a transaction   *)
(* before the next SETUP or reset (Paced).                                 *)
(***************************************************************************)
EXTENDS UsbControl, TLAPS

(* The fields of the records, and what can wait or be served.              *)
Shapes ==
  /\ DOMAIN dev = {"address", "config", "EP1_OUT", "EP2_IN", "state"}
  /\ DOMAIN ep0 = {"rx", "tx", "ctrRx", "ctrTx"}
  /\ DOMAIN save = {"rx", "tx", "serves"}
  /\ DOMAIN host = {"req", "phase", "result", "got", "address", "givenUp", "offered",
                    "config", "EP1_OUT", "EP2_IN"}
  /\ ep0.ctrRx \in {"none", "setup", "out"} /\ ep0.ctrTx \in BOOLEAN
  /\ save.serves \in {"none", "in", "setup", "out"}
  /\ host.req \in Requests \cup {NoRequest}

(* No request makes DataStageOut store into Current_Configuration.         *)
ConfigurationIsRead == \A r \in Requests : r.name = "GET_CONFIGURATION" => r.dir # "OUT"

(* A new address that waits for its status stage waits in a device that is *)
(* not configured.                                                         *)
AddressWaits ==
  /\ ControlState = "WAIT_STATUS_IN" /\ req.name = "SET_ADDRESS" => dev.config = 0
  /\ ControlState \in {"OUT_DATA", "LAST_OUT_DATA"} =>
       req.name \notin {"SET_ADDRESS", "GET_CONFIGURATION"}

KnownInv == Shapes /\ ConfiguredIsKnown /\ AddressWaits

-----------------------------------------------------------------------------
(* SET_ADDRESS has no data: no copy routine is found for it.               *)
LEMMA CopyRoutineName ==
  ASSUME NEW r, CopyRoutine(r)
  PROVE  r.name # "SET_ADDRESS"
<1>1. "SET_ADDRESS" \notin DOMAIN ClassSize
  BY DEF ClassSize
<1> HIDE DEF ClassSize
<1> QED
  BY <1>1 DEF CopyRoutine

(* What a request without data changes.                                    *)
LEMMA PerformedFacts ==
  ASSUME Shapes, NEW r, NEW d, d = Performed(r)
  PROVE  /\ DOMAIN d = DOMAIN dev
         /\ d.address = dev.address
         /\ r.name = "SET_ADDRESS" => d.config = dev.config /\ d.state = dev.state
         /\ \/ d.config = dev.config /\ d.state = dev.state
            \/ d.config = r.value /\ (r.value # 0 => d.state = "CONFIGURED")
<1>1. CASE ~Accepted(r)
  BY <1>1 DEF Performed
<1>2. CASE Accepted(r) /\ r.name = "SET_CONFIGURATION"
  <2>1. d = [dev EXCEPT !.config = r.value,
                        !.state = IF r.value # 0 THEN "CONFIGURED" ELSE dev.state]
    BY <1>2 DEF Performed
  <2> QED
    BY <1>2, <2>1 DEF Shapes
<1>3. CASE Accepted(r) /\ r.name \in {"SET_FEATURE", "CLEAR_FEATURE"}
  <2>1. r.to \in {"EP0", "EP1_OUT", "EP2_IN"}
    BY <1>3 DEF Accepted, Endpoints
  <2>2. d = dev \/ (r.to # "EP0" /\ d = [dev EXCEPT ![r.to] = "STALL"])
                \/ (r.to # "EP0" /\ d = [dev EXCEPT ![r.to] = "VALID"])
    BY <1>3, <2>1 DEF Performed, Halted
  <2>3. CASE d = dev
    BY <2>3
  <2>4. ASSUME NEW v, r.to # "EP0", d = [dev EXCEPT ![r.to] = v]
        PROVE  /\ DOMAIN d = DOMAIN dev /\ d.address = dev.address
               /\ d.config = dev.config /\ d.state = dev.state
    BY <2>1, <2>4 DEF Shapes
  <2> QED
    BY <2>2, <2>3, <2>4
<1>4. CASE /\ Accepted(r) /\ r.name # "SET_CONFIGURATION"
           /\ r.name \notin {"SET_FEATURE", "CLEAR_FEATURE"}
  BY <1>4 DEF Performed
<1> QED
  BY <1>1, <1>2, <1>3, <1>4

(* DataStageIn sends a packet, or waits for the status of the host.        *)
LEMMA DataStageInFacts ==
  ASSUME NEW r, NEW st, NEW i, NEW m, NEW s, DOMAIN s = {"rx", "tx", "serves"},
         NEW d, d = DataStageIn(r, st, i, m, s)
  PROVE  \/ d.st \in {"IN_DATA", "LAST_IN_DATA"} /\ d.s.tx = "VALID"
         \/ d.st = "WAIT_STATUS_OUT" /\ d.s.tx = "STALL" /\ st = "LAST_IN_DATA"
<1> DEFINE length == Lesser(MaxPacketSize, i.wLength)
           st2 == IF i.wLength <= MaxPacketSize THEN "LAST_IN_DATA" ELSE "IN_DATA"
           i2 == [wLength |-> CopyData(r, length, i.wLength, i.wOffset) - length,
                  wOffset |-> i.wOffset + length]
           b2 == [src |-> Source(r), n |-> length,
                  from |-> IF r.name = "GET_DESCRIPTOR" THEN i.wOffset ELSE 0]
           s2 == DataAndStatusOut(s)
<1>1. CASE i.wLength = 0 /\ st = "LAST_IN_DATA" /\ m
  <2>1. d = [st |-> st, i |-> i, m |-> FALSE, s |-> [s EXCEPT !.tx = "VALID"], b |-> Empty]
    BY <1>1 DEF DataStageIn
  <2> DEFINE sent == [s EXCEPT !.tx = "VALID"]
  <2>2. sent.tx = "VALID"
    OBVIOUS
  <2> HIDE DEF sent
  <2>3. d.st = st /\ d.s = sent
    BY <2>1 DEF sent
  <2> QED
    BY <1>1, <2>2, <2>3
<1>2. CASE i.wLength = 0 /\ st = "LAST_IN_DATA" /\ ~m
  <2>1. d = [st |-> "WAIT_STATUS_OUT", i |-> i, m |-> m, s |-> [s EXCEPT !.tx = "STALL"], b |-> txBuf]
    BY <1>2 DEF DataStageIn
  <2> QED
    BY <1>2, <2>1
<1>3. CASE ~(i.wLength = 0 /\ st = "LAST_IN_DATA")
  <2>1. d = [st |-> st2, i |-> i2, m |-> m, s |-> s2, b |-> b2]
    BY <1>3 DEF DataStageIn
  <2>2. s2.tx = "VALID"
    BY DEF DataAndStatusOut
  <2>3. st2 \in {"IN_DATA", "LAST_IN_DATA"}
    OBVIOUS
  <2> HIDE DEF st2, i2, s2, b2
  <2>4. d.st = st2 /\ d.s = s2
    BY <2>1
  <2> QED
    BY <2>2, <2>3, <2>4
<1> QED
  BY <1>1, <1>2, <1>3

(* What a request with data comes to.                                      *)
LEMMA DataSetupFacts ==
  ASSUME Shapes, NEW r, NEW d, d = Data_Setup0(r)
  PROVE  \/ d.st = "STALLED"
         \/ r.dir = "IN" /\ d.st \in {"IN_DATA", "LAST_IN_DATA"} /\ d.s.tx = "VALID"
         \/ /\ r.dir # "IN" /\ d.st = "OUT_DATA" /\ d.s.tx = save.tx
            /\ r.name # "SET_ADDRESS"
<1> DEFINE size == CopyData(r, 0, info.wLength, FirstOffset)
           i == [wLength |-> Lesser(size, r.wLength), wOffset |-> FirstOffset]
           m == IF size >= r.wLength THEN mul
                ELSE size >= MaxPacketSize /\ (size % MaxPacketSize = 0 \/ mul)
           i2 == [i EXCEPT !.wLength = size]
           i3 == IF CopyRoutine(r) THEN i ELSE info
<1>1. CASE ~CopyRoutine(r) \/ size = 0
  <2>1. d = [Ends("STALLED") EXCEPT !.i = i3]
    BY <1>1 DEF Data_Setup0
  <2> HIDE DEF i3
  <2>2. d.st = "STALLED"
    BY <2>1 DEF Ends
  <2> QED
    BY <2>2
<1>2. CASE CopyRoutine(r) /\ size # 0 /\ r.dir = "IN"
  <2>1. d = DataStageIn(r, "SETTING_UP", i, m, save)
    BY <1>2 DEF Data_Setup0
  <2> HIDE DEF i, m
  <2>2. d.st \in {"IN_DATA", "LAST_IN_DATA"} /\ d.s.tx = "VALID"
    BY <2>1, DataStageInFacts DEF Shapes
  <2> QED
    BY <1>2, <2>2
<1>3. CASE CopyRoutine(r) /\ size # 0 /\ r.dir # "IN"
  <2>1. d = [Ends("OUT_DATA") EXCEPT !.i = i2, !.s = [save EXCEPT !.rx = "VALID"]]
    BY <1>3 DEF Data_Setup0
  <2> HIDE DEF i2
  <2>2. d.st = "OUT_DATA" /\ d.s.tx = save.tx
    BY <2>1 DEF Ends, Shapes
  <2> QED
    BY <1>3, <2>2, CopyRoutineName
<1> QED
  BY <1>1, <1>2, <1>3

(* What Post0_Process leaves.                                              *)
LEMMA PostFacts ==
  ASSUME Shapes, NEW d, Post0_Process(d)
  PROVE  /\ ControlState' = d.st /\ host' = host
         /\ DOMAIN ep0' = DOMAIN ep0 /\ DOMAIN save' = DOMAIN save
         /\ ep0'.ctrRx = ep0.ctrRx /\ ep0'.ctrTx = ep0.ctrTx
         /\ save'.serves = "none"
         /\ ep0'.tx = IF d.st = "STALLED" THEN "STALL" ELSE d.s.tx
         /\ ep0'.rx = IF d.st = "STALLED" THEN "STALL" ELSE d.s.rx
<1> DEFINE rx == IF d.st = "STALLED" THEN "STALL" ELSE d.s.rx
           tx == IF d.st = "STALLED" THEN "STALL" ELSE d.s.tx
<1>1. /\ ControlState' = d.st /\ host' = host /\ save' = Idle
      /\ ep0' = [ep0 EXCEPT !.rx = rx, !.tx = tx]
  BY DEF Post0_Process
<1>2. DOMAIN save' = DOMAIN save /\ save'.serves = "none"
  BY <1>1 DEF Idle, Shapes
<1> HIDE DEF rx, tx
<1>3. /\ DOMAIN ep0' = DOMAIN ep0 /\ ep0'.rx = rx /\ ep0'.tx = tx
      /\ ep0'.ctrRx = ep0.ctrRx /\ ep0'.ctrTx = ep0.ctrTx
  BY <1>1 DEF Shapes
<1> QED
  BY <1>1, <1>2, <1>3 DEF rx, tx

(* The host notes what it told the device; nothing else changes.           *)
LEMMA ToldFacts ==
  ASSUME Shapes, NEW r, NEW sure, NEW h, h = Told(host, r, sure)
  PROVE  /\ DOMAIN h = DOMAIN host
         /\ h.req = host.req /\ h.phase = host.phase /\ h.address = host.address
<1> DEFINE what == CASE r.name = "SET_CONFIGURATION" -> "config"
                     [] r.name \in {"SET_FEATURE", "CLEAR_FEATURE"} -> r.to
                     [] OTHER -> "none"
           value == CASE r.name = "SET_CONFIGURATION" -> r.value
                      [] r.name = "SET_FEATURE" -> 1
                      [] OTHER -> 0
           new == IF sure THEN {value} ELSE host[what] \cup {value}
<1>1. \/ h = host
      \/ what \in {"config", "EP1_OUT", "EP2_IN"} /\ h = [host EXCEPT ![what] = new]
  BY DEF Told
<1> HIDE DEF what, new
<1> QED
  BY <1>1 DEF Shapes

(* What the steps of the host, of a reset, of the power management and of  *)
(* the interrupt make of the state, field by field.                        *)
LEMMA HostSetupFacts ==
  ASSUME Shapes, NEW r, HostSetup(r)
  PROVE  /\ DOMAIN ep0' = DOMAIN ep0 /\ DOMAIN host' = DOMAIN host
         /\ ep0'.rx = "NAK" /\ ep0'.tx = "NAK" /\ ep0'.ctrRx = "setup" /\ ep0'.ctrTx = ep0.ctrTx
         /\ host'.req = r /\ host'.address = host.address
         /\ host'.phase = CASE r.dir = "IN" -> "data" [] r.dir = "OUT" -> "data_out"
                            [] OTHER -> "status_in"
         /\ host.address = dev.address /\ (Paced => Quiet)
         /\ UNCHANGED <<ControlState, req, dev, save>>
<1> DEFINE h == IF host.phase = "idle" THEN host ELSE Told(host, host.req, FALSE)
           phase == CASE r.dir = "IN" -> "data" [] r.dir = "OUT" -> "data_out"
                      [] OTHER -> "status_in"
           offered == {Offered(r, c) : c \in h.config}
           givenUp == IF host.phase = "idle" THEN h.givenUp ELSE h.givenUp + 1
<1>1. /\ host.address = dev.address /\ (Paced => Quiet)
      /\ UNCHANGED <<ControlState, req, dev, save>>
      /\ ep0' = [ep0 EXCEPT !.rx = "NAK", !.tx = "NAK", !.ctrRx = "setup"]
  BY DEF HostSetup, core
<1>2. host' = [h EXCEPT !.req = r, !.result = "none", !.got = <<>>, !.offered = offered,
                        !.phase = phase, !.givenUp = givenUp]
  BY DEF HostSetup
<1>3. DOMAIN h = DOMAIN host /\ h.address = host.address
  BY ToldFacts
<1> HIDE DEF h, phase, offered, givenUp
<1>4. /\ DOMAIN ep0' = DOMAIN ep0
      /\ ep0'.rx = "NAK" /\ ep0'.tx = "NAK" /\ ep0'.ctrRx = "setup" /\ ep0'.ctrTx = ep0.ctrTx
  BY <1>1 DEF Shapes
<1>5. /\ DOMAIN host' = DOMAIN host /\ host'.req = r /\ host'.phase = phase
      /\ host'.address = host.address
  BY <1>2, <1>3 DEF Shapes
<1> QED
  BY <1>1, <1>4, <1>5 DEF phase

LEMMA HostReadsFacts ==
  ASSUME Shapes, HostReads
  PROVE  /\ DOMAIN ep0' = DOMAIN ep0 /\ DOMAIN host' = DOMAIN host
         /\ ep0.tx = "VALID" /\ host.phase = "data"
         /\ ep0'.rx = ep0.rx /\ ep0'.tx = "NAK" /\ ep0'.ctrRx = ep0.ctrRx /\ ep0'.ctrTx = TRUE
         /\ host'.req = host.req /\ host'.address = host.address
         /\ host'.phase \in {"data", "status_out"}
         /\ host.address = dev.address
         /\ UNCHANGED <<ControlState, req, dev, save>>
<1> DEFINE got == Append(host.got, txBuf)
           phase == IF txBuf.n < HostPacket \/ Total(got) = host.req.wLength
                    THEN "status_out" ELSE "data"
<1>1. /\ ep0.tx = "VALID" /\ host.phase = "data" /\ host.address = dev.address
      /\ UNCHANGED <<ControlState, req, dev, save>>
      /\ ep0' = [ep0 EXCEPT !.tx = "NAK", !.ctrTx = TRUE]
      /\ host' = [host EXCEPT !.got = got, !.phase = phase]
  BY DEF HostReads, core
<1>2. phase \in {"data", "status_out"}
  OBVIOUS
<1> HIDE DEF got, phase
<1>3. /\ DOMAIN ep0' = DOMAIN ep0 /\ ep0'.ctrTx = TRUE
      /\ ep0'.rx = ep0.rx /\ ep0'.tx = "NAK" /\ ep0'.ctrRx = ep0.ctrRx
  BY <1>1 DEF Shapes
<1>4. /\ DOMAIN host' = DOMAIN host /\ host'.phase = phase
      /\ host'.req = host.req /\ host'.address = host.address
  BY <1>1 DEF Shapes
<1> QED
  BY <1>1, <1>2, <1>3, <1>4

LEMMA HostReadsStatusFacts ==
  ASSUME Shapes, HostReadsStatus
  PROVE  /\ DOMAIN ep0' = DOMAIN ep0 /\ DOMAIN host' = DOMAIN host
         /\ ep0.tx = "VALID" /\ host.phase = "status_in"
         /\ ep0'.rx = ep0.rx /\ ep0'.tx = "NAK" /\ ep0'.ctrRx = ep0.ctrRx /\ ep0'.ctrTx = TRUE
         /\ host'.req = host.req /\ host'.phase = "idle"
         /\ host'.address = IF host.req.name = "SET_ADDRESS" THEN host.req.value ELSE host.address
         /\ host.address = dev.address
         /\ UNCHANGED <<ControlState, req, dev, save>>
<1> DEFINE h == Told(host, host.req, TRUE)
           got == IF txBuf.n = 0 THEN h.got ELSE Append(h.got, txBuf)
           address == IF host.req.name = "SET_ADDRESS" THEN host.req.value ELSE h.address
<1>1. /\ ep0.tx = "VALID" /\ host.phase = "status_in" /\ host.address = dev.address
      /\ UNCHANGED <<ControlState, req, dev, save>>
      /\ ep0' = [ep0 EXCEPT !.tx = "NAK", !.ctrTx = TRUE]
  BY DEF HostReadsStatus, core
<1>2. host' = [h EXCEPT !.phase = "idle", !.result = "ok", !.got = got, !.address = address]
  BY DEF HostReadsStatus
<1>3. DOMAIN h = DOMAIN host /\ h.address = host.address /\ h.req = host.req
  BY ToldFacts
<1> HIDE DEF h, got, address
<1>4. /\ DOMAIN ep0' = DOMAIN ep0 /\ ep0'.ctrTx = TRUE
      /\ ep0'.rx = ep0.rx /\ ep0'.tx = "NAK" /\ ep0'.ctrRx = ep0.ctrRx
  BY <1>1 DEF Shapes
<1>5. /\ DOMAIN host' = DOMAIN host /\ host'.phase = "idle"
      /\ host'.req = host.req /\ host'.address = address
  BY <1>2, <1>3 DEF Shapes
<1> QED
  BY <1>1, <1>3, <1>4, <1>5 DEF address

LEMMA HostWritesFacts ==
  ASSUME Shapes, HostWrites
  PROVE  /\ DOMAIN ep0' = DOMAIN ep0 /\ DOMAIN host' = DOMAIN host
         /\ ep0.rx = "VALID" /\ host.phase \in {"data_out", "status_out"}
         /\ ep0'.rx = "NAK" /\ ep0'.tx = ep0.tx /\ ep0'.ctrRx = "out" /\ ep0'.ctrTx = ep0.ctrTx
         /\ host'.req = host.req /\ host'.address = host.address
         /\ host'.phase = IF host.phase = "data_out" THEN "status_in" ELSE "idle"
         /\ UNCHANGED <<ControlState, req, dev, save>>
<1>1. /\ ep0.rx = "VALID" /\ host.phase \in {"data_out", "status_out"}
      /\ UNCHANGED <<ControlState, req, dev, save>>
      /\ ep0' = [ep0 EXCEPT !.rx = "NAK", !.ctrRx = "out"]
  BY DEF HostWrites, core
<1>2. /\ host.phase = "data_out" => host' = [host EXCEPT !.phase = "status_in"]
      /\ host.phase # "data_out" => host' = [host EXCEPT !.phase = "idle", !.result = "ok"]
  BY DEF HostWrites
<1>3. /\ DOMAIN ep0' = DOMAIN ep0 /\ ep0'.ctrTx = ep0.ctrTx
      /\ ep0'.rx = "NAK" /\ ep0'.tx = ep0.tx /\ ep0'.ctrRx = "out"
  BY <1>1 DEF Shapes
<1>4. /\ DOMAIN host' = DOMAIN host
      /\ host'.phase = IF host.phase = "data_out" THEN "status_in" ELSE "idle"
      /\ host'.req = host.req /\ host'.address = host.address
  BY <1>2 DEF Shapes
<1> QED
  BY <1>1, <1>3, <1>4

LEMMA HostStalledFacts ==
  ASSUME Shapes, HostStalled
  PROVE  /\ DOMAIN host' = DOMAIN host
         /\ host'.req = host.req /\ host'.address = host.address /\ host'.phase = "idle"
         /\ UNCHANGED <<ControlState, req, dev, ep0, save>>
<1>1. /\ host' = [host EXCEPT !.phase = "idle", !.result = "stall"]
      /\ UNCHANGED <<ControlState, req, dev, ep0, save>>
  BY DEF HostStalled, core
<1> QED
  BY <1>1 DEF Shapes

LEMMA ResetFacts ==
  ASSUME Shapes, TMC_Reset
  PROVE  /\ DOMAIN dev' = DOMAIN dev /\ DOMAIN ep0' = DOMAIN ep0 /\ DOMAIN host' = DOMAIN host
         /\ save.serves = "none"
         /\ dev'.address = 0 /\ dev'.config = 0
         /\ ep0'.rx = "VALID" /\ ep0'.tx = "STALL" /\ ep0'.ctrTx = ep0.ctrTx
         /\ ep0'.ctrRx = ep0.ctrRx \/ (ep0.ctrRx = "setup" /\ ep0'.ctrRx = "out")
         /\ host'.req = host.req /\ host'.address = 0 /\ host'.phase = "idle"
         /\ Paced => Quiet
         /\ UNCHANGED <<ControlState, req, save>>
<1>1. /\ save.serves = "none" /\ dev' = AfterReset /\ (Paced => Quiet)
      /\ UNCHANGED <<ControlState, req, save>>
  BY DEF TMC_Reset, core
<1>2. host' = [host EXCEPT !.phase = "idle", !.result = "none", !.got = <<>>,
                           !.address = 0, !.givenUp = host.givenUp + 1,
                           !.config = {0}, !.EP1_OUT = {0}, !.EP2_IN = {0}]
  BY DEF TMC_Reset
<1>3. PICK waits : /\ waits = ep0.ctrRx \/ (ep0.ctrRx = "setup" /\ waits = "out")
                   /\ ep0' = [ep0 EXCEPT !.rx = "VALID", !.tx = "STALL", !.ctrRx = waits]
  BY DEF TMC_Reset
<1>4. /\ DOMAIN ep0' = DOMAIN ep0
      /\ ep0'.rx = "VALID" /\ ep0'.tx = "STALL" /\ ep0'.ctrRx = waits /\ ep0'.ctrTx = ep0.ctrTx
  BY <1>3 DEF Shapes
<1>5. /\ DOMAIN dev' = DOMAIN dev /\ dev'.address = 0 /\ dev'.config = 0
  BY <1>1 DEF Shapes, AfterReset
<1>6. /\ DOMAIN host' = DOMAIN host
      /\ host'.req = host.req /\ host'.address = 0 /\ host'.phase = "idle"
  BY <1>2 DEF Shapes
<1> QED
  BY <1>1, <1>3, <1>4, <1>5, <1>6

LEMMA PowerFacts ==
  ASSUME Shapes, ESOF \/ Suspend \/ WakeUp
  PROVE  /\ DOMAIN dev' = DOMAIN dev
         /\ dev'.address = dev.address /\ dev'.config = dev.config
         /\ \/ dev'.state = dev.state
            \/ dev'.state = "SUSPENDED"
            \/ dev'.state = IF dev.config # 0 THEN "CONFIGURED" ELSE "ATTACHED"
         /\ UNCHANGED <<ControlState, req, ep0, save, host>>
<1>1. /\ \/ dev' = dev
         \/ dev' = [dev EXCEPT !.state = "SUSPENDED"]
         \/ dev' = [dev EXCEPT !.state = Leave_LowPowerMode]
      /\ UNCHANGED <<ControlState, req, ep0, save, host>>
  BY DEF ESOF, Suspend, WakeUp, Resume, core
<1> QED
  BY <1>1 DEF Shapes, Leave_LowPowerMode

LEMMA ServeFacts ==
  ASSUME Shapes, CTR_LP
  PROVE  /\ DOMAIN save' = DOMAIN save /\ DOMAIN ep0' = DOMAIN ep0
         /\ save.serves = "none" /\ save'.serves # "none" /\ save'.tx = ep0.tx
         /\ ep0'.rx = "NAK" /\ ep0'.tx = "NAK" /\ ep0'.ctrTx = FALSE
         /\ \/ ep0.ctrTx /\ save'.serves = "in" /\ ep0'.ctrRx = ep0.ctrRx
            \/ ~ep0.ctrTx /\ save'.serves = ep0.ctrRx /\ ep0'.ctrRx = "none"
         /\ UNCHANGED <<ControlState, req, dev, host>>
<1> DEFINE served == IF ep0.ctrTx THEN "in" ELSE ep0.ctrRx
           waits == IF served = "in" THEN ep0.ctrRx ELSE "none"
<1>1. /\ save.serves = "none" /\ served # "none"
      /\ UNCHANGED <<ControlState, req, dev, host>>
  BY DEF CTR_LP, core
<1>2. /\ save' = [rx |-> ep0.rx, tx |-> ep0.tx, serves |-> served]
      /\ ep0' = [rx |-> "NAK", tx |-> "NAK", ctrTx |-> FALSE, ctrRx |-> waits]
  BY DEF CTR_LP
<1>3. \/ ep0.ctrTx /\ served = "in" /\ waits = ep0.ctrRx
      \/ ~ep0.ctrTx /\ served = ep0.ctrRx /\ waits = "none"
  BY DEF Shapes
<1> HIDE DEF served, waits
<1>4. /\ DOMAIN save' = DOMAIN save /\ save'.serves = served /\ save'.tx = ep0.tx
  BY <1>2 DEF Shapes
<1>5. /\ DOMAIN ep0' = DOMAIN ep0 /\ ep0'.rx = "NAK" /\ ep0'.tx = "NAK"
      /\ ep0'.ctrRx = waits
  BY <1>2 DEF Shapes
<1>6. ep0'.ctrTx = FALSE
  BY <1>2
<1> QED
  BY <1>1, <1>3, <1>4, <1>5, <1>6

(* The three handlers: what becomes of the transfer, and of the device.    *)
LEMMA SetupFacts ==
  ASSUME Shapes, Setup0_Process
  PROVE  /\ save.serves = "setup" /\ req' = host.req /\ host' = host
         /\ DOMAIN dev' = DOMAIN dev /\ DOMAIN ep0' = DOMAIN ep0 /\ DOMAIN save' = DOMAIN save
         /\ dev'.address = dev.address
         /\ ep0'.ctrRx = ep0.ctrRx /\ ep0'.ctrTx = ep0.ctrTx /\ save'.serves = "none"
         /\ \/ ControlState' = "STALLED" /\ ep0'.tx = "STALL" /\ dev' = dev
            \/ /\ host.req.wLength = 0 /\ ControlState' = "WAIT_STATUS_IN" /\ ep0'.tx = "VALID"
               /\ host.req.name = "SET_ADDRESS" =>
                    dev.config = 0 /\ dev'.config = 0 /\ dev'.state = dev.state
               /\ \/ dev'.config = dev.config /\ dev'.state = dev.state
                  \/ dev'.config # 0 => dev'.state = "CONFIGURED"
            \/ /\ host.req.dir = "IN" /\ ControlState' \in {"IN_DATA", "LAST_IN_DATA"}
               /\ ep0'.tx = "VALID" /\ dev' = dev
            \/ /\ host.req.dir # "IN" /\ host.req.wLength # 0 /\ ControlState' = "OUT_DATA"
               /\ ep0'.tx = save.tx /\ dev' = dev /\ host.req.name # "SET_ADDRESS"
<1> DEFINE r == host.req
<1>1. save.serves = "setup" /\ req' = r
  BY DEF Setup0_Process
<1>2. CASE r.wLength = 0
  <2> DEFINE d == NoData_Setup0(r)
  <2>1. Post0_Process(d) /\ dev' = Performed(r)
    BY <1>2 DEF Setup0_Process
  <2>2. CASE ~Accepted(r)
    <3>1. d.st = "STALLED" /\ dev' = dev
      BY <2>1, <2>2 DEF NoData_Setup0, Ends, Performed
    <3> HIDE DEF d
    <3> QED
      BY <1>1, <2>1, <3>1, PostFacts
  <2>3. CASE Accepted(r)
    <3>1. d.st = "WAIT_STATUS_IN" /\ d.s.tx = "VALID"
      <4> DEFINE sent == [save EXCEPT !.tx = "VALID"]
      <4>1. sent.tx = "VALID"
        BY DEF Shapes
      <4> HIDE DEF sent
      <4>2. d = [Ends("WAIT_STATUS_IN") EXCEPT !.s = sent, !.b = Empty]
        BY <2>3 DEF NoData_Setup0, sent
      <4> HIDE DEF d
      <4>3. d.st = "WAIT_STATUS_IN" /\ d.s = sent
        BY <4>2 DEF Ends
      <4> QED
        BY <4>1, <4>3
    <3>2. r.name = "SET_ADDRESS" => dev.config = 0
      BY <2>3 DEF Accepted
    <3> HIDE DEF d, r
    <3>3. /\ DOMAIN dev' = DOMAIN dev
          /\ dev'.address = dev.address
          /\ r.name = "SET_ADDRESS" => dev'.config = dev.config /\ dev'.state = dev.state
          /\ \/ dev'.config = dev.config /\ dev'.state = dev.state
             \/ dev'.config = r.value /\ (r.value # 0 => dev'.state = "CONFIGURED")
      <4>1. \A e : e = Performed(r) =>
              /\ DOMAIN e = DOMAIN dev
              /\ e.address = dev.address
              /\ r.name = "SET_ADDRESS" => e.config = dev.config /\ e.state = dev.state
              /\ \/ e.config = dev.config /\ e.state = dev.state
                 \/ e.config = r.value /\ (r.value # 0 => e.state = "CONFIGURED")
        BY PerformedFacts
      <4> QED
        BY <2>1, <4>1
    <3>4. /\ ControlState' = "WAIT_STATUS_IN" /\ host' = host
          /\ DOMAIN ep0' = DOMAIN ep0 /\ DOMAIN save' = DOMAIN save
          /\ ep0'.ctrRx = ep0.ctrRx /\ ep0'.ctrTx = ep0.ctrTx
          /\ save'.serves = "none" /\ ep0'.tx = "VALID"
      BY <2>1, <3>1, PostFacts
    <3> QED
      BY <1>1, <1>2, <3>2, <3>3, <3>4 DEF r
  <2> QED
    BY <2>2, <2>3
<1>3. CASE r.wLength # 0
  <2> DEFINE d == Data_Setup0(r)
  <2>1. Post0_Process(d) /\ dev' = dev
    BY <1>3 DEF Setup0_Process
  <2>2. \/ d.st = "STALLED"
        \/ r.dir = "IN" /\ d.st \in {"IN_DATA", "LAST_IN_DATA"} /\ d.s.tx = "VALID"
        \/ r.dir # "IN" /\ d.st = "OUT_DATA" /\ d.s.tx = save.tx /\ r.name # "SET_ADDRESS"
    BY DataSetupFacts
  <2> HIDE DEF d
  <2>3. /\ ControlState' = d.st /\ host' = host
        /\ DOMAIN ep0' = DOMAIN ep0 /\ DOMAIN save' = DOMAIN save
        /\ ep0'.ctrRx = ep0.ctrRx /\ ep0'.ctrTx = ep0.ctrTx
        /\ save'.serves = "none"
        /\ ep0'.tx = IF d.st = "STALLED" THEN "STALL" ELSE d.s.tx
    BY <2>1, PostFacts
  <2> QED
    BY <1>1, <1>3, <2>1, <2>2, <2>3
<1> QED
  BY <1>2, <1>3

LEMMA InFacts ==
  ASSUME Shapes, In0_Process
  PROVE  /\ save.serves = "in" /\ req' = req /\ host' = host
         /\ DOMAIN dev' = DOMAIN dev /\ DOMAIN ep0' = DOMAIN ep0 /\ DOMAIN save' = DOMAIN save
         /\ dev'.config = dev.config
         /\ ep0'.ctrRx = ep0.ctrRx /\ ep0'.ctrTx = ep0.ctrTx /\ save'.serves = "none"
         /\ \/ /\ ControlState' = "STALLED" /\ ep0'.tx = "STALL"
               /\ ControlState \notin {"IN_DATA", "LAST_IN_DATA"}
               /\ IF ControlState = "WAIT_STATUS_IN" /\ req.name = "SET_ADDRESS"
                  THEN dev'.address = req.value ELSE dev' = dev
            \/ /\ ControlState \in {"IN_DATA", "LAST_IN_DATA"}
               /\ ControlState' \in {"IN_DATA", "LAST_IN_DATA"}
               /\ dev' = dev
            \/ /\ ControlState \in {"IN_DATA", "LAST_IN_DATA"}
               /\ ControlState' = "WAIT_STATUS_OUT" /\ ep0'.tx = "STALL"
               /\ dev' = dev
<1>1. save.serves = "in" /\ req' = req
  BY DEF In0_Process
<1>2. CASE ControlState \in {"IN_DATA", "LAST_IN_DATA"}
  <2> DEFINE d == DataStageIn(req, ControlState, info, mul, save)
  <2>1. Post0_Process(d) /\ dev' = dev
    BY <1>2 DEF In0_Process
  <2>2. \/ d.st \in {"IN_DATA", "LAST_IN_DATA"} /\ d.s.tx = "VALID"
        \/ d.st = "WAIT_STATUS_OUT" /\ d.s.tx = "STALL"
    BY DataStageInFacts DEF Shapes
  <2> HIDE DEF d
  <2>3. /\ ControlState' = d.st /\ host' = host
        /\ DOMAIN ep0' = DOMAIN ep0 /\ DOMAIN save' = DOMAIN save
        /\ ep0'.ctrRx = ep0.ctrRx /\ ep0'.ctrTx = ep0.ctrTx
        /\ save'.serves = "none"
        /\ ep0'.tx = IF d.st = "STALLED" THEN "STALL" ELSE d.s.tx
    BY <2>1, PostFacts
  <2> QED
    BY <1>1, <1>2, <2>1, <2>2, <2>3
<1>3. CASE ControlState \notin {"IN_DATA", "LAST_IN_DATA"}
  <2> DEFINE d == Ends("STALLED")
  <2>1. /\ Post0_Process(d)
        /\ dev' = IF ControlState = "WAIT_STATUS_IN" /\ req.name = "SET_ADDRESS"
                  THEN [dev EXCEPT !.address = req.value, !.state = "ADDRESSED"] ELSE dev
    BY <1>3 DEF In0_Process, AddressIsSet
  <2>2. d.st = "STALLED"
    BY DEF Ends
  <2> HIDE DEF d
  <2>3. /\ ControlState' = d.st /\ host' = host
        /\ DOMAIN ep0' = DOMAIN ep0 /\ DOMAIN save' = DOMAIN save
        /\ ep0'.ctrRx = ep0.ctrRx /\ ep0'.ctrTx = ep0.ctrTx
        /\ save'.serves = "none"
        /\ ep0'.tx = IF d.st = "STALLED" THEN "STALL" ELSE d.s.tx
    BY <2>1, PostFacts
  <2>4. /\ DOMAIN dev' = DOMAIN dev /\ dev'.config = dev.config
        /\ IF ControlState = "WAIT_STATUS_IN" /\ req.name = "SET_ADDRESS"
           THEN dev'.address = req.value ELSE dev' = dev
    BY <2>1 DEF Shapes
  <2> QED
    BY <1>1, <1>3, <2>2, <2>3, <2>4
<1> QED
  BY <1>2, <1>3

(* What DataStageOut comes to, and what the host's data is stored into.    *)
LEMMA DataStageOutFacts ==
  ASSUME NEW r, NEW s, NEW d, d = DataStageOut(r, s)
  PROVE  d.st \in {"OUT_DATA", "LAST_OUT_DATA", "WAIT_STATUS_IN"}
<1> DEFINE length == Lesser(packetSize, info.wLength)
           left == IF info.wLength = 0 THEN 0
                   ELSE CopyData(r, length, info.wLength, info.wOffset) - length
           st == IF left >= packetSize THEN "OUT_DATA"
                 ELSE IF left > 0 THEN "LAST_OUT_DATA" ELSE "WAIT_STATUS_IN"
           sends == left # 0 \/ st = "WAIT_STATUS_IN"
           i2 == [wLength |-> left, wOffset |-> info.wOffset + length]
           s2 == IF left # 0 THEN DataAndStatusOut(s)
                 ELSE IF sends THEN [s EXCEPT !.tx = "VALID"] ELSE s
           b2 == IF sends THEN Empty ELSE txBuf
<1>1. d = [st |-> st, i |-> i2, m |-> mul, s |-> s2, b |-> b2]
  BY DEF DataStageOut
<1>2. st \in {"OUT_DATA", "LAST_OUT_DATA", "WAIT_STATUS_IN"}
  <2> HIDE DEF left
  <2> QED
    OBVIOUS
<1> HIDE DEF st, i2, s2, b2
<1> QED
  BY <1>1, <1>2

LEMMA StoredFacts ==
  ASSUME Shapes, NEW r, NEW v, PMAToUserBufferCopy(r, v)
  PROVE  /\ DOMAIN dev' = DOMAIN dev /\ dev'.address = dev.address
         /\ r.name # "GET_CONFIGURATION" => dev' = dev
         /\ Kept(r) = "none" => ram' = ram
<1> DEFINE into == IF Lesser(packetSize, info.wLength) = 0 THEN "none" ELSE Kept(r)
<1>1. /\ dev' = IF into = "config" THEN [dev EXCEPT !.config = v] ELSE dev
      /\ ram' = CASE into = "alternate" -> [ram EXCEPT !.alternate = v]
                  [] into = "serial" -> [ram EXCEPT !.serial = "HOST"]
                  [] OTHER -> ram
  BY DEF PMAToUserBufferCopy
<1>2. into = "none" \/ into = Kept(r)
  OBVIOUS
<1> HIDE DEF into
<1>3. r.name # "GET_CONFIGURATION" => Kept(r) # "config"
  BY DEF Kept
<1>4. /\ DOMAIN dev' = DOMAIN dev /\ dev'.address = dev.address
      /\ into # "config" => dev' = dev
  BY <1>1 DEF Shapes
<1>5. into = "none" => ram' = ram
  BY <1>1
<1> QED
  BY <1>2, <1>3, <1>4, <1>5

LEMMA OutFacts ==
  ASSUME Shapes, Out0_Process
  PROVE  /\ save.serves = "out" /\ req' = req /\ host' = host
         /\ DOMAIN dev' = DOMAIN dev /\ dev'.address = dev.address
         /\ DOMAIN ep0' = DOMAIN ep0 /\ DOMAIN save' = DOMAIN save
         /\ ep0'.ctrRx = ep0.ctrRx /\ ep0'.ctrTx = ep0.ctrTx /\ save'.serves = "none"
         /\ \/ ControlState' = "STALLED" /\ ep0'.tx = "STALL" /\ dev' = dev
            \/ /\ ControlState \in {"OUT_DATA", "LAST_OUT_DATA"}
               /\ ControlState' \in {"OUT_DATA", "LAST_OUT_DATA", "WAIT_STATUS_IN"}
               /\ req.name # "GET_CONFIGURATION" => dev' = dev
<1>1. save.serves = "out" /\ req' = req
  BY DEF Out0_Process
<1>2. CASE ControlState \in {"OUT_DATA", "LAST_OUT_DATA"}
  <2> DEFINE d == DataStageOut(req, save)
  <2>1. /\ Post0_Process(d)
        /\ \E v \in 0 .. 255 : PMAToUserBufferCopy(req, v)
    BY <1>2 DEF Out0_Process
  <2>2. d.st \in {"OUT_DATA", "LAST_OUT_DATA", "WAIT_STATUS_IN"}
    BY DataStageOutFacts
  <2> HIDE DEF d
  <2>3. /\ ControlState' = d.st /\ host' = host
        /\ DOMAIN ep0' = DOMAIN ep0 /\ DOMAIN save' = DOMAIN save
        /\ ep0'.ctrRx = ep0.ctrRx /\ ep0'.ctrTx = ep0.ctrTx
        /\ save'.serves = "none"
    BY <2>1, PostFacts
  <2>4. /\ DOMAIN dev' = DOMAIN dev /\ dev'.address = dev.address
        /\ req.name # "GET_CONFIGURATION" => dev' = dev
    BY <2>1, StoredFacts
  <2> QED
    BY <1>1, <1>2, <2>2, <2>3, <2>4
<1>3. CASE ControlState \notin {"OUT_DATA", "LAST_OUT_DATA"}
  <2> DEFINE d == Ends("STALLED")
  <2>1. Post0_Process(d) /\ dev' = dev
    BY <1>3 DEF Out0_Process
  <2>2. d.st = "STALLED"
    BY DEF Ends
  <2> HIDE DEF d
  <2>3. /\ ControlState' = d.st /\ host' = host
        /\ DOMAIN ep0' = DOMAIN ep0 /\ DOMAIN save' = DOMAIN save
        /\ ep0'.ctrRx = ep0.ctrRx /\ ep0'.ctrTx = ep0.ctrTx
        /\ save'.serves = "none"
        /\ ep0'.tx = IF d.st = "STALLED" THEN "STALL" ELSE d.s.tx
    BY <2>1, PostFacts
  <2> QED
    BY <1>1, <2>1, <2>2, <2>3
<1> QED
  BY <1>2, <1>3
-----------------------------------------------------------------------------
LEMMA InitKnown == Init => KnownInv
<1> SUFFICES ASSUME Init
             PROVE  KnownInv
  OBVIOUS
<1>1. Shapes
  BY DEF Init, Shapes, AfterReset, Idle
<1>2. ConfiguredIsKnown /\ AddressWaits
  BY DEF Init, AfterReset, ConfiguredIsKnown, AddressWaits
<1> QED
  BY <1>1, <1>2 DEF KnownInv

LEMMA StepShapes ==
  ASSUME Shapes, [Next]_vars
  PROVE  Shapes'
<1>1. ASSUME NEW r \in Requests, HostSetup(r)
      PROVE  Shapes'
  BY <1>1, HostSetupFacts DEF Shapes
<1>2. CASE HostStalled
  BY <1>2, HostStalledFacts DEF Shapes
<1>3. CASE HostReads
  BY <1>3, HostReadsFacts DEF Shapes
<1>4. CASE HostReadsStatus
  BY <1>4, HostReadsStatusFacts DEF Shapes
<1>5. CASE HostWrites
  BY <1>5, HostWritesFacts DEF Shapes
<1>6. CASE CTR_LP
  BY <1>6, ServeFacts DEF Shapes
<1>7. CASE Setup0_Process
  BY <1>7, SetupFacts DEF Shapes
<1>8. CASE In0_Process
  BY <1>8, InFacts DEF Shapes
<1>9. CASE Out0_Process
  BY <1>9, OutFacts DEF Shapes
<1>10. CASE ESOF \/ Suspend \/ WakeUp
  BY <1>10, PowerFacts DEF Shapes
<1>11. CASE TMC_Reset
  BY <1>11, ResetFacts DEF Shapes
<1>12. CASE UNCHANGED vars
  BY <1>12 DEF vars, core, Shapes
<1> QED
  BY <1>1, <1>2, <1>3, <1>4, <1>5, <1>6, <1>7, <1>8, <1>9, <1>10, <1>11, <1>12 DEF Next

LEMMA StepKnown ==
  ASSUME ConfigurationIsRead, KnownInv, [Next]_vars
  PROVE  KnownInv'
<1>1. Shapes /\ ConfiguredIsKnown /\ AddressWaits /\ Shapes'
  BY StepShapes DEF KnownInv
<1> SUFFICES ConfiguredIsKnown' /\ AddressWaits'
  BY <1>1 DEF KnownInv
<1>2. ASSUME UNCHANGED <<ControlState, req, dev>>
      PROVE  ConfiguredIsKnown' /\ AddressWaits'
  BY <1>1, <1>2 DEF ConfiguredIsKnown, AddressWaits
<1>3. ASSUME NEW r \in Requests, HostSetup(r)
      PROVE  ConfiguredIsKnown' /\ AddressWaits'
  BY <1>1, <1>2, <1>3, HostSetupFacts
<1>4. CASE HostStalled \/ HostReads \/ HostReadsStatus \/ HostWrites \/ CTR_LP
  BY <1>1, <1>2, <1>4, HostStalledFacts, HostReadsFacts, HostReadsStatusFacts, HostWritesFacts, ServeFacts
<1>5. CASE Setup0_Process
  <2>1. ConfiguredIsKnown'
    BY <1>1, <1>5, SetupFacts DEF ConfiguredIsKnown
  <2>2. host.req.wLength # 0 /\ host.req.dir # "IN" => host.req.name # "GET_CONFIGURATION"
    <3>1. host.req \in Requests \cup {NoRequest} /\ NoRequest.wLength = 0
      BY <1>1 DEF Shapes, NoRequest
    <3> QED
      BY <3>1, RequestAssumption DEF ConfigurationIsRead
  <2>3. AddressWaits'
    BY <1>1, <1>5, <2>2, SetupFacts DEF AddressWaits
  <2> QED
    BY <2>1, <2>3
<1>6. CASE In0_Process
  <2>1. ConfiguredIsKnown'
    BY <1>1, <1>6, InFacts DEF ConfiguredIsKnown, AddressWaits
  <2>2. AddressWaits'
    BY <1>1, <1>6, InFacts DEF AddressWaits
  <2> QED
    BY <2>1, <2>2
<1>7. CASE Out0_Process
  BY <1>1, <1>7, OutFacts DEF ConfiguredIsKnown, AddressWaits
<1>8. CASE ESOF \/ Suspend \/ WakeUp
  BY <1>1, <1>8, PowerFacts DEF ConfiguredIsKnown, AddressWaits
<1>9. CASE TMC_Reset
  BY <1>1, <1>9, ResetFacts DEF ConfiguredIsKnown, AddressWaits
<1>10. CASE UNCHANGED vars
  BY <1>2, <1>10 DEF vars, core
<1> QED
  BY <1>3, <1>4, <1>5, <1>6, <1>7, <1>8, <1>9, <1>10 DEF Next

(* For every host that reads the data of GET_CONFIGURATION and does not    *)
(* write it, and in whatever order resets, suspensions, requests and       *)
(* interrupts come, bDeviceState says CONFIGURED (or SUSPENDED) of a       *)
(* device that has a configuration: In0_Process, which makes it ADDRESSED  *)
(* at the end of SET_ADDRESS, finds it unconfigured, also when it serves a *)
(* status stage left over from before a reset.                             *)
THEOREM ConfigurationIsKnown ==
  ASSUME ConfigurationIsRead
  PROVE  Spec => []ConfiguredIsKnown
<1>1. Init => KnownInv
  BY InitKnown
<1>2. KnownInv /\ [Next]_vars => KnownInv'
  BY StepKnown
<1>3. KnownInv => ConfiguredIsKnown
  BY DEF KnownInv
<1> QED
  BY <1>1, <1>2, <1>3, PTL DEF Spec

-----------------------------------------------------------------------------
(* The address, for a host that makes a request, or resets the device,     *)
(* only when nothing waits.                                                *)

(* The stage the host is in is one of its request.                         *)
Stages ==
  /\ host.req \in Requests \cup {NoRequest}
  /\ host.phase \in {"data", "status_out"} => host.req.dir = "IN"
  /\ host.phase = "status_in" => host.req.dir # "IN"
  /\ host.phase = "data_out" => host.req.dir = "OUT"

(* While a transaction is served nothing else is accepted, and a SETUP     *)
(* waits or is served alone.                                               *)
OneAtATime ==
  /\ save.serves # "none" => ep0.tx = "NAK" /\ ep0.rx = "NAK" /\ ~ep0.ctrTx
  /\ save.serves \in {"setup", "out"} => ep0.ctrRx = "none"
  /\ ep0.ctrRx = "setup" =>
       save.serves = "none" /\ ~ep0.ctrTx /\ ep0.tx # "VALID" /\ ep0.rx # "VALID"
  /\ ep0.ctrTx => ep0.tx # "VALID"
  /\ save.serves = "setup" => save.tx # "VALID"

(* A packet of the device is ready, or was read and is not yet served.     *)
Answers == ep0.tx = "VALID" \/ ep0.ctrTx \/ save.serves = "in"

(* The request the core works on is the one the host waits for.            *)
SameRequest ==
  \/ Answers
  \/ ep0.rx = "VALID" /\ host.phase # "idle"
  \/ ep0.ctrRx = "out" \/ save.serves = "out"
  => req = host.req

(* What such a packet is, by the state of the transfer.                    *)
Meaning ==
  /\ Answers => \/ ControlState \in {"IN_DATA", "LAST_IN_DATA"} /\ req.dir = "IN"
                \/ /\ ControlState \in {"OUT_DATA", "LAST_OUT_DATA", "WAIT_STATUS_IN"}
                   /\ req.dir # "IN"
  /\ ControlState \in {"OUT_DATA", "LAST_OUT_DATA"} => req.dir # "IN" /\ req.name # "SET_ADDRESS"

(* The host has read the status of SET_ADDRESS, and the device has not     *)
(* noticed yet: only then do they disagree.                                *)
Pending ==
  /\ ep0.ctrTx \/ save.serves = "in"
  /\ ControlState = "WAIT_STATUS_IN" /\ req.name = "SET_ADDRESS"
Agreement ==
  /\ Pending => host.address = req.value
  /\ dev.address # host.address => Pending

AddressInv == Shapes /\ Stages /\ OneAtATime /\ SameRequest /\ Meaning /\ Agreement

(* A request without data has no direction.                                *)
LEMMA RequestDirection ==
  ASSUME NEW r \in Requests \cup {NoRequest}
  PROVE  /\ r.wLength = 0 => r.dir # "IN"
         /\ r.dir \in {"IN", "OUT", "NONE"}
<1>1. CASE r = NoRequest
  BY <1>1 DEF NoRequest
<1>2. CASE r \in Requests
  BY <1>2, RequestAssumption
<1> QED
  BY <1>1, <1>2

LEMMA InitAddress == Init => AddressInv
<1> SUFFICES ASSUME Init
             PROVE  AddressInv
  OBVIOUS
<1>1. Shapes
  BY InitKnown DEF KnownInv
<1>2. /\ host.req = NoRequest /\ host.phase = "idle" /\ host.address = 0 /\ dev.address = 0
      /\ save.serves = "none" /\ ep0.rx = "VALID" /\ ep0.tx = "STALL" /\ ep0.ctrRx = "none"
      /\ ControlState = "IN_DATA"
  BY DEF Init, AfterReset, Idle, NoRequest
<1>3. ~ep0.ctrTx
  BY DEF Init
<1> QED
  BY <1>1, <1>2, <1>3 DEF AddressInv, Stages, OneAtATime, SameRequest, Answers, Meaning, Agreement, Pending

LEMMA StepAddress ==
  ASSUME Paced, AddressInv, [Next]_vars
  PROVE  AddressInv'
<1>1. Shapes /\ Stages /\ OneAtATime /\ SameRequest /\ Meaning /\ Agreement /\ Shapes'
  BY StepShapes DEF AddressInv
<1> SUFFICES Stages' /\ OneAtATime' /\ SameRequest' /\ Meaning' /\ Agreement'
  BY <1>1 DEF AddressInv
<1>2. ep0.ctrRx \in {"none", "setup", "out"} /\ save.serves \in {"none", "in", "setup", "out"}
  BY <1>1 DEF Shapes
<1>3. ASSUME NEW r \in Requests, HostSetup(r)
      PROVE  Stages' /\ OneAtATime' /\ SameRequest' /\ Meaning' /\ Agreement'
  <2>1. Quiet
    BY <1>1, <1>3, HostSetupFacts
  <2>2. /\ save.serves = "none" /\ save' = save /\ ~ep0'.ctrTx
        /\ ep0'.rx = "NAK" /\ ep0'.tx = "NAK" /\ ep0'.ctrRx = "setup"
        /\ host'.req = r /\ host'.address = dev'.address /\ ControlState' = ControlState
        /\ req' = req
        /\ host'.phase = CASE r.dir = "IN" -> "data" [] r.dir = "OUT" -> "data_out"
                           [] OTHER -> "status_in"
    BY <1>1, <1>3, <2>1, HostSetupFacts DEF Quiet
  <2>3. Stages'
    <3>1. r.dir \in {"IN", "OUT", "NONE"}
      BY RequestDirection
    <3> QED
      BY <2>2, <3>1 DEF Stages
  <2>4. OneAtATime' /\ SameRequest'
    BY <2>2 DEF OneAtATime, SameRequest, Answers
  <2>5. Meaning' /\ Agreement'
    BY <1>1, <2>2 DEF Meaning, Answers, Agreement, Pending
  <2> QED
    BY <2>3, <2>4, <2>5
<1>4. CASE HostStalled
  <2>1. /\ host'.req = host.req /\ host'.address = host.address /\ host'.phase = "idle"
        /\ UNCHANGED <<ControlState, req, dev, ep0, save>>
    BY <1>1, <1>4, HostStalledFacts
  <2>2. Stages' /\ OneAtATime'
    BY <1>1, <2>1 DEF Stages, OneAtATime
  <2>3. SameRequest' /\ Meaning' /\ Agreement'
    BY <1>1, <2>1 DEF SameRequest, Answers, Meaning, Agreement, Pending
  <2> QED
    BY <2>2, <2>3
<1>5. CASE HostReads
  <2>1. /\ ep0.tx = "VALID" /\ host.phase = "data"
        /\ ep0'.rx = ep0.rx /\ ep0'.tx = "NAK" /\ ep0'.ctrRx = ep0.ctrRx /\ ep0'.ctrTx = TRUE
        /\ host'.req = host.req /\ host'.address = host.address
        /\ host'.phase \in {"data", "status_out"}
        /\ host.address = dev.address
        /\ UNCHANGED <<ControlState, req, dev, save>>
    BY <1>1, <1>5, HostReadsFacts
  <2>2. req = host.req /\ req.dir = "IN" /\ ControlState \in {"IN_DATA", "LAST_IN_DATA"}
    BY <1>1, <2>1 DEF SameRequest, Meaning, Answers, Stages
  <2>3. save.serves = "none" /\ ep0.ctrRx # "setup"
    BY <1>1, <2>1 DEF OneAtATime
  <2>4. Stages' /\ OneAtATime'
    BY <1>1, <2>1, <2>3 DEF Stages, OneAtATime
  <2>5. SameRequest' /\ Meaning' /\ Agreement'
    BY <1>1, <2>1, <2>2, <2>3 DEF SameRequest, Answers, Meaning, Agreement, Pending
  <2> QED
    BY <2>4, <2>5
<1>6. CASE HostReadsStatus
  <2>1. /\ ep0.tx = "VALID" /\ host.phase = "status_in"
        /\ ep0'.rx = ep0.rx /\ ep0'.tx = "NAK" /\ ep0'.ctrRx = ep0.ctrRx /\ ep0'.ctrTx = TRUE
        /\ host'.req = host.req /\ host'.phase = "idle"
        /\ host'.address = IF host.req.name = "SET_ADDRESS" THEN host.req.value ELSE host.address
        /\ host.address = dev.address
        /\ UNCHANGED <<ControlState, req, dev, save>>
    BY <1>1, <1>6, HostReadsStatusFacts
  <2>2. /\ req = host.req /\ req.dir # "IN"
        /\ \/ ControlState = "WAIT_STATUS_IN"
           \/ ControlState \in {"OUT_DATA", "LAST_OUT_DATA"} /\ req.name # "SET_ADDRESS"
    BY <1>1, <2>1 DEF SameRequest, Meaning, Answers, Stages
  <2>3. save.serves = "none" /\ ep0.ctrRx # "setup"
    BY <1>1, <2>1 DEF OneAtATime
  <2>4. Stages' /\ OneAtATime'
    BY <1>1, <2>1, <2>3 DEF Stages, OneAtATime
  <2>5. SameRequest' /\ Meaning' /\ Agreement'
    BY <1>1, <2>1, <2>2, <2>3 DEF SameRequest, Answers, Meaning, Agreement, Pending
  <2> QED
    BY <2>4, <2>5
<1>7. CASE HostWrites
  <2>1. /\ ep0.rx = "VALID" /\ host.phase \in {"data_out", "status_out"}
        /\ ep0'.rx = "NAK" /\ ep0'.tx = ep0.tx /\ ep0'.ctrRx = "out" /\ ep0'.ctrTx = ep0.ctrTx
        /\ host'.req = host.req /\ host'.address = host.address
        /\ host'.phase = IF host.phase = "data_out" THEN "status_in" ELSE "idle"
        /\ UNCHANGED <<ControlState, req, dev, save>>
    BY <1>1, <1>7, HostWritesFacts
  <2>2. save.serves = "none" /\ req = host.req
    BY <1>1, <2>1 DEF OneAtATime, SameRequest
  <2>3. Stages' /\ OneAtATime'
    BY <1>1, <2>1, <2>2 DEF Stages, OneAtATime
  <2>4. SameRequest' /\ Meaning' /\ Agreement'
    BY <1>1, <2>1, <2>2 DEF SameRequest, Answers, Meaning, Agreement, Pending
  <2> QED
    BY <2>3, <2>4
<1>8. CASE CTR_LP
  <2>1. /\ save.serves = "none" /\ save'.serves # "none" /\ save'.tx = ep0.tx
        /\ ep0'.rx = "NAK" /\ ep0'.tx = "NAK" /\ ep0'.ctrTx = FALSE
        /\ \/ ep0.ctrTx /\ save'.serves = "in" /\ ep0'.ctrRx = ep0.ctrRx
           \/ ~ep0.ctrTx /\ save'.serves = ep0.ctrRx /\ ep0'.ctrRx = "none"
        /\ UNCHANGED <<ControlState, req, dev, host>>
    BY <1>1, <1>8, ServeFacts
  <2>2. Stages' /\ OneAtATime'
    BY <1>1, <1>2, <2>1 DEF Stages, OneAtATime
  <2>3. SameRequest' /\ Meaning' /\ Agreement'
    BY <1>1, <1>2, <2>1 DEF SameRequest, Answers, Meaning, Agreement, Pending
  <2> QED
    BY <2>2, <2>3
<1>9. CASE Setup0_Process
  <2>1. /\ save.serves = "setup" /\ req' = host.req /\ host' = host
        /\ dev'.address = dev.address
        /\ ep0'.ctrRx = ep0.ctrRx /\ ep0'.ctrTx = ep0.ctrTx /\ save'.serves = "none"
        /\ \/ ControlState' = "STALLED" /\ ep0'.tx = "STALL"
           \/ /\ host.req.wLength = 0 /\ ControlState' = "WAIT_STATUS_IN" /\ ep0'.tx = "VALID"
           \/ /\ host.req.dir = "IN" /\ ControlState' \in {"IN_DATA", "LAST_IN_DATA"}
              /\ ep0'.tx = "VALID"
           \/ /\ host.req.dir # "IN" /\ ControlState' = "OUT_DATA" /\ ep0'.tx = save.tx
              /\ host.req.name # "SET_ADDRESS"
    BY <1>1, <1>9, SetupFacts
  <2>2. ~ep0.ctrTx /\ ep0.ctrRx = "none" /\ save.tx # "VALID"
    BY <1>1, <2>1 DEF OneAtATime
  <2>3. host.req.wLength = 0 => host.req.dir # "IN"
    BY <1>1, RequestDirection DEF Stages
  <2>4. Stages' /\ OneAtATime' /\ SameRequest'
    BY <1>1, <2>1, <2>2 DEF Stages, OneAtATime, SameRequest
  <2>5. Meaning'
    BY <2>1, <2>2, <2>3 DEF Meaning, Answers
  <2>6. Agreement'
    BY <1>1, <2>1, <2>2 DEF Agreement, Pending
  <2> QED
    BY <2>4, <2>5, <2>6
<1>10. CASE In0_Process
  <2>1. /\ save.serves = "in" /\ req' = req /\ host' = host
        /\ ep0'.ctrRx = ep0.ctrRx /\ ep0'.ctrTx = ep0.ctrTx /\ save'.serves = "none"
        /\ \/ /\ ControlState' = "STALLED" /\ ep0'.tx = "STALL"
              /\ ControlState \notin {"IN_DATA", "LAST_IN_DATA"}
              /\ IF ControlState = "WAIT_STATUS_IN" /\ req.name = "SET_ADDRESS"
                 THEN dev'.address = req.value ELSE dev' = dev
           \/ /\ ControlState \in {"IN_DATA", "LAST_IN_DATA"}
              /\ ControlState' \in {"IN_DATA", "LAST_IN_DATA"}
              /\ dev' = dev
           \/ /\ ControlState \in {"IN_DATA", "LAST_IN_DATA"}
              /\ ControlState' = "WAIT_STATUS_OUT" /\ ep0'.tx = "STALL"
              /\ dev' = dev
    BY <1>1, <1>10, InFacts
  <2>2. ~ep0.ctrTx /\ ep0.ctrRx # "setup" /\ req = host.req
    BY <1>1, <2>1 DEF OneAtATime, SameRequest, Answers
  <2>3. Stages' /\ OneAtATime' /\ SameRequest'
    BY <1>1, <2>1, <2>2 DEF Stages, OneAtATime, SameRequest
  <2>4. Meaning'
    BY <1>1, <2>1, <2>2 DEF Meaning, Answers
  <2>5. Agreement'
    BY <1>1, <2>1, <2>2 DEF Agreement, Pending
  <2> QED
    BY <2>3, <2>4, <2>5
<1>11. CASE Out0_Process
  <2>1. /\ save.serves = "out" /\ req' = req /\ host' = host /\ dev'.address = dev.address
        /\ ep0'.ctrRx = ep0.ctrRx /\ ep0'.ctrTx = ep0.ctrTx /\ save'.serves = "none"
        /\ \/ ControlState' = "STALLED" /\ ep0'.tx = "STALL"
           \/ /\ ControlState \in {"OUT_DATA", "LAST_OUT_DATA"}
              /\ ControlState' \in {"OUT_DATA", "LAST_OUT_DATA", "WAIT_STATUS_IN"}
    BY <1>1, <1>11, OutFacts
  <2>2. ~ep0.ctrTx /\ ep0.ctrRx = "none" /\ req = host.req
    BY <1>1, <2>1 DEF OneAtATime, SameRequest
  <2>3. Stages' /\ OneAtATime' /\ SameRequest'
    BY <1>1, <2>1, <2>2 DEF Stages, OneAtATime, SameRequest
  <2>4. Meaning'
    BY <1>1, <2>1, <2>2 DEF Meaning, Answers
  <2>5. Agreement'
    BY <1>1, <2>1, <2>2 DEF Agreement, Pending
  <2> QED
    BY <2>3, <2>4, <2>5
<1>12. CASE ESOF \/ Suspend \/ WakeUp
  <2>1. dev'.address = dev.address /\ UNCHANGED <<ControlState, req, ep0, save, host>>
    BY <1>1, <1>12, PowerFacts
  <2>2. Stages' /\ OneAtATime' /\ SameRequest'
    BY <1>1, <2>1 DEF Stages, OneAtATime, SameRequest, Answers
  <2>3. Meaning' /\ Agreement'
    BY <1>1, <2>1 DEF Meaning, Answers, Agreement, Pending
  <2> QED
    BY <2>2, <2>3
<1>13. CASE TMC_Reset
  <2>1. /\ save.serves = "none" /\ dev'.address = 0
        /\ ep0'.rx = "VALID" /\ ep0'.tx = "STALL" /\ ep0'.ctrRx = "none" /\ ~ep0'.ctrTx
        /\ host'.req = host.req /\ host'.address = 0 /\ host'.phase = "idle"
        /\ UNCHANGED <<ControlState, req, save>>
    BY <1>1, <1>13, ResetFacts DEF Quiet
  <2>2. Stages' /\ OneAtATime' /\ SameRequest'
    BY <1>1, <2>1 DEF Stages, OneAtATime, SameRequest, Answers
  <2>3. Meaning' /\ Agreement'
    BY <1>1, <2>1 DEF Meaning, Answers, Agreement, Pending
  <2> QED
    BY <2>2, <2>3
<1>14. CASE UNCHANGED vars
  <2>1. UNCHANGED <<ControlState, req, dev, ep0, save, host>>
    BY <1>14 DEF vars, core
  <2>2. Stages' /\ OneAtATime' /\ SameRequest'
    BY <1>1, <2>1 DEF Stages, OneAtATime, SameRequest, Answers
  <2>3. Meaning' /\ Agreement'
    BY <1>1, <2>1 DEF Meaning, Answers, Agreement, Pending
  <2> QED
    BY <2>2, <2>3
<1> QED
  BY <1>3, <1>4, <1>5, <1>6, <1>7, <1>8, <1>9, <1>10, <1>11, <1>12, <1>13, <1>14 DEF Next

(* For a host that waits until the device has served a transaction before  *)
(* it sends the next SETUP or resets the bus: whenever nothing waits to be *)
(* served, the device has the address the host gave it last, whatever      *)
(* transfers were given up and whatever resets there were.  (A reset that  *)
(* overtakes the status stage of SET_ADDRESS does not leave the device at  *)
(* address 0: UsbReset.cfg.)                                               *)
THEOREM AddressIsAgreed ==
  ASSUME Paced
  PROVE  Spec => []AddressAgreed
<1>1. Init => AddressInv
  BY InitAddress
<1>2. AddressInv /\ [Next]_vars => AddressInv'
  BY StepAddress
<1>3. AddressInv => AddressAgreed
  BY DEF AddressInv, Agreement, Pending, AddressAgreed, Quiet
<1> QED
  BY <1>1, <1>2, <1>3, PTL DEF Spec
-----------------------------------------------------------------------------
(* Answers, for such a host and for requests as the standard and USBTMC    *)
(* make them, or unknown ones, or some made in the wrong direction: no     *)
(* string that there is not is asked for (UsbString.cfg), and no data of   *)
(* the host is stored into what later answers tell (UsbStore.cfg).         *)
WellMade(r) ==
  /\ r.value \in Nat
  /\ r.dir = "OUT" => Kept(r) = "none"
  /\ \/ r.name = "UNKNOWN"
     \/ /\ r.name \in DOMAIN ClassSize /\ r.dir = "IN"
        /\ r.to \in {"INTERFACE_CLASS", "ENDPOINT_CLASS"}
     \/ /\ r.name = "GET_DESCRIPTOR" /\ r.dir # "NONE"
        /\ r.to \in {"DEVICE", "CONFIG", "STRING", "QUALIFIER"} /\ ~NoString(r)
     \/ /\ r.name = "GET_STATUS" /\ r.wLength = 2
        /\ r.to \in Endpoints \cup {"DEVICE", "INTERFACE", "EP1_IN"}
     \/ r.name = "GET_CONFIGURATION" /\ r.dir # "NONE" /\ r.to = "DEVICE"
     \/ r.name = "GET_INTERFACE" /\ r.wLength = 1 /\ r.to = "INTERFACE" /\ r.value = 0
     \/ r.name = "SET_CONFIGURATION" /\ r.dir = "NONE" /\ r.to = "DEVICE"
     \/ r.name = "SET_ADDRESS" /\ r.dir = "NONE" /\ r.to = "DEVICE" /\ r.value <= 127
     \/ r.name = "SET_INTERFACE" /\ r.dir = "NONE" /\ r.to = "INTERFACE" /\ r.value = 0
     \/ /\ r.name \in {"SET_FEATURE", "CLEAR_FEATURE"} /\ r.dir = "NONE"
        /\ r.to \in Endpoints \cup {"EP1_IN"}
     \/ r.name = "SET_PROTOCOL" /\ r.dir = "NONE" /\ r.to = "INTERFACE_CLASS"

(* The largest answer, the configuration descriptor.                       *)
Largest == 32

(* What a request changes of the things the host keeps track of, and into  *)
(* what.                                                                   *)
Tracked == {"config", "EP1_OUT", "EP2_IN"}
Target(r) == CASE r.name = "SET_CONFIGURATION" -> "config"
               [] r.name \in {"SET_FEATURE", "CLEAR_FEATURE"} -> r.to
               [] OTHER -> "none"
Given(r) == CASE r.name = "SET_CONFIGURATION" -> r.value
              [] r.name = "SET_FEATURE" -> 1
              [] OTHER -> 0
Held(d, w) == IF w = "config" THEN d.config ELSE Flag(d[w] = "STALL")
Has(w) == Held(dev, w)

(* A SETUP waits to be served or is being served.                          *)
Fresh == ep0.ctrRx = "setup" \/ save.serves = "setup"

(* Where a transfer can be.  The SETUP was sent: whether the request will  *)
(* be accepted is among what the host expects ...                          *)
Asked ==
  /\ host.phase = CASE host.req.dir = "IN" -> "data" [] host.req.dir = "OUT" -> "data_out"
                    [] OTHER -> "status_in"
  /\ \/ ep0.ctrRx = "setup" /\ save.serves = "none"
     \/ ep0.ctrRx = "none" /\ save.serves = "setup" /\ save.tx = "NAK"
  /\ ep0.tx = "NAK" /\ ep0.rx = "NAK" /\ ~ep0.ctrTx
  /\ Offered(host.req, dev.config) \in host.offered
  /\ host.got = <<>>

(* ... it was refused ...                                                  *)
Stalled ==
  /\ Quiet /\ ep0.tx = "STALL" /\ ep0.rx = "STALL"
  /\ FALSE \in host.offered /\ host.got = <<>>

(* ... its answer waits to be read ...                                     *)
DataReady ==
  /\ host.phase = "data" /\ host.req.dir = "IN"
  /\ Quiet /\ ep0.tx = "VALID" /\ ep0.rx = "VALID" /\ ControlState = "LAST_IN_DATA"
  /\ TRUE \in host.offered /\ host.got = <<>>
  /\ txBuf.n \in 1 .. Largest /\ <<txBuf>> \in Answer(host.req)

(* ... was read, and the device serves that or has another packet ready    *)
(* that the host does not want ...                                         *)
DataRead ==
  /\ host.phase = "status_out" /\ host.req.dir = "IN"
  /\ ep0.ctrRx = "none"
  /\ \/ save.serves = "none" /\ ep0.rx = "VALID"
     \/ save.serves = "in" /\ ep0.rx = "NAK" /\ save.rx = "VALID" /\ ~ep0.ctrTx
  /\ ep0.ctrTx \/ save.serves = "in" => ControlState \in {"IN_DATA", "LAST_IN_DATA"}
  /\ TRUE \in host.offered /\ host.got \in Answer(host.req)

(* ... the device waits for data of the host that does no harm ...         *)
DataDue ==
  /\ info.wLength \in 1 .. Largest
  /\ req.name \notin DOMAIN ClassSize
  /\ \A old : CopyData(req, 0, old, info.wOffset) \in 1 .. Largest
DataWanted ==
  /\ DataDue
  /\ host.phase = "data_out" /\ host.req.dir = "OUT"
  /\ Quiet /\ ep0.tx = "NAK" /\ ep0.rx = "VALID" /\ ControlState = "OUT_DATA"
  /\ TRUE \in host.offered /\ host.got = <<>>

(* ... has got it ...                                                      *)
DataWritten ==
  /\ DataDue
  /\ host.phase = "status_in" /\ host.req.dir = "OUT"
  /\ \/ ep0.ctrRx = "out" /\ save.serves = "none"
     \/ ep0.ctrRx = "none" /\ save.serves = "out"
  /\ ep0.tx = "NAK" /\ ~ep0.ctrTx /\ ControlState = "OUT_DATA"
  /\ TRUE \in host.offered /\ host.got = <<>>

(* ... or the request was performed, and only the status has to be read.   *)
StatusReady ==
  /\ host.phase = "status_in" /\ host.req.dir # "IN"
  /\ Quiet /\ ep0.tx = "VALID" /\ txBuf.n = 0
  /\ Target(host.req) \in Tracked => Has(Target(host.req)) = Given(host.req)
  /\ TRUE \in host.offered /\ host.got = <<>>

(* The host knows what the device has, but for what a request has done     *)
(* whose status was not read yet.                                          *)
Knows == \A w \in Tracked : Has(w) \in host[w] \/ (StatusReady /\ w = Target(host.req))

InTransfer ==
  /\ host.req \in Requests /\ host.result = "none"
  /\ Asked \/ Stalled \/ DataReady \/ DataRead \/ DataWanted \/ DataWritten \/ StatusReady

Settled == IF host.phase = "idle" THEN ~Fresh /\ AnswerIsRight ELSE InTransfer

(* What the host's data can be stored into is as it was at the start.      *)
Unstored ==
  /\ packetSize \in {0, MaxPacketSize}
  /\ ram = [alternate |-> 0, serial |-> "STRING"]
  /\ ControlState \in {"OUT_DATA", "LAST_OUT_DATA"} => Kept(req) = "none"

AnswerInv == Shapes /\ Knows /\ Settled /\ Unstored

-----------------------------------------------------------------------------
(* What a request is told to change is what the host notes.                *)
LEMMA ToldMaybe ==
  ASSUME Shapes, NEW r, NEW h, h = Told(host, r, FALSE)
  PROVE  /\ DOMAIN h = DOMAIN host /\ h.got = host.got /\ h.offered = host.offered
         /\ \A w \in Tracked : h[w] = IF w = Target(r) THEN host[w] \cup {Given(r)} ELSE host[w]
<1> DEFINE what == Target(r)
           new == host[what] \cup {Given(r)}
<1>1. h = IF what \notin Tracked THEN host ELSE [host EXCEPT ![what] = new]
  BY DEF Told, Target, Given, Tracked
<1> HIDE DEF what
<1>2. CASE what \notin Tracked
  BY <1>1, <1>2 DEF what
<1>3. CASE what \in Tracked
  <2>1. h = [host EXCEPT ![what] = new]
    BY <1>1, <1>3
  <2> HIDE DEF new
  <2>2. /\ DOMAIN h = DOMAIN host /\ h.got = host.got /\ h.offered = host.offered
        /\ \A w \in Tracked : h[w] = IF w = what THEN new ELSE host[w]
    BY <1>3, <2>1 DEF Shapes, Tracked
  <2> QED
    BY <2>2 DEF what, new
<1> QED
  BY <1>2, <1>3

LEMMA ToldSure ==
  ASSUME Shapes, NEW r, NEW h, h = Told(host, r, TRUE)
  PROVE  /\ DOMAIN h = DOMAIN host /\ h.got = host.got /\ h.offered = host.offered
         /\ \A w \in Tracked : h[w] = IF w = Target(r) THEN {Given(r)} ELSE host[w]
<1> DEFINE what == Target(r)
           new == {Given(r)}
<1>1. h = IF what \notin Tracked THEN host ELSE [host EXCEPT ![what] = new]
  BY DEF Told, Target, Given, Tracked
<1> HIDE DEF what
<1>2. CASE what \notin Tracked
  BY <1>1, <1>2 DEF what
<1>3. CASE what \in Tracked
  <2>1. h = [host EXCEPT ![what] = new]
    BY <1>1, <1>3
  <2> HIDE DEF new
  <2>2. /\ DOMAIN h = DOMAIN host /\ h.got = host.got /\ h.offered = host.offered
        /\ \A w \in Tracked : h[w] = IF w = what THEN new ELSE host[w]
    BY <1>3, <2>1 DEF Shapes, Tracked
  <2> QED
    BY <2>2 DEF what, new
<1> QED
  BY <1>2, <1>3

(* A new request: what the host expects of it, and of the one it gives up. *)
LEMMA AskedFacts ==
  ASSUME Shapes, NEW r, HostSetup(r)
  PROVE  /\ host'.result = "none" /\ host'.got = <<>>
         /\ \A w \in Tracked :
              /\ host[w] \subseteq host'[w]
              /\ host.phase # "idle" /\ w = Target(host.req) => Given(host.req) \in host'[w]
         /\ \A c \in host'.config : Offered(r, c) \in host'.offered
<1> DEFINE h == IF host.phase = "idle" THEN host ELSE Told(host, host.req, FALSE)
           phase == CASE r.dir = "IN" -> "data" [] r.dir = "OUT" -> "data_out"
                      [] OTHER -> "status_in"
           offered == {Offered(r, c) : c \in h.config}
           givenUp == IF host.phase = "idle" THEN h.givenUp ELSE h.givenUp + 1
<1>1. host' = [h EXCEPT !.req = r, !.result = "none", !.got = <<>>, !.offered = offered,
                        !.phase = phase, !.givenUp = givenUp]
  BY DEF HostSetup
<1>2. CASE host.phase = "idle"
  <2>1. h = host
    BY <1>2
  <2> QED
    <3>1. DOMAIN h = DOMAIN host
      BY <2>1
    <3> HIDE DEF h, phase, givenUp, offered
    <3>2. /\ host'.result = "none" /\ host'.got = <<>> /\ host'.offered = offered
          /\ \A w \in Tracked : host'[w] = h[w]
          /\ host'.config = h.config
      BY <1>1, <3>1 DEF Shapes, Tracked
    <3>3. \A c \in host'.config : Offered(r, c) \in host'.offered
      BY <3>2 DEF offered
    <3> QED
      BY <1>2, <2>1, <3>2, <3>3
<1>3. CASE host.phase # "idle"
  <2>1. h = Told(host, host.req, FALSE)
    BY <1>3
  <2> HIDE DEF h
  <2>2. /\ DOMAIN h = DOMAIN host
        /\ \A w \in Tracked :
             h[w] = IF w = Target(host.req) THEN host[w] \cup {Given(host.req)} ELSE host[w]
    BY <2>1, ToldMaybe
  <2> HIDE DEF phase, givenUp, offered
  <2>3. /\ host'.result = "none" /\ host'.got = <<>> /\ host'.offered = offered
        /\ \A w \in Tracked : host'[w] = h[w]
        /\ host'.config = h.config
    BY <1>1, <2>2 DEF Shapes, Tracked
  <2>4. \A c \in host'.config : Offered(r, c) \in host'.offered
    BY <2>3 DEF offered
  <2>5. ASSUME NEW w \in Tracked
        PROVE  /\ host[w] \subseteq host'[w]
               /\ w = Target(host.req) => Given(host.req) \in host'[w]
    <3>1. host'[w] = IF w = Target(host.req) THEN host[w] \cup {Given(host.req)} ELSE host[w]
      BY <2>2, <2>3
    <3> QED
      BY <3>1
  <2> QED
    BY <2>3, <2>4, <2>5
<1> QED
  BY <1>2, <1>3

(* The device has a routine for exactly the requests it offers, and each   *)
(* of these has an answer of at least one and at most 32 bytes.            *)
AnswerSize(r) == IF r.name \in DOMAIN ClassSize THEN ClassSize[r.name] ELSE StandardSize(r)

LEMMA OfferedData ==
  ASSUME NEW r \in Requests, WellMade(r), r.wLength # 0
  PROVE  CopyRoutine(r) <=> Offered(r, dev.config)
<1>1. r.dir # "NONE"
  BY RequestAssumption
<1>2. /\ "UNKNOWN" \notin DOMAIN ClassSize
      /\ \A n \in DOMAIN ClassSize :
           n \notin {"GET_DESCRIPTOR", "GET_STATUS", "GET_CONFIGURATION", "GET_INTERFACE",
                     "SET_CONFIGURATION", "SET_ADDRESS", "SET_INTERFACE", "SET_FEATURE",
                     "CLEAR_FEATURE", "SET_PROTOCOL"}
  BY DEF ClassSize
<1>3. CASE r.name = "UNKNOWN"
  BY <1>2, <1>3 DEF CopyRoutine, Offered
<1>4. CASE r.name \in DOMAIN ClassSize
  BY <1>1, <1>2, <1>4 DEF WellMade, CopyRoutine, Offered, NoString
<1>5. CASE r.name = "GET_DESCRIPTOR"
  BY <1>1, <1>2, <1>5 DEF WellMade, CopyRoutine, Offered, NoString
<1>6. CASE r.name = "GET_STATUS"
  BY <1>1, <1>2, <1>6 DEF WellMade, CopyRoutine, Offered, NoString, Endpoints
<1>7. CASE r.name \in {"GET_CONFIGURATION", "GET_INTERFACE"}
  BY <1>1, <1>2, <1>7 DEF WellMade, CopyRoutine, Offered, NoString
<1> QED
  BY <1>1, <1>3, <1>4, <1>5, <1>6, <1>7 DEF WellMade

LEMMA OfferedNoData ==
  ASSUME NEW r \in Requests, WellMade(r), r.wLength = 0
  PROVE  /\ Accepted(r) <=> Offered(r, dev.config)
         /\ r.name \in {"SET_FEATURE", "CLEAR_FEATURE"} => r.to \in Endpoints \cup {"EP1_IN"}
<1>1. r.dir = "NONE"
  BY RequestAssumption
<1>2. r.name \notin DOMAIN ClassSize
  BY <1>1, RequestAssumption DEF WellMade, ClassSize
<1>3. r.value \in Nat
  BY DEF WellMade
<1>4. r.name \in {"UNKNOWN", "SET_CONFIGURATION", "SET_ADDRESS", "SET_INTERFACE", "SET_FEATURE",
                  "CLEAR_FEATURE", "SET_PROTOCOL"}
  BY <1>1, <1>2 DEF WellMade
<1>5. CASE r.name = "UNKNOWN"
  BY <1>5 DEF Accepted, Offered
<1>6. CASE r.name = "SET_CONFIGURATION"
  BY <1>2, <1>3, <1>6 DEF WellMade, Accepted, Offered, NoString
<1>7. CASE r.name = "SET_ADDRESS"
  BY <1>2, <1>3, <1>7 DEF WellMade, Accepted, Offered, NoString
<1>8. CASE r.name = "SET_INTERFACE"
  BY <1>2, <1>3, <1>8 DEF WellMade, Accepted, Offered, NoString
<1>9. CASE r.name \in {"SET_FEATURE", "CLEAR_FEATURE"}
  BY <1>2, <1>3, <1>9 DEF WellMade, Accepted, Offered, NoString, Endpoints
<1>10. CASE r.name = "SET_PROTOCOL"
  BY <1>2, <1>3, <1>10 DEF WellMade, Accepted, Offered, NoString
<1> QED
  BY <1>4, <1>5, <1>6, <1>7, <1>8, <1>9, <1>10

LEMMA SizeFacts ==
  ASSUME NEW r, WellMade(r), CopyRoutine(r)
  PROVE  AnswerSize(r) \in 1 .. Largest /\ \A old : CopyData(r, 0, old, 0) = AnswerSize(r)
<1>1. CASE r.name \in DOMAIN ClassSize
  <2>1. AnswerSize(r) = ClassSize[r.name] /\ \A old : CopyData(r, 0, old, 0) = ClassSize[r.name]
    BY <1>1 DEF AnswerSize, CopyData
  <2>2. \A n \in DOMAIN ClassSize : ClassSize[n] \in 1 .. 32
    BY DEF ClassSize
  <2> QED
    BY <1>1, <2>1, <2>2 DEF Largest
<1>2. CASE r.name \notin DOMAIN ClassSize
  <2>1. ~NoString(r) /\ r.value \in Nat
    BY <1>2 DEF WellMade, NoString
  <2>2. r.name \in {"GET_DESCRIPTOR", "GET_STATUS", "GET_CONFIGURATION", "GET_INTERFACE"}
    BY <1>2 DEF CopyRoutine
  <2>3. r.name = "GET_DESCRIPTOR" => r.to \in {"DEVICE", "CONFIG", "STRING"}
    BY <1>2, <2>2 DEF CopyRoutine
  <2>4. StandardSize(r) \in 1 .. 32
    <3>1. CASE r.name = "GET_DESCRIPTOR" /\ r.to = "STRING"
      <4>1. StandardSize(r) = StringSize[r.value + 1]
        BY <3>1 DEF StandardSize
      <4>2. r.value <= 5
        BY <2>1, <3>1 DEF NoString
      <4>3. r.value + 1 \in {1, 2, 3, 4, 5, 6}
        BY <2>1, <4>2
      <4>4. \A j \in {1, 2, 3, 4, 5, 6} : StringSize[j] \in 1 .. 32
        BY DEF StringSize
      <4> QED
        BY <4>1, <4>3, <4>4
    <3>2. CASE ~(r.name = "GET_DESCRIPTOR" /\ r.to = "STRING")
      <4>1. StandardSize(r) \in {18, 32, 2, 1}
        BY <2>2, <2>3, <3>2 DEF StandardSize
      <4> QED
        BY <4>1
    <3> QED
      BY <3>1, <3>2
  <2>5. AnswerSize(r) = StandardSize(r)
    BY <1>2 DEF AnswerSize
  <2>6. ASSUME NEW old
        PROVE  CopyData(r, 0, old, 0) = StandardSize(r)
    <3>1. CopyData(r, 0, old, 0) = StandardSize(r) - 0
      BY <1>2, <2>1 DEF CopyData
    <3> QED
      BY <2>4, <3>1
  <2> QED
    BY <2>4, <2>5, <2>6 DEF Largest
<1> QED
  BY <1>1, <1>2

(* A request for data in one packet, as large as the answer is and as the  *)
(* host asked for.                                                         *)
AnswerPacket(r) == [src |-> Source(r), n |-> Lesser(AnswerSize(r), r.wLength), from |-> 0]

LEMMA DataSetupAnswer ==
  ASSUME Shapes, MaxPacketSize >= Largest,
         NEW r \in Requests, WellMade(r), r.wLength # 0, NEW d, d = Data_Setup0(r)
  PROVE  /\ ~CopyRoutine(r) => d.st = "STALLED"
         /\ CopyRoutine(r) /\ r.dir = "IN" =>
              /\ d.st = "LAST_IN_DATA" /\ d.s.tx = "VALID" /\ d.s.rx = "VALID"
              /\ d.b = AnswerPacket(r)
         /\ CopyRoutine(r) /\ r.dir # "IN" =>
              /\ d.st = "OUT_DATA" /\ d.s.tx = save.tx /\ d.s.rx = "VALID"
              /\ d.i.wLength = AnswerSize(r) /\ d.i.wOffset = 0
<1> DEFINE size == CopyData(r, 0, info.wLength, FirstOffset)
           i == [wLength |-> Lesser(size, r.wLength), wOffset |-> FirstOffset]
           m == IF size >= r.wLength THEN mul
                ELSE size >= MaxPacketSize /\ (size % MaxPacketSize = 0 \/ mul)
           i2 == [i EXCEPT !.wLength = size]
           i3 == IF CopyRoutine(r) THEN i ELSE info
<1>1. CASE ~CopyRoutine(r)
  <2>1. d = [Ends("STALLED") EXCEPT !.i = i3]
    BY <1>1 DEF Data_Setup0
  <2> HIDE DEF i3
  <2>2. d.st = "STALLED"
    BY <2>1 DEF Ends
  <2> QED
    BY <1>1, <2>2
<1>2. CASE CopyRoutine(r)
  <2>1. size = AnswerSize(r) /\ AnswerSize(r) \in 1 .. Largest
    BY <1>2, SizeFacts DEF FirstOffset
  <2>2. size # 0 /\ size \in Nat
    BY <2>1 DEF Largest
  <2>3. CASE r.dir = "IN"
    <3> DEFINE n == Lesser(AnswerSize(r), r.wLength)
    <3>1. n \in 1 .. Largest /\ n <= MaxPacketSize /\ n # 0
      <4>1. r.wLength \in Nat /\ r.wLength # 0 /\ MaxPacketSize \in Nat
        BY RequestAssumption
      <4> QED
        BY <2>1, <4>1 DEF Lesser, Largest
    <3>2. i.wLength = n /\ i.wOffset = 0
      BY <2>1 DEF FirstOffset
    <3>3. d = DataStageIn(r, "SETTING_UP", i, m, save)
      BY <1>2, <2>2, <2>3 DEF Data_Setup0
    <3> HIDE DEF i, m, n, size
    <3>4. Lesser(MaxPacketSize, i.wLength) = n
      <4>1. MaxPacketSize \in Nat
        BY RequestAssumption
      <4> QED
        BY <3>1, <3>2, <4>1 DEF Lesser, Largest
    <3> DEFINE i4 == [wLength |-> CopyData(r, n, i.wLength, i.wOffset) - n,
                      wOffset |-> i.wOffset + n]
               b4 == [src |-> Source(r), n |-> n, from |-> 0]
               s4 == DataAndStatusOut(save)
    <3>5. d = [st |-> "LAST_IN_DATA", i |-> i4, m |-> m, s |-> s4, b |-> b4]
      BY <3>1, <3>2, <3>3, <3>4 DEF DataStageIn
    <3>6. s4.tx = "VALID" /\ s4.rx = "VALID"
      BY DEF DataAndStatusOut, Shapes
    <3>7. b4 = AnswerPacket(r)
      BY DEF AnswerPacket, n
    <3> HIDE DEF i4, b4, s4
    <3>8. d.st = "LAST_IN_DATA" /\ d.s = s4 /\ d.b = b4
      BY <3>5
    <3> QED
      BY <1>2, <2>3, <3>6, <3>7, <3>8
  <2>4. CASE r.dir # "IN"
    <3>1. d = [Ends("OUT_DATA") EXCEPT !.i = i2, !.s = [save EXCEPT !.rx = "VALID"]]
      BY <1>2, <2>2, <2>4 DEF Data_Setup0
    <3>2. i2.wLength = AnswerSize(r) /\ i2.wOffset = 0
      BY <2>1 DEF FirstOffset
    <3> HIDE DEF i2
    <3>3. d.st = "OUT_DATA" /\ d.s.tx = save.tx /\ d.s.rx = "VALID"
      BY <3>1 DEF Ends, Shapes
    <3>4. d.i = i2
      BY <3>1 DEF Ends
    <3> QED
      BY <1>2, <2>4, <3>2, <3>3, <3>4
  <2> QED
    BY <2>3, <2>4
<1> QED
  BY <1>1, <1>2

(* Such a packet is an answer the host may expect if it knows what the     *)
(* device has.                                                             *)
LEMMA PacketAnswers ==
  ASSUME Unstored, NEW r, WellMade(r), CopyRoutine(r), \A w \in Tracked : Has(w) \in host[w]
  PROVE  <<AnswerPacket(r)>> \in Answer(r)
<1> DEFINE values == CASE r.name = "GET_CONFIGURATION" -> host.config
                       [] r.name = "GET_STATUS" /\ r.to \in {"EP1_OUT", "EP2_IN"} -> host[r.to]
                       [] r.name = "GET_STATUS" /\ r.to \notin {"EP1_OUT", "EP2_IN"} ->
                            {Flag(r.to = "DEVICE")}
                       [] OTHER -> {r.value}
           P(v) == [src |-> [name |-> r.name, to |-> r.to, value |-> v], from |-> 0,
                    n |-> Lesser(AnswerSize(r), r.wLength)]
<1>1. Answer(r) = {<<P(v)>> : v \in values}
  BY DEF Answer, AnswerSize
<1>2. ~NoString(r)
  BY DEF WellMade, NoString, ClassSize
<1>2a. Kept(r) = "serial" => r.to = "STRING" /\ r.name = "GET_DESCRIPTOR"
  BY DEF Kept
<1>3. \E v \in values : Source(r) = [name |-> r.name, to |-> r.to, value |-> v]
  <2>1. CASE r.name = "GET_CONFIGURATION"
    <3>1. dev.config \in host.config
      BY DEF Tracked, Has, Held
    <3>2. Source(r) = [name |-> r.name, to |-> r.to, value |-> dev.config]
      BY <1>2, <1>2a, <2>1 DEF Source
    <3> QED
      BY <2>1, <3>1, <3>2
  <2>2. CASE r.name = "GET_STATUS" /\ r.to \in {"EP1_OUT", "EP2_IN"}
    <3> DEFINE x == IF dev[r.to] = "STALL" THEN 1 ELSE 0
    <3>1. Source(r) = [name |-> r.name, to |-> r.to, value |-> x]
      BY <1>2, <1>2a, <2>2 DEF Source, Halted, Flag
    <3>2. x \in host[r.to]
      <4>1. Has(r.to) \in host[r.to]
        BY <2>2 DEF Tracked
      <4> QED
        BY <2>2, <4>1 DEF Has, Held, Flag
    <3> HIDE DEF x
    <3>3. values = host[r.to]
      BY <2>2
    <3> QED
      BY <3>1, <3>2, <3>3
  <2>3. CASE r.name = "GET_STATUS" /\ r.to \notin {"EP1_OUT", "EP2_IN"}
    <3> DEFINE x == Flag(r.to = "DEVICE" \/ Halted(r.to))
    <3>1. Source(r) = [name |-> r.name, to |-> r.to, value |-> x]
      BY <1>2, <1>2a, <2>3 DEF Source
    <3>2. x = Flag(r.to = "DEVICE")
      BY <2>3 DEF Halted, Flag
    <3> HIDE DEF x
    <3>3. values = {Flag(r.to = "DEVICE")}
      BY <2>3
    <3> QED
      BY <3>1, <3>2, <3>3
  <2>4. CASE r.name \notin {"GET_CONFIGURATION", "GET_STATUS"}
    <3>1. ram.alternate = 0 /\ ram.serial = "STRING"
      BY DEF Unstored
    <3>2. r.name = "GET_INTERFACE" => r.value = 0
      BY DEF WellMade, ClassSize
    <3>4. Source(r) = [name |-> r.name, to |-> r.to, value |-> r.value]
      <4>1. CASE r.name = "GET_INTERFACE"
        BY <1>2, <1>2a, <3>1, <3>2, <4>1 DEF Source
      <4>2. CASE Kept(r) = "serial"
        BY <1>2, <1>2a, <3>1, <4>2 DEF Source
      <4>3. CASE r.name # "GET_INTERFACE" /\ Kept(r) # "serial"
        BY <1>2, <2>4, <4>3 DEF Source
      <4> QED
        BY <4>1, <4>2, <4>3
    <3>5. values = {r.value}
      BY <2>4
    <3> QED
      BY <3>4, <3>5
  <2> QED
    BY <2>1, <2>2, <2>3, <2>4
<1> HIDE DEF values
<1>4. PICK v \in values : Source(r) = [name |-> r.name, to |-> r.to, value |-> v]
  BY <1>3
<1>5. AnswerPacket(r) = P(v)
  BY <1>4 DEF AnswerPacket
<1> QED
  BY <1>1, <1>5

(* An accepted request gives its target its value, and leaves the rest.    *)
LEMMA PerformedGives ==
  ASSUME Shapes, NEW r, Accepted(r), NEW d, d = Performed(r)
  PROVE  \A w \in Tracked : Held(d, w) = IF w = Target(r) THEN Given(r) ELSE Held(dev, w)
<1>1. CASE r.name = "SET_CONFIGURATION"
  <2> DEFINE st == IF r.value # 0 THEN "CONFIGURED" ELSE dev.state
  <2>1. d = [dev EXCEPT !.config = r.value, !.state = st]
    BY <1>1 DEF Performed
  <2> HIDE DEF st
  <2>2. d.config = r.value /\ d.EP1_OUT = dev.EP1_OUT /\ d.EP2_IN = dev.EP2_IN
    BY <2>1 DEF Shapes
  <2>3. Target(r) = "config" /\ Given(r) = r.value
    BY <1>1 DEF Target, Given
  <2> QED
    BY <2>2, <2>3 DEF Held, Tracked
<1>2. CASE r.name = "SET_FEATURE"
  <2>1. Target(r) = r.to /\ Given(r) = 1 /\ r.to \in {"EP0", "EP1_OUT", "EP2_IN"}
    BY <1>2 DEF Target, Given, Accepted, Endpoints
  <2>2. CASE r.to = "EP0"
    <3>1. d = dev
      BY <1>2, <2>2 DEF Performed, Halted
    <3> QED
      BY <2>1, <2>2, <3>1 DEF Tracked
  <2>3. CASE r.to # "EP0"
    <3>1. d = [dev EXCEPT ![r.to] = "STALL"]
      BY <1>2, <2>3 DEF Performed
    <3>2. d.config = dev.config /\ \A w \in Tracked : d[w] = IF w = r.to THEN "STALL" ELSE dev[w]
      BY <2>1, <2>3, <3>1 DEF Shapes, Tracked
    <3> QED
      BY <2>1, <2>3, <3>2 DEF Held, Tracked, Flag
  <2> QED
    BY <2>2, <2>3
<1>3. CASE r.name = "CLEAR_FEATURE"
  <2>1. Target(r) = r.to /\ Given(r) = 0 /\ r.to \in {"EP0", "EP1_OUT", "EP2_IN"}
    BY <1>3 DEF Target, Given, Accepted, Endpoints
  <2>2. CASE Halted(r.to)
    <3>1. d = [dev EXCEPT ![r.to] = "VALID"] /\ r.to # "EP0"
      BY <1>3, <2>2 DEF Performed, Halted
    <3>2. d.config = dev.config /\ \A w \in Tracked : d[w] = IF w = r.to THEN "VALID" ELSE dev[w]
      BY <2>1, <3>1 DEF Shapes, Tracked
    <3> QED
      BY <2>1, <3>1, <3>2 DEF Held, Tracked, Flag
  <2>3. CASE ~Halted(r.to)
    <3>1. d = dev
      BY <1>3, <2>3 DEF Performed
    <3>2. r.to # "EP0" => dev[r.to] # "STALL"
      BY <2>1, <2>3 DEF Halted
    <3> QED
      BY <2>1, <3>1, <3>2 DEF Held, Tracked, Flag
  <2> QED
    BY <2>2, <2>3
<1>4. CASE r.name \notin {"SET_CONFIGURATION", "SET_FEATURE", "CLEAR_FEATURE"}
  <2>1. d = dev /\ Target(r) = "none"
    BY <1>4 DEF Performed, Target
  <2> QED
    BY <2>1 DEF Tracked
<1> QED
  BY <1>1, <1>2, <1>3, <1>4

-----------------------------------------------------------------------------
(* What the steps make of the things the host keeps track of, and of the   *)
(* packet and the statuses that matter to it.                              *)
LEMMA InKeeps ==
  ASSUME Shapes, In0_Process
  PROVE  /\ \A w \in Tracked : dev'[w] = dev[w]
         /\ ControlState \in {"IN_DATA", "LAST_IN_DATA"} /\ save.rx = "VALID" => ep0'.rx = "VALID"
<1>1. \A w \in Tracked : dev'[w] = dev[w]
  BY DEF In0_Process, Shapes, Tracked
<1>2. ASSUME ControlState \in {"IN_DATA", "LAST_IN_DATA"}, save.rx = "VALID"
      PROVE  ep0'.rx = "VALID"
  <2> DEFINE d == DataStageIn(req, ControlState, info, mul, save)
             length == Lesser(MaxPacketSize, info.wLength)
             sent == [save EXCEPT !.tx = "VALID"]
             closed == [save EXCEPT !.tx = "STALL"]
             both == DataAndStatusOut(save)
  <2>1. sent.rx = "VALID" /\ closed.rx = "VALID" /\ both.rx = "VALID"
    BY <1>2 DEF DataAndStatusOut, Shapes
  <2>2. d.s \in {sent, closed, both}
    <3> HIDE DEF sent, closed, both
    <3> DEFINE st2 == IF info.wLength <= MaxPacketSize THEN "LAST_IN_DATA" ELSE "IN_DATA"
               i2 == [wLength |-> CopyData(req, length, info.wLength, info.wOffset) - length,
                      wOffset |-> info.wOffset + length]
               b2 == [src |-> Source(req), n |-> length,
                      from |-> IF req.name = "GET_DESCRIPTOR" THEN info.wOffset ELSE 0]
    <3>1. \/ d = [st |-> ControlState, i |-> info, m |-> FALSE, s |-> sent, b |-> Empty]
          \/ d = [st |-> "WAIT_STATUS_OUT", i |-> info, m |-> mul, s |-> closed, b |-> txBuf]
          \/ d = [st |-> st2, i |-> i2, m |-> mul, s |-> both, b |-> b2]
      BY DEF DataStageIn, sent, closed, both
    <3> HIDE DEF d, st2, i2, b2
    <3> QED
      BY <3>1
  <2>3. Post0_Process(d)
    BY <1>2 DEF In0_Process
  <2>4. d.st # "STALLED"
    BY <1>2, DataStageInFacts DEF Shapes
  <2> HIDE DEF d, sent, closed, both
  <2>5. ep0'.rx = d.s.rx
    BY <2>3, <2>4, PostFacts
  <2> QED
    BY <2>1, <2>2, <2>5
<1> QED
  BY <1>1, <1>2

LEMMA OutKeeps ==
  ASSUME Shapes, Unstored, DataDue, MaxPacketSize >= Largest, Out0_Process,
         ControlState = "OUT_DATA"
  PROVE  ep0'.tx = "VALID" /\ txBuf'.n = 0
<1> DEFINE length == Lesser(packetSize, info.wLength)
           left == IF info.wLength = 0 THEN 0
                   ELSE CopyData(req, length, info.wLength, info.wOffset) - length
           st == IF left >= packetSize THEN "OUT_DATA"
                 ELSE IF left > 0 THEN "LAST_OUT_DATA" ELSE "WAIT_STATUS_IN"
           sends == left # 0 \/ st = "WAIT_STATUS_IN"
           i2 == [wLength |-> left, wOffset |-> info.wOffset + length]
           sent == [save EXCEPT !.tx = "VALID"]
           both == DataAndStatusOut(save)
           s2 == IF left # 0 THEN both ELSE IF sends THEN sent ELSE save
           b2 == IF sends THEN Empty ELSE txBuf
           d == DataStageOut(req, save)
<1>1. Post0_Process(d)
  BY DEF Out0_Process
<1>3. left # 0 \/ st = "WAIT_STATUS_IN"
  <2>1. /\ info.wLength \in 1 .. 32 /\ MaxPacketSize \in Nat /\ MaxPacketSize >= 32
        /\ packetSize \in {0, MaxPacketSize}
    BY RequestAssumption DEF DataDue, Unstored, Largest
  <2>2. CASE packetSize = 0
    <3>1. length = 0
      BY <2>1, <2>2 DEF Lesser
    <3>2. CopyData(req, 0, info.wLength, info.wOffset) \in 1 .. 32
      BY DEF DataDue, Largest
    <3>3. left = CopyData(req, 0, info.wLength, info.wOffset) - 0
      BY <2>1, <3>1
    <3> HIDE DEF left
    <3>4. left # 0
      BY <3>2, <3>3
    <3> QED
      BY <3>4
  <2>3. CASE packetSize = MaxPacketSize
    <3>1. length = info.wLength
      BY <2>1, <2>3 DEF Lesser
    <3>2. CopyData(req, length, info.wLength, info.wOffset) = info.wLength
      BY <2>1, <3>1 DEF CopyData, DataDue
    <3>3. left = 0
      BY <2>1, <3>1, <3>2
    <3> HIDE DEF left
    <3>4. st = "WAIT_STATUS_IN"
      BY <2>1, <2>3, <3>3
    <3> QED
      BY <3>4
  <2> QED
    BY <2>1, <2>2, <2>3
<1>4. sent.tx = "VALID" /\ both.tx = "VALID"
  BY DEF Shapes, DataAndStatusOut
<1>5. d = [st |-> st, i |-> i2, m |-> mul, s |-> s2, b |-> b2]
  BY DEF DataStageOut
<1>6. s2 \in {sent, both} /\ b2 = Empty
  <2> HIDE DEF left, st, sent, both
  <2> QED
    BY <1>3
<1>7. d.st # "STALLED"
  BY DataStageOutFacts
<1> HIDE DEF d, st, i2, s2, b2, sent, both
<1>8. d.s = s2 /\ d.b = b2
  BY <1>5
<1>9. txBuf' = d.b
  BY <1>1 DEF Post0_Process
<1>10. ep0'.tx = d.s.tx
  BY <1>1, <1>7, PostFacts
<1> QED
  BY <1>4, <1>6, <1>8, <1>9, <1>10 DEF Empty

(* No step stores anything, if requests are so made.                       *)
LEMMA OutUnstored ==
  ASSUME Shapes, Unstored, Out0_Process
  PROVE  Unstored' /\ dev' = dev
<1>1. CASE ControlState \notin {"OUT_DATA", "LAST_OUT_DATA"}
  <2>1. /\ Post0_Process(Ends("STALLED")) /\ UNCHANGED <<dev, ram, packetSize>>
    BY <1>1 DEF Out0_Process
  <2>2. ControlState' = "STALLED"
    BY <2>1 DEF Post0_Process, Ends
  <2> QED
    BY <2>1, <2>2 DEF Unstored
<1>2. CASE ControlState \in {"OUT_DATA", "LAST_OUT_DATA"}
  <2>1. /\ \E v \in 0 .. 255 : PMAToUserBufferCopy(req, v)
        /\ UNCHANGED <<req, packetSize>>
    BY <1>2 DEF Out0_Process
  <2>2. Kept(req) = "none"
    BY <1>2 DEF Unstored
  <2>3. req.name # "GET_CONFIGURATION"
    BY <2>2 DEF Kept
  <2>4. ram' = ram /\ dev' = dev
    BY <2>1, <2>2, <2>3, StoredFacts
  <2>5. Kept(req)' = "none"
    BY <2>1, <2>2 DEF Kept
  <2> QED
    BY <2>1, <2>4, <2>5 DEF Unstored
<1> QED
  BY <1>1, <1>2

LEMMA StepUnstored ==
  ASSUME Shapes, \A r \in Requests : WellMade(r), Unstored, [Next]_vars
  PROVE  Unstored'
<1>1. CASE UNCHANGED <<ControlState, req, packetSize, ram>>
  BY <1>1 DEF Unstored, Kept
<1>2. CASE Setup0_Process
  <2>1. packetSize' \in {packetSize, MaxPacketSize}
    BY <1>2 DEF Setup0_Process
  <2>2. ram' = ram \/ ram' = [ram EXCEPT !.alternate = 0]
    BY <1>2 DEF Setup0_Process
  <2>3. ram' = [alternate |-> 0, serial |-> "STRING"]
    BY <2>2 DEF Unstored
  <2>4. ASSUME ControlState' \in {"OUT_DATA", "LAST_OUT_DATA"}
        PROVE  Kept(req)' = "none"
    <3>1. host.req.dir # "IN" /\ host.req.wLength # 0 /\ req' = host.req
      BY <1>2, <2>4, SetupFacts
    <3>2. host.req \in Requests
      BY <3>1 DEF Shapes, NoRequest
    <3>3. host.req.dir = "OUT"
      BY <3>1, <3>2, RequestAssumption
    <3>4. Kept(host.req) = "none"
      BY <3>2, <3>3 DEF WellMade
    <3> QED
      BY <3>1, <3>4 DEF Kept
  <2> QED
    BY <2>1, <2>3, <2>4 DEF Unstored
<1>3. CASE (\E r \in Requests : HostSetup(r)) \/ HostStalled \/ HostReads \/ HostReadsStatus
  BY <1>1, <1>3 DEF HostSetup, HostStalled, HostReads, HostReadsStatus, core
<1>4. CASE HostWrites \/ CTR_LP \/ ESOF \/ Suspend \/ WakeUp \/ TMC_Reset
  BY <1>1, <1>4 DEF HostWrites, CTR_LP, ESOF, Suspend, WakeUp, TMC_Reset, core
<1>5. CASE In0_Process
  <2>1. UNCHANGED <<packetSize, ram>>
    BY <1>5 DEF In0_Process
  <2>2. ControlState' \notin {"OUT_DATA", "LAST_OUT_DATA"}
    BY <1>5, InFacts
  <2> QED
    BY <2>1, <2>2 DEF Unstored
<1>6. CASE Out0_Process
  BY <1>6, OutUnstored
<1>7. CASE UNCHANGED vars
  BY <1>1, <1>7 DEF vars, core
<1> QED
  BY <1>2, <1>3, <1>4, <1>5, <1>6, <1>7 DEF Next

LEMMA PowerKeeps ==
  ASSUME Shapes, ESOF \/ Suspend \/ WakeUp
  PROVE  txBuf' = txBuf /\ \A w \in Tracked : dev'[w] = dev[w]
<1>1. /\ \/ dev' = dev
         \/ dev' = [dev EXCEPT !.state = "SUSPENDED"]
         \/ dev' = [dev EXCEPT !.state = Leave_LowPowerMode]
      /\ txBuf' = txBuf
  BY DEF ESOF, Suspend, WakeUp, Resume
<1> QED
  BY <1>1 DEF Shapes, Tracked

LEMMA ResetKeeps ==
  ASSUME Shapes, TMC_Reset
  PROVE  host'.result = "none" /\ \A w \in Tracked : Held(dev', w) = 0 /\ host'[w] = {0}
<1>1. dev' = AfterReset
  BY DEF TMC_Reset
<1>2. host' = [host EXCEPT !.phase = "idle", !.result = "none", !.got = <<>>,
                           !.address = 0, !.givenUp = host.givenUp + 1,
                           !.config = {0}, !.EP1_OUT = {0}, !.EP2_IN = {0}]
  BY DEF TMC_Reset
<1>3. dev'.config = 0 /\ dev'.EP1_OUT = "VALID" /\ dev'.EP2_IN = "NAK"
  BY <1>1 DEF AfterReset
<1>4. \A w \in Tracked : Held(dev', w) = 0
  BY <1>3 DEF Held, Tracked, Flag
<1>5. host'.result = "none" /\ \A w \in Tracked : host'[w] = {0}
  BY <1>2 DEF Shapes, Tracked
<1> QED
  BY <1>4, <1>5

(* While the host stays as it is, so do the answers it may expect.         *)
LEMMA AnswerKept ==
  ASSUME host'.req = host.req, \A w \in Tracked : host'[w] = host[w]
  PROVE  Answer(host.req)' = Answer(host.req)
<1>1. /\ host'.config = host.config /\ host'.EP1_OUT = host.EP1_OUT
      /\ host'.EP2_IN = host.EP2_IN
  BY DEF Tracked
<1>2. host.req.to \in {"EP1_OUT", "EP2_IN"} => host'[host.req.to] = host[host.req.to]
  BY <1>1
<1> QED
  BY <1>1, <1>2 DEF Answer

(* A step that leaves host and tracked things alone keeps what is known.   *)
LEMMA KnowsKept ==
  ASSUME Knows, host' = host, \A w \in Tracked : dev'[w] = dev[w], StatusReady => StatusReady'
  PROVE  Knows'
<1>1. \A w \in Tracked : Has(w)' = Has(w)
  BY DEF Has, Held, Tracked
<1>2. Target(host.req)' = Target(host.req)
  BY DEF Target
<1> QED
  BY <1>1, <1>2 DEF Knows

LEMMA IdleKept ==
  ASSUME host.phase = "idle", Settled, host' = host, ~Fresh'
  PROVE  Settled'
<1>1. AnswerIsRight
  BY DEF Settled
<1>2. Answer(host.req)' = Answer(host.req)
  BY AnswerKept
<1>3. AnswerIsRight'
  BY <1>1, <1>2 DEF AnswerIsRight
<1> QED
  BY <1>3 DEF Settled

-----------------------------------------------------------------------------
LEMMA InitAnswer == Init => AnswerInv
<1> SUFFICES ASSUME Init
             PROVE  AnswerInv
  OBVIOUS
<1>1. Shapes
  BY InitKnown DEF KnownInv
<1>2. /\ host.phase = "idle" /\ host.result = "none"
      /\ host.config = {0} /\ host.EP1_OUT = {0} /\ host.EP2_IN = {0}
      /\ dev.config = 0 /\ dev.EP1_OUT = "VALID" /\ dev.EP2_IN = "NAK"
      /\ save.serves = "none" /\ ep0.ctrRx = "none"
  BY DEF Init, AfterReset, Idle
<1>3. Knows
  BY <1>2 DEF Knows, Tracked, Has, Held, Flag
<1>4. Settled
  BY <1>2 DEF Settled, Fresh, AnswerIsRight
<1>5. Unstored
  BY DEF Init, Unstored
<1> QED
  BY <1>1, <1>3, <1>4, <1>5 DEF AnswerInv

(* A SETUP when nothing waits: the request, and what was not finished.     *)
LEMMA AnswerSetup ==
  ASSUME Paced, AnswerInv, NEW r \in Requests, HostSetup(r)
  PROVE  Knows' /\ Settled'
<1>1. Shapes /\ Knows
  BY DEF AnswerInv
<1>2. Quiet
  BY <1>1, HostSetupFacts
<1>3. /\ ep0'.rx = "NAK" /\ ep0'.tx = "NAK" /\ ep0'.ctrRx = "setup" /\ ep0'.ctrTx = ep0.ctrTx
      /\ host'.req = r /\ dev' = dev /\ save' = save
      /\ host'.phase = CASE r.dir = "IN" -> "data" [] r.dir = "OUT" -> "data_out"
                         [] OTHER -> "status_in"
  BY <1>1, HostSetupFacts
<1>4. /\ host'.result = "none" /\ host'.got = <<>>
      /\ \A w \in Tracked :
           /\ host[w] \subseteq host'[w]
           /\ host.phase # "idle" /\ w = Target(host.req) => Given(host.req) \in host'[w]
      /\ \A c \in host'.config : Offered(r, c) \in host'.offered
  BY <1>1, AskedFacts
<1>5. ASSUME NEW w \in Tracked
      PROVE  Has(w) \in host'[w]
  <2>1. CASE Has(w) \in host[w]
    BY <1>4, <2>1
  <2>2. CASE StatusReady /\ w = Target(host.req)
    <3>1. Has(w) = Given(host.req) /\ host.phase # "idle"
      BY <2>2 DEF StatusReady
    <3> QED
      BY <1>4, <2>2, <3>1
  <2> QED
    BY <1>1, <2>1, <2>2 DEF Knows
<1>6. Knows'
  <2>1. \A w \in Tracked : Has(w)' = Has(w)
    BY <1>3 DEF Has, Held
  <2> QED
    BY <1>5, <2>1 DEF Knows
<1>7. dev.config \in host'.config
  BY <1>5 DEF Tracked, Has, Held
<1>8. Asked'
  <2>1. Offered(r, dev.config) \in host'.offered
    BY <1>4, <1>7
  <2>2. Offered(host.req, dev.config)' = Offered(r, dev.config)
    BY <1>3 DEF Offered, NoString
  <2> QED
    BY <1>2, <1>3, <1>4, <2>1, <2>2 DEF Asked, Quiet
<1>9. host'.phase # "idle"
  BY <1>3
<1> QED
  BY <1>3, <1>4, <1>6, <1>8, <1>9 DEF Settled, InTransfer

(* The device refuses.                                                     *)
LEMMA AnswerStalled ==
  ASSUME AnswerInv, HostStalled
  PROVE  Knows' /\ Settled'
<1>1. Shapes /\ Knows /\ Settled
  BY DEF AnswerInv
<1>2. /\ \/ host.phase \in {"data", "status_in"} /\ ep0.tx = "STALL"
         \/ host.phase \in {"data_out", "status_out"} /\ ep0.rx = "STALL"
      /\ host' = [host EXCEPT !.phase = "idle", !.result = "stall"]
      /\ UNCHANGED <<dev, ep0, save>>
  BY DEF HostStalled
<1>3. /\ host'.phase = "idle" /\ host'.result = "stall" /\ host'.got = host.got
      /\ host'.offered = host.offered /\ \A w \in Tracked : host'[w] = host[w]
  BY <1>1, <1>2 DEF Shapes, Tracked
<1>4. Stalled /\ ~StatusReady
  <2>1. InTransfer
    BY <1>1, <1>2 DEF Settled
  <2>2. ~Asked
    BY <1>2 DEF Asked
  <2>3. ~DataReady /\ ~DataRead
    BY <1>2 DEF DataReady, DataRead
  <2>4. ~DataWanted /\ ~DataWritten /\ ~StatusReady
    BY <1>2 DEF DataWanted, DataWritten, StatusReady
  <2> QED
    BY <2>1, <2>2, <2>3, <2>4 DEF InTransfer
<1>5. Knows'
  <2>1. \A w \in Tracked : Has(w)' = Has(w)
    BY <1>2 DEF Has, Held
  <2> QED
    BY <1>1, <1>3, <1>4, <2>1 DEF Knows
<1>6. ~Fresh'
  BY <1>2, <1>4 DEF Fresh, Stalled, Quiet
<1>7. AnswerIsRight'
  BY <1>3, <1>4 DEF AnswerIsRight, Stalled
<1> QED
  BY <1>3, <1>5, <1>6, <1>7 DEF Settled

(* The host reads the answer.                                              *)
LEMMA AnswerRead ==
  ASSUME AnswerInv, HostReads
  PROVE  Knows' /\ Settled'
<1>1. Shapes /\ Knows /\ Settled
  BY DEF AnswerInv
<1> DEFINE got == Append(host.got, txBuf)
           phase == IF txBuf.n < HostPacket \/ Total(got) = host.req.wLength
                    THEN "status_out" ELSE "data"
<1>2. /\ host.phase = "data" /\ ep0.tx = "VALID"
      /\ UNCHANGED <<ControlState, dev, save>>
      /\ host' = [host EXCEPT !.got = got, !.phase = phase]
  BY DEF HostReads, core
<1>3. /\ ep0'.rx = ep0.rx /\ ep0'.ctrRx = ep0.ctrRx
  BY <1>1, HostReadsFacts
<1>4. DataReady /\ host.req \in Requests /\ host.result = "none"
  <2>1. InTransfer
    BY <1>1, <1>2 DEF Settled
  <2>2. ~Asked /\ ~Stalled
    BY <1>2 DEF Asked, Stalled
  <2>3. ~DataRead /\ ~DataWanted /\ ~DataWritten /\ ~StatusReady
    BY <1>2 DEF DataRead, DataWanted, DataWritten, StatusReady
  <2> QED
    BY <2>1, <2>2, <2>3 DEF InTransfer
<1>5. got = <<txBuf>>
  BY <1>4 DEF DataReady
<1>6. phase = "status_out"
  <2>1. txBuf.n \in 1 .. 32
    BY <1>4 DEF DataReady, Largest
  <2>2. txBuf.n < HostPacket
    BY <2>1 DEF HostPacket
  <2> QED
    BY <2>2
<1> HIDE DEF got, phase
<1>7. /\ host'.got = got /\ host'.phase = phase /\ host'.req = host.req
      /\ host'.result = host.result /\ host'.offered = host.offered
      /\ \A w \in Tracked : host'[w] = host[w]
  BY <1>1, <1>2 DEF Shapes, Tracked
<1>8. Answer(host.req)' = Answer(host.req)
  BY <1>7, AnswerKept
<1>9. DataRead'
  BY <1>2, <1>3, <1>4, <1>5, <1>6, <1>7, <1>8 DEF DataReady, DataRead, Quiet
<1>10. Knows'
  <2>1. \A w \in Tracked : Has(w)' = Has(w)
    BY <1>2 DEF Has, Held
  <2>2. ~StatusReady
    BY <1>2 DEF StatusReady
  <2> QED
    BY <1>1, <1>7, <2>1, <2>2 DEF Knows
<1> QED
  BY <1>4, <1>6, <1>7, <1>9, <1>10 DEF Settled, InTransfer

(* The host reads the status: now it knows what the request did.           *)
LEMMA AnswerStatus ==
  ASSUME AnswerInv, HostReadsStatus
  PROVE  Knows' /\ Settled'
<1>1. Shapes /\ Knows /\ Settled
  BY DEF AnswerInv
<1> DEFINE h == Told(host, host.req, TRUE)
           got == IF txBuf.n = 0 THEN h.got ELSE Append(h.got, txBuf)
           address == IF host.req.name = "SET_ADDRESS" THEN host.req.value ELSE h.address
<1>2. /\ host.phase = "status_in" /\ ep0.tx = "VALID" /\ UNCHANGED <<dev, save>>
  BY DEF HostReadsStatus
<1>3. host' = [h EXCEPT !.phase = "idle", !.result = "ok", !.got = got, !.address = address]
  BY DEF HostReadsStatus
<1>4. StatusReady
  <2>1. InTransfer
    BY <1>1, <1>2 DEF Settled
  <2>2. ~Asked /\ ~Stalled
    BY <1>2 DEF Asked, Stalled
  <2>3. ~DataReady /\ ~DataRead /\ ~DataWanted /\ ~DataWritten
    BY <1>2 DEF DataReady, DataRead, DataWanted, DataWritten
  <2> QED
    BY <2>1, <2>2, <2>3 DEF InTransfer
<1>5. /\ DOMAIN h = DOMAIN host /\ h.got = host.got /\ h.offered = host.offered
      /\ \A w \in Tracked : h[w] = IF w = Target(host.req) THEN {Given(host.req)} ELSE host[w]
  BY <1>1, ToldSure
<1>6. h.req = host.req
  BY <1>1, ToldFacts
<1>7. got = <<>>
  BY <1>4, <1>5 DEF StatusReady
<1> HIDE DEF h, got, address
<1>8. /\ host'.phase = "idle" /\ host'.result = "ok" /\ host'.got = <<>>
      /\ host'.req = host.req /\ host'.offered = host.offered
      /\ \A w \in Tracked : host'[w] = h[w]
  BY <1>1, <1>3, <1>5, <1>6, <1>7 DEF Shapes, Tracked
<1>9. Knows'
  <2>1. ASSUME NEW w \in Tracked
        PROVE  Has(w) \in host'[w]
    BY <1>1, <1>4, <1>5, <1>8 DEF Knows, StatusReady
  <2>2. \A w \in Tracked : Has(w)' = Has(w)
    BY <1>2 DEF Has, Held
  <2> QED
    BY <2>1, <2>2 DEF Knows
<1>10. ~Fresh'
  <2>1. ep0'.ctrRx = ep0.ctrRx
    BY <1>1, HostReadsStatusFacts
  <2> QED
    BY <1>2, <1>4, <2>1 DEF Fresh, StatusReady, Quiet
<1>11. AnswerIsRight'
  BY <1>4, <1>8 DEF AnswerIsRight, StatusReady
<1> QED
  BY <1>8, <1>9, <1>10, <1>11 DEF Settled

(* The host writes its data, or the status that ends its reading.          *)
LEMMA AnswerWritten ==
  ASSUME AnswerInv, HostWrites
  PROVE  Knows' /\ Settled'
<1>1. Shapes /\ Knows /\ Settled
  BY DEF AnswerInv
<1>2. /\ ep0.rx = "VALID" /\ host.phase \in {"data_out", "status_out"}
      /\ ep0'.rx = "NAK" /\ ep0'.tx = ep0.tx /\ ep0'.ctrRx = "out" /\ ep0'.ctrTx = ep0.ctrTx
      /\ UNCHANGED <<ControlState, req, dev, save>>
  BY <1>1, HostWritesFacts
<1>3. /\ host.phase = "data_out" => host' = [host EXCEPT !.phase = "status_in"]
      /\ host.phase # "data_out" => host' = [host EXCEPT !.phase = "idle", !.result = "ok"]
  BY DEF HostWrites
<1>4. /\ host'.req = host.req /\ host'.got = host.got /\ host'.offered = host.offered
      /\ \A w \in Tracked : host'[w] = host[w]
      /\ host.phase = "data_out" => host'.phase = "status_in" /\ host'.result = host.result
      /\ host.phase # "data_out" => host'.phase = "idle" /\ host'.result = "ok"
  BY <1>1, <1>3 DEF Shapes, Tracked
<1>5. InTransfer /\ (DataRead \/ DataWanted) /\ ~StatusReady
  <2>1. InTransfer
    BY <1>1, <1>2 DEF Settled
  <2>2. ~Asked /\ ~Stalled
    BY <1>2 DEF Asked, Stalled
  <2>3. ~DataReady /\ ~DataWritten /\ ~StatusReady
    BY <1>2 DEF DataReady, DataWritten, StatusReady
  <2> QED
    BY <2>1, <2>2, <2>3 DEF InTransfer
<1>6. Knows'
  <2>1. \A w \in Tracked : Has(w)' = Has(w)
    BY <1>2 DEF Has, Held
  <2> QED
    BY <1>1, <1>4, <1>5, <2>1 DEF Knows
<1>7. Answer(host.req)' = Answer(host.req)
  BY <1>4, AnswerKept
<1>8. CASE DataWanted
  <2>1. DataWritten'
    <3>1. DataDue'
      <4>1. UNCHANGED <<req, info>>
        BY DEF HostWrites, core
      <4> QED
        BY <1>8, <4>1 DEF DataWanted, DataDue, CopyData, NoString, StandardSize
    <3> QED
      BY <1>2, <1>4, <1>8, <3>1 DEF DataWanted, DataWritten, Quiet
  <2>2. host'.phase # "idle"
    BY <1>4, <1>8 DEF DataWanted
  <2> QED
    BY <1>4, <1>5, <1>6, <1>8, <2>1, <2>2 DEF Settled, InTransfer, DataWanted
<1>9. CASE DataRead
  <2>1. save.serves = "none" /\ host'.phase = "idle" /\ host'.result = "ok"
    BY <1>2, <1>4, <1>9 DEF DataRead
  <2>2. AnswerIsRight'
    BY <1>4, <1>7, <1>9, <2>1 DEF AnswerIsRight, DataRead
  <2>3. ~Fresh'
    BY <1>2, <2>1 DEF Fresh
  <2> QED
    BY <1>6, <2>1, <2>2, <2>3 DEF Settled
<1> QED
  BY <1>5, <1>8, <1>9

(* The interrupt takes what waits.                                         *)
LEMMA AnswerServed ==
  ASSUME AnswerInv, CTR_LP
  PROVE  Knows' /\ Settled'
<1>1. Shapes /\ Knows /\ Settled
  BY DEF AnswerInv
<1>2. /\ save.serves = "none" /\ save'.serves # "none" /\ save'.tx = ep0.tx
      /\ ep0'.rx = "NAK" /\ ep0'.tx = "NAK" /\ ep0'.ctrTx = FALSE
      /\ \/ ep0.ctrTx /\ save'.serves = "in" /\ ep0'.ctrRx = ep0.ctrRx
         \/ ~ep0.ctrTx /\ save'.serves = ep0.ctrRx /\ ep0'.ctrRx = "none"
      /\ UNCHANGED <<ControlState, dev, host>>
  BY <1>1, ServeFacts
<1>3. save'.rx = ep0.rx
  BY DEF CTR_LP
<1>4. ~Quiet
  BY <1>2 DEF Quiet
<1>5. Knows'
  BY <1>1, <1>2, <1>4, KnowsKept DEF StatusReady
<1>6. CASE host.phase = "idle"
  <2>1. ~Fresh'
    BY <1>1, <1>2, <1>6 DEF Settled, Fresh
  <2> QED
    BY <1>1, <1>2, <1>5, <1>6, <2>1, IdleKept
<1>7. CASE host.phase # "idle"
  <2>1. InTransfer /\ (Asked \/ DataRead \/ DataWritten)
    <3>1. InTransfer
      BY <1>1, <1>7 DEF Settled
    <3>2. ~Stalled /\ ~DataReady /\ ~DataWanted /\ ~StatusReady
      BY <1>4 DEF Stalled, DataReady, DataWanted, StatusReady
    <3> QED
      BY <3>1, <3>2 DEF InTransfer
  <2>2. ASSUME Asked
        PROVE  Asked'
    <3>1. Offered(host.req, dev.config)' = Offered(host.req, dev.config)
      BY <1>2 DEF Offered, NoString
    <3> QED
      BY <1>2, <2>2, <3>1 DEF Asked
  <2>3. ASSUME DataRead
        PROVE  DataRead'
    <3>1. Answer(host.req)' = Answer(host.req)
      BY <1>2, AnswerKept
    <3>2. ep0.ctrTx /\ save'.serves = "in" /\ ep0'.ctrRx = "none"
      BY <1>2, <2>3 DEF DataRead
    <3> QED
      BY <1>2, <1>3, <2>3, <3>1, <3>2 DEF DataRead
  <2>4. ASSUME DataWritten
        PROVE  DataWritten'
    <3>1. DataDue'
      <4>1. UNCHANGED <<req, info>>
        BY DEF CTR_LP, core
      <4> QED
        BY <2>4, <4>1 DEF DataWritten, DataDue, CopyData, NoString, StandardSize
    <3> QED
      BY <1>2, <2>4, <3>1 DEF DataWritten
  <2>5. Asked' \/ DataRead' \/ DataWritten'
    BY <2>1, <2>2, <2>3, <2>4
  <2> QED
    BY <1>2, <1>5, <1>7, <2>1, <2>5 DEF Settled, InTransfer
<1> QED
  BY <1>6, <1>7

(* The device serves the SETUP: it does what the host expects.             *)
LEMMA AnswerServesSetup ==
  ASSUME MaxPacketSize >= Largest, \A r \in Requests : WellMade(r), AnswerInv, Setup0_Process
  PROVE  Knows' /\ Settled'
<1> DEFINE r == host.req
<1>1. Shapes /\ Knows /\ Settled /\ Unstored
  BY DEF AnswerInv
<1>2. /\ save.serves = "setup" /\ host' = host /\ req' = r
      /\ ep0'.ctrRx = ep0.ctrRx /\ ep0'.ctrTx = ep0.ctrTx /\ save'.serves = "none"
  BY <1>1, SetupFacts
<1>3. InTransfer /\ Asked /\ ~StatusReady
  <2>1. InTransfer
    BY <1>1, <1>2 DEF Settled, Fresh
  <2>2. ~Stalled /\ ~DataReady /\ ~DataWanted /\ ~StatusReady
    BY <1>2 DEF Stalled, DataReady, DataWanted, StatusReady, Quiet
  <2>3. ~DataRead /\ ~DataWritten
    BY <1>2 DEF DataRead, DataWritten
  <2> QED
    BY <2>1, <2>2, <2>3 DEF InTransfer
<1>4. /\ r \in Requests /\ WellMade(r) /\ host.phase # "idle"
  BY <1>3 DEF InTransfer, Asked
<1>5. \A w \in Tracked : Has(w) \in host[w]
  BY <1>1, <1>3 DEF Knows
<1>6. Quiet'
  BY <1>2, <1>3 DEF Asked, Quiet
<1>7. Offered(r, dev.config) \in BOOLEAN
  BY DEF Offered
<1>8. ASSUME Stalled' \/ DataReady' \/ DataWanted' \/ StatusReady'
      PROVE  Settled'
  BY <1>2, <1>3, <1>4, <1>8 DEF Settled, InTransfer
<1>9. CASE r.wLength = 0
  <2> DEFINE d == NoData_Setup0(r)
             sent == [save EXCEPT !.tx = "VALID"]
  <2>1. Post0_Process(d) /\ dev' = Performed(r)
    BY <1>9 DEF Setup0_Process
  <2>2. Accepted(r) <=> Offered(r, dev.config)
    BY <1>4, <1>9, OfferedNoData
  <2>3. CASE ~Accepted(r)
    <3>1. d.st = "STALLED" /\ dev' = dev
      BY <2>1, <2>3 DEF NoData_Setup0, Ends, Performed
    <3> HIDE DEF d
    <3>2. ep0'.tx = "STALL" /\ ep0'.rx = "STALL"
      BY <1>1, <2>1, <3>1, PostFacts
    <3>3. FALSE \in host.offered
      BY <1>3, <1>7, <2>2, <2>3 DEF Asked
    <3>4. Stalled'
      BY <1>2, <1>3, <1>6, <3>2, <3>3 DEF Stalled, Asked
    <3>5. Knows'
      BY <1>1, <1>2, <1>3, <3>1, KnowsKept
    <3> QED
      BY <1>8, <3>4, <3>5
  <2>4. CASE Accepted(r)
    <3>1. sent.tx = "VALID"
      BY <1>1 DEF Shapes
    <3> HIDE DEF sent
    <3>2. d = [Ends("WAIT_STATUS_IN") EXCEPT !.s = sent, !.b = Empty]
      BY <2>4 DEF NoData_Setup0, sent
    <3> HIDE DEF d
    <3>3. d.st = "WAIT_STATUS_IN" /\ d.s = sent /\ d.b = Empty
      BY <3>2 DEF Ends
    <3>4. ep0'.tx = "VALID"
      BY <1>1, <2>1, <3>1, <3>3, PostFacts
    <3>5. txBuf'.n = 0
      BY <2>1, <3>3 DEF Post0_Process, Empty
    <3>6. \A w \in Tracked : Held(dev', w) = IF w = Target(r) THEN Given(r) ELSE Held(dev, w)
      BY <1>1, <2>1, <2>4, PerformedGives
    <3>7. TRUE \in host.offered
      BY <1>3, <1>7, <2>2, <2>4 DEF Asked
    <3>8. r.dir = "NONE" /\ host.phase = "status_in"
      <4>1. r.dir = "NONE"
        BY <1>4, <1>9, RequestAssumption
      <4> QED
        BY <1>3, <4>1 DEF Asked
    <3>9. Target(host.req)' = Target(host.req) /\ Given(host.req)' = Given(host.req)
      BY <1>2 DEF Target, Given
    <3>10. StatusReady'
      <4>1. Target(r) \in Tracked => Held(dev', Target(r)) = Given(r)
        BY <3>6
      <4>2. (Target(host.req) \in Tracked => Has(Target(host.req)) = Given(host.req))'
        BY <3>9, <4>1 DEF Has, Tracked
      <4> QED
        BY <1>2, <1>3, <1>6, <3>4, <3>5, <3>7, <3>8, <4>2 DEF StatusReady, Asked
    <3>11. Knows'
      <4>1. ASSUME NEW w \in Tracked
            PROVE  Has(w)' \in host'[w] \/ w = Target(host.req)'
        <5>1. CASE w = Target(r)
          BY <3>9, <5>1
        <5>2. CASE w # Target(r)
          <6>1. Has(w)' = Has(w)
            BY <3>6, <5>2 DEF Has
          <6> QED
            BY <1>2, <1>5, <6>1
        <5> QED
          BY <5>1, <5>2
      <4> QED
        BY <3>10, <4>1 DEF Knows
    <3> QED
      BY <1>8, <3>10, <3>11
  <2> QED
    BY <2>3, <2>4
<1>10. CASE r.wLength # 0
  <2> DEFINE d == Data_Setup0(r)
  <2>1. Post0_Process(d) /\ dev' = dev
    BY <1>10 DEF Setup0_Process
  <2>2. CopyRoutine(r) <=> Offered(r, dev.config)
    BY <1>4, <1>10, OfferedData
  <2>3. /\ ~CopyRoutine(r) => d.st = "STALLED"
        /\ CopyRoutine(r) /\ r.dir = "IN" =>
             /\ d.st = "LAST_IN_DATA" /\ d.s.tx = "VALID" /\ d.s.rx = "VALID"
             /\ d.b = AnswerPacket(r)
        /\ CopyRoutine(r) /\ r.dir # "IN" =>
             /\ d.st = "OUT_DATA" /\ d.s.tx = save.tx /\ d.s.rx = "VALID"
             /\ d.i.wLength = AnswerSize(r) /\ d.i.wOffset = 0
    BY <1>1, <1>4, <1>10, DataSetupAnswer
  <2> HIDE DEF d
  <2>4. /\ ControlState' = d.st
        /\ ep0'.tx = IF d.st = "STALLED" THEN "STALL" ELSE d.s.tx
        /\ ep0'.rx = IF d.st = "STALLED" THEN "STALL" ELSE d.s.rx
    BY <1>1, <2>1, PostFacts
  <2>5. txBuf' = d.b /\ info' = d.i
    BY <2>1 DEF Post0_Process
  <2>6. Knows'
    BY <1>1, <1>2, <1>3, <2>1, KnowsKept
  <2>7. CASE ~CopyRoutine(r)
    <3>1. FALSE \in host.offered
      BY <1>3, <1>7, <2>2, <2>7 DEF Asked
    <3>2. Stalled'
      BY <1>2, <1>3, <1>6, <2>3, <2>4, <2>7, <3>1 DEF Stalled, Asked
    <3> QED
      BY <1>8, <2>6, <3>2
  <2>8. CASE CopyRoutine(r) /\ r.dir = "IN"
    <3>1. TRUE \in host.offered
      BY <1>3, <1>7, <2>2, <2>8 DEF Asked
    <3>2. <<AnswerPacket(r)>> \in Answer(r)
      BY <1>1, <1>4, <1>5, <2>8, PacketAnswers
    <3>3. AnswerPacket(r).n \in 1 .. Largest
      <4>1. AnswerSize(r) \in 1 .. Largest /\ r.wLength \in Nat /\ r.wLength # 0
        BY <1>4, <1>10, <2>8, SizeFacts, RequestAssumption
      <4>2. AnswerPacket(r).n = Lesser(AnswerSize(r), r.wLength)
        BY DEF AnswerPacket
      <4> QED
        BY <4>1, <4>2 DEF Lesser, Largest
    <3>4. Answer(host.req)' = Answer(host.req)
      BY <1>2, AnswerKept
    <3>5. host.phase = "data"
      BY <1>3, <2>8 DEF Asked
    <3>6. <<txBuf'>> \in Answer(host.req)' /\ txBuf'.n \in 1 .. Largest
      BY <2>3, <2>5, <2>8, <3>2, <3>3, <3>4
    <3>7. DataReady'
      BY <1>2, <1>3, <1>6, <2>3, <2>4, <2>8, <3>1, <3>5, <3>6 DEF DataReady, Asked
    <3> QED
      BY <1>8, <2>6, <3>7
  <2>9. CASE CopyRoutine(r) /\ r.dir # "IN"
    <3>1. TRUE \in host.offered
      BY <1>3, <1>7, <2>2, <2>9 DEF Asked
    <3>2. r.dir = "OUT"
      BY <1>4, <1>10, <2>9, RequestAssumption
    <3>3. host.phase = "data_out" /\ save.tx = "NAK"
      BY <1>2, <1>3, <3>2 DEF Asked
    <3>4. DataDue'
      <4>1. AnswerSize(r) \in 1 .. Largest /\ \A old : CopyData(r, 0, old, 0) = AnswerSize(r)
        BY <1>4, <2>9, SizeFacts
      <4>2. r.name \notin DOMAIN ClassSize
        BY <2>9, <1>4 DEF WellMade, ClassSize
      <4>4. info'.wLength = AnswerSize(r) /\ info'.wOffset = 0
        BY <2>3, <2>5, <2>9
      <4>5. req'.name \notin DOMAIN ClassSize
        BY <1>2, <4>2
      <4>6. \A old : CopyData(req', 0, old, info'.wOffset) = CopyData(r, 0, old, 0)
        BY <1>2, <4>4
      <4> QED
        BY <4>1, <4>4, <4>5, <4>6 DEF DataDue
    <3>5. DataWanted'
      BY <1>2, <1>3, <1>6, <2>3, <2>4, <2>9, <3>1, <3>2, <3>3, <3>4 DEF DataWanted, Asked
    <3> QED
      BY <1>8, <2>6, <3>5
  <2> QED
    BY <2>7, <2>8, <2>9
<1> QED
  BY <1>9, <1>10

(* The device serves a packet that was read.                               *)
LEMMA AnswerServesIn ==
  ASSUME AnswerInv, In0_Process
  PROVE  Knows' /\ Settled'
<1>1. Shapes /\ Knows /\ Settled
  BY DEF AnswerInv
<1>2. /\ save.serves = "in" /\ host' = host
      /\ ep0'.ctrRx = ep0.ctrRx /\ ep0'.ctrTx = ep0.ctrTx /\ save'.serves = "none"
  BY <1>1, InFacts
<1>3. /\ \A w \in Tracked : dev'[w] = dev[w]
      /\ ControlState \in {"IN_DATA", "LAST_IN_DATA"} /\ save.rx = "VALID" => ep0'.rx = "VALID"
  BY <1>1, InKeeps
<1>4. Knows'
  BY <1>1, <1>2, <1>3, KnowsKept DEF StatusReady, Quiet
<1>5. CASE host.phase = "idle"
  <2>1. ~Fresh'
    BY <1>1, <1>2, <1>5 DEF Settled, Fresh
  <2> QED
    BY <1>1, <1>2, <1>4, <1>5, <2>1, IdleKept
<1>6. CASE host.phase # "idle"
  <2>1. InTransfer /\ DataRead
    <3>1. InTransfer
      BY <1>1, <1>6 DEF Settled
    <3>2. ~Stalled /\ ~DataReady /\ ~DataWanted /\ ~StatusReady
      BY <1>2 DEF Stalled, DataReady, DataWanted, StatusReady, Quiet
    <3>3. ~Asked /\ ~DataWritten
      BY <1>2 DEF Asked, DataWritten
    <3> QED
      BY <3>1, <3>2, <3>3 DEF InTransfer
  <2>2. Answer(host.req)' = Answer(host.req)
    BY <1>2, AnswerKept
  <2>3. DataRead'
    BY <1>2, <1>3, <2>1, <2>2 DEF DataRead
  <2> QED
    BY <1>2, <1>4, <1>6, <2>1, <2>3 DEF Settled, InTransfer
<1> QED
  BY <1>5, <1>6

(* The device serves a packet that was written.                            *)
LEMMA AnswerServesOut ==
  ASSUME MaxPacketSize >= Largest, \A r \in Requests : WellMade(r), AnswerInv, Out0_Process
  PROVE  Knows' /\ Settled'
<1>1. Shapes /\ Knows /\ Settled /\ Unstored
  BY DEF AnswerInv
<1>2. /\ save.serves = "out" /\ host' = host /\ dev' = dev
      /\ ep0'.ctrRx = ep0.ctrRx /\ ep0'.ctrTx = ep0.ctrTx /\ save'.serves = "none"
  BY <1>1, OutFacts, OutUnstored
<1>3. Knows'
  BY <1>1, <1>2, KnowsKept DEF StatusReady, Quiet
<1>4. CASE host.phase = "idle"
  <2>1. ~Fresh'
    BY <1>1, <1>2, <1>4 DEF Settled, Fresh
  <2> QED
    BY <1>1, <1>2, <1>3, <1>4, <2>1, IdleKept
<1>5. CASE host.phase # "idle"
  <2>1. InTransfer /\ DataWritten
    <3>1. InTransfer
      BY <1>1, <1>5 DEF Settled
    <3>2. ~Stalled /\ ~DataReady /\ ~DataWanted /\ ~StatusReady
      BY <1>2 DEF Stalled, DataReady, DataWanted, StatusReady, Quiet
    <3>3. ~Asked /\ ~DataRead
      BY <1>2 DEF Asked, DataRead
    <3> QED
      BY <3>1, <3>2, <3>3 DEF InTransfer
  <2>2. ep0'.tx = "VALID" /\ txBuf'.n = 0
    BY <1>1, <2>1, OutKeeps DEF DataWritten
  <2>3. Target(host.req) = "none"
    <3>1. WellMade(host.req) /\ host.req.dir = "OUT"
      BY <2>1 DEF InTransfer, DataWritten
    <3>2. host.req.name \notin {"SET_CONFIGURATION", "SET_FEATURE", "CLEAR_FEATURE"}
      BY <3>1 DEF WellMade, ClassSize
    <3> QED
      BY <3>2 DEF Target
  <2>4. Target(host.req)' \notin Tracked
    BY <1>2, <2>3 DEF Target, Tracked
  <2>5. StatusReady'
    BY <1>2, <2>1, <2>2, <2>4 DEF StatusReady, DataWritten, Quiet
  <2> QED
    BY <1>2, <1>3, <1>5, <2>1, <2>5 DEF Settled, InTransfer
<1> QED
  BY <1>4, <1>5

LEMMA StepAnswer ==
  ASSUME Paced, MaxPacketSize >= Largest, \A r \in Requests : WellMade(r),
         AnswerInv, [Next]_vars
  PROVE  AnswerInv'
<1>1. Shapes /\ Knows /\ Settled /\ Shapes' /\ Unstored'
  BY StepShapes, StepUnstored DEF AnswerInv
<1> SUFFICES Knows' /\ Settled'
  BY <1>1 DEF AnswerInv
<1>2. ASSUME NEW r \in Requests, HostSetup(r)
      PROVE  Knows' /\ Settled'
  BY <1>2, AnswerSetup
<1>3. CASE HostStalled
  BY <1>3, AnswerStalled
<1>4. CASE HostReads
  BY <1>4, AnswerRead
<1>5. CASE HostReadsStatus
  BY <1>5, AnswerStatus
<1>6. CASE HostWrites
  BY <1>6, AnswerWritten
<1>7. CASE CTR_LP
  BY <1>7, AnswerServed
<1>8. CASE Setup0_Process
  BY <1>8, AnswerServesSetup
<1>9. CASE In0_Process
  BY <1>9, AnswerServesIn
<1>10. CASE Out0_Process
  BY <1>10, AnswerServesOut
<1>11. ASSUME UNCHANGED <<ControlState, req, info, ep0, save, txBuf, host>>,
              dev'.config = dev.config,
              \A w \in Tracked : dev'[w] = dev[w]
       PROVE  Knows' /\ Settled'
  <2>1. /\ Answer(host.req)' = Answer(host.req)
        /\ Offered(host.req, dev.config)' = Offered(host.req, dev.config)
    BY <1>11, AnswerKept DEF Offered, NoString
  <2>2. Target(host.req)' = Target(host.req) /\ Given(host.req)' = Given(host.req)
    BY <1>11 DEF Target, Given
  <2>3. \A w \in Tracked : Has(w)' = Has(w)
    BY <1>11 DEF Has, Held, Tracked
  <2>4. (Asked => Asked') /\ (Stalled => Stalled')
    BY <1>11, <2>1 DEF Asked, Stalled, Quiet
  <2>5. (DataReady => DataReady') /\ (DataRead => DataRead')
    BY <1>11, <2>1 DEF DataReady, DataRead, Quiet
  <2>6. (DataWanted => DataWanted') /\ (DataWritten => DataWritten')
    <3>1. DataDue => DataDue'
      BY <1>11 DEF DataDue, CopyData, NoString, StandardSize
    <3> QED
      BY <1>11, <3>1 DEF DataWanted, DataWritten, Quiet
  <2>7. StatusReady => StatusReady'
    <3>1. Target(host.req) \in Tracked => Has(Target(host.req))' = Has(Target(host.req))
      BY <1>11, <2>2 DEF Has, Held, Tracked
    <3> QED
      BY <1>11, <2>2, <3>1 DEF StatusReady, Quiet, Tracked
  <2>8. Knows'
    BY <1>1, <1>11, <2>7, KnowsKept
  <2>9. CASE host.phase = "idle"
    <3>1. ~Fresh'
      BY <1>1, <1>11, <2>9 DEF Settled, Fresh
    <3> QED
      BY <1>1, <1>11, <2>8, <2>9, <3>1, IdleKept
  <2>10. CASE host.phase # "idle"
    <3>1. InTransfer
      BY <1>1, <2>10 DEF Settled
    <3>2. InTransfer'
      BY <1>11, <3>1, <2>4, <2>5, <2>6, <2>7 DEF InTransfer
    <3> QED
      BY <1>11, <2>8, <2>10, <3>2 DEF Settled
  <2> QED
    BY <2>9, <2>10
<1>12. CASE ESOF \/ Suspend \/ WakeUp
  <2>1. UNCHANGED info
    BY <1>12 DEF ESOF, Suspend, WakeUp, core
  <2> QED
    BY <1>1, <1>11, <1>12, <2>1, PowerFacts, PowerKeeps
<1>13. CASE TMC_Reset
  <2>1. /\ save.serves = "none" /\ save' = save /\ ep0'.ctrRx = "none" /\ host'.phase = "idle"
    BY <1>1, <1>13, ResetFacts DEF Quiet
  <2>2. host'.result = "none" /\ \A w \in Tracked : Held(dev', w) = 0 /\ host'[w] = {0}
    BY <1>1, <1>13, ResetKeeps
  <2>3. Knows'
    BY <2>2 DEF Knows, Has
  <2>4. Settled'
    BY <2>1, <2>2 DEF Settled, Fresh, AnswerIsRight
  <2> QED
    BY <2>3, <2>4
<1>14. CASE UNCHANGED vars
  <2>1. UNCHANGED <<ControlState, req, info, ep0, save, txBuf, host, dev>>
    BY <1>14 DEF vars, core
  <2> QED
    BY <1>11, <2>1
<1> QED
  BY <1>2, <1>3, <1>4, <1>5, <1>6, <1>7, <1>8, <1>9, <1>10, <1>12, <1>13, <1>14 DEF Next

(* For a host that waits until the device has served a transaction before  *)
(* it sends the next SETUP or resets the bus, asks for no string that      *)
(* there is not, and sends no data with a request for the configuration,   *)
(* the alternate setting or the serial number: if every answer fits into a *)
(* packet of the device, a request the device offers ends well and gives   *)
(* the host exactly the data it asked for, with the state of the device    *)
(* the host has left it in, and any other request is stalled; after        *)
(* transfers given up at any stage, resets and suspensions too.            *)
THEOREM AnswersAreRight ==
  ASSUME Paced, MaxPacketSize >= Largest, \A r \in Requests : WellMade(r)
  PROVE  Spec => []AnswerIsRight
<1>1. Init => AnswerInv
  BY InitAnswer
<1>2. AnswerInv /\ [Next]_vars => AnswerInv'
  BY StepAnswer
<1>3. AnswerInv => AnswerIsRight
  BY DEF AnswerInv, Settled, InTransfer, AnswerIsRight
<1> QED
  BY <1>1, <1>2, <1>3, PTL DEF Spec
=============================================================================
