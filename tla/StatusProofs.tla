---------------------------- MODULE StatusProofs ----------------------------
(***************************************************************************)
(* Proofs about Status.tla: what the registers, the error queue and the    *)
(* two callbacks say of each other, for every capacity of the queue, every *)
(* set of condition bits and every set of values written to the masks.     *)
(***************************************************************************)
EXTENDS Status, SequenceTheorems, TLAPS

(* The invariants of Status.tla, of any context.                           *)
SumOK(c, r) == Summary[r] \in c.regs["STB"] <=> Meets(c.regs[r], c.regs[Enable[r]])
MssOK(c) == "SRQ" \in c.regs["STB"] <=> Meets(c.regs["STB"], c.regs["SRE"] \ {"SRQ"})
ToldOK(c) == "SRQ" \in c.regs["STB"] => c.srqTold = c.regs["STB"]
QmaOK(c) == "QMA" \in c.regs["STB"] <=> c.errq # << >>
ErrOK(c) == c.errTold = IF c.errq = << >> THEN 0 ELSE c.errq[Len(c.errq)]

Good(c) ==
  /\ c \in Context
  /\ \A r \in EventReg : SumOK(c, r)
  /\ MssOK(c)
  /\ ToldOK(c)
  /\ QmaOK(c)
  /\ ErrOK(c)

(* Writing STB: what the write sets, what it leaves, and that SRQ and the  *)
(* announced value are right afterwards even if SRQ was wrong before.      *)
LEMMA SetSTBFacts ==
  ASSUME NEW c \in Context, NEW val \in SUBSET Bit, ToldOK(c)
  PROVE  /\ SetSTB(c, val) \in Context
         /\ SetSTB(c, val).errq = c.errq
         /\ SetSTB(c, val).errTold = c.errTold
         /\ SetSTB(c, val).cmd_error = c.cmd_error
         /\ \A r \in Reg \ {"STB"} : SetSTB(c, val).regs[r] = c.regs[r]
         /\ \A b \in Bit \ {"SRQ"} : b \in SetSTB(c, val).regs["STB"] <=> b \in val
         /\ MssOK(SetSTB(c, val))
         /\ ToldOK(SetSTB(c, val))
<1> DEFINE hit == Meets(val, c.regs["SRE"] \ {"SRQ"})
           stb == IF hit THEN val \cup {"SRQ"} ELSE val \ {"SRQ"}
           told == IF hit /\ stb # c.regs["STB"] THEN stb ELSE c.srqTold
           d == SetSTB(c, val)
<1>0. stb \in SUBSET Bit /\ told \in SUBSET Bit
  BY DEF Context, Bit, StbBit
<1>1. d = [c EXCEPT !.regs = [c.regs EXCEPT !["STB"] = stb], !.srqTold = told]
  BY DEF SetSTB
<1>2. c.regs \in [Reg -> SUBSET Bit] /\ "STB" \in Reg /\ "SRE" \in Reg
  BY DEF Context, Reg
<1>3. /\ d \in Context /\ d.errq = c.errq /\ d.errTold = c.errTold
      /\ d.cmd_error = c.cmd_error /\ d.srqTold = told
      /\ d.regs = [c.regs EXCEPT !["STB"] = stb]
  <2> HIDE DEF d, stb, told
  <2> QED
    BY <1>0, <1>1, <1>2 DEF Context
<1>4. d.regs["STB"] = stb /\ \A r \in Reg \ {"STB"} : d.regs[r] = c.regs[r]
  <2> HIDE DEF d, stb, told
  <2> QED
    BY <1>2, <1>3
<1>5. MssOK(d)
  <2>1. d.regs["SRE"] = c.regs["SRE"]
    BY <1>4 DEF Reg
  <2> HIDE DEF d
  <2> QED
    BY <1>4, <2>1 DEF MssOK, Meets
<1>6. ToldOK(d)
  <2> HIDE DEF d
  <2> QED
    BY <1>3, <1>4 DEF ToldOK
<1>7. \A b \in Bit \ {"SRQ"} : b \in d.regs["STB"] <=> b \in val
  <2> HIDE DEF d
  <2> QED
    BY <1>4
<1> QED
  <2> HIDE DEF stb, told, hit
  <2> QED
    BY <1>3, <1>4, <1>5, <1>6, <1>7

(* The names: which register enables which, and which STB bit sums it up.  *)
LEMMA EventNames ==
  ASSUME NEW r \in EventReg
  PROVE  /\ r \in Reg /\ r # "STB"
         /\ Enable[r] \in Reg \ {"STB", "SRE"} /\ Enable[r] \notin EventReg
         /\ Summary[r] \in Bit /\ Summary[r] # "SRQ" /\ Summary[r] # "QMA"
         /\ \A s \in EventReg : (Summary[s] = Summary[r] \/ Enable[s] = Enable[r]) => s = r
<1>1. r = "ESR" \/ r = "OPER" \/ r = "QUES"
  BY DEF EventReg
<1>2. /\ Enable["ESR"] = "ESE" /\ Enable["OPER"] = "OPERE" /\ Enable["QUES"] = "QUESE"
      /\ Summary["ESR"] = "ESR" /\ Summary["OPER"] = "OPS" /\ Summary["QUES"] = "QES"
  BY DEF Enable, Summary
<1> QED
  BY <1>1, <1>2 DEF EventReg, Reg, Bit, StbBit

(* Storing one register leaves the others and the rest of the context.     *)
LEMMA StoredFacts ==
  ASSUME NEW c \in Context, NEW r \in Reg, NEW val \in SUBSET Bit
  PROVE  /\ Stored(c, r, val) \in Context
         /\ Stored(c, r, val).errq = c.errq
         /\ Stored(c, r, val).errTold = c.errTold
         /\ Stored(c, r, val).srqTold = c.srqTold
         /\ Stored(c, r, val).cmd_error = c.cmd_error
         /\ Stored(c, r, val).regs[r] = val
         /\ \A s \in Reg \ {r} : Stored(c, r, val).regs[s] = c.regs[s]
<1>1. Stored(c, r, val) = [c EXCEPT !.regs = [c.regs EXCEPT ![r] = val]]
  BY DEF Stored
<1>2. [c.regs EXCEPT ![r] = val] \in [Reg -> SUBSET Bit]
  BY DEF Context
<1> QED
  BY <1>1, <1>2 DEF Context

(* Writing an event register, or its enable mask first: its summary bit    *)
(* comes out right even if it was wrong, and nothing else is disturbed.    *)
LEMMA SetEventFacts ==
  ASSUME NEW c \in Context, NEW r \in EventReg, NEW val \in SUBSET Bit,
         ToldOK(c), \A s \in EventReg \ {r} : SumOK(c, s)
  PROVE  /\ SetEvent(c, r, val) \in Context
         /\ SetEvent(c, r, val).errq = c.errq
         /\ SetEvent(c, r, val).errTold = c.errTold
         /\ SetEvent(c, r, val).cmd_error = c.cmd_error
         /\ SetEvent(c, r, val).regs[r] = val
         /\ \A s \in Reg \ {"STB", r} : SetEvent(c, r, val).regs[s] = c.regs[s]
         /\ "QMA" \in SetEvent(c, r, val).regs["STB"] <=> "QMA" \in c.regs["STB"]
         /\ MssOK(SetEvent(c, r, val))
         /\ ToldOK(SetEvent(c, r, val))
         /\ \A s \in EventReg : SumOK(SetEvent(c, r, val), s)
<1> DEFINE e == Stored(c, r, val)
           on == Meets(val, e.regs[Enable[r]])
           new == IF on THEN e.regs["STB"] \cup {Summary[r]}
                  ELSE e.regs["STB"] \ {Summary[r]}
           d == SetSTB(e, new)
<1>1. SetEvent(c, r, val) = d
  BY DEF SetEvent, regUpdateSTB
<1>2. /\ e \in Context /\ e.errq = c.errq /\ e.errTold = c.errTold
      /\ e.srqTold = c.srqTold /\ e.cmd_error = c.cmd_error /\ e.regs[r] = val
      /\ \A s \in Reg \ {r} : e.regs[s] = c.regs[s]
  <2>1. r \in Reg
    BY EventNames
  <2> QED
    BY <2>1, StoredFacts
<1>3. "STB" \in Reg \ {r} /\ e.regs["STB"] = c.regs["STB"]
  <2>1. "STB" \in Reg \ {r}
    BY EventNames DEF Reg
  <2> QED
    BY <1>2, <2>1
<1>4. ToldOK(e)
  <2> HIDE DEF e
  <2> QED
    BY <1>2, <1>3 DEF ToldOK
<1>5. new \in SUBSET Bit
  <2>1. e.regs["STB"] \in SUBSET Bit /\ Summary[r] \in Bit
    <3> HIDE DEF e
    <3> QED
      BY <1>2, <1>3, EventNames DEF Context
  <2> HIDE DEF e
  <2> QED
    BY <2>1
<1> HIDE DEF e
<1>6. /\ d \in Context /\ d.errq = e.errq /\ d.errTold = e.errTold
      /\ d.cmd_error = e.cmd_error
      /\ \A s \in Reg \ {"STB"} : d.regs[s] = e.regs[s]
      /\ \A b \in Bit \ {"SRQ"} : b \in d.regs["STB"] <=> b \in new
      /\ MssOK(d) /\ ToldOK(d)
  <2> HIDE DEF new
  <2> QED
    BY <1>2, <1>4, <1>5, SetSTBFacts
<1> HIDE DEF d
<1>7. "QMA" \in d.regs["STB"] <=> "QMA" \in c.regs["STB"]
  <2>1. "QMA" \in Bit \ {"SRQ"} /\ Summary[r] # "QMA"
    BY EventNames DEF Bit, StbBit
  <2>2. "QMA" \in new <=> "QMA" \in e.regs["STB"]
    BY <2>1
  <2> HIDE DEF new
  <2> QED
    BY <1>3, <1>6, <2>1, <2>2
<1>8. d.regs[r] = val /\ \A s \in Reg \ {"STB", r} : d.regs[s] = c.regs[s]
  <2>1. r \in Reg \ {"STB"}
    BY EventNames
  <2> QED
    BY <1>2, <1>6, <2>1
<1>9. ASSUME NEW s \in EventReg
      PROVE  SumOK(d, s)
  <2>1. /\ Enable[s] \in Reg \ {"STB", r} /\ s \in Reg \ {"STB"}
        /\ Summary[s] \in Bit \ {"SRQ"}
    BY EventNames
  <2>2. d.regs[Enable[s]] = e.regs[Enable[s]] /\ e.regs[Enable[s]] = c.regs[Enable[s]]
    BY <2>1, <1>2, <1>6
  <2>3. Summary[s] \in d.regs["STB"] <=> Summary[s] \in new
    BY <2>1, <1>6
  <2>4. CASE s = r
    BY <2>2, <2>3, <2>4, <1>8 DEF SumOK
  <2>5. CASE s # r
    <3>1. Summary[s] # Summary[r]
      BY <2>5, EventNames
    <3>2. Summary[s] \in new <=> Summary[s] \in c.regs["STB"]
      BY <3>1, <1>3
    <3>3. d.regs[s] = c.regs[s]
      BY <2>1, <2>5, <1>8
    <3>4. SumOK(c, s)
      BY <2>5
    <3> HIDE DEF new
    <3> QED
      BY <2>2, <2>3, <3>2, <3>3, <3>4 DEF SumOK
  <2> QED
    BY <2>4, <2>5
<1> QED
  BY <1>1, <1>2, <1>6, <1>7, <1>8, <1>9

-----------------------------------------------------------------------------
(* Writing STB without touching its three summary bits keeps them right.   *)
LEMMA SetSTBSums ==
  ASSUME NEW c \in Context, NEW val \in SUBSET Bit, ToldOK(c),
         \A r \in EventReg : SumOK(c, r),
         \A r \in EventReg : Summary[r] \in val <=> Summary[r] \in c.regs["STB"]
  PROVE  \A r \in EventReg : SumOK(SetSTB(c, val), r)
<1> SUFFICES ASSUME NEW r \in EventReg
             PROVE  SumOK(SetSTB(c, val), r)
  OBVIOUS
<1>1. /\ \A s \in Reg \ {"STB"} : SetSTB(c, val).regs[s] = c.regs[s]
      /\ \A b \in Bit \ {"SRQ"} : b \in SetSTB(c, val).regs["STB"] <=> b \in val
  BY SetSTBFacts
<1>2. /\ r \in Reg \ {"STB"} /\ Enable[r] \in Reg \ {"STB"}
      /\ Summary[r] \in Bit \ {"SRQ"}
  BY EventNames
<1>3. SetSTB(c, val).regs[r] = c.regs[r] /\ SetSTB(c, val).regs[Enable[r]] = c.regs[Enable[r]]
  BY <1>1, <1>2
<1>4. Summary[r] \in SetSTB(c, val).regs["STB"] <=> Summary[r] \in c.regs["STB"]
  BY <1>1, <1>2
<1>5. SumOK(c, r)
  OBVIOUS
<1> QED
  BY <1>3, <1>4, <1>5 DEF SumOK

(* Writing an event register keeps a context good.                         *)
LEMMA GoodSetEvent ==
  ASSUME NEW c, Good(c), NEW r \in EventReg, NEW val \in SUBSET Bit
  PROVE  Good(SetEvent(c, r, val))
<1>1. /\ c \in Context /\ ToldOK(c) /\ QmaOK(c) /\ ErrOK(c)
      /\ \A s \in EventReg \ {r} : SumOK(c, s)
  BY DEF Good
<1> DEFINE d == SetEvent(c, r, val)
<1>2. /\ d \in Context /\ d.errq = c.errq /\ d.errTold = c.errTold
      /\ "QMA" \in d.regs["STB"] <=> "QMA" \in c.regs["STB"]
      /\ MssOK(d) /\ ToldOK(d) /\ \A s \in EventReg : SumOK(d, s)
  BY <1>1, SetEventFacts
<1> HIDE DEF d
<1>3. QmaOK(d) /\ ErrOK(d)
  BY <1>1, <1>2 DEF QmaOK, ErrOK
<1>4. Good(d)
  BY <1>2, <1>3 DEF Good
<1> QED
  BY <1>4 DEF d

(* Writing an enable register keeps a context good.                        *)
LEMMA GoodSetEnable ==
  ASSUME NEW c, Good(c), NEW r \in EventReg, NEW val \in SUBSET Bit
  PROVE  Good(SetEnable(c, r, val))
<1>1. /\ c \in Context /\ ToldOK(c) /\ QmaOK(c) /\ ErrOK(c)
      /\ \A s \in EventReg : SumOK(c, s)
  BY DEF Good
<1> DEFINE e == Stored(c, Enable[r], val)
           d == SetEvent(e, r, c.regs[r])
<1>2. Enable[r] \in Reg /\ Enable[r] # "STB" /\ r \in Reg
  BY EventNames
<1>3. /\ e \in Context /\ e.errq = c.errq /\ e.errTold = c.errTold /\ e.srqTold = c.srqTold
      /\ \A s \in Reg \ {Enable[r]} : e.regs[s] = c.regs[s]
  BY <1>1, <1>2, StoredFacts
<1>4. c.regs[r] \in SUBSET Bit
  BY <1>1, <1>2 DEF Context
<1> HIDE DEF e
<1>5. e.regs["STB"] = c.regs["STB"]
  BY <1>2, <1>3 DEF Reg
<1>6. ToldOK(e)
  BY <1>1, <1>3, <1>5 DEF ToldOK
<1>7. \A s \in EventReg \ {r} : SumOK(e, s)
  <2> SUFFICES ASSUME NEW s \in EventReg \ {r}
               PROVE  SumOK(e, s)
    OBVIOUS
  <2>1. s \in Reg \ {Enable[r]} /\ Enable[s] \in Reg \ {Enable[r]}
    BY EventNames
  <2>2. e.regs[s] = c.regs[s] /\ e.regs[Enable[s]] = c.regs[Enable[s]]
    BY <2>1, <1>3
  <2>3. SumOK(c, s)
    BY <1>1
  <2> QED
    BY <2>2, <2>3, <1>5 DEF SumOK
<1>8. /\ d \in Context /\ d.errq = e.errq /\ d.errTold = e.errTold
      /\ "QMA" \in d.regs["STB"] <=> "QMA" \in e.regs["STB"]
      /\ MssOK(d) /\ ToldOK(d) /\ \A s \in EventReg : SumOK(d, s)
  BY <1>3, <1>4, <1>6, <1>7, SetEventFacts
<1> HIDE DEF d
<1>9. Good(d)
  BY <1>1, <1>3, <1>5, <1>8 DEF Good, QmaOK, ErrOK
<1> QED
  BY <1>9 DEF d, e, SetEnable

(* Writing SRE keeps a context good.                                       *)
LEMMA GoodSetSRE ==
  ASSUME NEW c, Good(c), NEW val \in SUBSET Bit
  PROVE  Good(SetSRE(c, val))
<1>1. /\ c \in Context /\ ToldOK(c) /\ QmaOK(c) /\ ErrOK(c)
      /\ \A s \in EventReg : SumOK(c, s)
  BY DEF Good
<1> DEFINE e == Stored(c, "SRE", val)
           d == SetSTB(e, e.regs["STB"])
<1>3. /\ e \in Context /\ e.errq = c.errq /\ e.errTold = c.errTold /\ e.srqTold = c.srqTold
      /\ \A s \in Reg \ {"SRE"} : e.regs[s] = c.regs[s]
  BY <1>1, StoredFacts DEF Reg
<1> HIDE DEF e
<1>5. e.regs["STB"] = c.regs["STB"] /\ e.regs["STB"] \in SUBSET Bit
  BY <1>1, <1>3 DEF Reg, Context
<1>6. ToldOK(e)
  BY <1>1, <1>3, <1>5 DEF ToldOK
<1>7. \A s \in EventReg : SumOK(e, s)
  <2> SUFFICES ASSUME NEW s \in EventReg
               PROVE  SumOK(e, s)
    OBVIOUS
  <2>1. s \in Reg \ {"SRE"} /\ Enable[s] \in Reg \ {"SRE"}
    BY EventNames DEF EventReg
  <2>2. e.regs[s] = c.regs[s] /\ e.regs[Enable[s]] = c.regs[Enable[s]]
    BY <2>1, <1>3
  <2>3. SumOK(c, s)
    BY <1>1
  <2> QED
    BY <2>2, <2>3, <1>5 DEF SumOK
<1>8. /\ d \in Context /\ d.errq = e.errq /\ d.errTold = e.errTold
      /\ \A b \in Bit \ {"SRQ"} : b \in d.regs["STB"] <=> b \in e.regs["STB"]
      /\ MssOK(d) /\ ToldOK(d)
  BY <1>3, <1>5, <1>6, SetSTBFacts
<1>9. \A s \in EventReg : SumOK(d, s)
  BY <1>3, <1>5, <1>6, <1>7, SetSTBSums
<1>10. "QMA" \in d.regs["STB"] <=> "QMA" \in c.regs["STB"]
  BY <1>5, <1>8 DEF Bit, StbBit
<1> HIDE DEF d
<1>11. Good(d)
  BY <1>1, <1>3, <1>8, <1>9, <1>10 DEF Good, QmaOK, ErrOK
<1> QED
  BY <1>11 DEF d, e, SetSRE

-----------------------------------------------------------------------------
(* A pushed error is the newest of a queue that holds integers.            *)
LEMMA PushedFacts ==
  ASSUME NEW q \in Seq(Int), NEW err \in Int
  PROVE  /\ Pushed(q, err) \in Seq(Int)
         /\ Pushed(q, err) # << >>
         /\ Pushed(q, err)[Len(Pushed(q, err))] = err
<1>1. CASE Len(q) = Capacity
  <2>1. q # << >>
    BY <1>1, CapacityAssumption
  <2>2. Tail(q) \in Seq(Int)
    BY <2>1
  <2>3. Pushed(q, err) = Append(Tail(q), err)
    BY <1>1 DEF Pushed
  <2> QED
    BY <2>2, <2>3, AppendProperties
<1>2. CASE Len(q) # Capacity
  <2>1. Pushed(q, err) = Append(q, err)
    BY <1>2 DEF Pushed
  <2> QED
    BY <2>1, AppendProperties
<1> QED
  BY <1>1, <1>2

(* The class of an error is a set of bits.                                 *)
LEMMA ErrorBitsAreBits == \A err \in Int : ErrorBits(err) \in SUBSET Bit
<1>1. \A j \in 1 .. 9 : errs[j].bit \in EsrBit
  BY DEF errs, EsrBit
<1> QED
  BY <1>1 DEF ErrorBits, Bit

(* The summary bits are neither QMA nor SRQ.                               *)
LEMMA QmaIsNoSummary ==
  /\ "QMA" \in Bit \ {"SRQ"}
  /\ \A r \in EventReg : Summary[r] # "QMA"
  BY EventNames DEF Bit, StbBit

(* SCPI_ErrorPush keeps a context good.                                    *)
LEMMA GoodErrorPush ==
  ASSUME NEW c, Good(c), NEW err \in Int
  PROVE  Good(SCPI_ErrorPush(c, err))
<1>1. /\ c \in Context /\ ToldOK(c) /\ \A s \in EventReg : SumOK(c, s)
  BY DEF Good
<1> DEFINE q == Pushed(c.errq, err)
           stored == [c EXCEPT !.errq = q]
           eb == ErrorBits(err)
           noted == IF eb = {} THEN stored
                    ELSE SetEvent(stored, "ESR", stored.regs["ESR"] \cup eb)
           lit == noted.regs["STB"] \cup {"QMA"}
           d == SetSTB(noted, lit)
           f == [d EXCEPT !.errTold = err]
           g == [f EXCEPT !.cmd_error = TRUE]
<1>2. q \in Seq(Int) /\ q # << >> /\ q[Len(q)] = err
  BY <1>1, PushedFacts DEF Context
<1>3. SCPI_ErrorPush(c, err) = g
  BY DEF SCPI_ErrorPush, SCPI_ErrorEmit
<1> HIDE DEF q
<1>4. /\ stored \in Context /\ stored.errq = q /\ stored.regs = c.regs
      /\ stored.srqTold = c.srqTold
  BY <1>1, <1>2 DEF Context
<1> HIDE DEF stored
<1>5. ToldOK(stored) /\ \A s \in EventReg : SumOK(stored, s)
  BY <1>1, <1>4 DEF ToldOK, SumOK
<1>6. /\ noted \in Context /\ noted.errq = q
      /\ ToldOK(noted) /\ \A s \in EventReg : SumOK(noted, s)
  <2>1. CASE eb = {}
    BY <2>1, <1>4, <1>5
  <2>2. CASE eb # {}
    <3>1. "ESR" \in EventReg /\ stored.regs["ESR"] \cup eb \in SUBSET Bit
      BY <1>4, ErrorBitsAreBits DEF EventReg, Context, Reg
    <3> HIDE DEF eb
    <3>2. noted = SetEvent(stored, "ESR", stored.regs["ESR"] \cup eb)
      BY <2>2
    <3> QED
      BY <3>1, <3>2, <1>4, <1>5, SetEventFacts
  <2> QED
    BY <2>1, <2>2
<1> HIDE DEF noted
<1>7. lit \in SUBSET Bit /\ \A r \in EventReg : Summary[r] \in lit <=> Summary[r] \in noted.regs["STB"]
  BY <1>6, QmaIsNoSummary DEF Context, Reg
<1>8. /\ d \in Context /\ d.errq = q /\ MssOK(d) /\ ToldOK(d)
      /\ "QMA" \in d.regs["STB"]
  BY <1>6, <1>7, SetSTBFacts, QmaIsNoSummary
<1>9. \A s \in EventReg : SumOK(d, s)
  BY <1>6, <1>7, SetSTBSums
<1> HIDE DEF d, lit
<1>10. /\ g \in Context /\ g.errq = q /\ g.regs = d.regs /\ g.srqTold = d.srqTold
       /\ g.errTold = err
  BY <1>8 DEF Context
<1> HIDE DEF g
<1>11. Good(g)
  <2>1. \A s \in EventReg : SumOK(g, s)
    BY <1>9, <1>10 DEF SumOK
  <2>2. MssOK(g) /\ ToldOK(g) /\ QmaOK(g) /\ ErrOK(g)
    BY <1>2, <1>8, <1>10 DEF MssOK, ToldOK, QmaOK, ErrOK
  <2> QED
    BY <2>1, <2>2, <1>10 DEF Good
<1> QED
  BY <1>3, <1>11

(* A queue cut short: QMA and the error callback follow if it is now empty.*)
LEMMA GoodEmitEmpty ==
  ASSUME NEW c, Good(c), NEW q \in Seq(Int),
         c.errq = << >> => q = << >>,
         q # << >> => c.errq[Len(c.errq)] = q[Len(q)]
  PROVE  Good(SCPI_ErrorEmitEmpty([c EXCEPT !.errq = q]))
<1> DEFINE e == [c EXCEPT !.errq = q]
           dark == e.regs["STB"] \ {"QMA"}
           d == SetSTB(e, dark)
           g == [d EXCEPT !.errTold = 0]
<1>1. /\ c \in Context /\ ToldOK(c) /\ \A s \in EventReg : SumOK(c, s)
      /\ MssOK(c) /\ QmaOK(c) /\ ErrOK(c)
  BY DEF Good
<1>2. /\ e \in Context /\ e.errq = q /\ e.regs = c.regs
      /\ e.srqTold = c.srqTold /\ e.errTold = c.errTold
  BY <1>1 DEF Context
<1> HIDE DEF e
<1>3. ToldOK(e) /\ MssOK(e) /\ \A s \in EventReg : SumOK(e, s)
  BY <1>1, <1>2 DEF ToldOK, SumOK, MssOK
<1>4. CASE q = << >> /\ "QMA" \in e.regs["STB"]
  <2>1. SCPI_ErrorEmitEmpty(e) = g
    BY <1>2, <1>4 DEF SCPI_ErrorEmitEmpty
  <2>2. dark \in SUBSET Bit /\ \A r \in EventReg : Summary[r] \in dark <=> Summary[r] \in e.regs["STB"]
    BY <1>2, QmaIsNoSummary DEF Context, Reg
  <2>3. /\ d \in Context /\ d.errq = q /\ MssOK(d) /\ ToldOK(d)
        /\ "QMA" \notin d.regs["STB"]
    BY <1>2, <1>3, <2>2, SetSTBFacts, QmaIsNoSummary
  <2>4. \A s \in EventReg : SumOK(d, s)
    BY <1>2, <1>3, <2>2, SetSTBSums
  <2> HIDE DEF d
  <2>5. /\ g \in Context /\ g.errq = q /\ g.regs = d.regs /\ g.srqTold = d.srqTold
        /\ g.errTold = 0
    BY <2>3 DEF Context
  <2> HIDE DEF g
  <2>6. \A s \in EventReg : SumOK(g, s)
    BY <2>4, <2>5 DEF SumOK
  <2>7. MssOK(g) /\ ToldOK(g) /\ QmaOK(g) /\ ErrOK(g)
    BY <1>4, <2>3, <2>5 DEF MssOK, ToldOK, QmaOK, ErrOK
  <2>8. Good(g)
    BY <2>5, <2>6, <2>7 DEF Good
  <2> QED
    BY <2>1, <2>8 DEF e
<1>5. CASE ~(q = << >> /\ "QMA" \in e.regs["STB"])
  <2>1. SCPI_ErrorEmitEmpty(e) = e
    BY <1>2, <1>5 DEF SCPI_ErrorEmitEmpty
  <2>2. QmaOK(e) /\ ErrOK(e)
    BY <1>1, <1>2, <1>5 DEF QmaOK, ErrOK
  <2>3. Good(e)
    BY <1>2, <1>3, <2>2 DEF Good
  <2> QED
    BY <2>1, <2>3 DEF e
<1> QED
  BY <1>4, <1>5

(* SCPI_ErrorClear keeps a context good.                                   *)
LEMMA GoodErrorClear ==
  ASSUME NEW c, Good(c)
  PROVE  Good(SCPI_ErrorClear(c))
<1>1. << >> \in Seq(Int)
  OBVIOUS
<1>2. Good(SCPI_ErrorEmitEmpty([c EXCEPT !.errq = << >>]))
  BY <1>1, GoodEmitEmpty
<1> QED
  BY <1>2 DEF SCPI_ErrorClear

(* SCPI_ErrorPop keeps a context good.                                     *)
LEMMA GoodErrorPop ==
  ASSUME NEW c, Good(c)
  PROVE  Good(SCPI_ErrorPop(c))
<1> DEFINE q == IF c.errq = << >> THEN c.errq ELSE Tail(c.errq)
<1>1. c.errq \in Seq(Int)
  BY DEF Good, Context
<1>2. /\ q \in Seq(Int)
      /\ c.errq = << >> => q = << >>
      /\ q # << >> => c.errq[Len(c.errq)] = q[Len(q)]
  <2>1. CASE c.errq = << >>
    BY <2>1, <1>1
  <2>2. CASE c.errq # << >>
    <3> DEFINE t == Tail(c.errq)
    <3>1. /\ t \in Seq(Int) /\ Len(t) = Len(c.errq) - 1
          /\ \A i \in 1 .. Len(t) : t[i] = c.errq[i + 1]
      BY <2>2, <1>1, HeadTailProperties
    <3>2. Len(c.errq) \in Nat /\ Len(t) \in Nat
      BY <1>1, <3>1
    <3>3. q = t
      BY <2>2
    <3> HIDE DEF t, q
    <3>4. t # << >> => Len(t) \in 1 .. Len(t)
      BY <3>1, <3>2, EmptySeq
    <3>5. t # << >> => t[Len(t)] = c.errq[Len(t) + 1]
      BY <3>1, <3>4
    <3>6. Len(t) + 1 = Len(c.errq)
      BY <3>1, <3>2
    <3> QED
      BY <2>2, <3>1, <3>3, <3>5, <3>6
  <2> QED
    BY <2>1, <2>2
<1>3. SCPI_ErrorPop(c) = SCPI_ErrorEmitEmpty([c EXCEPT !.errq = q])
  BY DEF SCPI_ErrorPop
<1> HIDE DEF q
<1>4. Good(SCPI_ErrorEmitEmpty([c EXCEPT !.errq = q]))
  BY <1>2, GoodEmitEmpty
<1> QED
  BY <1>3, <1>4

(* processCommand's own part.                                              *)
LEMMA GoodBegun ==
  ASSUME NEW c, Good(c)
  PROVE  Good(Begun(c)) /\ Begun(c).regs = c.regs /\ Begun(c).errq = c.errq
<1>1. c \in Context
  BY DEF Good
<1>2. /\ Begun(c) \in Context /\ Begun(c).regs = c.regs /\ Begun(c).errq = c.errq
      /\ Begun(c).srqTold = c.srqTold /\ Begun(c).errTold = c.errTold
  BY <1>1 DEF Begun, Context
<1> QED
  BY <1>2 DEF Good, SumOK, MssOK, ToldOK, QmaOK, ErrOK

(* What processCommand does after a callback keeps a context good.         *)
LEMMA GoodFinished ==
  ASSUME NEW c, Good(c), NEW ok \in BOOLEAN, NEW extra \in BOOLEAN
  PROVE  Good(Finished(c, ok, extra))
<1> DEFINE d == IF ~ok /\ ~c.cmd_error THEN SCPI_ErrorPush(c, EXECUTION_ERROR) ELSE c
<1>1. EXECUTION_ERROR \in Int /\ PARAMETER_NOT_ALLOWED \in Int
  BY DEF EXECUTION_ERROR, PARAMETER_NOT_ALLOWED
<1>2. Good(d)
  BY <1>1, GoodErrorPush
<1>3. Finished(c, ok, extra)
        = IF extra /\ ~d.cmd_error THEN SCPI_ErrorPush(d, PARAMETER_NOT_ALLOWED) ELSE d
  BY DEF Finished
<1> HIDE DEF d
<1> QED
  BY <1>1, <1>2, <1>3, GoodErrorPush

-----------------------------------------------------------------------------
(* What else every context satisfies: nothing raises the bits of STB that  *)
(* this library does not know, and the error queue keeps to its capacity.  *)
KnownStb == {"ESR", "OPS", "QES", "QMA", "SRQ"}
Known(c) == c.regs["STB"] \subseteq KnownStb
Fits(c) == Known(c) /\ Len(c.errq) <= Capacity

(* Writing STB raises no bit but the ones written and SRQ.                 *)
LEMMA SetSTBKnown ==
  ASSUME NEW c \in Context, NEW val \in SUBSET Bit, ToldOK(c), val \subseteq KnownStb
  PROVE  Known(SetSTB(c, val))
<1> DEFINE d == SetSTB(c, val)
<1>1. d \in Context /\ \A b \in Bit \ {"SRQ"} : b \in d.regs["STB"] <=> b \in val
  BY SetSTBFacts
<1> HIDE DEF d
<1>2. d.regs["STB"] \subseteq Bit
  BY <1>1 DEF Context, Reg
<1>3. Known(d)
  BY <1>1, <1>2 DEF Known, KnownStb
<1> QED
  BY <1>3 DEF d

(* The summary bits are known bits.                                        *)
LEMMA SummaryKnown == \A r \in EventReg : Summary[r] \in KnownStb
  BY DEF EventReg, Summary, KnownStb

(* Writing an event register, even right after its mask.                   *)
LEMMA SetEventKnown ==
  ASSUME NEW c \in Context, NEW r \in EventReg, NEW val \in SUBSET Bit,
         ToldOK(c), Known(c)
  PROVE  Known(SetEvent(c, r, val))
<1> DEFINE e == Stored(c, r, val)
           up == e.regs["STB"] \cup {Summary[r]}
           down == e.regs["STB"] \ {Summary[r]}
<1>1. r \in Reg /\ r # "STB" /\ "STB" \in Reg /\ Summary[r] \in Bit
  BY EventNames DEF Reg
<1>2. /\ e \in Context /\ e.srqTold = c.srqTold /\ e.regs["STB"] = c.regs["STB"]
  BY <1>1, StoredFacts
<1>3. SetEvent(c, r, val) = SetSTB(e, up) \/ SetEvent(c, r, val) = SetSTB(e, down)
  BY DEF SetEvent, regUpdateSTB
<1> HIDE DEF e
<1>4. ToldOK(e)
  BY <1>2 DEF ToldOK
<1>5. /\ up \in SUBSET Bit /\ up \subseteq KnownStb
      /\ down \in SUBSET Bit /\ down \subseteq KnownStb
  BY <1>1, <1>2, SummaryKnown DEF Known, Context
<1> HIDE DEF up, down
<1> QED
  BY <1>2, <1>3, <1>4, <1>5, SetSTBKnown

(* What writing an event register does beside its summary bit.             *)
LEMMA SetEventEffect ==
  ASSUME NEW c, Good(c), Fits(c), NEW r \in EventReg, NEW val \in SUBSET Bit
  PROVE  /\ Fits(SetEvent(c, r, val))
         /\ SetEvent(c, r, val).errq = c.errq
         /\ SetEvent(c, r, val).cmd_error = c.cmd_error
         /\ SetEvent(c, r, val).regs[r] = val
         /\ \A s \in EventReg \ {r} : SetEvent(c, r, val).regs[s] = c.regs[s]
<1>1. /\ c \in Context /\ ToldOK(c) /\ Known(c) /\ Len(c.errq) <= Capacity
      /\ \A s \in EventReg \ {r} : SumOK(c, s)
  BY DEF Good, Fits
<1>2. \A s \in EventReg \ {r} : s \in Reg \ {"STB", r}
  BY EventNames
<1>3. Known(SetEvent(c, r, val))
  BY <1>1, SetEventKnown
<1>4. /\ SetEvent(c, r, val).errq = c.errq
      /\ SetEvent(c, r, val).cmd_error = c.cmd_error
      /\ SetEvent(c, r, val).regs[r] = val
      /\ \A s \in Reg \ {"STB", r} : SetEvent(c, r, val).regs[s] = c.regs[s]
  BY <1>1, SetEventFacts
<1> QED
  BY <1>1, <1>2, <1>3, <1>4 DEF Fits

(* A new mask leaves the events and the errors alone.                      *)
LEMMA SetEnableEffect ==
  ASSUME NEW c, Good(c), Fits(c), NEW r \in EventReg, NEW val \in SUBSET Bit
  PROVE  /\ Fits(SetEnable(c, r, val))
         /\ SetEnable(c, r, val).errq = c.errq
         /\ \A s \in EventReg : SetEnable(c, r, val).regs[s] = c.regs[s]
<1>1. /\ c \in Context /\ ToldOK(c) /\ Known(c) /\ Len(c.errq) <= Capacity
      /\ \A s \in EventReg : SumOK(c, s)
  BY DEF Good, Fits
<1> DEFINE e == Stored(c, Enable[r], val)
           d == SetEvent(e, r, c.regs[r])
<1>2. Enable[r] \in Reg /\ Enable[r] # "STB" /\ "STB" \in Reg /\ r \in Reg
  BY EventNames DEF Reg
<1>3. /\ e \in Context /\ e.errq = c.errq /\ e.srqTold = c.srqTold
      /\ \A s \in Reg \ {Enable[r]} : e.regs[s] = c.regs[s]
  BY <1>1, <1>2, StoredFacts
<1> HIDE DEF e
<1>4. ToldOK(e) /\ Known(e) /\ c.regs[r] \in SUBSET Bit
  BY <1>1, <1>2, <1>3 DEF ToldOK, Known, Context
<1>5. \A s \in EventReg : s \in Reg \ {"STB"} /\ e.regs[s] = c.regs[s]
  BY <1>3, EventNames
<1>6. \A s \in EventReg \ {r} : SumOK(e, s)
  <2> SUFFICES ASSUME NEW s \in EventReg \ {r}
               PROVE  SumOK(e, s)
    OBVIOUS
  <2>1. Enable[s] \in Reg \ {Enable[r]} /\ "STB" \in Reg \ {Enable[r]}
    BY <1>2, EventNames
  <2>2. e.regs[Enable[s]] = c.regs[Enable[s]] /\ e.regs["STB"] = c.regs["STB"]
    BY <2>1, <1>3
  <2> QED
    BY <2>2, <1>1, <1>5 DEF SumOK
<1>7. /\ d.errq = e.errq /\ d.regs[r] = c.regs[r]
      /\ \A s \in Reg \ {"STB", r} : d.regs[s] = e.regs[s]
  BY <1>3, <1>4, <1>6, SetEventFacts
<1>8. Known(d)
  BY <1>3, <1>4, SetEventKnown
<1>9. SetEnable(c, r, val) = d
  BY DEF SetEnable, e
<1> HIDE DEF d
<1> QED
  BY <1>1, <1>3, <1>5, <1>7, <1>8, <1>9 DEF Fits

(* So does a new SRE.                                                      *)
LEMMA SetSREEffect ==
  ASSUME NEW c, Good(c), Fits(c), NEW val \in SUBSET Bit
  PROVE  /\ Fits(SetSRE(c, val))
         /\ SetSRE(c, val).errq = c.errq
         /\ \A s \in EventReg : SetSRE(c, val).regs[s] = c.regs[s]
<1>1. c \in Context /\ ToldOK(c) /\ Known(c) /\ Len(c.errq) <= Capacity
  BY DEF Good, Fits
<1> DEFINE e == Stored(c, "SRE", val)
           d == SetSTB(e, e.regs["STB"])
<1>2. /\ e \in Context /\ e.errq = c.errq /\ e.srqTold = c.srqTold
      /\ \A s \in Reg \ {"SRE"} : e.regs[s] = c.regs[s]
  BY <1>1, StoredFacts DEF Reg
<1>3. \A s \in EventReg : s \in Reg \ {"SRE", "STB"}
  BY DEF EventReg, Reg
<1>4. SetSRE(c, val) = d
  BY DEF SetSRE
<1> HIDE DEF e
<1>5. ToldOK(e) /\ e.regs["STB"] \in SUBSET Bit /\ e.regs["STB"] \subseteq KnownStb
  BY <1>1, <1>2 DEF ToldOK, Known, Context, Reg
<1>6. d.errq = e.errq /\ \A s \in Reg \ {"STB"} : d.regs[s] = e.regs[s]
  BY <1>2, <1>5, SetSTBFacts
<1>7. Known(d)
  BY <1>2, <1>5, SetSTBKnown
<1> HIDE DEF d
<1> QED
  BY <1>1, <1>2, <1>3, <1>4, <1>6, <1>7 DEF Fits

(* What has left the queue when err has been put in: nothing, or the oldest*)
(* error of a full queue.                                                  *)
LEMMA PushedOrder ==
  ASSUME NEW q \in Seq(Int), Len(q) <= Capacity, NEW err \in Int
  PROVE  /\ Pushed(q, err) \in Seq(Int)
         /\ Len(Pushed(q, err)) \in 1 .. Capacity
         /\ LET rest == SubSeq(Pushed(q, err), 1, Len(Pushed(q, err)) - 1)
            IN \/ rest = q
               \/ q # << >> /\ rest = Tail(q) /\ Len(Pushed(q, err)) = Capacity
<1> DEFINE front(s) == SubSeq(s, 1, Len(s) - 1)
<1>1. ASSUME NEW s \in Seq(Int)
      PROVE  front(Append(s, err)) = s
  BY <1>1
<1>2. CASE Len(q) = Capacity
  <2>1. q # << >> /\ Len(q) \in Nat
    BY <1>2, CapacityAssumption
  <2>2. Tail(q) \in Seq(Int) /\ Len(Tail(q)) = Len(q) - 1
    BY <2>1, HeadTailProperties
  <2>3. Pushed(q, err) = Append(Tail(q), err)
    BY <1>2 DEF Pushed
  <2>4. Append(Tail(q), err) \in Seq(Int) /\ Len(Append(Tail(q), err)) = Len(q)
    BY <2>1, <2>2, AppendProperties
  <2>5. front(Append(Tail(q), err)) = Tail(q)
    BY <1>1, <2>2
  <2> QED
    BY <1>2, <2>1, <2>3, <2>4, <2>5, CapacityAssumption
<1>3. CASE Len(q) # Capacity
  <2>1. Pushed(q, err) = Append(q, err)
    BY <1>3 DEF Pushed
  <2>2. Append(q, err) \in Seq(Int) /\ Len(Append(q, err)) = Len(q) + 1
    BY AppendProperties
  <2>3. front(Append(q, err)) = q
    BY <1>1
  <2>4. Len(q) + 1 \in 1 .. Capacity
    BY <1>3, CapacityAssumption, LenProperties
  <2> QED
    BY <2>1, <2>2, <2>3, <2>4
<1> QED
  BY <1>2, <1>3

(* Pushing an error: it is queued and no event is lost.                    *)
LEMMA ErrorPushEffect ==
  ASSUME NEW c, Good(c), Fits(c), NEW err \in Int
  PROVE  /\ Fits(SCPI_ErrorPush(c, err))
         /\ SCPI_ErrorPush(c, err).errq = Pushed(c.errq, err)
         /\ SCPI_ErrorPush(c, err).cmd_error = TRUE
         /\ c.regs["ESR"] \subseteq SCPI_ErrorPush(c, err).regs["ESR"]
<1>1. /\ c \in Context /\ ToldOK(c) /\ \A s \in EventReg : SumOK(c, s)
      /\ Known(c) /\ c.errq \in Seq(Int) /\ Len(c.errq) <= Capacity
  BY DEF Good, Fits, Context
<1> DEFINE q == Pushed(c.errq, err)
           stored == [c EXCEPT !.errq = q]
           eb == ErrorBits(err)
           noted == IF eb = {} THEN stored
                    ELSE SetEvent(stored, "ESR", stored.regs["ESR"] \cup eb)
           lit == noted.regs["STB"] \cup {"QMA"}
           d == SetSTB(noted, lit)
           f == [d EXCEPT !.errTold = err]
           g == [f EXCEPT !.cmd_error = TRUE]
<1>2. q \in Seq(Int) /\ Len(q) <= Capacity
  BY <1>1, PushedOrder, CapacityAssumption
<1>3. SCPI_ErrorPush(c, err) = g
  BY DEF SCPI_ErrorPush, SCPI_ErrorEmit
<1> HIDE DEF q
<1>4. /\ stored \in Context /\ stored.errq = q /\ stored.regs = c.regs
      /\ stored.srqTold = c.srqTold
  BY <1>1, <1>2 DEF Context
<1> HIDE DEF stored
<1>5. /\ ToldOK(stored) /\ Known(stored)
      /\ \A s \in EventReg : SumOK(stored, s)
  BY <1>1, <1>4 DEF ToldOK, SumOK, Known
<1>6. /\ noted \in Context /\ noted.errq = q /\ ToldOK(noted) /\ Known(noted)
      /\ c.regs["ESR"] \subseteq noted.regs["ESR"]
  <2>1. CASE eb = {}
    BY <2>1, <1>4, <1>5
  <2>2. CASE eb # {}
    <3>1. "ESR" \in EventReg /\ stored.regs["ESR"] \cup eb \in SUBSET Bit
      BY <1>4, ErrorBitsAreBits DEF EventReg, Context, Reg
    <3> HIDE DEF eb
    <3>2. noted = SetEvent(stored, "ESR", stored.regs["ESR"] \cup eb)
      BY <2>2
    <3>3. /\ noted \in Context /\ noted.errq = q /\ ToldOK(noted)
          /\ noted.regs["ESR"] = stored.regs["ESR"] \cup eb
      BY <3>1, <3>2, <1>4, <1>5, SetEventFacts
    <3>4. Known(noted)
      BY <3>1, <3>2, <1>4, <1>5, SetEventKnown
    <3> QED
      BY <3>3, <3>4, <1>4
  <2> QED
    BY <2>1, <2>2
<1> HIDE DEF noted
<1>7. lit \in SUBSET Bit /\ lit \subseteq KnownStb
  BY <1>6, QmaIsNoSummary DEF Context, Reg, Known, KnownStb
<1>8. d \in Context /\ d.errq = q /\ d.regs["ESR"] = noted.regs["ESR"]
  BY <1>6, <1>7, SetSTBFacts DEF Reg
<1>9. Known(d)
  BY <1>6, <1>7, SetSTBKnown
<1> HIDE DEF d, lit
<1>10. g.errq = q /\ g.regs = d.regs /\ g.cmd_error = TRUE
  BY <1>8 DEF Context
<1> HIDE DEF g
<1> QED
  BY <1>2, <1>3, <1>6, <1>8, <1>9, <1>10 DEF Fits, Known, q

(* Cutting the queue short changes no event.                               *)
LEMMA EmitEmptyEffect ==
  ASSUME NEW c, Good(c), Fits(c), NEW q \in Seq(Int), Len(q) <= Capacity
  PROVE  LET d == SCPI_ErrorEmitEmpty([c EXCEPT !.errq = q])
         IN /\ Fits(d) /\ d.errq = q
            /\ \A s \in EventReg : d.regs[s] = c.regs[s]
<1> DEFINE e == [c EXCEPT !.errq = q]
           dark == e.regs["STB"] \ {"QMA"}
           d == SetSTB(e, dark)
           g == [d EXCEPT !.errTold = 0]
<1>1. c \in Context /\ ToldOK(c) /\ Known(c)
  BY DEF Good, Fits
<1>2. e \in Context /\ e.errq = q /\ e.regs = c.regs /\ e.srqTold = c.srqTold
  BY <1>1 DEF Context
<1>3. SCPI_ErrorEmitEmpty(e) = g \/ SCPI_ErrorEmitEmpty(e) = e
  BY DEF SCPI_ErrorEmitEmpty
<1> HIDE DEF e
<1>4. /\ ToldOK(e) /\ Known(e)
      /\ dark \in SUBSET Bit /\ dark \subseteq KnownStb
  BY <1>1, <1>2 DEF ToldOK, Known, Context, Reg
<1>5. /\ d \in Context /\ d.errq = q
      /\ \A s \in Reg \ {"STB"} : d.regs[s] = e.regs[s]
  BY <1>2, <1>4, SetSTBFacts
<1>6. Known(d)
  BY <1>2, <1>4, SetSTBKnown
<1> HIDE DEF d
<1>7. g.errq = q /\ g.regs = d.regs
  BY <1>5 DEF Context
<1> HIDE DEF g
<1>8. \A s \in EventReg : s \in Reg \ {"STB"}
  BY EventNames
<1>9. Fits(e) /\ Fits(g)
  BY <1>2, <1>4, <1>6, <1>7 DEF Fits, Known
<1> QED
  BY <1>2, <1>3, <1>5, <1>7, <1>8, <1>9 DEF e

(* Answering the oldest error, and forgetting all of them.                 *)
LEMMA ErrorPopEffect ==
  ASSUME NEW c, Good(c), Fits(c)
  PROVE  /\ Fits(SCPI_ErrorPop(c))
         /\ SCPI_ErrorPop(c).errq = IF c.errq = << >> THEN << >> ELSE Tail(c.errq)
         /\ \A s \in EventReg : SCPI_ErrorPop(c).regs[s] = c.regs[s]
<1> DEFINE q == IF c.errq = << >> THEN c.errq ELSE Tail(c.errq)
<1>1. c.errq \in Seq(Int) /\ Len(c.errq) <= Capacity /\ Len(c.errq) \in Nat
  BY DEF Good, Context, Fits
<1>2. q \in Seq(Int) /\ Len(q) <= Capacity
  <2>1. CASE c.errq = << >>
    BY <1>1, <2>1
  <2>2. CASE c.errq # << >>
    <3>1. Tail(c.errq) \in Seq(Int) /\ Len(Tail(c.errq)) = Len(c.errq) - 1
      BY <1>1, <2>2, HeadTailProperties
    <3> QED
      BY <1>1, <2>2, <3>1, CapacityAssumption
  <2> QED
    BY <2>1, <2>2
<1>3. SCPI_ErrorPop(c) = SCPI_ErrorEmitEmpty([c EXCEPT !.errq = q])
  BY DEF SCPI_ErrorPop
<1>4. q = IF c.errq = << >> THEN << >> ELSE Tail(c.errq)
  OBVIOUS
<1> HIDE DEF q
<1> DEFINE d == SCPI_ErrorEmitEmpty([c EXCEPT !.errq = q])
<1>5. Fits(d) /\ d.errq = q /\ \A s \in EventReg : d.regs[s] = c.regs[s]
  BY <1>2, EmitEmptyEffect
<1> HIDE DEF d
<1> QED
  BY <1>3, <1>4, <1>5 DEF d

LEMMA ErrorClearEffect ==
  ASSUME NEW c, Good(c), Fits(c)
  PROVE  /\ Fits(SCPI_ErrorClear(c))
         /\ SCPI_ErrorClear(c).errq = << >>
         /\ \A s \in EventReg : SCPI_ErrorClear(c).regs[s] = c.regs[s]
<1>1. << >> \in Seq(Int) /\ Len(<< >>) <= Capacity
  BY CapacityAssumption
<1> QED
  BY <1>1, EmitEmptyEffect DEF SCPI_ErrorClear

(* processCommand before the callback ...                                  *)
LEMMA BegunEffect ==
  ASSUME NEW c, Good(c), Fits(c)
  PROVE  /\ Fits(Begun(c)) /\ Begun(c).cmd_error = FALSE
         /\ Begun(c).regs = c.regs /\ Begun(c).errq = c.errq
<1>1. c \in Context
  BY DEF Good
<1>2. Begun(c).regs = c.regs /\ Begun(c).errq = c.errq /\ Begun(c).cmd_error = FALSE
  BY <1>1 DEF Begun, Context
<1> QED
  BY <1>2 DEF Fits, Known

(* ... and after it: no event is lost, and one error at most is added, and *)
(* none to a command that has already pushed one.                          *)
LEMMA FinishedEffect ==
  ASSUME NEW c, Good(c), Fits(c), NEW ok \in BOOLEAN, NEW extra \in BOOLEAN
  PROVE  /\ Fits(Finished(c, ok, extra))
         /\ c.regs["ESR"] \subseteq Finished(c, ok, extra).regs["ESR"]
         /\ \/ Finished(c, ok, extra).errq = c.errq
            \/ c.cmd_error # TRUE /\ \E err \in Int : Finished(c, ok, extra).errq = Pushed(c.errq, err)
<1> DEFINE p == SCPI_ErrorPush(c, EXECUTION_ERROR)
           x == SCPI_ErrorPush(c, PARAMETER_NOT_ALLOWED)
           f == Finished(c, ok, extra)
<1>1. EXECUTION_ERROR \in Int /\ PARAMETER_NOT_ALLOWED \in Int
  BY DEF EXECUTION_ERROR, PARAMETER_NOT_ALLOWED
<1>2. /\ Fits(p) /\ p.errq = Pushed(c.errq, EXECUTION_ERROR) /\ p.cmd_error = TRUE
      /\ c.regs["ESR"] \subseteq p.regs["ESR"]
  BY <1>1, ErrorPushEffect
<1>3. /\ Fits(x) /\ x.errq = Pushed(c.errq, PARAMETER_NOT_ALLOWED)
      /\ c.regs["ESR"] \subseteq x.regs["ESR"]
  BY <1>1, ErrorPushEffect
<1>4. f = c \/ (c.cmd_error # TRUE /\ (f = p \/ f = x))
  <2>1. CASE ~ok /\ ~c.cmd_error
    BY <2>1, <1>2 DEF Finished
  <2>2. CASE ~(~ok /\ ~c.cmd_error)
    BY <2>2 DEF Finished
  <2> QED
    BY <2>1, <2>2
<1> HIDE DEF p, x, f
<1>5. Fits(f) /\ c.regs["ESR"] \subseteq f.regs["ESR"]
  BY <1>2, <1>3, <1>4
<1>6. \/ f.errq = c.errq
      \/ c.cmd_error # TRUE /\ \E err \in Int : f.errq = Pushed(c.errq, err)
  BY <1>1, <1>2, <1>3, <1>4
<1> QED
  BY <1>5, <1>6 DEF f

-----------------------------------------------------------------------------
(* The inductive invariant.                                                *)
IInv == Good(context)

(* A context is good after SCPI_Init.                                      *)
LEMMA InitGood == Init => IInv
<1> SUFFICES ASSUME Init
             PROVE  Good(SCPI_Init)
  BY DEF Init, IInv
<1> DEFINE z == SCPI_Init
<1>1. z \in Context /\ z.errq = << >> /\ z.errTold = 0 /\ \A r \in Reg : z.regs[r] = {}
  BY DEF SCPI_Init, Context
<1> HIDE DEF z
<1>2. z.regs["STB"] = {}
  BY <1>1 DEF Reg
<1>3. \A r \in EventReg : SumOK(z, r)
  BY <1>1, <1>2, EventNames DEF SumOK, Meets
<1>4. MssOK(z) /\ ToldOK(z) /\ QmaOK(z) /\ ErrOK(z)
  BY <1>1, <1>2 DEF MssOK, ToldOK, QmaOK, ErrOK, Meets
<1>5. Good(z)
  BY <1>1, <1>3, <1>4 DEF Good
<1> QED
  BY <1>5 DEF z

(* Each command, each rejected header and each call of the device keeps it.*)
LEMMA StepGood == IInv /\ [Next]_vars => IInv'
<1> SUFFICES ASSUME Good(context), [Next]_vars
             PROVE  Good(context')
  BY DEF IInv
<1> DEFINE c == Begun(context)
<1>1. Good(c) /\ c.regs = regs
  BY GoodBegun DEF regs
<1>2. {} \in SUBSET Bit /\ "ESR" \in EventReg /\ "OPER" \in EventReg /\ "QUES" \in EventReg
  BY DEF EventReg
<1> HIDE DEF c
<1>3. ASSUME NEW extra \in BOOLEAN, SCPI_CoreCls(extra)
      PROVE  Good(context')
  <2> DEFINE e == SetEvent(c, "ESR", {})
             f == SCPI_ErrorClear(e)
             g == SetEvent(f, "OPER", {})
             h == SetEvent(g, "QUES", {})
  <2>1. Good(e)
    BY <1>1, <1>2, GoodSetEvent
  <2>2. Good(f)
    BY <2>1, GoodErrorClear
  <2> HIDE DEF f
  <2>3. Good(g)
    BY <2>2, <1>2, GoodSetEvent
  <2> HIDE DEF g
  <2>4. Good(h)
    BY <2>3, <1>2, GoodSetEvent
  <2>5. context' = Finished(h, TRUE, extra)
    BY <1>3 DEF SCPI_CoreCls, Cleared, c, f, g
  <2> HIDE DEF h
  <2> QED
    BY <2>4, <2>5, GoodFinished
<1>4. ASSUME NEW extra \in BOOLEAN, NEW val \in EseVals, SCPI_CoreEse(val, extra)
      PROVE  Good(context')
  <2>1. Good(SetEnable(c, "ESR", val))
    BY <1>1, <1>2, GoodSetEnable, ValsAssumption
  <2> QED
    BY <1>4, <2>1, GoodFinished DEF SCPI_CoreEse, c
<1>5. ASSUME NEW extra \in BOOLEAN, NEW val \in SreVals, SCPI_CoreSre(val, extra)
      PROVE  Good(context')
  <2>1. Good(SetSRE(c, val))
    BY <1>1, GoodSetSRE, ValsAssumption
  <2> QED
    BY <1>5, <2>1, GoodFinished DEF SCPI_CoreSre, c
<1>6. ASSUME NEW extra \in BOOLEAN, NEW val \in CondVals,
             SCPI_StatusQuestionableEnable(val, extra)
      PROVE  Good(context')
  <2>1. Good(SetEnable(c, "QUES", val))
    BY <1>1, <1>2, GoodSetEnable, ValsAssumption
  <2> QED
    BY <1>6, <2>1, GoodFinished DEF SCPI_StatusQuestionableEnable, c
<1>7. ASSUME NEW extra \in BOOLEAN, NEW fault \in ParamFaults, NEW ok \in BOOLEAN,
             ParameterRejected(fault, ok, extra)
      PROVE  Good(context')
  <2>1. Good(SCPI_ErrorPush(c, fault))
    BY <1>1, GoodErrorPush, ValsAssumption
  <2> QED
    BY <1>7, <2>1, GoodFinished DEF ParameterRejected, c
<1>8. ASSUME NEW extra \in BOOLEAN, SCPI_CoreEsrQ(extra)
      PROVE  Good(context')
  <2>1. Good(SetEvent(c, "ESR", {}))
    BY <1>1, <1>2, GoodSetEvent
  <2> QED
    BY <1>8, <2>1, GoodFinished DEF SCPI_CoreEsrQ, c
<1>9. ASSUME NEW extra \in BOOLEAN,
             SCPI_StatusQuestionableEventQ(extra) \/ SCPI_StatusPreset(extra)
      PROVE  Good(context')
  <2>1. Good(SetEvent(c, "QUES", {}))
    BY <1>1, <1>2, GoodSetEvent
  <2> QED
    BY <1>9, <2>1, GoodFinished DEF SCPI_StatusQuestionableEventQ, SCPI_StatusPreset, c
<1>10. ASSUME NEW extra \in BOOLEAN, NEW r, RegisterQ(r, extra)
       PROVE  Good(context')
  BY <1>1, <1>10, GoodFinished DEF RegisterQ, c
<1>11. ASSUME NEW extra \in BOOLEAN, SCPI_CoreOpc(extra)
       PROVE  Good(context')
  <2>1. regs["ESR"] \cup {"OPC"} \in SUBSET Bit
    BY DEF regs, Good, Context, Reg, Bit, EsrBit
  <2>2. Good(SetEvent(c, "ESR", regs["ESR"] \cup {"OPC"}))
    BY <1>1, <1>2, <2>1, GoodSetEvent
  <2> QED
    BY <1>11, <2>2, GoodFinished DEF SCPI_CoreOpc, c
<1>12. ASSUME NEW extra \in BOOLEAN, SCPI_SystemErrorNextQ(extra)
       PROVE  Good(context')
  <2>1. Good(SCPI_ErrorPop(c))
    BY <1>1, GoodErrorPop
  <2> QED
    BY <1>12, <2>1, GoodFinished DEF SCPI_SystemErrorNextQ, c
<1>13. ASSUME NEW extra \in BOOLEAN, SCPI_SystemErrorCountQ(extra)
       PROVE  Good(context')
  BY <1>1, <1>13, GoodFinished DEF SCPI_SystemErrorCountQ, c
<1>14. ASSUME NEW extra \in BOOLEAN, NEW ok \in BOOLEAN, OtherCommand(ok, extra)
       PROVE  Good(context')
  BY <1>1, <1>14, GoodFinished DEF OtherCommand, c
<1>15. ASSUME NEW err \in {UNDEFINED_HEADER, INVALID_CHARACTER}, RejectedHeader(err)
       PROVE  Good(context')
  <2>1. err \in Int
    BY DEF UNDEFINED_HEADER, INVALID_CHARACTER
  <2> QED
    BY <1>15, <2>1, GoodErrorPush DEF RejectedHeader
<1>16. ASSUME NEW r \in {"OPER", "QUES"}, NEW val \in CondVals, DeviceCondition(r, val)
       PROVE  Good(context')
  <2>1. r \in EventReg
    BY DEF EventReg
  <2> QED
    BY <1>16, <2>1, GoodSetEvent, ValsAssumption DEF DeviceCondition
<1>17. ASSUME NEW val \in CondVals, DeviceEnable(val)
       PROVE  Good(context')
  BY <1>17, <1>2, GoodSetEnable, ValsAssumption DEF DeviceEnable
<1>18. ASSUME NEW err \in DeviceErrors, DeviceError(err)
       PROVE  Good(context')
  BY <1>18, GoodErrorPush, ValsAssumption DEF DeviceError
<1>19. CASE UNCHANGED vars
  BY <1>19 DEF vars
<1> QED
  BY <1>3, <1>4, <1>5, <1>6, <1>7, <1>8, <1>9, <1>10, <1>11, <1>12, <1>13, <1>14,
     <1>15, <1>16, <1>17, <1>18, <1>19 DEF Next

(* Errors leave old oldest first when it becomes new and num is answered:  *)
(* the action of ErrorsLeaveInOrder, but for *CLS.                         *)
QueueStep(old, new, num) ==
  \E n \in 0 .. 1 :
    /\ Len(new) >= n
    /\ LET rest == SubSeq(new, 1, Len(new) - n)
       IN \/ rest = old
          \/ old # << >> /\ rest = Tail(old) /\ (num = Head(old) \/ Len(new) = Capacity)

(* Leaving the queue alone, pushing an error, and answering the oldest     *)
(* error before one is pushed are such steps.                              *)
LEMMA QueueSteps ==
  ASSUME NEW q \in Seq(Int), Len(q) <= Capacity
  PROVE  /\ \A num : QueueStep(q, q, num)
         /\ \A num : \A err \in Int : QueueStep(q, Pushed(q, err), num)
         /\ q # << >> =>
              /\ QueueStep(q, Tail(q), Head(q))
              /\ \A err \in Int : QueueStep(q, Pushed(Tail(q), err), Head(q))
<1>1. ASSUME NEW s \in Seq(Int)
      PROVE  SubSeq(s, 1, Len(s) - 0) = s /\ Len(s) >= 0
  BY <1>1
<1>2. ASSUME NEW num
      PROVE  QueueStep(q, q, num)
  BY <1>1 DEF QueueStep
<1>3. ASSUME NEW num, NEW err \in Int
      PROVE  QueueStep(q, Pushed(q, err), num)
  <2> DEFINE p == Pushed(q, err)
             rest == SubSeq(p, 1, Len(p) - 1)
  <2>1. /\ Len(p) >= 1
        /\ rest = q \/ (q # << >> /\ rest = Tail(q) /\ Len(p) = Capacity)
    BY PushedOrder, CapacityAssumption
  <2> HIDE DEF p
  <2> QED
    BY <2>1 DEF QueueStep, p
<1>4. ASSUME q # << >>
      PROVE  QueueStep(q, Tail(q), Head(q))
  <2> DEFINE t == Tail(q)
  <2>1. t \in Seq(Int)
    BY <1>4, HeadTailProperties
  <2> HIDE DEF t
  <2>2. SubSeq(t, 1, Len(t) - 0) = t /\ Len(t) >= 0
    BY <1>1, <2>1
  <2> QED
    BY <1>4, <2>2 DEF QueueStep, t
<1>5. ASSUME q # << >>, NEW err \in Int
      PROVE  QueueStep(q, Pushed(Tail(q), err), Head(q))
  <2> DEFINE t == Tail(q)
             p == Append(t, err)
  <2>1. t \in Seq(Int) /\ Len(t) = Len(q) - 1 /\ Len(q) \in Nat
    BY <1>5, HeadTailProperties, LenProperties
  <2> HIDE DEF t
  <2>2. Len(t) # Capacity
    BY <2>1, CapacityAssumption
  <2>3. Pushed(t, err) = p
    BY <2>2 DEF Pushed
  <2>4. Len(p) >= 1 /\ SubSeq(p, 1, Len(p) - 1) = t
    BY <2>1
  <2> HIDE DEF p
  <2> QED
    BY <1>5, <2>3, <2>4 DEF QueueStep, t
<1> QED
  BY <1>2, <1>3, <1>4, <1>5

(* A command that leaves the queue alone, and what processCommand adds.    *)
LEMMA CommandEffect ==
  ASSUME NEW c, Good(c), Fits(c), NEW ok \in BOOLEAN, NEW extra \in BOOLEAN, NEW num
  PROVE  /\ Fits(Finished(c, ok, extra))
         /\ c.regs["ESR"] \subseteq Finished(c, ok, extra).regs["ESR"]
         /\ QueueStep(c.errq, Finished(c, ok, extra).errq, num)
<1>1. c.errq \in Seq(Int) /\ Len(c.errq) <= Capacity
  BY DEF Good, Fits, Context
<1>2. /\ \A err \in Int : QueueStep(c.errq, Pushed(c.errq, err), num)
      /\ QueueStep(c.errq, c.errq, num)
  BY <1>1, QueueSteps
<1> QED
  BY <1>2, FinishedEffect

(* What a step may do to the events of ESR and to the queue, but for *CLS. *)
Orderly ==
  /\ Fits(context')
  /\ \A b \in regs["ESR"] : b \in regs'["ESR"] \/ b \in bits'
  /\ QueueStep(context.errq, context'.errq, number')

(* Every step is orderly or *CLS, and *CLS leaves a queue that fits.       *)
LEMMA StepOrderly ==
  ASSUME Good(context), Fits(context), [Next]_vars
  PROVE  Orderly \/ (Fits(context') /\ \E x \in BOOLEAN : SCPI_CoreCls(x))
<1> DEFINE c == Begun(context)
<1>1. /\ Good(c) /\ Fits(c) /\ c.regs = regs /\ c.errq = context.errq
      /\ c.cmd_error = FALSE
  BY GoodBegun, BegunEffect DEF regs
<1>2. /\ {} \in SUBSET Bit /\ "ESR" \in EventReg /\ "OPER" \in EventReg
      /\ "QUES" \in EventReg
  BY DEF EventReg
<1>3. context.errq \in Seq(Int) /\ Len(context.errq) <= Capacity
  BY DEF Good, Fits, Context
<1> HIDE DEF c
<1>4. ASSUME NEW d, Good(d), Fits(d), d.errq = context.errq, regs["ESR"] \subseteq d.regs["ESR"],
             NEW ok \in BOOLEAN, NEW extra \in BOOLEAN,
             context' = Finished(d, ok, extra)
      PROVE  Orderly
  BY <1>4, CommandEffect DEF Orderly, regs
<1>5. ASSUME NEW d, Fits(d), d.errq = context.errq, d.regs["ESR"] = regs["ESR"], context' = d
      PROVE  Orderly
  BY <1>3, <1>5, QueueSteps DEF Orderly, regs
<1>6. ASSUME NEW err \in Int, context' = SCPI_ErrorPush(context, err)
      PROVE  Orderly
  <2>1. /\ Fits(context') /\ context'.errq = Pushed(context.errq, err)
        /\ regs["ESR"] \subseteq context'.regs["ESR"]
    BY <1>6, ErrorPushEffect DEF regs
  <2>2. QueueStep(context.errq, context'.errq, number')
    BY <1>3, <2>1, QueueSteps
  <2> QED
    BY <2>1, <2>2 DEF Orderly, regs
<1>7. ASSUME NEW extra \in BOOLEAN, SCPI_CoreCls(extra)
      PROVE  Fits(context') /\ \E x \in BOOLEAN : SCPI_CoreCls(x)
  <2> DEFINE e == SetEvent(c, "ESR", {})
             f == SCPI_ErrorClear(e)
             g == SetEvent(f, "OPER", {})
             h == SetEvent(g, "QUES", {})
  <2>1. Good(e) /\ Fits(e)
    BY <1>1, <1>2, GoodSetEvent, SetEventEffect
  <2>2. Good(f) /\ Fits(f)
    BY <2>1, GoodErrorClear, ErrorClearEffect
  <2> HIDE DEF f
  <2>3. Good(g) /\ Fits(g)
    BY <2>2, <1>2, GoodSetEvent, SetEventEffect
  <2> HIDE DEF g
  <2>4. Good(h) /\ Fits(h)
    BY <2>3, <1>2, GoodSetEvent, SetEventEffect
  <2>5. context' = Finished(h, TRUE, extra)
    BY <1>7 DEF SCPI_CoreCls, Cleared, c, f, g
  <2> HIDE DEF h
  <2> QED
    BY <1>7, <2>4, <2>5, FinishedEffect
<1>8. ASSUME NEW r \in EventReg, NEW val \in SUBSET Bit, NEW extra \in BOOLEAN,
             context' = Finished(SetEnable(c, r, val), TRUE, extra)
      PROVE  Orderly
  <2> DEFINE d == SetEnable(c, r, val)
  <2>1. Good(d) /\ Fits(d) /\ d.errq = c.errq /\ d.regs["ESR"] = c.regs["ESR"]
    BY <1>1, <1>2, GoodSetEnable, SetEnableEffect
  <2> HIDE DEF d
  <2> QED
    BY <1>1, <1>4, <1>8, <2>1 DEF d
<1>9. ASSUME NEW val \in SreVals, NEW extra \in BOOLEAN, SCPI_CoreSre(val, extra)
      PROVE  Orderly
  <2> DEFINE d == SetSRE(c, val)
  <2>1. Good(d) /\ Fits(d) /\ d.errq = c.errq /\ d.regs["ESR"] = c.regs["ESR"]
    BY <1>1, <1>2, GoodSetSRE, SetSREEffect, ValsAssumption
  <2>2. context' = Finished(d, TRUE, extra)
    BY <1>9 DEF SCPI_CoreSre, c
  <2> HIDE DEF d
  <2> QED
    BY <1>1, <1>4, <2>1, <2>2
<1>10. ASSUME NEW fault \in ParamFaults, NEW ok \in BOOLEAN, NEW extra \in BOOLEAN,
              ParameterRejected(fault, ok, extra)
       PROVE  Orderly
  <2> DEFINE d == SCPI_ErrorPush(c, fault)
  <2>1. /\ Good(d) /\ Fits(d) /\ d.errq = Pushed(c.errq, fault) /\ d.cmd_error = TRUE
        /\ c.regs["ESR"] \subseteq d.regs["ESR"]
    BY <1>1, GoodErrorPush, ErrorPushEffect, ValsAssumption
  <2>2. context' = Finished(d, ok, extra)
    BY <1>10 DEF ParameterRejected, c
  <2> HIDE DEF d
  <2>3. /\ Fits(context') /\ context'.errq = d.errq
        /\ d.regs["ESR"] \subseteq context'.regs["ESR"]
    BY <2>1, <2>2, FinishedEffect
  <2>4. QueueStep(context.errq, context'.errq, number')
    BY <1>1, <1>3, <2>1, <2>3, QueueSteps, ValsAssumption
  <2> QED
    BY <1>1, <2>1, <2>3, <2>4 DEF Orderly, regs
<1>11. ASSUME NEW extra \in BOOLEAN, SCPI_CoreEsrQ(extra)
       PROVE  Orderly
  <2> DEFINE d == SetEvent(c, "ESR", {})
  <2>1. Good(d) /\ Fits(d) /\ d.errq = c.errq
    BY <1>1, <1>2, GoodSetEvent, SetEventEffect
  <2>2. context' = Finished(d, TRUE, extra) /\ bits' = regs["ESR"]
    BY <1>11 DEF SCPI_CoreEsrQ, AnswerBits, c
  <2> HIDE DEF d
  <2>3. Fits(context') /\ QueueStep(context.errq, context'.errq, number')
    BY <1>1, <2>1, <2>2, CommandEffect
  <2> QED
    BY <2>2, <2>3 DEF Orderly
<1>12. ASSUME NEW extra \in BOOLEAN,
              SCPI_StatusQuestionableEventQ(extra) \/ SCPI_StatusPreset(extra)
       PROVE  Orderly
  <2> DEFINE d == SetEvent(c, "QUES", {})
  <2>1. Good(d) /\ Fits(d) /\ d.errq = c.errq /\ d.regs["ESR"] = c.regs["ESR"]
    BY <1>1, <1>2, GoodSetEvent, SetEventEffect
  <2>2. context' = Finished(d, TRUE, extra)
    BY <1>12 DEF SCPI_StatusQuestionableEventQ, SCPI_StatusPreset, c
  <2> HIDE DEF d
  <2> QED
    BY <1>1, <1>4, <2>1, <2>2
<1>13. ASSUME NEW ok \in BOOLEAN, NEW extra \in BOOLEAN, context' = Finished(c, ok, extra)
       PROVE  Orderly
  BY <1>1, <1>4, <1>13
<1>14. ASSUME NEW extra \in BOOLEAN, SCPI_CoreOpc(extra)
       PROVE  Orderly
  <2> DEFINE new == regs["ESR"] \cup {"OPC"}
             d == SetEvent(c, "ESR", new)
  <2>1. new \in SUBSET Bit
    BY DEF regs, Good, Context, Reg, Bit, EsrBit
  <2>2. Good(d) /\ Fits(d) /\ d.errq = c.errq /\ d.regs["ESR"] = new
    BY <1>1, <1>2, <2>1, GoodSetEvent, SetEventEffect
  <2>3. context' = Finished(d, TRUE, extra)
    BY <1>14 DEF SCPI_CoreOpc, c
  <2> HIDE DEF d
  <2> QED
    BY <1>1, <1>4, <2>2, <2>3
<1>15. ASSUME NEW extra \in BOOLEAN, SCPI_SystemErrorNextQ(extra)
       PROVE  Orderly
  <2> DEFINE d == SCPI_ErrorPop(c)
             q == context.errq
  <2>1. /\ Good(d) /\ Fits(d) /\ d.regs["ESR"] = c.regs["ESR"]
        /\ d.errq = IF q = << >> THEN << >> ELSE Tail(q)
    BY <1>1, <1>2, GoodErrorPop, ErrorPopEffect
  <2>2. /\ context' = Finished(d, TRUE, extra)
        /\ number' = IF q = << >> THEN 0 ELSE Head(q)
    BY <1>15 DEF SCPI_SystemErrorNextQ, AnswerNumber, PoppedError, c
  <2> HIDE DEF d
  <2>3. CASE q = << >>
    BY <1>1, <1>4, <2>1, <2>2, <2>3
  <2>4. CASE q # << >>
    <3>1. /\ Fits(context') /\ d.regs["ESR"] \subseteq context'.regs["ESR"]
          /\ \/ context'.errq = Tail(q)
             \/ \E err \in Int : context'.errq = Pushed(Tail(q), err)
      BY <2>1, <2>2, <2>4, FinishedEffect
    <3>2. QueueStep(q, context'.errq, number')
      BY <1>3, <2>2, <2>4, <3>1, QueueSteps
    <3> QED
      BY <1>1, <2>1, <3>1, <3>2 DEF Orderly, regs
  <2> QED
    BY <2>3, <2>4
<1>16. ASSUME NEW r \in {"OPER", "QUES"}, NEW val \in CondVals, DeviceCondition(r, val)
       PROVE  Orderly
  <2> DEFINE d == SetEvent(context, r, val)
  <2>1. r \in EventReg /\ "ESR" \in EventReg \ {r}
    BY DEF EventReg
  <2>2. Fits(d) /\ d.errq = context.errq /\ d.regs["ESR"] = context.regs["ESR"]
    BY <2>1, SetEventEffect, ValsAssumption
  <2>3. context' = d
    BY <1>16 DEF DeviceCondition
  <2> HIDE DEF d
  <2> QED
    BY <1>5, <2>2, <2>3 DEF regs
<1>17. ASSUME NEW val \in CondVals, DeviceEnable(val)
       PROVE  Orderly
  <2> DEFINE d == SetEnable(context, "OPER", val)
  <2>1. Fits(d) /\ d.errq = context.errq /\ d.regs["ESR"] = context.regs["ESR"]
    BY <1>2, SetEnableEffect, ValsAssumption
  <2>2. context' = d
    BY <1>17 DEF DeviceEnable
  <2> HIDE DEF d
  <2> QED
    BY <1>5, <2>1, <2>2 DEF regs
<1>18. CASE UNCHANGED vars
  BY <1>5, <1>18 DEF vars, regs
<1>19. ASSUME NEW extra \in BOOLEAN, NEW val \in EseVals, SCPI_CoreEse(val, extra)
       PROVE  Orderly
  BY <1>2, <1>8, <1>19, ValsAssumption DEF SCPI_CoreEse, c
<1>20. ASSUME NEW extra \in BOOLEAN, NEW val \in CondVals,
              SCPI_StatusQuestionableEnable(val, extra)
       PROVE  Orderly
  BY <1>2, <1>8, <1>20, ValsAssumption DEF SCPI_StatusQuestionableEnable, c
<1>21. ASSUME NEW extra \in BOOLEAN, NEW r, RegisterQ(r, extra)
       PROVE  Orderly
  BY <1>13, <1>21 DEF RegisterQ, c
<1>22. ASSUME NEW extra \in BOOLEAN, SCPI_SystemErrorCountQ(extra)
       PROVE  Orderly
  BY <1>13, <1>22 DEF SCPI_SystemErrorCountQ, c
<1>23. ASSUME NEW extra \in BOOLEAN, NEW ok \in BOOLEAN, OtherCommand(ok, extra)
       PROVE  Orderly
  BY <1>13, <1>23 DEF OtherCommand, c
<1>24. ASSUME NEW err \in {UNDEFINED_HEADER, INVALID_CHARACTER}, RejectedHeader(err)
       PROVE  Orderly
  BY <1>6, <1>24 DEF RejectedHeader, UNDEFINED_HEADER, INVALID_CHARACTER
<1>25. ASSUME NEW err \in DeviceErrors, DeviceError(err)
       PROVE  Orderly
  BY <1>6, <1>25, ValsAssumption DEF DeviceError
<1> QED
  BY <1>7, <1>9, <1>10, <1>11, <1>12, <1>14, <1>15, <1>16, <1>17, <1>18, <1>19, <1>20,
     <1>21, <1>22, <1>23, <1>24, <1>25 DEF Next

(* The five facts of Good in the words of Status.tla.                      *)
LEMMA GoodImplies ==
  IInv => SummaryBits /\ MasterSummary /\ QueueBit /\ HostKnowsSTB /\ DeviceKnowsErrors
  BY DEF IInv, Good, SumOK, MssOK, ToldOK, QmaOK, ErrOK, SummaryBits, MasterSummary,
         QueueBit, HostKnowsSTB, DeviceKnowsErrors, regs

(* Whatever commands, faults and device calls come in whatever order, the  *)
(* STB register tells the truth about the event registers, their masks and *)
(* the error queue, and SRQ about STB and SRE (ieee488.c, error.c).        *)
THEOREM StatusByteIsTrue == Spec => []StatusByte
<1>1. Init => IInv
  BY InitGood
<1>2. IInv /\ [Next]_vars => IInv'
  BY StepGood
<1>3. IInv => StatusByte
  BY GoodImplies DEF StatusByte
<1> QED
  BY <1>1, <1>2, <1>3, PTL DEF Spec

(* While service is requested, the last service request told the host the  *)
(* present STB (ieee488.c:121-125, 156).                                   *)
THEOREM HostIsTold == Spec => []HostKnowsSTB
<1>1. Init => IInv
  BY InitGood
<1>2. IInv /\ [Next]_vars => IInv'
  BY StepGood
<1>3. IInv => HostKnowsSTB
  BY GoodImplies
<1> QED
  BY <1>1, <1>2, <1>3, PTL DEF Spec

(* The device's error callback last saw the newest error in the queue, or  *)
(* 0 when there is none (error.c:63-84).                                   *)
THEOREM DeviceIsTold == Spec => []DeviceKnowsErrors
<1>1. Init => IInv
  BY InitGood
<1>2. IInv /\ [Next]_vars => IInv'
  BY StepGood
<1>3. IInv => DeviceKnowsErrors
  BY GoodImplies
<1> QED
  BY <1>1, <1>2, <1>3, PTL DEF Spec
-----------------------------------------------------------------------------
(* The stronger invariant that the next three theorems need.               *)
IInvFits == IInv /\ Fits(context)

(* It holds at first, and every step keeps it.                             *)
LEMMA FitsInvariant ==
  /\ Init => IInvFits
  /\ IInvFits /\ [Next]_vars => IInvFits'
<1>1. Init => Fits(context)
  <2>1. SCPI_Init.regs["STB"] = {} /\ SCPI_Init.errq = << >>
    BY DEF SCPI_Init, Reg
  <2> QED
    BY <2>1, CapacityAssumption DEF Init, Fits, Known
<1>2. IInvFits /\ [Next]_vars => Fits(context')
  BY StepOrderly DEF IInvFits, IInv, Orderly
<1> QED
  BY <1>1, <1>2, InitGood, StepGood DEF IInvFits

(* *CLS clears a good context.                                             *)
LEMMA GoodCleared == IInvFits => ClsClearsAll
<1> SUFFICES ASSUME Good(context), Fits(context)
             PROVE  ClsClearsAll
  BY DEF IInvFits, IInv
<1> DEFINE c == Begun(context)
           e == SetEvent(c, "ESR", {})
           f == SCPI_ErrorClear(e)
           g == SetEvent(f, "OPER", {})
           h == SetEvent(g, "QUES", {})
<1>1. /\ {} \in SUBSET Bit /\ "ESR" \in EventReg /\ "OPER" \in EventReg
      /\ "QUES" \in EventReg
  BY DEF EventReg
<1>2. Good(c) /\ Fits(c)
  BY GoodBegun, BegunEffect
<1>3. Finished(Cleared(Begun(context)), TRUE, FALSE) = h
  BY DEF Finished, Cleared
<1> HIDE DEF c
<1>4. Good(e) /\ Fits(e) /\ e.regs["ESR"] = {}
  BY <1>1, <1>2, GoodSetEvent, SetEventEffect
<1> HIDE DEF e
<1>5. Good(f) /\ Fits(f) /\ f.regs["ESR"] = {} /\ f.errq = << >>
  BY <1>1, <1>4, GoodErrorClear, ErrorClearEffect
<1> HIDE DEF f
<1>6. /\ Good(g) /\ Fits(g) /\ g.regs["ESR"] = {} /\ g.regs["OPER"] = {}
      /\ g.errq = << >>
  BY <1>1, <1>5, GoodSetEvent, SetEventEffect
<1> HIDE DEF g
<1>7. /\ Good(h) /\ Fits(h) /\ h.regs["ESR"] = {} /\ h.regs["OPER"] = {}
      /\ h.regs["QUES"] = {} /\ h.errq = << >>
  BY <1>1, <1>6, GoodSetEvent, SetEventEffect
<1> HIDE DEF h
<1>8. /\ "ESR" \notin h.regs["STB"] /\ "OPS" \notin h.regs["STB"]
      /\ "QES" \notin h.regs["STB"]
  <2>1. SumOK(h, "ESR") /\ SumOK(h, "OPER") /\ SumOK(h, "QUES")
    BY <1>1, <1>7 DEF Good
  <2> QED
    BY <1>7, <2>1 DEF SumOK, Meets, Summary
<1>9. "QMA" \notin h.regs["STB"]
  BY <1>7 DEF Good, QmaOK
<1>10. h.regs["STB"] \subseteq {"SRQ"}
  BY <1>7, <1>8, <1>9 DEF Fits, Known, KnownStb
<1>11. h.regs["STB"] = {}
  <2>1. MssOK(h)
    BY <1>7 DEF Good
  <2> QED
    BY <1>10, <2>1 DEF MssOK, Meets
<1> QED
  BY <1>3, <1>7, <1>11 DEF ClsClearsAll, EventReg

(* In every state the device can reach, *CLS would leave no event, no      *)
(* error and no bit of STB, whatever the masks (ieee488.c:199-205).        *)
THEOREM ClsIsComplete == Spec => []ClsClearsAll
  BY FitsInvariant, GoodCleared, PTL DEF Spec

(* No step but *ESR? and *CLS takes an event out of ESR, and *ESR? answers *)
(* the events it takes (ieee488.c:199-205, 236-240).                       *)
THEOREM NoEventIsLost == Spec => EventsAreReported
<1>1. IInvFits /\ [Next]_vars =>
        [\A b \in regs["ESR"] :
           b \in regs'["ESR"] \/ b \in bits' \/ \E x \in BOOLEAN : SCPI_CoreCls(x)]_vars
  BY StepOrderly DEF IInvFits, IInv, Orderly
<1> QED
  BY <1>1, FitsInvariant, PTL DEF Spec, EventsAreReported

(* Errors leave the queue oldest first: answered, cleared, or one at a     *)
(* time to make room for a newer one (error.c, fifo.c).                    *)
THEOREM ErrorsStayInOrder == Spec => ErrorsLeaveInOrder
<1> DEFINE Step ==
      LET old == context.errq
          new == context'.errq
      IN \/ \E n \in 0 .. 1 :
              /\ Len(new) >= n
              /\ LET rest == SubSeq(new, 1, Len(new) - n)
                 IN \/ rest = old
                    \/ old # << >> /\ rest = Tail(old)
                         /\ (number' = Head(old) \/ Len(new) = Capacity)
         \/ \E x \in BOOLEAN : SCPI_CoreCls(x)
<1>1. IInvFits /\ [Next]_vars => [Step]_vars
  <2> SUFFICES ASSUME Good(context), Fits(context), [Next]_vars
               PROVE  Step
    BY DEF IInvFits, IInv
  <2>1. CASE Orderly
    BY <2>1 DEF Orderly, QueueStep
  <2>2. CASE \E x \in BOOLEAN : SCPI_CoreCls(x)
    BY <2>2
  <2> QED
    BY <2>1, <2>2, StepOrderly
<1> QED
  BY <1>1, FitsInvariant, PTL DEF Spec, ErrorsLeaveInOrder
=============================================================================
