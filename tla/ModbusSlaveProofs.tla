-------------------------- MODULE ModbusSlaveProofs --------------------------
(***************************************************************************)
(* The serial slave's protection of the frame it answers, for every buffer *)
(* size, timeout and counter width.                                        *)
(***************************************************************************)
EXTENDS ModbusSlave, UartTx, TLAPS

\* Counting stays within the counter.
LEMMA IncInRange ==
  ASSUME NEW n \in 0 .. CntMod - 1
  PROVE  Inc(n) \in 0 .. CntMod - 1
BY SlaveAssumption DEF SlaveAssumption, Inc

\* The initial state satisfies the inductive invariant.
LEMMA InitInd == Init => IndInv
<1> SUFFICES ASSUME Init PROVE IndInv
  OBVIOUS
<1>1. TypeOK
  <2>1. rxBuf \in Seq(Byte) /\ Len(rxBuf) <= MaxRx
    BY SlaveAssumption DEF SlaveAssumption, Init
  <2>2. timer \in 0 .. Timeout /\ 0 \in 0 .. CntMod - 1
    BY SlaveAssumption DEF SlaveAssumption, Init
  <2> QED BY <2>1, <2>2 DEF Init, TypeOK, Label
<1>2. ReleaseOrder
  BY DEF Init, ReleaseOrder, Handling, Decoding
<1>3. OneReply
  BY DEF Init, OneReply, Replying
<1> QED BY <1>1, <1>2, <1>3 DEF IndInv

\* The receive interrupt: a byte that does not fit.
LEMMA OverrunInd ==
  ASSUME IndInv, RxOverrun
  PROVE  IndInv'
<1> USE DEF IndInv, RxOverrun, Listening, main, count
<1>1. TypeOK'
  BY DEF TypeOK
<1>2. ReleaseOrder'
  BY DEF ReleaseOrder, Handling, Decoding
<1>3. OneReply'
  BY DEF OneReply, Replying
<1> QED BY <1>1, <1>2, <1>3

\* The receive interrupt: a byte is stored.
LEMMA ByteInd ==
  ASSUME IndInv, NEW b \in Byte, RxByte(b)
  PROVE  IndInv'
<1> USE DEF IndInv, RxByte, Listening, HasRoom, Accepted, main, count
<1>1. rxBuf' \in Seq(Byte) /\ Len(rxBuf') <= MaxRx
  BY SlaveAssumption DEF SlaveAssumption, TypeOK
<1>2. timer' \in 0 .. Timeout
  BY SlaveAssumption DEF SlaveAssumption
<1>3. TypeOK'
  BY <1>1, <1>2 DEF TypeOK
<1>4. pc = "idle"
  BY DEF ReleaseOrder, Handling
<1>5. ReleaseOrder'
  BY <1>4 DEF ReleaseOrder, Handling, Decoding
<1>6. OneReply'
  BY <1>4 DEF OneReply, Replying
<1> QED BY <1>3, <1>5, <1>6

\* The 5 ms callout, with the timeout it may declare.
LEMMA CalloutInd ==
  ASSUME IndInv, TimerCallout
  PROVE  IndInv'
<1> USE DEF IndInv, TimerCallout, TimeoutOccured, TimerRuns, Accepted, main, count
<1>1. timer' \in 0 .. Timeout
  BY SlaveAssumption DEF SlaveAssumption, TypeOK
<1>2. rxBuf' \in Seq(Byte) /\ Len(rxBuf') <= MaxRx
  <2>1. rxBuf' = rxBuf \/ rxBuf' = << >>
    OBVIOUS
  <2>2. << >> \in Seq(Byte) /\ Len(<< >>) <= MaxRx
    BY SlaveAssumption DEF SlaveAssumption
  <2> QED BY <2>1, <2>2 DEF TypeOK
<1>3. TypeOK'
  BY <1>1, <1>2, ZenonT(30) DEF TypeOK
<1>4. ReleaseOrder'
  BY <1>1 DEF ReleaseOrder, Handling, Decoding, TypeOK
<1>5. OneReply'
  BY DEF OneReply, Replying
<1> QED BY <1>3, <1>4, <1>5

\* Main's dispatch on the framing.
LEMMA AskInd ==
  ASSUME IndInv, AskRtu \/ AskAscii
  PROVE  IndInv'
<1> USE DEF IndInv, AskRtu, AskAscii, Ask, rx
<1>1. crcCnt' \in 0 .. CntMod - 1
  BY IncInRange DEF TypeOK
<1>2. verdict' \in {"none", "ok", "exception"}
  BY DEF TypeOK
<1>3. pc' \in {"askAscii", "clearPos", "encodeRtu"} /\ ret' \in Label
  BY DEF TypeOK, Label
<1>4. TypeOK'
  BY <1>1, <1>2, <1>3 DEF TypeOK, Label
<1>5. ReleaseOrder'
  BY <1>3 DEF ReleaseOrder, Handling, Decoding
<1>6. OneReply'
  <2>1. CASE AskRtu
    BY <2>1 DEF OneReply, Replying
  <2>2. CASE AskAscii
    BY <2>2 DEF OneReply, Replying, TypeOK
  <2> QED BY <2>1, <2>2
<1> QED BY <1>4, <1>5, <1>6

\* Main's steps that build, start and count the reply.
LEMMA ReplyInd ==
  ASSUME IndInv, EncodeRtu \/ EncodeAscii \/ StartTx \/ Count
  PROVE  IndInv'
<1> USE DEF IndInv, Goto, rx
<1>1. CASE EncodeRtu
  BY <1>1 DEF EncodeRtu, count, TypeOK, Label, ReleaseOrder, Handling, Decoding, OneReply, Replying
<1>2. CASE EncodeAscii
  BY <1>2 DEF EncodeAscii, count, TypeOK, Label, ReleaseOrder, Handling, Decoding, OneReply, Replying
<1>3. CASE StartTx
  <2>1. replies' \in 0 .. CntMod - 1
    BY <1>3, IncInRange DEF StartTx, TypeOK
  <2> QED BY <1>3, <2>1 DEF StartTx, TypeOK, Label, ReleaseOrder, Handling, Decoding, OneReply, Replying
<1>4. CASE Count
  <2>1. eventCnt' \in 0 .. CntMod - 1 /\ exceptCnt' \in 0 .. CntMod - 1
    BY <1>4, IncInRange DEF Count, Tally, TypeOK
  <2>2. TypeOK'
    BY <1>4, <2>1 DEF Count, AfterReply, TypeOK
  <2>3. ReleaseOrder'
    BY <1>4 DEF Count, AfterReply, ReleaseOrder, Handling, Decoding, OneReply, Replying
  <2>4. OneReply'
    BY <1>4 DEF Count, AfterReply, OneReply, Replying
  <2> QED BY <2>2, <2>3, <2>4
<1> QED BY <1>1, <1>2, <1>3, <1>4

\* Main takes a frame and gives the buffer back.
LEMMA ReleaseInd ==
  ASSUME IndInv, Poll \/ ClearPos \/ ClearCorrupt \/ ClearFlag
  PROVE  IndInv'
<1> USE SlaveAssumption DEF SlaveAssumption, IndInv, Goto, count, rx
<1>1. CASE Poll
  BY <1>1 DEF Poll, TypeOK, Label, ReleaseOrder, Handling, Decoding, OneReply, Replying
<1>2. CASE ClearPos
  BY <1>2 DEF ClearPos, TypeOK, Label, ReleaseOrder, Handling, Decoding, OneReply, Replying
<1>3. CASE ClearCorrupt
  <2>1. TypeOK'
    <3>1. rxCorrupt' \in BOOLEAN
      BY <1>3 DEF ClearCorrupt
    <3>2. pc' \in Label
      BY <1>3 DEF ClearCorrupt, Label
    <3> QED BY <1>3, <3>1, <3>2 DEF ClearCorrupt, TypeOK
  <2>2. ReleaseOrder'
    BY <1>3 DEF ClearCorrupt, ReleaseOrder, Handling, Decoding
  <2>3. OneReply'
    BY <1>3 DEF ClearCorrupt, OneReply, Replying
  <2> QED BY <2>1, <2>2, <2>3
<1>4. CASE ClearFlag
  BY <1>4 DEF ClearFlag, TypeOK, Label, ReleaseOrder, Handling, Decoding, OneReply, Replying
<1> QED BY <1>1, <1>2, <1>3, <1>4

\* Every step, or no step, keeps the invariant.
LEMMA StepInd == IndInv /\ [Next]_vars => IndInv'
<1> SUFFICES ASSUME IndInv, [Next]_vars PROVE IndInv'
  OBVIOUS
<1>1. CASE Main
  BY <1>1, AskInd, ReplyInd, ReleaseInd DEF Main
<1>2. ASSUME NEW b \in Byte, RxByte(b) PROVE IndInv'
  BY <1>2, ByteInd
<1>6. CASE RxOverrun
  BY <1>6, OverrunInd
<1>3. CASE TimerCallout
  BY <1>3, CalloutInd
<1>4. CASE TxComplete
  <2> USE <1>4 DEF TxComplete, rx, main, count, IndInv
  <2>1. TypeOK'
    BY DEF TypeOK
  <2>2. ReleaseOrder'
    BY DEF ReleaseOrder, Handling, Decoding
  <2>3. OneReply'
    BY DEF OneReply, Replying
  <2> QED BY <2>1, <2>2, <2>3
<1>5. CASE UNCHANGED vars
  <2> USE <1>5 DEF vars, rx, main, count, IndInv
  <2>1. TypeOK'
    BY DEF TypeOK
  <2>2. ReleaseOrder'
    BY DEF ReleaseOrder, Handling, Decoding
  <2>3. OneReply'
    BY DEF OneReply, Replying
  <2> QED BY <2>1, <2>2, <2>3
<1> QED BY <1>1, <1>2, <1>3, <1>4, <1>5, <1>6 DEF Next, Interrupt

\* The inductive invariant holds in every reachable state.
THEOREM Inductive == Spec => []IndInv
<1> QED BY InitInd, StepInd, PTL DEF Spec

\* Type correctness, for every buffer size and counter width: in particular
\* modbus_rx_byte never stores beyond modbus_rx_buf.
THEOREM TypeCorrect == Spec => []TypeOK
<1>1. IndInv => TypeOK
  BY DEF IndInv
<1> QED BY <1>1, Inductive, PTL

\* A frame handed to main as RTU was followed by a full pause.
THEOREM QuietBeforeRtu == Spec => []RtuFrameIsQuiet
<1>1. IndInv => RtuFrameIsQuiet
  BY DEF IndInv, ReleaseOrder, RtuFrameIsQuiet
<1> QED BY <1>1, Inductive, PTL

\* No interrupt touches the frame main is decoding or answering.
THEOREM FrameSafe == Spec => FrameUntouched
<1>1. ASSUME IndInv, [Next]_vars, Decoding
      PROVE  rxBuf' = rxBuf /\ rxCorrupt' = rxCorrupt
  <2>1. flag /\ ~rxCorrupt
    BY <1>1 DEF IndInv, ReleaseOrder, Handling, Decoding
  <2>2. CASE Main
    BY <2>2, <1>1 DEF Main, Poll, AskRtu, AskAscii, Ask, EncodeRtu, EncodeAscii, StartTx, Count,
                ClearPos, ClearCorrupt, ClearFlag, Goto, Decoding, rx
  <2>3. CASE Interrupt
    BY <2>3, <2>1 DEF Interrupt, RxByte, RxOverrun, Listening, TimerCallout, TimeoutOccured,
                TxComplete, rx
  <2>4. CASE UNCHANGED vars
    BY <2>4 DEF vars, rx
  <2> QED BY <1>1, <2>2, <2>3, <2>4 DEF Next
<1>2. IndInv /\ [Next]_vars => [Decoding => rxBuf' = rxBuf /\ rxCorrupt' = rxCorrupt]_vars
  BY <1>1
<1> QED BY <1>2, Inductive, PTL DEF Spec, FrameUntouched

\* When main lowers the flag the receiver starts from an empty buffer.
THEOREM FreshBuffer == Spec => FreshOnRelease
<1>1. ASSUME IndInv, [Next]_vars, flag, ~flag'
      PROVE  rxBuf' = << >> /\ ~rxCorrupt'
  <2>1. ClearFlag
    BY <1>1 DEF Next, Interrupt, Main, Poll, AskRtu, AskAscii, Ask, EncodeRtu, EncodeAscii, StartTx,
                Count, ClearPos, ClearCorrupt, Goto, rx, RxByte, RxOverrun, Listening,
                TimerCallout, TimeoutOccured, TxComplete, vars
  <2> QED BY <1>1, <2>1 DEF ClearFlag, Goto, IndInv, ReleaseOrder
<1>2. IndInv /\ [Next]_vars => [flag /\ ~flag' => rxBuf' = << >> /\ ~rxCorrupt']_vars
  BY <1>1
<1> QED BY <1>2, Inductive, PTL DEF Spec, FreshOnRelease

\* The safety of RequestReply: one frame at a time, at most one reply per
\* frame.  (Its fairness, that a frame is always released, is left to TLC.)
THEOREM PromiseKept == Spec => Promise!Init /\ [][Promise!Next]_(Promise!rrvars)
<1>1. Init => Promise!Init
  BY DEF Init, Promise!Init
<1>2. ASSUME IndInv, [Next]_vars
      PROVE  [Promise!Next]_(Promise!rrvars)
  <2> USE <1>2 DEF Promise!Next, Promise!rrvars
  <2>1. CASE AskRtu \/ AskAscii
    <3> USE <2>1 DEF AskRtu, AskAscii, Ask, rx
    <3>1. UNCHANGED <<flag, encoded>> /\ pc \in {"askRtu", "askAscii"}
      OBVIOUS
    <3>2. CASE pc' = "encodeRtu"
      <4>1. ASSUME AskRtu PROVE encoded = "none"
        BY <4>1 DEF IndInv, OneReply
      <4>2. ASSUME AskAscii PROVE encoded = "none"
        <5>1. proto = "ascii"
          BY <4>2, <3>2
        <5> QED BY <4>2, <5>1 DEF IndInv, OneReply
      <4>3. encoded = "none"
        BY <4>1, <4>2, <2>1
      <4> QED BY <3>1, <4>3
    <3>3. CASE pc' # "encodeRtu"
      <4>1. pc' \in {"askAscii", "clearPos"}
        BY <3>3
      <4> QED BY <3>1, <4>1
    <3> QED BY <3>2, <3>3
  <2>2. CASE EncodeRtu \/ EncodeAscii
    BY <2>2 DEF EncodeRtu, EncodeAscii, Goto, rx
  <2>3. CASE StartTx
    BY <2>3 DEF StartTx, Goto, rx, Promise!Answer, IndInv, OneReply, ReleaseOrder, Handling
  <2>4. CASE Count
    BY <2>4 DEF Count, AfterReply, Goto, rx, IndInv, OneReply, Replying
  <2>5. CASE Poll \/ ClearPos \/ ClearCorrupt
    BY <2>5 DEF Poll, ClearPos, ClearCorrupt, Goto, rx, IndInv, OneReply
  <2>6. CASE ClearFlag
    BY <2>6 DEF ClearFlag, Goto, Promise!Release, IndInv, ReleaseOrder, Handling
  <2>7. ASSUME NEW b \in Byte, RxByte(b) \/ RxOverrun
        PROVE  [Promise!Next]_(Promise!rrvars)
    <3>1. pc = "idle" /\ encoded = "none" /\ ~flag /\ UNCHANGED <<pc, encoded>>
      BY <2>7 DEF RxByte, RxOverrun, Listening, main, IndInv, ReleaseOrder, Handling, OneReply
    <3>2. flag' \in BOOLEAN
      BY StepInd DEF IndInv, TypeOK
    <3> QED BY <3>1, <3>2 DEF Promise!Accept
  <2>10. CASE RxOverrun
    BY <2>10 DEF RxOverrun, main
  <2>8. CASE TimerCallout
    <3>1. UNCHANGED <<pc, encoded>> /\ flag' \in BOOLEAN /\ (flag => flag') /\ flag \in BOOLEAN
      BY <2>8, StepInd DEF TimerCallout, TimeoutOccured, main, IndInv, TypeOK
    <3>2. ~flag => encoded = "none"
      BY DEF IndInv, ReleaseOrder, Handling, OneReply
    <3> QED BY <3>1, <3>2 DEF Promise!Accept
  <2>9. CASE TxComplete \/ UNCHANGED vars
    BY <2>9 DEF TxComplete, vars, rx, main
  <2> QED BY <2>1, <2>2, <2>3, <2>4, <2>5, <2>6, <2>7, <2>8, <2>9, <2>10 DEF Next, Main, Interrupt
<1>3. IndInv /\ [Next]_vars => [Promise!Next]_(Promise!rrvars)
  BY <1>2
<1> QED BY <1>1, <1>3, Inductive, PTL DEF Spec

-----------------------------------------------------------------------------
\* The interrupts keep the framing of the frame main has, or give it one.
LEMMA InterruptFraming == ASSUME IndInv, Framing, Interrupt PROVE Framing'
<1> USE DEF IndInv, Framing, ReplyFraming
<1>1. ASSUME NEW b \in Byte, RxByte(b) PROVE Framing'
  <2>1. pc = "idle" /\ pc' = pc /\ ~flag
    BY <1>1 DEF RxByte, Listening, main, ReleaseOrder, Handling
  <2>2. flag' => kind' = proto'
    BY <1>1, <2>1 DEF RxByte, Accepted
  <2> QED BY <2>1, <2>2
<1>2. CASE RxOverrun \/ TxComplete
  BY <1>2 DEF RxOverrun, TxComplete, rx, main
<1>3. CASE TimerCallout
  <2>1. timer > 0 /\ UNCHANGED <<pc, encoded>>
    BY <1>3 DEF TimerCallout, TimerRuns, main
  <2>2. CASE timer' # 0 \/ rxCorrupt
    <3>1. UNCHANGED <<proto, flag, kind>>
      BY <1>3, <2>2 DEF TimerCallout, TimeoutOccured
    <3> QED BY <2>1, <3>1
  <2>3. CASE timer' = 0 /\ ~rxCorrupt
    <3>1. proto' = "rtu" /\ flag' /\ kind' = IF flag THEN kind ELSE "rtu"
      BY <1>3, <2>3 DEF TimerCallout, TimeoutOccured, Accepted
    <3>2. pc # "idle" => flag
      BY DEF ReleaseOrder, Handling
    <3>3. flag => kind \in {"rtu", "ascii"}
      BY DEF TypeOK
    <3> QED BY <2>1, <2>3, <3>1, <3>2, <3>3
  <2> QED BY <2>2, <2>3
<1> QED BY <1>1, <1>2, <1>3 DEF Interrupt

\* Main leaves the framing alone and encodes the reply by it.
LEMMA MainFraming == ASSUME IndInv, Framing, Main PROVE Framing'
<1> USE DEF IndInv, Framing, ReplyFraming
<1>1. CASE EncodeRtu
  <2>1. flag /\ pc' = "encodeAscii" /\ UNCHANGED rx /\ encoded' = IF proto = "rtu" THEN "rtu" ELSE "raw"
    BY <1>1 DEF EncodeRtu, Goto, ReleaseOrder, Handling
  <2> QED BY <2>1 DEF rx, TypeOK
<1>2. CASE EncodeAscii
  <2>1. /\ flag /\ pc = "encodeAscii" /\ pc' = "startTx" /\ UNCHANGED rx
        /\ encoded' = IF proto = "ascii" THEN "ascii" ELSE encoded
    BY <1>2 DEF EncodeAscii, Goto, ReleaseOrder, Handling
  <2>2. proto = "rtu" => timer = 0
    BY <2>1 DEF ReleaseOrder
  <2> QED BY <2>1, <2>2 DEF rx, TypeOK
<1>3. CASE StartTx
  BY <1>3 DEF StartTx, Goto, rx
<1>4. CASE Poll \/ AskRtu \/ AskAscii \/ Count \/ ClearPos \/ ClearCorrupt \/ ClearFlag
  <2>1. pc' \notin {"encodeAscii", "startTx", "count"}
    BY <1>4 DEF Poll, AskRtu, AskAscii, Ask, Count, AfterReply, ClearPos, ClearCorrupt, ClearFlag,
                Goto, OneReply, Replying
  <2>2. UNCHANGED <<proto, kind, timer>> /\ (flag' => flag)
    BY <1>4 DEF Poll, AskRtu, AskAscii, Ask, Count, ClearPos, ClearCorrupt, ClearFlag, rx
  <2> QED BY <2>1, <2>2
<1> QED BY <1>1, <1>2, <1>3, <1>4 DEF Main

\* A reply is framed like its request, or the request's own RTU timeout fired
\* while main was busy with it, wherever the interrupts fall (modbus_send_packet,
\* modbus_timeout_occured).
THEOREM FramedLikeRequest == Spec => []ReplyFraming
<1>1. Init => Framing
  BY DEF Init, Framing, ReplyFraming
<1>2. ASSUME IndInv, Framing, UNCHANGED vars PROVE Framing'
  BY <1>2 DEF Framing, ReplyFraming, vars, rx, main
<1>3. IndInv /\ Framing /\ [Next]_vars => Framing'
  BY <1>2, InterruptFraming, MainFraming DEF Next
<1>4. Framing => ReplyFraming
  BY DEF Framing
<1> QED BY <1>1, <1>3, <1>4, Inductive, PTL DEF Spec

-----------------------------------------------------------------------------
(* The transmitter the slave answers with, whatever handlers interfere.     *)

\* What the proofs about the transmitter expand as well.
USE UartAssumption DEF UartAssumption, OtherInterrupts, None

\* The type of the transmitter's state and how far send_buf_pos may be.
LEMMA BoundInit == UartInit => BoundInv
<1> SUFFICES ASSUME UartInit PROVE BoundInv
  OBVIOUS
<1>1. txLen = 0 /\ pos = 0 /\ cur = 0 /\ hold = 0 /\ shift = 0 /\ wire \in Seq(Nat)
  BY DEF UartInit
<1>2. /\ driver \in BOOLEAN /\ udrie \in BOOLEAN /\ txcie \in BOOLEAN /\ txc \in BOOLEAN
      /\ slack \in BOOLEAN /\ raced \in BOOLEAN /\ calm \in BOOLEAN
  BY Zenon DEF UartInit
<1>3. txPc = "idle" /\ busy = "no"
  BY DEF UartInit
<1> QED BY <1>1, <1>2, <1>3 DEF BoundInv, UartTypeOK, PosBound

LEMMA BoundStep ==
  ASSUME BoundInv, [UartNext]_uartVars
  PROVE  BoundInv'
<1>0. txLen \in Nat /\ pos \in Nat /\ cur \in Nat /\ hold \in Nat /\ shift \in Nat
  BY DEF BoundInv, UartTypeOK
<1> USE DEF BoundInv, UartTypeOK, PosBound, Runs, Return, regs, cpu, hist
<1>1. CASE StartSend
  <2>1. /\ txLen' \in Lengths /\ driver' = TRUE /\ wire' = << >> /\ calm' = TRUE
        /\ txPc' = "reset" /\ slack' = FALSE
        /\ UNCHANGED <<pos, udrie, txcie, txc, hold, shift, cur, busy>>
    BY <1>1 DEF StartSend
  <2>2. raced' \in BOOLEAN
    BY <1>1, Zenon DEF StartSend, Dirty
  <2>3. << >> \in Seq(Nat)
    OBVIOUS
  <2>4. PosBound'
    BY <2>1
  <2>5. UartTypeOK'
    BY <2>1, <2>2, <2>3, Zenon
  <2> QED BY <2>4, <2>5
<1>2. CASE ResetPos
  <2>1. pos' = 0 /\ txLen' = txLen
    BY <1>2 DEF ResetPos
  <2>2. /\ txPc' = "enable" /\ slack' = FALSE
        /\ UNCHANGED <<driver, udrie, txcie, txc, hold, shift, cur, busy, wire, raced, calm>>
    BY <1>2 DEF ResetPos
  <2>3. pos' \in Nat
    BY <2>1
  <2>4. PosBound'
    BY <1>0, <2>1, <2>2
  <2>5. UartTypeOK'
    BY <2>1, <2>2, <2>3, Zenon
  <2> QED BY <2>4, <2>5
<1>3. CASE Enable
  BY <1>3 DEF Enable
<1>4. CASE TestUdre
  BY <1>4 DEF TestUdre
<1>5. CASE ClearTxc
  <2>1. txPc' = "write" => cur' < txLen' /\ pos' <= txLen'
    BY <1>0, <1>5 DEF ClearTxc
  <2> QED BY <1>5, <2>1 DEF ClearTxc, ResetTxc
<1>6. CASE Disable
  BY <1>6 DEF Disable
<1>7. CASE WriteByte
  <2>1. hold' \in Nat /\ shift' \in Nat
    BY <1>0, <1>7 DEF WriteByte, Holds, Shifts
  <2> QED BY <1>7, <2>1 DEF WriteByte
<1>8. CASE Advance
  <2>1. PICK p \in {cur + 1, pos + 1} : pos' = p
    BY <1>8 DEF Advance
  <2>2. p \in Nat /\ p <= txLen + 1
    BY <1>0, <1>8, <2>1 DEF Advance
  <2> QED BY <1>8, <2>1, <2>2 DEF Advance
<1>9. CASE IsrUdre
  <2> DEFINE room == IF shift = None THEN 2 ELSE 1
             n    == IF Left < room THEN Left ELSE room
  <2>1. /\ n \in Nat /\ pos + n \in Nat
        /\ pos + n <= txLen \/ n = 0
    BY <1>0 DEF Left
  <2>2. /\ pos' = pos + n
        /\ shift' \in {pos + 1, shift} /\ hold' \in {pos + n, 0}
        /\ UNCHANGED <<txLen, driver, txcie, txPc, cur, wire, calm, busy>>
    BY <1>9 DEF IsrUdre
  <2>3. /\ udrie' \in BOOLEAN /\ txc' \in BOOLEAN /\ raced' \in BOOLEAN /\ slack' \in BOOLEAN
    BY <1>9, Zenon DEF IsrUdre, ResetTxc
  <2>4. hold' \in Nat /\ shift' \in Nat /\ pos' \in Nat
    BY <1>0, <2>1, <2>2
  <2> HIDE DEF n, room
  <2>5. PosBound'
    BY <1>0, <2>1, <2>2
  <2> QED BY <2>2, <2>3, <2>4, <2>5
<1>10. CASE IsrTxc
  BY <1>10 DEF IsrTxc
<1>11. CASE ShiftOut
  BY <1>11 DEF ShiftOut
<1>12. CASE ShortHandler
  BY <1>12 DEF ShortHandler
<1>13. CASE LongHandler
  BY <1>13 DEF LongHandler
<1>14. CASE EndHandler
  <2>1. slack' \in BOOLEAN
    BY <1>14, Zenon DEF EndHandler
  <2> QED BY <1>14, <2>1 DEF EndHandler
<1>15. CASE UNCHANGED uartVars
  BY <1>15 DEF uartVars
<1> QED BY <1>1, <1>2, <1>3, <1>4, <1>5, <1>6, <1>7, <1>8, <1>9, <1>10, <1>11, <1>12,
   <1>13, <1>14, <1>15
           DEF UartNext, Transmit

\* A new reply, begun whatever the last one left behind.
LEMMA SeizeStep ==
  ASSUME LineInv, StartSend
  PROVE  (~raced' => Regular') /\ Line!Seize
<1>1. /\ ~driver /\ driver' = TRUE /\ txLen' \in Lengths /\ wire' = << >>
      /\ raced' = Dirty /\ txPc' = "reset"
      /\ UNCHANGED <<pos, udrie, txcie, txc, hold, shift, cur>>
  BY DEF StartSend, Runs, regs
<1>2. ASSUME ~Dirty PROVE Regular'
  BY <1>1, <1>2 DEF Dirty, Regular, OffRest, OnRest, InLoop, FlagTells, Accounted, Empty
<1>3. ~raced => ~Dirty
  BY <1>1 DEF LineInv, Regular, OffRest, Empty, Dirty
<1>4. raced' \in BOOLEAN
  BY <1>1, Zenon DEF Dirty
<1>5. Line!Seize
  BY <1>1, <1>3, <1>4, Zenon DEF Line!Seize
<1> QED BY <1>1, <1>2, <1>5, Zenon

\* A raced reply goes on: nothing is claimed of it.
LEMMA RacedStep ==
  ASSUME raced, ~StartSend, [UartNext]_uartVars
  PROVE  raced' /\ [Line!Next]_(Line!hdvars)
<1>1. raced' /\ txLen' = txLen
  BY Zenon DEF UartNext, Transmit, ResetPos, Enable, TestUdre, ClearTxc, Disable, WriteByte,
               Advance, IsrUdre, IsrTxc, ShiftOut, ShortHandler, LongHandler, EndHandler,
               uartVars, hist
<1> QED BY <1>1, Zenon DEF Line!Next, Line!Garble

\* A reply that is not raced: main and the UDRE interrupt together send each byte
\* once, and the TXC interrupt comes when the last one is out.
LEMMA LineStep ==
  ASSUME BoundInv, BoundInv', ~raced, Regular, ~StartSend, [UartNext]_uartVars
  PROVE  (~raced' => Regular') /\ [Line!Next]_(Line!hdvars)
<1>0. /\ Len(wire) \in Nat /\ wire \in Seq(Nat) /\ pos \in Nat /\ cur \in Nat
      /\ txLen \in Nat /\ hold \in Nat /\ shift \in Nat
  BY DEF BoundInv, UartTypeOK
<1> USE DEF Regular, OffRest, OnRest, InLoop, FlagTells, Accounted, Waiting, Sent, Empty,
            regs, cpu, hist, Runs
<1>2. CASE ResetPos
  <2>1. UNCHANGED <<driver, txLen, wire, raced>>
    BY <1>2 DEF ResetPos
  <2>2. Regular'
    BY <1>0, <1>2, <2>1 DEF ResetPos
  <2> QED BY <2>1, <2>2 DEF Line!hdvars
<1>3. CASE Enable
  <2>1. UNCHANGED <<driver, txLen, wire, raced>>
    BY <1>3 DEF Enable
  <2>2. Regular'
    BY <1>0, <1>3, <2>1 DEF Enable
  <2> QED BY <2>1, <2>2 DEF Line!hdvars
<1>4. CASE TestUdre
  <2>1. UNCHANGED <<driver, txLen, wire, raced>>
    BY <1>4 DEF TestUdre
  <2>2. Regular'
    BY <1>0, <1>4, <2>1 DEF TestUdre, UDRE
  <2> QED BY <2>1, <2>2 DEF Line!hdvars
<1>5. CASE ClearTxc
  <2>1. UNCHANGED <<driver, txLen, wire, raced>>
    BY <1>5 DEF ClearTxc
  <2>2. Regular'
    BY <1>0, <1>5, <2>1 DEF ClearTxc, ResetTxc
  <2> QED BY <2>1, <2>2 DEF Line!hdvars
<1>6. CASE Disable
  <2>1. UNCHANGED <<driver, txLen, wire, raced>>
    BY <1>6 DEF Disable
  <2>2. Regular'
    BY <1>0, <1>6, <2>1 DEF Disable
  <2> QED BY <2>1, <2>2 DEF Line!hdvars
<1>7. CASE WriteByte
  <2>1. /\ txPc = "write" /\ txPc' = "advance" /\ driver /\ hold = None /\ udrie
        /\ cur = pos /\ pos < txLen
        /\ UNCHANGED <<txLen, pos, driver, udrie, txcie, txc, cur, wire, raced>>
    BY <1>0, <1>7 DEF WriteByte, BoundInv, PosBound
  <2>2. /\ shift' = IF shift = None THEN pos + 1 ELSE shift
        /\ hold'  = IF shift = None THEN None ELSE pos + 1
    BY <1>0, <1>7, <2>1 DEF WriteByte, Holds, Shifts
  <2>3. OffRest' /\ OnRest' /\ InLoop' /\ FlagTells'
    BY <1>0, <2>1, <2>2
  <2>4. Accounted'
    BY <1>0, <2>1, <2>2
  <2>5. Regular'
    <3> HIDE DEF OffRest, OnRest, InLoop, FlagTells, Accounted
    <3> QED BY <2>3, <2>4
  <2> QED BY <2>1, <2>5 DEF Line!hdvars
<1>8. CASE Advance
  <2>1. UNCHANGED <<driver, txLen, wire, raced>>
    BY <1>8 DEF Advance
  <2>2. Regular'
    BY <1>0, <1>8, <2>1 DEF Advance
  <2> QED BY <2>1, <2>2 DEF Line!hdvars
<1>9. CASE IsrUdre
  <2>1. driver /\ hold = None /\ udrie /\ txPc \notin {"reset", "enable"}
    BY <1>9 DEF IsrUdre, UdrePending, UDRE
  <2>2. /\ raced' = (raced \/ Overtaken) /\ raced' \in BOOLEAN
        /\ UNCHANGED <<driver, txLen, wire>>
    BY <1>9, Zenon DEF IsrUdre
  <2>3. CASE Overtaken
    BY <2>1, <2>2, <2>3, Zenon DEF Line!Next, Line!Disturb
  <2>4. CASE ~Overtaken
    <3> DEFINE room == IF shift = None THEN 2 ELSE 1
               n    == IF Left < room THEN Left ELSE room
               k    == Len(wire)
    <3>1. /\ shift' = IF shift = None /\ n > 0 THEN pos + 1 ELSE shift
          /\ hold'  = IF n = room THEN pos + n ELSE None
          /\ pos'   = pos + n
          /\ udrie' = (n = room)
          /\ txc' = FALSE
          /\ UNCHANGED <<txLen, driver, txcie, txPc, wire, cur>>
      BY <1>9 DEF IsrUdre, ResetTxc
    <3>2. /\ room \in 1..2 /\ n \in 0..2 /\ (shift = None <=> room = 2)
          /\ n = room => pos + n <= txLen
          /\ n # room => n < room /\ pos + n >= txLen /\ (n # 0 => pos + n = txLen)
      BY <1>0 DEF Left
    <3>3. /\ k + (IF shift = None THEN 0 ELSE 1) = pos /\ pos <= txLen /\ k \in Nat
          /\ shift # None => shift = k + 1
      BY <1>0, <2>1, <2>4 DEF Overtaken
    <3> HIDE DEF room, n, k
    <3>4. udrie' <=> n = room
      BY <3>1, Zenon
    <3>5. pos' <= txLen /\ (~udrie' => pos' = txLen)
      BY <1>0, <3>1, <3>2, <3>3, <3>4
    <3>6. /\ shift' # None => shift' = k + 1
          /\ hold' # None => hold' = k + 2 /\ shift' # None
          /\ hold' = None => ~udrie'
      BY <1>0, <3>1, <3>2, <3>3, <3>4
    <3>7. k + (IF shift' = None THEN 0 ELSE 1) + (IF hold' = None THEN 0 ELSE 1) = pos'
      BY <1>0, <3>1, <3>2, <3>3
    <3>8. Len(wire') = k
      BY <3>1 DEF k
    <3>9. Len(wire') + Waiting' = Sent'
      BY <2>4, <3>1, <3>7, <3>8 DEF Overtaken
    <3>10. Sent' = pos'
      BY <2>4, <3>1 DEF Overtaken
    <3>11. Accounted'
      <4> HIDE DEF Waiting, Sent
      <4> QED BY <3>1, <3>5, <3>6, <3>8, <3>9, <3>10
    <3>12. OffRest' /\ OnRest' /\ InLoop' /\ FlagTells'
      BY <2>1, <2>4, <3>1, <3>2, <1>0 DEF Overtaken
    <3>13. raced' = raced
      <4>1. raced \in BOOLEAN
        BY DEF BoundInv, UartTypeOK
      <4> QED BY <2>2, <2>4, <4>1, Zenon
    <3>14. UNCHANGED Line!hdvars
      BY <2>2, <3>13 DEF Line!hdvars
    <3>15. Regular'
      <4> HIDE DEF OffRest, OnRest, InLoop, FlagTells, Accounted
      <4> QED BY <3>11, <3>12
    <3> HIDE DEF Regular
    <3> QED BY <3>14, <3>15
  <2> QED BY <2>3, <2>4
<1>10. CASE IsrTxc
  <2>1. /\ udrie => hold # None
        /\ txc /\ txcie /\ driver' = FALSE /\ udrie' = udrie /\ txcie' = FALSE /\ txc' = FALSE
        /\ UNCHANGED <<txLen, pos, hold, shift, txPc, cur, wire, raced>>
    BY <1>10 DEF IsrTxc, TxcPending, UdrePending, UDRE
  <2>2. /\ driver /\ txPc \notin {"reset", "enable", "write", "advance"}
        /\ Empty /\ ~udrie /\ pos = txLen /\ Len(wire) = txLen
    BY <1>0, <2>1 DEF BoundInv, PosBound
  <2>3. Regular'
    BY <1>0, <2>1, <2>2
  <2>4. Line!Free
    BY <2>1, <2>2 DEF Line!Free
  <2> QED BY <2>3, <2>4 DEF Line!Next
<1>11. CASE ShiftOut
  <2>1. /\ shift # None /\ shift' = hold /\ hold' = None /\ txc' = (txc \/ hold = None)
        /\ wire' = Append(wire, shift)
        /\ UNCHANGED <<txLen, pos, driver, udrie, txcie, txPc, cur, raced>>
    BY <1>11 DEF ShiftOut
  <2>2. driver /\ txPc \notin {"reset", "enable"} /\ shift = Len(wire) + 1 /\ Len(wire) < txLen
    BY <1>0, <2>1
  <2>3. Len(wire') = Len(wire) + 1
    BY <1>0, <2>1
  <2>4. txc' <=> txc \/ hold = None
    BY <2>1, Zenon
  <2>5. Regular'
    BY <1>0, <2>1, <2>2, <2>3, <2>4
  <2>6. Line!PutByte
    BY <2>1, <2>2 DEF Line!PutByte
  <2> QED BY <2>5, <2>6 DEF Line!Next
<1>12. CASE ShortHandler
  <2>1. UNCHANGED <<driver, txLen, wire, raced>>
    BY <1>12 DEF ShortHandler
  <2>2. Regular'
    BY <1>0, <1>12, <2>1 DEF ShortHandler
  <2> QED BY <2>1, <2>2 DEF Line!hdvars
<1>13. CASE LongHandler
  <2>1. UNCHANGED <<driver, txLen, wire, raced>>
    BY <1>13 DEF LongHandler
  <2>2. Regular'
    BY <1>0, <1>13, <2>1 DEF LongHandler
  <2> QED BY <2>1, <2>2 DEF Line!hdvars
<1>14. CASE EndHandler
  <2>1. UNCHANGED <<driver, txLen, wire, raced>>
    BY <1>14 DEF EndHandler
  <2>2. Regular'
    BY <1>0, <1>14, <2>1 DEF EndHandler
  <2> QED BY <2>1, <2>2 DEF Line!hdvars
<1>15. CASE UNCHANGED uartVars
  BY <1>15 DEF uartVars, Line!hdvars
<1> QED BY <1>2, <1>3, <1>4, <1>5, <1>6, <1>7, <1>8, <1>9, <1>10, <1>11, <1>12,
   <1>13, <1>14, <1>15
           DEF UartNext, Transmit

\* Main and the UDRE interrupt together never run send_buf_pos more than one byte
\* past the reply, whatever handlers come between their steps (send_next_byte).
THEOREM SentWithinReply == UartSpec => []WithinReply
<1>1. BoundInv /\ [UartNext]_uartVars => BoundInv'
  BY BoundStep
<1>2. BoundInv => WithinReply
  BY DEF BoundInv, PosBound, WithinReply
<1> QED BY BoundInit, <1>1, <1>2, PTL DEF UartSpec

\* The transmitter implements HalfDuplexLine, with handlers that keep interrupts
\* off, that enable them again, and that are over at once: a reply in which the
\* UDRE interrupt does not overtake main is put on the line byte by byte, once
\* each and in order, between the driver's going on and off (modbus_start_tx).
THEOREM LineKept == UartSpec => KeepsLine
<1>1. UartInit => LineInv /\ Line!Init
  <2> SUFFICES ASSUME UartInit PROVE LineInv /\ Line!Init
    OBVIOUS
  <2>1. /\ ~driver /\ ~udrie /\ ~txcie /\ Empty /\ txPc = "idle"
        /\ txLen = 0 /\ wire = << >> /\ raced = FALSE /\ driver = FALSE
    BY DEF UartInit, Empty
  <2>2. Regular
    BY <2>1 DEF Regular, OffRest, OnRest, InLoop, FlagTells, Accounted
  <2>3. Line!Init
    BY <2>1, Zenon DEF Line!Init
  <2> QED BY BoundInit, <2>2, <2>3 DEF LineInv
<1>2. LineInv /\ [UartNext]_uartVars => LineInv' /\ [Line!Next]_(Line!hdvars)
  <2> SUFFICES ASSUME LineInv, [UartNext]_uartVars
               PROVE  LineInv' /\ [Line!Next]_(Line!hdvars)
    OBVIOUS
  <2>1. BoundInv /\ BoundInv'
    BY BoundStep DEF LineInv
  <2>2. CASE StartSend
    BY <2>1, <2>2, SeizeStep DEF LineInv, Line!Next
  <2>3. CASE ~StartSend /\ raced
    BY <2>1, <2>3, RacedStep DEF LineInv
  <2>4. CASE ~StartSend /\ ~raced
    BY <2>1, <2>4, LineStep DEF LineInv
  <2> QED BY <2>2, <2>3, <2>4
<1> QED BY <1>1, <1>2, PTL DEF UartSpec, KeepsLine, Line!Spec
=============================================================================
