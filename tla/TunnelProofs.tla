---------------------------- MODULE TunnelProofs ----------------------------
(***************************************************************************)
(* Theorems about the tunnel, for every buffer size, line speed, and       *)
(* number of bytes and messages: sessions do not overlap, the line belongs *)
(* to one thread, bytes reach TCP once and in order unless the session is  *)
(* spoilt, and a message none of whose waits expires goes out whole.       *)
(***************************************************************************)
EXTENDS Tunnel, TLAPS

\* What belongs to the session is changed by the three threads and the peer.
LEMMA SessionStep ==
  ASSUME SessionInv, [Next]_vars
  PROVE  SessionInv'
<1> USE DEF SessionInv, ControlOK, Counted, Started, SessionsDontOverlap, Sending, Gathering,
             Alive, threads, line
<1>1. CASE Create
  BY <1>1 DEF Create
<1>2. CASE Accept
  <2>1. CASE ctl' = "waitRecv" /\ recv' = "start" /\ xmit' = "start"
    BY <1>2, <2>1 DEF Accept
  <2>2. CASE ctl' = "error" /\ recv' \in {"none", "start"} /\ xmit' = xmit
    BY <1>2, <2>2 DEF Accept
  <2> QED BY <1>2, <2>1, <2>2 DEF Accept
<1>3. CASE WaitRecv
  BY <1>3 DEF WaitRecv, Consume
<1>4. CASE WaitXmit
  BY <1>4 DEF WaitXmit, Consume
<1>5. CASE Stop
  BY <1>5 DEF Stop, Broken, Slept
<1>6. CASE Close
  BY <1>6 DEF Close, AllEnded
<1>7. CASE XmitStart
  BY <1>7 DEF XmitStart, Post, XmitOn
<1>8. CASE XmitLock
  BY <1>8 DEF XmitLock, MutexFree
<1>9. CASE XmitPrime
  BY <1>9 DEF XmitPrime, SendChar
<1>10. CASE XmitWaitDone
  BY <1>10 DEF XmitWaitDone, DoneOrLate, Consume, Expires
<1>11. CASE XmitEnable
  BY <1>11 DEF XmitEnable
<1>12. CASE XmitWaitEmpty
  BY <1>12 DEF XmitWaitEmpty, EmptyOrLate, Consume, Expires
<1>13. CASE XmitRelease
  BY <1>13 DEF XmitRelease, XmitOn
<1>14. CASE XmitEnd
  BY <1>14 DEF XmitEnd
<1>15. CASE RecvStart
  BY <1>15 DEF RecvStart, Post, RecvOn
<1>16. CASE RecvWait
  BY <1>16 DEF RecvWait, Consume
<1>17. CASE RecvLock
  BY <1>17 DEF RecvLock, MutexFree
<1>18. CASE RecvPeek
  BY <1>18 DEF RecvPeek
<1>19. CASE RecvGather
  BY <1>19 DEF RecvGather
<1>20. CASE RecvLook
  BY <1>20 DEF RecvLook
<1>21. CASE RecvNear
  BY <1>21 DEF RecvNear
<1>22. CASE RecvUnlock
  BY <1>22 DEF RecvUnlock
<1>23. CASE RecvMeasure
  BY <1>23 DEF RecvMeasure
<1>24. CASE RecvMeasured
  BY <1>24 DEF RecvMeasured
<1>25. CASE RecvCopy
  BY <1>25 DEF RecvCopy
<1>26. CASE RecvWritten
  BY <1>26 DEF RecvWritten, RecvOn
<1>27. CASE RecvFailed
  BY <1>27 DEF RecvFailed
<1>28. CASE RecvDie
  BY <1>28 DEF RecvDie
<1>29. CASE TxNext
  BY <1>29 DEF TxNext, Post, SendChar
<1>30. CASE TxSentAll
  BY <1>30 DEF TxSentAll, Post
<1>31. CASE RxComplete
  BY <1>31 DEF RxComplete, RxEvents
<1>32. CASE ShiftOut
  BY <1>32 DEF ShiftOut
<1>33. CASE PeerClose
  BY <1>33 DEF PeerClose
<1>34. ASSUME NEW n \in Lengths, XmitReceive(n) PROVE SessionInv'
  BY <1>34 DEF XmitReceive
<1>35. ASSUME NEW sent \in 0 .. rxLen - 1, RecvShort(sent) PROVE SessionInv'
  BY <1>35 DEF RecvShort
<1>36. CASE UNCHANGED vars
  BY <1>36 DEF vars
<1> QED BY <1>1, <1>2, <1>3, <1>4, <1>5, <1>6, <1>7, <1>8, <1>9, <1>10,
         <1>11, <1>12, <1>13, <1>14, <1>15, <1>16, <1>17, <1>18, <1>19,
         <1>20, <1>21, <1>22, <1>23, <1>24, <1>25, <1>26, <1>27, <1>28,
         <1>29, <1>30, <1>31, <1>32, <1>33, <1>34, <1>35, <1>36 DEF Next, Ctl, Xmit, Recv,
         RecvWrite, Interrupt

\* What belongs to the line is changed under serialMutex.
LEMMA LineStep ==
  ASSUME LineInv, [Next]_vars
  PROVE  MutexHeld'
<1> USE DEF LineInv, SessionInv, ControlOK, Started, MutexHeld, Sending, Gathering, threads, line
<1>1. CASE Create
  BY <1>1 DEF Create
<1>2. CASE Accept
  <2>1. CASE ctl' = "waitRecv" /\ recv' = "start" /\ xmit' = "start"
    BY <1>2, <2>1 DEF Accept
  <2>2. CASE ctl' = "error" /\ recv' \in {"none", "start"} /\ xmit' = xmit
    BY <1>2, <2>2 DEF Accept
  <2> QED BY <1>2, <2>1, <2>2 DEF Accept
<1>3. CASE WaitRecv
  BY <1>3 DEF WaitRecv, Consume
<1>4. CASE WaitXmit
  BY <1>4 DEF WaitXmit, Consume
<1>5. CASE Stop
  BY <1>5 DEF Stop, Broken, Slept
<1>6. CASE Close
  BY <1>6 DEF Close, AllEnded
<1>7. CASE XmitStart
  BY <1>7 DEF XmitStart, Post, XmitOn
<1>8. CASE XmitLock
  BY <1>8 DEF XmitLock, MutexFree
<1>9. CASE XmitPrime
  BY <1>9 DEF XmitPrime, SendChar
<1>10. CASE XmitWaitDone
  BY <1>10 DEF XmitWaitDone, DoneOrLate, Consume, Expires
<1>11. CASE XmitEnable
  BY <1>11 DEF XmitEnable
<1>12. CASE XmitWaitEmpty
  BY <1>12 DEF XmitWaitEmpty, EmptyOrLate, Consume, Expires
<1>13. CASE XmitRelease
  BY <1>13 DEF XmitRelease, XmitOn
<1>14. CASE XmitEnd
  BY <1>14 DEF XmitEnd
<1>15. CASE RecvStart
  BY <1>15 DEF RecvStart, Post, RecvOn
<1>16. CASE RecvWait
  BY <1>16 DEF RecvWait, Consume
<1>17. CASE RecvLock
  BY <1>17 DEF RecvLock, MutexFree
<1>18. CASE RecvPeek
  BY <1>18 DEF RecvPeek
<1>19. CASE RecvGather
  BY <1>19 DEF RecvGather
<1>20. CASE RecvLook
  BY <1>20 DEF RecvLook
<1>21. CASE RecvNear
  BY <1>21 DEF RecvNear
<1>22. CASE RecvUnlock
  BY <1>22 DEF RecvUnlock
<1>23. CASE RecvMeasure
  BY <1>23 DEF RecvMeasure
<1>24. CASE RecvMeasured
  BY <1>24 DEF RecvMeasured
<1>25. CASE RecvCopy
  BY <1>25 DEF RecvCopy
<1>26. CASE RecvWritten
  BY <1>26 DEF RecvWritten, RecvOn
<1>27. CASE RecvFailed
  BY <1>27 DEF RecvFailed
<1>28. CASE RecvDie
  BY <1>28 DEF RecvDie
<1>29. CASE TxNext
  BY <1>29 DEF TxNext, Post, SendChar
<1>30. CASE TxSentAll
  BY <1>30 DEF TxSentAll, Post
<1>31. CASE RxComplete
  BY <1>31 DEF RxComplete, RxEvents
<1>32. CASE ShiftOut
  BY <1>32 DEF ShiftOut
<1>33. CASE PeerClose
  BY <1>33 DEF PeerClose
<1>34. ASSUME NEW n \in Lengths, XmitReceive(n) PROVE MutexHeld'
  BY <1>34 DEF XmitReceive
<1>35. ASSUME NEW sent \in 0 .. rxLen - 1, RecvShort(sent) PROVE MutexHeld'
  BY <1>35 DEF RecvShort
<1>36. CASE UNCHANGED vars
  BY <1>36 DEF vars
<1> QED BY <1>1, <1>2, <1>3, <1>4, <1>5, <1>6, <1>7, <1>8, <1>9, <1>10,
         <1>11, <1>12, <1>13, <1>14, <1>15, <1>16, <1>17, <1>18, <1>19,
         <1>20, <1>21, <1>22, <1>23, <1>24, <1>25, <1>26, <1>27, <1>28,
         <1>29, <1>30, <1>31, <1>32, <1>33, <1>34, <1>35, <1>36 DEF Next, Ctl, Xmit, Recv,
         RecvWrite, Interrupt

\* No thread outlives its session: the socket is closed, and the next session
\* set up, only when both threads have ended.
THEOREM NoOverlap == Spec => []SessionsDontOverlap
<1>1. Init => SessionInv
  BY DEF Init, SessionInv, ControlOK, Counted, Started, SessionsDontOverlap, Sending, Gathering, Alive
<1>2. SessionInv /\ [Next]_vars => SessionInv'
  BY SessionStep
<1>3. SessionInv => SessionsDontOverlap
  BY DEF SessionInv
<1> QED BY <1>1, <1>2, <1>3, PTL DEF Spec

\* The half-duplex driver is on only while the transmit thread holds
\* serialMutex, and received bytes are ignored meanwhile.
THEOREM LineOwned == Spec => []DriverOwned
<1>1. Init => LineInv
  BY DEF Init, LineInv, SessionInv, ControlOK, Counted, Started, SessionsDontOverlap,
         MutexHeld, Sending, Gathering, Alive
<1>2. LineInv /\ [Next]_vars => LineInv'
  BY SessionStep, LineStep DEF LineInv
<1>3. LineInv => DriverOwned
  BY DEF LineInv, MutexHeld, DriverOwned
<1> QED BY <1>1, <1>2, <1>3, PTL DEF Spec

\* What one load of each half of a number gives, and how far two loads of
\* different moments can be off.
LEMMA Halves ==
  ASSUME NEW n \in Nat, NEW b \in Nat \ {0}
  PROVE  /\ n % b \in 0 .. b - 1 /\ n \div b \in Nat
         /\ b * (n \div b) \in Nat /\ b * (n \div b) <= n
         /\ b * (n \div b) + (n % b) = n
<1>1. n % b \in 0 .. b - 1
  OBVIOUS
<1>2. n \div b \in Nat
  OBVIOUS
<1>3. n % b = n - b * (n \div b)
  OBVIOUS
<1>4. b * (n \div b) \in Nat
  BY <1>2
<1> DEFINE p == b * (n \div b)
<1> HIDE DEF p
<1>5. p \in Nat /\ n % b = n - p
  BY <1>3, <1>4 DEF p
<1>6. p <= n /\ p + (n % b) = n
  BY <1>1, <1>5
<1> QED BY <1>1, <1>2, <1>5, <1>6 DEF p

LEMMA LoadedBounded ==
  ASSUME TunnelAssumption, RxOK
  PROVE  /\ Loaded \in Nat /\ Loaded < Len(rxBuf) + ByteSize
         /\ Len(rxBuf) % ByteSize \in 0 .. ByteSize - 1
         /\ low = Len(rxBuf) % ByteSize => Loaded = Len(rxBuf)
<1>1. Len(rxBuf) \in Nat /\ ByteSize \in Nat \ {0} /\ low \in 0 .. ByteSize - 1
  BY DEF TunnelAssumption, RxOK
<1> DEFINE h == ByteSize * (Len(rxBuf) \div ByteSize)
<1>2. /\ h \in Nat /\ h <= Len(rxBuf) /\ h + (Len(rxBuf) % ByteSize) = Len(rxBuf)
      /\ Len(rxBuf) % ByteSize \in 0 .. ByteSize - 1
  BY <1>1, Halves
<1>3. Loaded = h + low
  BY DEF Loaded
<1> HIDE DEF h
<1> QED BY <1>1, <1>2, <1>3

\* What is copied is a sequence as long as what was measured.
LEMMA CopiedSeq ==
  ASSUME RxOK
  PROVE  /\ Copied \in Seq(Nat) /\ Len(Copied) = rxLen
         /\ rxLen = Len(rxBuf) => Copied = rxBuf
<1>1. rxLen \in Nat /\ rxBuf \in Seq(Nat)
  BY DEF RxOK
<1>2. \A i \in 1 .. rxLen : (IF i <= Len(rxBuf) THEN rxBuf[i] ELSE Junk) \in Nat
  BY <1>1 DEF Junk
<1>3. Copied \in [1 .. rxLen -> Nat]
  BY <1>2 DEF Copied
<1>4. Copied \in Seq(Nat) /\ Len(Copied) = rxLen
  BY <1>1, <1>3
<1>5. ASSUME rxLen = Len(rxBuf) PROVE Copied = rxBuf
  <2>1. \A i \in 1 .. Len(rxBuf) : Copied[i] = rxBuf[i]
    BY <1>1, <1>5 DEF Copied
  <2> QED BY <1>1, <1>4, <1>5, <2>1
<1> QED BY <1>4, <1>5

\* The receive buffer never overflows: the interrupt tests it, and the receive
\* thread empties it with interrupts off.
LEMMA RxStep ==
  ASSUME RxInv, [Next]_vars
  PROVE  RxInv'
<1> USE TunnelAssumption DEF TunnelAssumption, RxInv, RxOK, CopyBounded, WriteLength, history
<1>1. CASE RxComplete
  <2>1. CASE ~inSend /\ HasRoom
    <3> DEFINE b == bytes + 1
    <3>1. /\ b \in Nat /\ rxBuf' = Append(rxBuf, b) /\ bytes' = b /\ recv' = recv
          /\ accepted' = (IF spoilt' THEN <<>> ELSE Append(accepted, b))
          /\ spoilt' = (spoilt \/ Snatched)
          /\ UNCHANGED <<rxBuf1, rxSeen, rxLen, low, tcpOut>>
      BY <1>1, <2>1 DEF RxComplete, threads
    <3> HIDE DEF b
    <3>2. rxBuf' \in Seq(Nat) /\ Len(rxBuf') = Len(rxBuf) + 1
      BY <3>1
    <3>3. accepted' \in Seq(Nat)
      <4>1. << >> \in Seq(Nat) /\ Append(accepted, b) \in Seq(Nat)
        BY <3>1
      <4> QED BY <3>1, <4>1
    <3>4. spoilt' \in BOOLEAN
      BY <3>1, Zenon DEF Snatched
    <3> QED BY <2>1, <3>1, <3>2, <3>3, <3>4 DEF HasRoom
  <2>2. CASE ~(~inSend /\ HasRoom)
    BY <1>1, <2>2 DEF RxComplete, threads
  <2> QED BY <2>1, <2>2
<1>2. CASE RecvLock \/ RecvGather \/ RecvMeasure
  <2>1. low' \in 0 .. ByteSize - 1
    BY <1>2, LoadedBounded DEF RecvLock, RecvGather, RecvMeasure, LoadLow
  <2>2. recv' \notin {"copy", "write"}
    BY <1>2 DEF RecvLock, RecvGather, RecvMeasure
  <2>3. UNCHANGED <<rxBuf, rxBuf1, rxSeen, rxLen, bytes, spoilt, accepted, tcpOut>>
    BY <1>2 DEF RecvLock, RecvGather, RecvMeasure
  <2> QED BY <2>1, <2>2, <2>3
<1>3. CASE RecvPeek \/ RecvLook
  <2>1. rxSeen' \in Nat /\ low' = 0
    BY <1>3, LoadedBounded DEF RecvPeek, RecvLook
  <2>2. recv' \notin {"copy", "write"}
    BY <1>3 DEF RecvPeek, RecvLook
  <2>3. UNCHANGED <<rxBuf, rxBuf1, rxLen, bytes, spoilt, accepted, tcpOut>>
    BY <1>3 DEF RecvPeek, RecvLook
  <2> QED BY <2>1, <2>2, <2>3
<1>4. CASE RecvMeasured
  <2>1. rxLen' \in Nat /\ rxLen' < Len(rxBuf) + ByteSize /\ low' = 0
    BY <1>4, LoadedBounded DEF RecvMeasured
  <2>2. recv' = "copy" /\ UNCHANGED <<rxBuf, rxBuf1, rxSeen, bytes, spoilt, accepted, tcpOut>>
    BY <1>4 DEF RecvMeasured
  <2> QED BY <2>1, <2>2
<1>5. CASE RecvCopy
  <2>1. rxBuf1' \in Seq(Nat) /\ Len(rxBuf1') = rxLen
    BY <1>5, CopiedSeq DEF RecvCopy
  <2>2. rxBuf' \in Seq(Nat) /\ Len(rxBuf') = 0
    BY <1>5 DEF RecvCopy, EmptyBuffer
  <2> QED BY <1>5, <2>1, <2>2 DEF RecvCopy
<1>6. CASE RecvWritten
  <2>1. << >> \in Seq(Nat) /\ tcpOut \o rxBuf1 \in Seq(Nat)
    OBVIOUS
  <2>2. tcpOut' \in Seq(Nat) /\ rxBuf1' \in Seq(Nat) /\ rxLen' = 0
    BY <1>6, <2>1 DEF RecvWritten
  <2>3. recv' \notin {"copy", "write"}
    BY <1>6 DEF RecvWritten, RecvOn
  <2>4. UNCHANGED <<rxBuf, rxSeen, low, bytes, spoilt, accepted>>
    BY <1>6 DEF RecvWritten
  <2> QED BY <2>2, <2>3, <2>4
<1>7. ASSUME NEW sent \in 0 .. rxLen - 1, RecvShort(sent) PROVE RxInv'
  <2>1. recv = "write" /\ recv' = "write" /\ rxLen = Len(rxBuf1) /\ rxLen' = sent
    BY <1>7 DEF RecvShort, threads
  <2>2. Rest(sent) \in Seq(Nat) /\ Len(Rest(sent)) = sent
    <3>1. CASE sent = 0
      BY <2>1, <3>1 DEF Rest
    <3>2. CASE sent # 0
      BY <2>1, <3>2 DEF Rest
    <3> QED BY <3>1, <3>2
  <2>3. << >> \in Seq(Nat)
    OBVIOUS
  <2>4. /\ rxBuf1' = Rest(sent) /\ spoilt' = TRUE /\ accepted' = << >> /\ tcpOut' = << >>
        /\ UNCHANGED <<rxBuf, rxSeen, low, bytes>>
    BY <1>7 DEF RecvShort, Spoil
  <2> QED BY <2>1, <2>2, <2>3, <2>4
<1>8. CASE RecvFailed \/ RecvDie
  <2>1. << >> \in Seq(Nat)
    OBVIOUS
  <2>2. /\ spoilt' = TRUE /\ accepted' = << >> /\ tcpOut' = << >>
        /\ UNCHANGED <<rxBuf, rxSeen, low, bytes>>
    BY <1>8 DEF RecvFailed, RecvDie, Spoil
  <2>3. recv' \notin {"copy", "write"}
    BY <1>8 DEF RecvFailed, RecvDie
  <2>4. rxBuf1' \in Seq(Nat) /\ rxLen' \in Nat
    <3>1. CASE RecvFailed
      BY <2>1, <3>1 DEF RecvFailed
    <3>2. CASE RecvDie
      BY <3>2 DEF RecvDie
    <3> QED BY <1>8, <3>1, <3>2
  <2> QED BY <2>1, <2>2, <2>3, <2>4
<1>9. CASE RecvStart
  <2>1. << >> \in Seq(Nat)
    OBVIOUS
  <2> QED BY <1>9, <2>1 DEF RecvStart, RecvOn
<1>10. CASE RecvUnlock
  BY <1>10 DEF RecvUnlock
<1>11. CASE UNCHANGED rx /\ (recv' \in {"copy", "write"} => recv' = recv)
  BY <1>11 DEF rx
<1>12. CASE Ctl
  BY <1>11, <1>12 DEF Ctl, Create, Accept, WaitRecv, WaitXmit, Stop, Close
<1>13. CASE Xmit
  BY <1>11, <1>13 DEF Xmit, XmitStart, XmitReceive, XmitLock, XmitPrime, XmitWaitDone,
     XmitEnable, XmitWaitEmpty, XmitRelease, XmitEnd
<1>14. CASE RecvWait \/ RecvNear
  BY <1>11, <1>14 DEF RecvWait, RecvNear
<1>15. CASE TxNext \/ TxSentAll \/ ShiftOut \/ PeerClose
  BY <1>11, <1>15 DEF TxNext, TxSentAll, ShiftOut, PeerClose, threads
<1>16. CASE UNCHANGED vars
  BY <1>11, <1>16 DEF vars, threads
<1> QED BY <1>1, <1>2, <1>3, <1>4, <1>5, <1>6, <1>7, <1>8, <1>9, <1>10, <1>12, <1>13,
           <1>14, <1>15, <1>16 DEF Next, Recv, RecvWrite, Interrupt

\* Before the first byte the buffer is empty.
LEMMA RxInit == Init => RxInv
<1>1. << >> \in Seq(Nat)
  OBVIOUS
<1> QED BY <1>1, TunnelAssumption DEF TunnelAssumption, Init, RxInv, RxOK, CopyBounded,
       WriteLength

\* rx_idx never leaves rxbuf.  The copy to rxbuf1, whose length is loaded while
\* bytes still come in, can take more bytes than the buffer holds, but always
\* fewer than one load's 256 more; and what is written is what was copied.
THEOREM BufferSafe == Spec => [](RxOK /\ CopyBounded /\ WriteLength)
<1>1. RxInv /\ [Next]_vars => RxInv'
  BY RxStep
<1>2. RxInv => RxOK /\ CopyBounded /\ WriteLength
  BY DEF RxInv
<1> QED BY RxInit, <1>1, <1>2, PTL DEF Spec

(***************************************************************************)
(* What is stored reaches TCP.                                             *)
(***************************************************************************)
LEMMA Chain ==
  ASSUME NEW s \in Seq(Nat), NEW t \in Seq(Nat)
  PROVE  /\ s \o << >> \o t = s \o t /\ s \o t \o << >> = s \o t
         /\ << >> \o << >> \o t = t
OBVIOUS

LEMMA ChainGrows ==
  ASSUME NEW s \in Seq(Nat), NEW t \in Seq(Nat), NEW b \in Nat
  PROVE  s \o Append(t, b) = Append(s \o t, b)
OBVIOUS

\* What TCP has got, what is being written and what is in rxbuf make up what has
\* been stored: each step moves bytes from one to the next.
LEMMA RelayStep ==
  ASSUME RelayInv, [Next]_vars
  PROVE  Exact' /\ Relayed'
<1> USE DEF RelayInv, RxInv, RxOK, Exact, Relayed, InFlight, history
<1>1. CASE RxComplete
  <2>1. CASE ~inSend /\ HasRoom /\ ~spoilt'
    <3> DEFINE b == bytes + 1
    <3>1. /\ b \in Nat /\ rxBuf' = Append(rxBuf, b) /\ recv' = recv
          /\ accepted' = Append(accepted, b) /\ ~spoilt /\ recv \notin {"torn", "copy"}
          /\ UNCHANGED <<rxBuf1, rxSeen, rxLen, low, tcpOut>>
      <4>1. spoilt' = (spoilt \/ Snatched)
        BY <1>1, <2>1 DEF RxComplete
      <4>2. ~spoilt /\ ~Snatched
        BY <2>1, <4>1, Zenon
      <4> QED BY <1>1, <2>1, <4>2 DEF RxComplete, threads, Snatched
    <3> HIDE DEF b
    <3>2. InFlight \in Seq(Nat) /\ InFlight' = InFlight
      <4>1. << >> \in Seq(Nat)
        OBVIOUS
      <4> QED BY <3>1, <4>1
    <3>3. tcpOut \o InFlight \o rxBuf = accepted
      BY <3>1
    <3> HIDE DEF InFlight
    <3>4. tcpOut \o InFlight \o Append(rxBuf, b) = Append(tcpOut \o InFlight \o rxBuf, b)
      <4> DEFINE p == tcpOut \o InFlight
      <4>1. p \in Seq(Nat) /\ rxBuf \in Seq(Nat) /\ b \in Nat
        BY <3>1, <3>2
      <4> HIDE DEF p
      <4>2. p \o Append(rxBuf, b) = Append(p \o rxBuf, b)
        BY <4>1, ChainGrows
      <4> QED BY <4>2 DEF p
    <3>5. tcpOut' \o InFlight' \o rxBuf' = accepted'
      BY <3>1, <3>2, <3>3, <3>4
    <3> QED BY <3>1, <3>5
  <2>2. CASE spoilt'
    BY <2>2
  <2>3. CASE ~(~inSend /\ HasRoom)
    BY <1>1, <2>3 DEF RxComplete, threads
  <2> QED BY <2>1, <2>2, <2>3
<1>2. CASE RecvMeasure
  BY <1>2 DEF RecvMeasure, LoadLow
<1>3. CASE RecvMeasured
  BY <1>3, LoadedBounded, TunnelAssumption DEF RecvMeasured
<1>4. CASE RecvCopy
  <2>1. /\ rxBuf1' = Copied /\ rxBuf' = << >> /\ recv = "copy" /\ recv' = "write"
        /\ UNCHANGED <<tcpOut, accepted, spoilt, low, rxLen>>
    BY <1>4 DEF RecvCopy, EmptyBuffer
  <2>2. CASE ~spoilt
    <3>1. Copied = rxBuf
      BY <2>1, <2>2, CopiedSeq
    <3>2. InFlight = << >> /\ InFlight' = rxBuf
      BY <2>1, <3>1
    <3>3. tcpOut \o << >> \o rxBuf = accepted
      BY <2>2, <3>2
    <3>4. tcpOut \o rxBuf \o << >> = accepted
      BY <3>3, Chain
    <3> QED BY <2>1, <3>2, <3>4
  <2>3. CASE spoilt
    BY <2>1, <2>3
  <2> QED BY <2>2, <2>3
<1>5. CASE RecvWritten
  <2>1. /\ recv = "write" /\ recv' \notin {"torn", "copy", "write"}
        /\ tcpOut' = (IF spoilt THEN << >> ELSE tcpOut \o rxBuf1)
        /\ UNCHANGED <<rxBuf, accepted, spoilt, low>>
    BY <1>5 DEF RecvWritten, RecvOn
  <2>2. CASE ~spoilt
    <3>1. tcpOut \o rxBuf1 \o rxBuf = accepted /\ tcpOut' = tcpOut \o rxBuf1 /\ InFlight' = << >>
      BY <2>1, <2>2
    <3> DEFINE p == tcpOut \o rxBuf1
    <3>2. p \in Seq(Nat)
      OBVIOUS
    <3> HIDE DEF p
    <3>3. p \o << >> \o rxBuf = p \o rxBuf
      BY <3>2, Chain
    <3> QED BY <2>1, <3>1, <3>3 DEF p
  <2>3. CASE spoilt
    BY <2>1, <2>3
  <2> QED BY <2>2, <2>3
<1>6. ASSUME NEW sent \in 0 .. rxLen - 1, RecvShort(sent) PROVE Exact' /\ Relayed'
  BY <1>6 DEF RecvShort, Spoil
<1>7. CASE RecvFailed \/ RecvDie
  BY <1>7 DEF RecvFailed, RecvDie, Spoil
<1>8. CASE RecvStart
  <2>1. recv' \notin {"torn", "copy", "write"} /\ rxBuf' = rxBuf /\ accepted' = rxBuf /\ tcpOut' = << >>
    BY <1>8 DEF RecvStart, RecvOn
  <2> QED BY <2>1, Chain
<1>9. CASE /\ UNCHANGED <<rxBuf, history>>
           /\ (UNCHANGED <<recv, rxBuf1, rxLen, low>>
               \/ {recv, recv'} \cap {"torn", "copy", "write"} = {})
  <2>1. CASE UNCHANGED <<recv, rxBuf1, rxLen, low>>
    BY <1>9, <2>1
  <2>2. CASE {recv, recv'} \cap {"torn", "copy", "write"} = {}
    BY <1>9, <2>2
  <2> QED BY <1>9, <2>1, <2>2
<1>10. CASE Ctl
  <2>1. CASE Accept
    <3>1. UNCHANGED rx /\ recv' \in {"none", "start"} /\ recv = "none"
      BY <2>1 DEF Accept, SessionInv, Started
    <3> QED BY <1>9, <3>1 DEF rx
  <2>2. CASE Create \/ WaitRecv \/ WaitXmit \/ Stop \/ Close
    BY <1>9, <2>2 DEF Create, WaitRecv, WaitXmit, Stop, Close, rx
  <2> QED BY <1>10, <2>1, <2>2 DEF Ctl
<1>11. CASE Xmit
  BY <1>9, <1>11 DEF Xmit, XmitStart, XmitReceive, XmitLock, XmitPrime, XmitWaitDone,
     XmitEnable, XmitWaitEmpty, XmitRelease, XmitEnd, rx
<1>12. CASE RecvWait \/ RecvLock \/ RecvPeek \/ RecvGather
  BY <1>9, <1>12 DEF RecvWait, RecvLock, RecvPeek, RecvGather, rx
<1>13. CASE RecvLook \/ RecvNear \/ RecvUnlock
  BY <1>9, <1>13 DEF RecvLook, RecvNear, RecvUnlock, rx
<1>14. CASE TxNext \/ TxSentAll \/ ShiftOut \/ PeerClose
  BY <1>9, <1>14 DEF TxNext, TxSentAll, ShiftOut, PeerClose, threads, rx
<1>15. CASE UNCHANGED vars
  BY <1>9, <1>15 DEF vars, threads, rx
<1> QED BY <1>1, <1>2, <1>3, <1>4, <1>5, <1>6, <1>7, <1>8, <1>10, <1>11, <1>12, <1>13,
           <1>14, <1>15 DEF Next, Recv, RecvWrite, Interrupt

\* Every byte stored in a session reaches TCP once and in order, for every buffer
\* size and however long the threads wait between their steps, as long as no byte
\* comes between the measure and the copy and TCP takes every buffer whole.
THEOREM RelayedInOrder == Spec => []Relayed
<1>1. Init => RelayInv
  BY RxInit DEF RelayInv, Init, Exact, Relayed, SessionInv, ControlOK, Counted, Started,
     SessionsDontOverlap, Sending, Gathering, Alive
<1>2. RelayInv /\ [Next]_vars => RelayInv'
  BY SessionStep, RxStep, RelayStep DEF RelayInv
<1>3. RelayInv => Relayed
  BY DEF RelayInv
<1> QED BY <1>1, <1>2, <1>3, PTL DEF Spec

(***************************************************************************)
(* The transmission, and the types of all the rest.                        *)
(***************************************************************************)
\* No more bytes are written than are left, and one if there is any.
LEMMA BurstFits ==
  ASSUME txLen \in Nat, txIdx \in 0 .. txLen
  PROVE  /\ Burst \in {0, 1, 2} /\ txIdx + Burst \in 0 .. txLen
         /\ txIdx < txLen => Burst > 0 /\ (shift => Burst = 1)
BY DEF Burst, Unsent

\* The counters of the transmission keep their types.
LEMMA TxStep ==
  ASSUME TxOK, [Next]_vars
  PROVE  TxOK'
<1> USE TunnelAssumption DEF TunnelAssumption, TxOK, uart, tx
<1>1. CASE TxNext
  <2>1. CASE txIdx < txLen /\ SendChar
    <3>1. txIdx' \in 0 .. txLen' /\ txLen' = txLen /\ timely' = timely
      BY <2>1, BurstFits DEF SendChar
    <3>2. udrie' \in BOOLEAN /\ shift' \in BOOLEAN /\ udr' \in BOOLEAN
      BY <2>1, Zenon DEF SendChar
    <3> QED BY <1>1, <3>1, <3>2 DEF TxNext
  <2>2. CASE udrie' = FALSE /\ UNCHANGED <<tx, udr, shift>>
    BY <1>1, <2>2 DEF TxNext
  <2> QED BY <1>1, <2>1, <2>2 DEF TxNext
<1>2. CASE XmitPrime
  <2>1. CASE udr
    BY <1>2, <2>1 DEF XmitPrime
  <2>2. CASE ~udr
    <3>1. txIdx' \in 0 .. txLen' /\ txLen' = txLen /\ timely' = timely
      BY <1>2, <2>2, BurstFits DEF XmitPrime, SendChar
    <3>2. udrie' \in BOOLEAN /\ shift' \in BOOLEAN /\ udr' \in BOOLEAN
      BY <1>2, <2>2, Zenon DEF XmitPrime, SendChar
    <3> QED BY <1>2, <3>1, <3>2 DEF XmitPrime
  <2> QED BY <2>1, <2>2
<1>3. CASE TxSentAll
  BY <1>3 DEF TxSentAll
<1>4. CASE ShiftOut
  <2>1. txc' \in BOOLEAN
    BY <1>4, Zenon DEF ShiftOut
  <2> QED BY <1>4, <2>1 DEF ShiftOut
<1>5. CASE XmitEnable
  BY <1>5 DEF XmitEnable
<1>6. ASSUME NEW n \in Lengths, XmitReceive(n) PROVE TxOK'
  BY <1>6 DEF XmitReceive
<1>7. CASE UNCHANGED <<tx, uart, msgs>>
  BY <1>7
<1>8. CASE Ctl \/ PeerClose
  BY <1>7, <1>8 DEF Ctl, Create, Accept, WaitRecv, WaitXmit, Stop, Close, PeerClose
<1>9. CASE XmitLock
  <2>1. timely' \in BOOLEAN
    BY <1>9, Zenon DEF XmitLock, Silent
  <2> QED BY <1>9, <2>1 DEF XmitLock
<1>10. CASE XmitWaitDone \/ XmitWaitEmpty \/ XmitRelease
  <2>1. timely' \in {timely, FALSE}
    BY <1>10 DEF XmitWaitDone, DoneOrLate, XmitWaitEmpty, EmptyOrLate, Expires, XmitRelease
  <2> QED BY <1>10, <2>1 DEF XmitWaitDone, XmitWaitEmpty, XmitRelease
<1>11. CASE XmitStart \/ XmitEnd
  BY <1>7, <1>11 DEF XmitStart, XmitEnd
<1>12. CASE Recv \/ RxComplete
  BY <1>7, <1>12 DEF Recv, RecvStart, RecvWait, RecvLock, RecvPeek, RecvGather, RecvLook,
     RecvNear, RecvUnlock, RecvMeasure, RecvMeasured, RecvCopy, RecvWrite, RecvWritten,
     RecvShort, RecvFailed, RecvDie, RxComplete
<1>13. CASE UNCHANGED vars
  BY <1>7, <1>13 DEF vars
<1> QED BY <1>1, <1>2, <1>3, <1>4, <1>5, <1>6, <1>8, <1>9, <1>10, <1>11, <1>12, <1>13
        DEF Next, Xmit, Interrupt

LEMMA TxInit == Init => TxOK
<1> SUFFICES ASSUME Init PROVE TxOK
  OBVIOUS
<1>1. txLen = 0 /\ txIdx = 0 /\ msgs = 0 /\ 0 \in 0 .. MaxMsgs
  BY TunnelAssumption DEF TunnelAssumption, Init
<1>2. /\ udr \in BOOLEAN /\ shift \in BOOLEAN /\ txc \in BOOLEAN
      /\ udrie \in BOOLEAN /\ txcie \in BOOLEAN /\ timely \in BOOLEAN
  BY DEF Init
<1> QED BY <1>1, <1>2 DEF TxOK

\* The flags and the events keep their types.
Flags == /\ stop \in BOOLEAN /\ driver \in BOOLEAN /\ inSend \in BOOLEAN
         /\ events \subseteq {"recvStarted", "xmitStarted", "sendDone", "txEmpty",
                             "rxGotSome"}

LEMMA FlagStep ==
  ASSUME Flags, [Next]_vars
  PROVE  Flags'
<1> USE DEF Flags
<1>1. CASE Ctl
  BY <1>1 DEF Ctl, Create, Accept, WaitRecv, WaitXmit, Stop, Close, Consume, line
<1>2. ASSUME NEW n \in Lengths, XmitReceive(n) PROVE Flags'
  BY <1>2 DEF XmitReceive, line
<1>3. CASE XmitStart \/ XmitLock \/ XmitPrime
  BY <1>3 DEF XmitStart, XmitLock, XmitPrime, Post, line
<1>4. CASE XmitWaitDone \/ XmitWaitEmpty
  <2>1. events' \subseteq events /\ UNCHANGED <<stop, line>>
    BY <1>4 DEF XmitWaitDone, DoneOrLate, XmitWaitEmpty, EmptyOrLate, Consume, Expires
  <2> QED BY <2>1 DEF line
<1>5. CASE XmitEnable \/ XmitRelease \/ XmitEnd
  BY <1>5 DEF XmitEnable, XmitRelease, XmitEnd, line
<1>6. CASE Recv
  <2>1. CASE RecvStart \/ RecvWait \/ RecvLock \/ RecvPeek \/ RecvGather \/ RecvLook \/ RecvNear
    BY <2>1 DEF RecvStart, RecvWait, RecvLock, RecvPeek, RecvGather, RecvLook, RecvNear,
       Post, Consume, line
  <2>2. CASE RecvUnlock \/ RecvMeasure \/ RecvMeasured \/ RecvCopy \/ RecvWrite \/ RecvDie
    BY <2>2 DEF RecvUnlock, RecvMeasure, RecvMeasured, RecvCopy, RecvWrite, RecvWritten,
       RecvShort, RecvFailed, RecvDie, line, threads
  <2> QED BY <1>6, <2>1, <2>2 DEF Recv
<1>7. CASE TxNext \/ TxSentAll \/ ShiftOut \/ PeerClose
  BY <1>7 DEF TxNext, TxSentAll, ShiftOut, PeerClose, Post, threads, line
<1>8. CASE RxComplete
  BY <1>8 DEF RxComplete, RxEvents, threads, line
<1>9. CASE UNCHANGED vars
  BY <1>9 DEF vars, threads, line
<1> QED BY <1>1, <1>2, <1>3, <1>4, <1>5, <1>6, <1>7, <1>8, <1>9 DEF Next, Xmit, Interrupt

LEMMA LineInit == Init => LineInv
BY DEF Init, LineInv, SessionInv, ControlOK, Counted, Started, SessionsDontOverlap,
   MutexHeld, Sending, Gathering, Alive

\* Every variable of the tunnel stays of its type: runCount, which is decremented
\* without a test, by the count of the threads that are alive.
THEOREM TypeCorrect == Spec => []TypeOK
<1> DEFINE TypeInv == SessionInv /\ RxInv /\ TxOK /\ Flags
<1>1. Init => TypeInv
  <2>1. Init => Flags
    BY DEF Init, Flags
  <2> QED BY <2>1, LineInit, RxInit, TxInit DEF LineInv
<1>2. TypeInv /\ [Next]_vars => TypeInv'
  BY SessionStep, RxStep, TxStep, FlagStep
<1>3. TypeInv => TypeOK
  <2> SUFFICES ASSUME TypeInv PROVE TypeOK
    OBVIOUS
  <2>1. runCount \in 0 .. 2
    BY DEF SessionInv, Counted, Alive
  <2> QED BY <2>1 DEF SessionInv, RxInv, Flags, TypeOK
<1> QED BY <1>1, <1>2, <1>3, PTL DEF Spec

(***************************************************************************)
(* A message goes out whole.                                               *)
(***************************************************************************)
\* A message that was begun before the line was taken has left a trace.
LEMMA FreshStep ==
  ASSUME Fresh, TxOK, LineInv, [Next]_vars
  PROVE  Fresh'
<1> USE DEF Fresh, Sending
<1>1. CASE TxNext
  <2>1. CASE txIdx < txLen /\ SendChar
    <3>1. txLen' = txLen /\ udrie'
      BY <1>1, <2>1 DEF SendChar, TxNext
    <3> QED BY <1>1, <3>1 DEF TxNext, threads
  <2>2. CASE Post("sendDone") /\ UNCHANGED tx
    BY <1>1, <2>2 DEF TxNext, Post, threads, tx
  <2> QED BY <1>1, <2>1, <2>2 DEF TxNext
<1>2. CASE XmitPrime
  BY <1>2 DEF XmitPrime, SendChar, tx
<1>3. CASE XmitWaitDone \/ XmitWaitEmpty \/ XmitEnable \/ XmitLock
  BY <1>3 DEF XmitWaitDone, XmitWaitEmpty, XmitEnable, XmitLock, tx
<1>4. CASE XmitRelease \/ XmitEnd \/ XmitStart
  BY <1>4 DEF XmitRelease, XmitEnd, XmitStart, XmitOn
<1>5. ASSUME NEW n \in Lengths, XmitReceive(n) PROVE Fresh'
  BY <1>5 DEF XmitReceive
<1>6. CASE /\ UNCHANGED <<xmit, tx, udrie>> /\ ("sendDone" \in events => "sendDone" \in events')
  BY <1>6 DEF tx
<1>7. CASE Create \/ Stop \/ Close \/ PeerClose \/ ShiftOut
  BY <1>6, <1>7 DEF Create, Stop, Close, PeerClose, ShiftOut, threads, uart
<1>8. CASE Accept
  <2>1. xmit = "none" /\ xmit' \in {"none", "start"}
    BY <1>8 DEF Accept, LineInv, SessionInv, Started
  <2> QED BY <2>1
<1>9. CASE WaitRecv \/ WaitXmit
  BY <1>6, <1>9 DEF WaitRecv, WaitXmit, Consume, uart
<1>10. CASE Recv
  <2>1. CASE RecvStart \/ RecvWait \/ RecvLock \/ RecvPeek \/ RecvGather \/ RecvLook \/ RecvNear
    BY <1>6, <2>1 DEF RecvStart, RecvWait, RecvLock, RecvPeek, RecvGather, RecvLook, RecvNear,
       Post, Consume, uart
  <2>2. CASE RecvUnlock \/ RecvMeasure \/ RecvMeasured \/ RecvCopy \/ RecvWrite \/ RecvDie
    BY <1>6, <2>2 DEF RecvUnlock, RecvMeasure, RecvMeasured, RecvCopy, RecvWrite, RecvWritten,
       RecvShort, RecvFailed, RecvDie, uart, threads
  <2> QED BY <1>10, <2>1, <2>2 DEF Recv
<1>11. CASE TxSentAll \/ RxComplete
  BY <1>6, <1>11 DEF TxSentAll, RxComplete, RxEvents, Post, threads, uart
<1>12. CASE UNCHANGED vars
  BY <1>6, <1>12 DEF vars, threads, uart
<1> QED BY <1>1, <1>2, <1>3, <1>4, <1>5, <1>7, <1>8, <1>9, <1>10, <1>11, <1>12
        DEF Next, Ctl, Xmit, Interrupt

\* The transmission begins silent, is busy while bytes are left, and ends with
\* one event, which the transmit thread takes before it releases the line; unless
\* a wait expires, and the message is timely no longer.
LEMMA StageStep ==
  ASSUME Fresh, TxOK, LineInv, Stages, [Next]_vars
  PROVE  Stages'
<1> USE TunnelAssumption DEF TunnelAssumption, TxOK, Stages, Silent, Busy, Ending
<1>0. CASE ~timely'
  BY <1>0
<1>1. CASE TxNext
  <2>1. CASE timely
    <3>1. udrie /\ ~udr /\ UNCHANGED <<xmit, txc, timely>>
      BY <1>1 DEF TxNext, threads, tx, SendChar
    <3>2. CASE xmit \notin {"prime", "waitDone", "enable", "waitEmpty", "release"}
      BY <3>1, <3>2
    <3>3. CASE xmit = "waitDone"
      <4>1. Busy
        BY <2>1, <3>1, <3>3
      <4>2. CASE txIdx < txLen /\ SendChar /\ UNCHANGED events
        <5>1. txLen' = txLen /\ Burst > 0
          BY <4>1, <4>2, BurstFits DEF SendChar
        <5>2. udrie' /\ shift'
          BY <4>2, <5>1 DEF SendChar
        <5> QED BY <3>1, <3>3, <4>1, <4>2, <5>2
      <4>3. CASE txIdx >= txLen /\ udrie' = FALSE /\ Post("sendDone") /\ UNCHANGED <<tx, udr, shift>>
        BY <3>1, <3>3, <4>1, <4>3 DEF Post, tx
      <4> QED BY <1>1, <4>2, <4>3 DEF TxNext
    <3>4. CASE xmit = "release"
      <4>1. txIdx = txLen /\ ~shift
        BY <2>1, <3>4
      <4>2. UNCHANGED <<tx, udr, shift>>
        BY <1>1, <4>1 DEF TxNext
      <4> QED BY <3>1, <3>4, <4>1, <4>2 DEF tx
    <3>5. CASE xmit \in {"prime", "enable", "waitEmpty"}
      BY <2>1, <3>1, <3>5
    <3> QED BY <3>2, <3>3, <3>4, <3>5
  <2>2. CASE ~timely
    BY <1>1, <2>2, <1>0 DEF TxNext, tx, SendChar
  <2> QED BY <2>1, <2>2
<1>2. CASE TxSentAll
  BY <1>2 DEF TxSentAll, Post, threads, tx
<1>3. CASE ShiftOut
  BY <1>3 DEF ShiftOut, threads, tx
<1>4. CASE XmitPrime
  <2>1. CASE timely
    <3>1. xmit = "prime" /\ xmit' = "waitDone" /\ Silent /\ SendChar /\ txIdx = 0
          /\ txLen \in Nat \ {0} /\ UNCHANGED <<txc, events>>
      BY <1>4, <2>1 DEF XmitPrime, Fresh, Sending
    <3>2. Unsent = txLen /\ Burst \in {1, 2}
      BY <3>1 DEF Burst, Unsent
    <3>3. txLen' = txLen /\ Burst > 0
      BY <3>1, <3>2 DEF SendChar
    <3>4. shift' /\ udrie'
      BY <3>1, <3>3 DEF SendChar
    <3> QED BY <3>1, <3>3, <3>4
  <2>2. CASE ~timely
    BY <1>4, <2>2, <1>0 DEF XmitPrime, tx, SendChar
  <2> QED BY <2>1, <2>2
<1>5. CASE XmitWaitDone
  <2>1. CASE Consume("sendDone") /\ UNCHANGED timely
    BY <1>5, <2>1 DEF XmitWaitDone, Consume, uart
  <2>2. CASE Slow /\ Expires
    BY <1>0, <2>2 DEF Expires
  <2> QED BY <1>5, <2>1, <2>2 DEF XmitWaitDone, DoneOrLate
<1>6. CASE XmitEnable
  BY <1>6 DEF XmitEnable, tx
<1>7. CASE XmitWaitEmpty
  <2>1. CASE Consume("txEmpty") /\ UNCHANGED timely
    BY <1>7, <2>1 DEF XmitWaitEmpty, Consume, uart
  <2>2. CASE (udr \/ txIdx < txLen) /\ UNCHANGED <<events, timely>>
    BY <1>7, <2>2 DEF XmitWaitEmpty, uart
  <2>3. CASE shift /\ Expires
    BY <1>0, <2>3 DEF Expires
  <2> QED BY <1>7, <2>1, <2>2, <2>3 DEF XmitWaitEmpty, EmptyOrLate
<1>8. CASE XmitRelease
  BY <1>0, <1>8 DEF XmitRelease
<1>9. CASE XmitLock
  <2>1. CASE timely'
    <3>1. Silent
      BY <1>9, <2>1, Zenon DEF XmitLock
    <3> QED BY <1>9, <3>1 DEF XmitLock, uart, Fresh
  <2> QED BY <1>0, <2>1
<1>10. ASSUME NEW n \in Lengths, XmitReceive(n) PROVE Stages'
  BY <1>10 DEF XmitReceive, uart
<1>11. CASE XmitStart \/ XmitEnd
  BY <1>11 DEF XmitStart, XmitEnd, XmitOn, Post, tx, uart
<1>12. CASE /\ UNCHANGED <<xmit, tx, uart>>
            /\ \A e \in {"sendDone", "txEmpty"} : e \in events' <=> e \in events
  BY <1>12 DEF tx, uart
<1>13. CASE Create \/ Stop \/ Close \/ PeerClose
  BY <1>12, <1>13 DEF Create, Stop, Close, PeerClose
<1>14. CASE Accept
  <2>1. xmit = "none" /\ xmit' \in {"none", "start"}
    BY <1>14 DEF Accept, LineInv, SessionInv, Started
  <2> QED BY <1>14, <2>1 DEF Accept, tx, uart
<1>15. CASE WaitRecv \/ WaitXmit
  BY <1>12, <1>15 DEF WaitRecv, WaitXmit, Consume
<1>16. CASE Recv
  <2>1. CASE RecvStart \/ RecvWait \/ RecvLock \/ RecvPeek \/ RecvGather \/ RecvLook \/ RecvNear
    BY <1>12, <2>1 DEF RecvStart, RecvWait, RecvLock, RecvPeek, RecvGather, RecvLook, RecvNear,
       Post, Consume
  <2>2. CASE RecvUnlock \/ RecvMeasure \/ RecvMeasured \/ RecvCopy \/ RecvWrite \/ RecvDie
    BY <1>12, <2>2 DEF RecvUnlock, RecvMeasure, RecvMeasured, RecvCopy, RecvWrite, RecvWritten,
       RecvShort, RecvFailed, RecvDie, threads
  <2> QED BY <1>16, <2>1, <2>2 DEF Recv
<1>17. CASE RxComplete
  BY <1>12, <1>17 DEF RxComplete, RxEvents, threads
<1>18. CASE UNCHANGED vars
  BY <1>12, <1>18 DEF vars, threads
<1> QED BY <1>1, <1>2, <1>3, <1>4, <1>5, <1>6, <1>7, <1>8, <1>9, <1>10, <1>11, <1>13, <1>14,
           <1>15, <1>16, <1>17, <1>18 DEF Next, Ctl, Xmit, Interrupt

\* Only the end of a transmission switches the driver off.
LEMMA DriverDrops ==
  ASSUME LineInv, Next, driver, ~driver'
  PROVE  XmitRelease
<1>1. mutex = "xmit"
  BY DEF LineInv, MutexHeld
<1>2. CASE UNCHANGED driver
  BY <1>2
<1>3. CASE RecvLock
  BY <1>1, <1>3 DEF RecvLock, MutexFree
<1>4. CASE XmitLock
  BY <1>1, <1>4 DEF XmitLock, MutexFree
<1>5. CASE Ctl \/ PeerClose
  BY <1>2, <1>5 DEF Ctl, Create, Accept, WaitRecv, WaitXmit, Stop, Close, PeerClose, line
<1>6. CASE XmitStart \/ XmitPrime \/ XmitWaitDone \/ XmitEnable \/ XmitWaitEmpty \/ XmitEnd
           \/ \E n \in Lengths : XmitReceive(n)
  BY <1>2, <1>6 DEF XmitStart, XmitPrime, XmitWaitDone, XmitEnable, XmitWaitEmpty, XmitEnd,
     XmitReceive, line
<1>7. CASE RecvStart \/ RecvWait \/ RecvPeek \/ RecvGather \/ RecvLook \/ RecvNear \/ RecvUnlock
  BY <1>2, <1>7 DEF RecvStart, RecvWait, RecvPeek, RecvGather, RecvLook, RecvNear, RecvUnlock, line
<1>8. CASE RecvMeasure \/ RecvMeasured \/ RecvCopy \/ RecvWrite \/ RecvDie
  BY <1>2, <1>8 DEF RecvMeasure, RecvMeasured, RecvCopy, RecvWrite, RecvWritten, RecvShort,
     RecvFailed, RecvDie, line
<1>9. CASE TxNext \/ TxSentAll \/ RxComplete \/ ShiftOut
  BY <1>2, <1>9 DEF TxNext, TxSentAll, RxComplete, ShiftOut, line
<1> QED BY <1>3, <1>4, <1>5, <1>6, <1>7, <1>8, <1>9 DEF Next, Xmit, Recv, Interrupt

\* Whatever the speed of the line and whatever earlier messages left behind: a
\* message that finds the line silent and that neither wait gives up has left the
\* UART whole when the driver is switched off.
THEOREM SentWhole == Spec => WholeMessage
<1>1. Init => WholeInv
  <2>1. Init => Fresh /\ Stages
    BY DEF Init, Fresh, Stages, Sending
  <2> QED BY <2>1, LineInit, TxInit DEF WholeInv
<1>2. WholeInv /\ [Next]_vars => WholeInv'
  BY SessionStep, LineStep, TxStep, FreshStep, StageStep DEF WholeInv, LineInv
<1>3. WholeInv /\ [Next]_vars =>
        [driver /\ ~driver' /\ timely => txIdx = txLen /\ ~udr /\ ~shift]_vars
  <2> SUFFICES ASSUME WholeInv, Next, driver, ~driver', timely
               PROVE  txIdx = txLen /\ ~udr /\ ~shift
    OBVIOUS
  <2>1. XmitRelease
    BY DriverDrops DEF WholeInv
  <2> QED BY <2>1 DEF XmitRelease, WholeInv, Stages
<1> QED BY <1>1, <1>2, <1>3, PTL DEF Spec, WholeMessage

=============================================================================
