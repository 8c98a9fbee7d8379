------------------------------- MODULE Tunnel -------------------------------
(***************************************************************************)
(* A TCP/RS485 tunnel of the MMNet servers (tunnel.c): the control thread, *)
(* the two threads it starts for every client, one for each direction, and *)
(* the three interrupts of the UART.  Nut/OS threads give up the processor *)
(* only in calls that may block; interrupts come at any time.              *)
(*                                                                         *)
(* A Nut/OS event is a sticky flag: a post nobody waits for makes the next *)
(* wait return at once.  Bytes from the 485 line are numbered; of a        *)
(* message from TCP only the length matters.  The processor loads the 16   *)
(* bits of rx_idx byte by byte, the low one first, and the receive         *)
(* interrupt may come between the two loads.                               *)
(***************************************************************************)
EXTENDS Naturals, Sequences

CONSTANTS BufSize,     \* BUFSZ, 512 (of rxbuf; txbuf only bounds Lengths)
          Threshold,   \* BUFSZ-RX_THRESHOLD, 256
          ByteSize,    \* 256: what one load gets of rx_idx
          Lengths,     \* lengths of the messages from TCP
          SlowBytes,   \* bytes the line carries in the 1.5 seconds of sendDone;
                       \* tun_baud is set by the user
          MaxBytes,    \* bound: bytes that arrive from the 485 line
          MaxMsgs      \* bound: messages that arrive from TCP

ASSUME TunnelAssumption ==
  /\ BufSize \in Nat /\ Threshold \in 0 .. BufSize /\ ByteSize \in Nat \ {0}
  /\ Lengths \subseteq Nat \ {0}
  /\ SlowBytes \in Nat /\ MaxBytes \in Nat /\ MaxMsgs \in Nat

VARIABLES
  ctl, xmit, recv,     \* where the three threads are
  stop, runCount,      \* stop, runCount
  sock,                \* "none", "open", or "broken" by the peer
  mutex,               \* serialMutex: who holds it
  driver,              \* set_half_duplex: the node drives the line
  inSend,              \* inSend
  events,              \* the events that are in the signaled state
  \* TCP -> 485
  txLen, txIdx,        \* tx_len, tx_idx
  udr, shift,          \* the UART holds a byte in its data / shift register
  txc, udrie, txcie,   \* flag TXC; interrupt enables UDRIE, TXCIE
  msgs,                \* messages received from TCP so far
  timely,              \* history, while the line is held: nothing of an earlier message
                       \* was left when it was taken, and since then neither has the wait
                       \* for the end expired nor that for the very last byte
  \* 485 -> TCP
  rxBuf, rxBuf1,       \* rxbuf up to rx_idx; rxbuf1 up to tx_len
  rxSeen, rxLen,       \* rx_idx2, tx_len of tunnel_recv
  low,                 \* the low byte of rx_idx, loaded before the high one
                       \* (0, as the two before, and rxbuf1 empty, while not used)
  bytes,               \* bytes stored by the receive interrupt so far
  spoilt,              \* history: the session is over, or see Snatched and RecvWrite
  accepted,            \* history of a session not spoilt: bytes in rxbuf when it
                       \* began and stored by the receive interrupt since
  tcpOut               \* history of a session not spoilt: bytes given to TCP

threads == <<ctl, xmit, recv, stop, runCount, sock>>
line    == <<mutex, driver, inSend>>
tx      == <<txLen, txIdx, timely>>
uart    == <<udr, shift, txc, udrie, txcie>>
history == <<spoilt, accepted, tcpOut>>
rx      == <<rxBuf, rxBuf1, rxSeen, rxLen, low, bytes, history>>
vars    == <<threads, line, events, tx, uart, msgs, rx>>

Init ==
  /\ ctl = "create" /\ xmit = "none" /\ recv = "none"
  /\ stop = FALSE /\ runCount = 0 /\ sock = "none"
  /\ mutex = "free" /\ driver = FALSE /\ inSend = FALSE /\ events = {}
  /\ txLen = 0 /\ txIdx = 0 /\ msgs = 0 /\ timely = FALSE
  /\ udr = FALSE /\ shift = FALSE /\ txc = FALSE /\ udrie = FALSE /\ txcie = TRUE
  /\ rxBuf = <<>> /\ rxBuf1 = <<>> /\ rxSeen = 0 /\ rxLen = 0 /\ low = 0 /\ bytes = 0
  /\ spoilt = TRUE /\ accepted = <<>> /\ tcpOut = <<>>

Post(e)    == events' = events \cup {e}
Consume(e) == e \in events /\ events' = events \ {e}

(***************************************************************************)
(* tunnel_ctl                                                              *)
(***************************************************************************)
Create == /\ ctl = "create"
          /\ \/ sock' = "open" /\ ctl' = "accept"
             \/ sock' = "none" /\ ctl' = "error"
          /\ UNCHANGED <<xmit, recv, stop, runCount, line, events, tx, uart, msgs, rx>>

\* NutTcpAccept and the two NutThreadCreate; each of the three may fail.
Accept == /\ ctl = "accept"
          /\ \/ ctl' = "waitRecv" /\ recv' = "start" /\ xmit' = "start"
             \/ ctl' = "error" /\ recv' \in {"none", "start"} /\ UNCHANGED xmit
          /\ UNCHANGED <<stop, runCount, sock, line, events, tx, uart, msgs, rx>>

\* The threads start well within the 1.5 seconds of the two waits.
WaitRecv == /\ ctl = "waitRecv" /\ Consume("recvStarted") /\ ctl' = "waitXmit"
            /\ UNCHANGED <<xmit, recv, stop, runCount, sock, line, tx, uart, msgs, rx>>
WaitXmit == /\ ctl = "waitXmit" /\ Consume("xmitStarted") /\ ctl' = "watch"
            /\ UNCHANGED <<xmit, recv, stop, runCount, sock, line, tx, uart, msgs, rx>>

\* "Do not repeat too often": a created thread starts within the two seconds.
BrokenBoth == ctl = "watch" /\ runCount = 0
Broken     == ctl = "watch" /\ runCount # 2
Slept      == ctl = "error" /\ recv # "start"

Stop == /\ Broken \/ Slept
        /\ stop' = TRUE /\ ctl' = "stopping"
        /\ UNCHANGED <<xmit, recv, runCount, sock, line, events, tx, uart, msgs, rx>>

SomeEnded == runCount < 2
AllEnded  == runCount = 0

Close == /\ ctl = "stopping" /\ AllEnded
         /\ sock' = "none" /\ stop' = FALSE /\ ctl' = "create"
         /\ UNCHANGED <<xmit, recv, runCount, line, events, tx, uart, msgs, rx>>

Ctl == Create \/ Accept \/ WaitRecv \/ WaitXmit \/ Stop \/ Close

(***************************************************************************)
(* The UART, its transmit interrupts, and what both they and the transmit  *)
(* thread do: TunSendChar, with interrupts off.                            *)
(***************************************************************************)
\* Bytes written while the data register is free: one goes on to an idle
\* shift register, one stays.
Unsent   == txLen - txIdx
Burst    == IF Unsent >= 2 /\ ~shift THEN 2 ELSE IF Unsent >= 1 THEN 1 ELSE 0
SendChar == /\ txIdx' = txIdx + Burst
            /\ udrie' = (udrie \/ Burst > 0)
            /\ shift' = (shift \/ Burst > 0)
            /\ udr' = (IF shift THEN Burst = 1 ELSE Burst = 2)
            /\ UNCHANGED <<txLen, timely>>

\* TunTxNext
TxNext == /\ udrie /\ ~udr
          /\ \/ txIdx < txLen /\ SendChar /\ UNCHANGED events
             \/ txIdx >= txLen /\ udrie' = FALSE /\ Post("sendDone")
                /\ UNCHANGED <<tx, udr, shift>>
          /\ UNCHANGED <<threads, line, txc, txcie, msgs, rx>>

\* TunTxSentAll
TxSentAll == /\ txcie /\ txc
             /\ txc' = FALSE /\ txcie' = FALSE /\ Post("txEmpty")
             /\ UNCHANGED <<threads, line, tx, udr, shift, udrie, msgs, rx>>

\* A byte has gone out.  TxNext is served within a byte time.
ShiftOut == /\ shift /\ ~(udrie /\ ~udr)
            /\ shift' = udr /\ udr' = FALSE
            /\ txc' = (txc \/ ~udr)
            /\ UNCHANGED <<threads, line, events, tx, udrie, txcie, msgs, rx>>

(***************************************************************************)
(* TunRxComplete                                                           *)
(***************************************************************************)
HasRoom == Len(rxBuf) < BufSize

\* The event recvDone is left out: it ends a wait that ends by itself.
RxEvents == IF inSend THEN {} ELSE {"rxGotSome"}

\* The byte comes between the loads of rx_idx and the copy: the measure does not
\* count it, or takes it for up to ByteSize bytes, and the buffer is emptied.
Snatched == recv \in {"torn", "copy"}

RxComplete ==
  /\ bytes < MaxBytes
  /\ events' = events \cup RxEvents
  /\ IF ~inSend /\ HasRoom
     THEN /\ rxBuf' = Append(rxBuf, bytes + 1) /\ bytes' = bytes + 1
          /\ spoilt' = (spoilt \/ Snatched)
          /\ accepted' = (IF spoilt' THEN <<>> ELSE Append(accepted, bytes + 1))
     ELSE UNCHANGED <<rxBuf, bytes, spoilt, accepted>>
  /\ UNCHANGED <<threads, line, tx, uart, msgs, rxBuf1, rxSeen, rxLen, low, tcpOut>>

(***************************************************************************)
(* tunnel_xmit: TCP -> 485                                                 *)
(***************************************************************************)
\* The loop's condition, on the way to its first call that blocks.
XmitOn == IF stop THEN "end" ELSE "receive"

\* The run queue is first in first out: tunnel_recv, created before, starts first.
XmitStart == /\ xmit = "start" /\ recv # "start"
             /\ runCount' = runCount + 1 /\ Post("xmitStarted") /\ xmit' = XmitOn
             /\ UNCHANGED <<ctl, recv, stop, sock, line, tx, uart, msgs, rx>>

XmitReceive(n) == /\ xmit = "receive" /\ sock = "open" /\ msgs < MaxMsgs
                  /\ txLen' = n /\ txIdx' = 0 /\ msgs' = msgs + 1
                  /\ xmit' = "lock"
                  /\ UNCHANGED <<ctl, recv, stop, runCount, sock, line, events, timely, uart, rx>>

MutexFree == mutex = "free"

\* Nothing of an earlier message is on its way, and no event of its end either.
Silent == ~udr /\ ~shift /\ ~txc /\ ~udrie /\ {"sendDone", "txEmpty"} \cap events = {}

XmitLock == /\ xmit = "lock" /\ MutexFree
            /\ mutex' = "xmit" /\ driver' = TRUE /\ inSend' = TRUE /\ xmit' = "prime"
            /\ timely' = Silent
            /\ UNCHANGED <<ctl, recv, stop, runCount, sock, events, txLen, txIdx, uart, msgs, rx>>

XmitPrime == /\ xmit = "prime"
             /\ IF udr THEN UNCHANGED <<tx, udr, shift, udrie>> ELSE SendChar
             /\ xmit' = "waitDone"
             /\ UNCHANGED <<ctl, recv, stop, runCount, sock, line, events, txc, txcie, msgs, rx>>

\* The wait ends with the event, whoever it is of, or with its 1.5 seconds, if
\* the line is too slow for the message.
Slow       == txIdx > SlowBytes /\ txIdx < txLen
NoWait     == UNCHANGED <<events, timely>>
Expires    == timely' = FALSE /\ UNCHANGED events
DoneOrLate == (Consume("sendDone") /\ UNCHANGED timely) \/ (Slow /\ Expires)

XmitWaitDone == /\ xmit = "waitDone" /\ DoneOrLate
                /\ xmit' = "enable"
                /\ UNCHANGED <<ctl, recv, stop, runCount, sock, line, txLen, txIdx, uart, msgs, rx>>

XmitEnable == /\ xmit = "enable" /\ txcie' = TRUE /\ xmit' = "waitEmpty"
              /\ UNCHANGED <<ctl, recv, stop, runCount, sock, line, events, tx, udr, shift,
                             txc, udrie, msgs, rx>>

\* wait_empty: ten milliseconds may be too few for several bytes, and at the lowest
\* speeds for one.
EmptyOrLate == \/ Consume("txEmpty") /\ UNCHANGED timely
               \/ (udr \/ txIdx < txLen) /\ UNCHANGED <<events, timely>>
               \/ shift /\ Expires

XmitWaitEmpty == /\ xmit = "waitEmpty"
                 /\ EmptyOrLate
                 /\ xmit' = "release"
                 /\ UNCHANGED <<ctl, recv, stop, runCount, sock, line, txLen, txIdx, uart, msgs, rx>>

XmitRelease == /\ xmit = "release"
               /\ driver' = FALSE /\ inSend' = FALSE /\ mutex' = "free" /\ xmit' = XmitOn
               /\ timely' = FALSE
               /\ UNCHANGED <<ctl, recv, stop, runCount, sock, events, txLen, txIdx, uart, msgs, rx>>

\* Stopped; or an error, or five minutes without data, where it receives.
XmitEnd == /\ xmit \in {"receive", "end"} /\ runCount' = runCount - 1 /\ xmit' = "none"
           /\ UNCHANGED <<ctl, recv, stop, sock, line, events, tx, uart, msgs, rx>>

Xmit == \/ XmitStart \/ XmitLock \/ XmitPrime \/ XmitWaitDone
        \/ XmitEnable \/ XmitWaitEmpty \/ XmitRelease \/ XmitEnd
        \/ \E n \in Lengths : XmitReceive(n)

(***************************************************************************)
(* tunnel_recv: 485 -> TCP                                                 *)
(***************************************************************************)
RecvOn == IF stop THEN "die" ELSE "wait"

RecvStart == /\ recv = "start"
             /\ runCount' = runCount + 1 /\ Post("recvStarted") /\ recv' = RecvOn
             /\ spoilt' = FALSE /\ accepted' = rxBuf /\ tcpOut' = <<>>
             /\ UNCHANGED <<ctl, xmit, stop, sock, line, tx, uart, msgs, rxBuf, rxBuf1,
                            rxSeen, rxLen, low, bytes>>

\* Woken by data, or every half second to look at stop.
RecvWait == /\ recv = "wait"
            /\ \/ Consume("rxGotSome") /\ recv' = "lock"
               \/ stop /\ recv' = "die" /\ UNCHANGED events
            /\ UNCHANGED <<ctl, xmit, stop, runCount, sock, line, tx, uart, msgs, rx>>

\* t->rx_idx in two loads.
LoadLow == low' = Len(rxBuf) % ByteSize
Loaded  == ByteSize * (Len(rxBuf) \div ByteSize) + low

RecvLock == /\ recv = "lock" /\ MutexFree
            /\ mutex' = "recv" /\ driver' = FALSE
            /\ LoadLow /\ recv' = "peek"
            /\ UNCHANGED <<ctl, xmit, stop, runCount, sock, inSend, events, tx, uart, msgs,
                           rxBuf, rxBuf1, rxSeen, rxLen, bytes, history>>

RecvPeek == /\ recv = "peek"
            /\ rxSeen' = Loaded /\ low' = 0 /\ recv' = "gather"
            /\ UNCHANGED <<ctl, xmit, stop, runCount, sock, line, events, tx, uart, msgs,
                           rxBuf, rxBuf1, rxLen, bytes, history>>

\* One turn of the loop: forty milliseconds or less, then rx_idx again ...
RecvGather == /\ recv = "gather"
              /\ LoadLow /\ recv' = "look"
              /\ UNCHANGED <<ctl, xmit, stop, runCount, sock, line, events, tx, uart, msgs,
                             rxBuf, rxBuf1, rxSeen, rxLen, bytes, history>>

RecvLook == /\ recv = "look"
            /\ rxSeen' = Loaded /\ low' = 0
            /\ recv' = IF Loaded = rxSeen THEN "unlock" ELSE "near"
            /\ UNCHANGED <<ctl, xmit, stop, runCount, sock, line, events, tx, uart, msgs,
                           rxBuf, rxBuf1, rxLen, bytes, history>>

\* ... and once more: "near the end of buf, go send!".  The high byte decides.
RecvNear == /\ recv = "near"
            /\ recv' = IF Len(rxBuf) >= Threshold THEN "unlock" ELSE "gather"
            /\ UNCHANGED <<ctl, xmit, stop, runCount, sock, line, events, tx, uart, msgs, rx>>

RecvUnlock == /\ recv = "unlock"
              /\ events' = events \ {"rxGotSome"} /\ mutex' = "free" /\ recv' = "measure"
              /\ rxSeen' = 0
              /\ UNCHANGED <<ctl, xmit, stop, runCount, sock, driver, inSend, tx, uart, msgs,
                             rxBuf, rxBuf1, rxLen, low, bytes, history>>

RecvMeasure == /\ recv = "measure"
               /\ LoadLow /\ recv' = "torn"
               /\ UNCHANGED <<ctl, xmit, stop, runCount, sock, line, events, tx, uart, msgs,
                              rxBuf, rxBuf1, rxSeen, rxLen, bytes, history>>

RecvMeasured == /\ recv = "torn"
                /\ rxLen' = Loaded /\ low' = 0 /\ recv' = "copy"
                /\ UNCHANGED <<ctl, xmit, stop, runCount, sock, line, events, tx, uart, msgs,
                               rxBuf, rxBuf1, rxSeen, bytes, history>>

\* With interrupts off: copy as many bytes as were measured, whatever lies behind
\* those received (0), and empty the buffer.
Junk        == 0
Copied      == [i \in 1 .. rxLen |-> IF i <= Len(rxBuf) THEN rxBuf[i] ELSE Junk]
KeepBuffer  == rxBuf
EmptyBuffer == <<>>

RecvCopy == /\ recv = "copy"
            /\ rxBuf1' = Copied /\ rxBuf' = EmptyBuffer
            /\ recv' = "write"
            /\ UNCHANGED <<ctl, xmit, stop, runCount, sock, line, events, tx, uart, msgs,
                           rxSeen, rxLen, low, bytes, history>>

\* The whole buffer is written.
RecvWritten == /\ recv = "write" /\ sock = "open"
               /\ tcpOut' = (IF spoilt THEN <<>> ELSE tcpOut \o rxBuf1)
               /\ rxBuf1' = <<>> /\ rxLen' = 0 /\ recv' = RecvOn
               /\ UNCHANGED <<ctl, xmit, stop, runCount, sock, line, events, tx, uart, msgs,
                              rxBuf, rxSeen, low, bytes, spoilt, accepted>>

\* "if( sent < tx_len )": what is moved to the front and written next is not the
\* rest but the last bytes of the buffer, as many as have been sent.
Rest(sent) == SubSeq(rxBuf1, rxLen - sent + 1, rxLen)

Spoil == spoilt' = TRUE /\ accepted' = <<>> /\ tcpOut' = <<>>

RecvShort(sent) ==
  /\ recv = "write" /\ sock = "open"
  /\ rxBuf1' = Rest(sent) /\ rxLen' = sent
  /\ Spoil
  /\ UNCHANGED <<threads, line, events, tx, uart, msgs, rxBuf, rxSeen, low, bytes>>

RecvFailed == /\ recv = "write" /\ sock # "open"
              /\ rxBuf1' = <<>> /\ rxLen' = 0 /\ recv' = "die"
              /\ Spoil
              /\ UNCHANGED <<ctl, xmit, stop, runCount, sock, line, events, tx, uart, msgs,
                             rxBuf, rxSeen, low, bytes>>

RecvWrite == RecvWritten \/ RecvFailed \/ \E sent \in 0 .. rxLen - 1 : RecvShort(sent)

RecvDie == /\ recv = "die" /\ runCount' = runCount - 1 /\ recv' = "none"
           /\ Spoil
           /\ UNCHANGED <<ctl, xmit, stop, sock, line, events, tx, uart, msgs, rxBuf, rxBuf1,
                          rxSeen, rxLen, low, bytes>>

Recv == \/ RecvStart \/ RecvWait \/ RecvLock \/ RecvPeek \/ RecvGather
        \/ RecvLook \/ RecvNear \/ RecvUnlock \/ RecvMeasure \/ RecvMeasured \/ RecvCopy
        \/ RecvWrite \/ RecvDie

\* The client goes away.
PeerClose == /\ sock = "open" /\ ctl # "accept" /\ sock' = "broken"
             /\ UNCHANGED <<ctl, xmit, recv, stop, runCount, line, events, tx, uart, msgs, rx>>

Interrupt == TxNext \/ TxSentAll \/ RxComplete
Next == Ctl \/ Xmit \/ Recv \/ Interrupt \/ ShiftOut \/ PeerClose

\* Threads that can run do, the UART never rests while it has something to do, and
\* the five minutes of the socket timeouts end.
Spec == /\ Init /\ [][Next]_vars
        /\ WF_vars(Ctl) /\ WF_vars(Xmit) /\ WF_vars(Recv)
        /\ WF_vars(TxNext \/ TxSentAll \/ ShiftOut)

(***************************************************************************)
(* Properties.                                                             *)
(***************************************************************************)
Sending   == {"prime", "waitDone", "enable", "waitEmpty", "release"}
Gathering == {"peek", "gather", "look", "near", "unlock"}

ControlOK == /\ ctl \in {"create", "accept", "error", "waitRecv", "waitXmit", "watch", "stopping"}
             /\ xmit \in {"none", "start", "receive", "lock", "end"} \cup Sending
             /\ recv \in {"none", "start", "wait", "lock", "measure", "torn",
                          "copy", "write", "die"} \cup Gathering
             /\ sock \in {"none", "open", "broken"} /\ mutex \in {"free", "xmit", "recv"}

TxOK == /\ txLen \in Lengths \cup {0} /\ txIdx \in 0 .. txLen /\ msgs \in 0 .. MaxMsgs
        /\ udr \in BOOLEAN /\ shift \in BOOLEAN /\ txc \in BOOLEAN
        /\ udrie \in BOOLEAN /\ txcie \in BOOLEAN /\ timely \in BOOLEAN
RxOK == /\ rxBuf \in Seq(Nat) /\ Len(rxBuf) <= BufSize
        /\ rxBuf1 \in Seq(Nat) /\ rxSeen \in Nat /\ rxLen \in Nat
        /\ low \in 0 .. ByteSize - 1 /\ bytes \in Nat
        /\ spoilt \in BOOLEAN /\ accepted \in Seq(Nat) /\ tcpOut \in Seq(Nat)
TypeOK == /\ ControlOK /\ TxOK /\ RxOK
          /\ stop \in BOOLEAN /\ runCount \in 0 .. 2
          /\ driver \in BOOLEAN /\ inSend \in BOOLEAN
          /\ events \subseteq {"recvStarted", "xmitStarted", "sendDone", "txEmpty",
                              "rxGotSome"}

\* No thread of a finished session is left when the next one is set up: none
\* uses a socket that was closed (stop, runCount).
SessionsDontOverlap ==
  sock = "none" => xmit = "none" /\ recv = "none"

\* The line is driven only by the transmit thread while it holds serialMutex,
\* and received bytes are ignored meanwhile.
DriverOwned == driver => mutex = "xmit" /\ inSend

\* A message that finds the line silent, ends within 1.5 seconds and its last byte
\* within ten milliseconds is on the line whole before the driver is released,
\* however interrupts and events interleave; what an expired wait left behind is
\* what the next message finds (tunnel_xmit, wait_empty).
WholeMessage == [][driver /\ ~driver' /\ timely => txIdx = txLen /\ ~udr /\ ~shift]_vars

\* Every byte stored in a session reaches TCP, once and in order, unless one
\* comes between the measure of the buffer and the copy, or TCP does not take a
\* buffer whole (tunnel_recv, TunRxComplete).
InFlight == IF recv = "write" THEN rxBuf1 ELSE <<>>
Relayed  == ~spoilt => tcpOut \o InFlight \o rxBuf = accepted

\* When a client is gone both threads end and the tunnel is set up again.
Reaccepts == sock = "broken" ~> ctl = "create"

\* What makes DriverOwned and SessionsDontOverlap inductive.
Alive(pc) == IF pc \in {"none", "start"} THEN 0 ELSE 1

MutexHeld == /\ mutex = "xmit" <=> xmit \in Sending
             /\ mutex = "recv" <=> recv \in Gathering
             /\ driver <=> mutex = "xmit"
             /\ inSend <=> mutex = "xmit"

Counted == runCount = Alive(xmit) + Alive(recv)

\* The start event of the transmit thread, unlike that of the receive thread,
\* never outlives its session: WaitXmit is sure that both have started.
Started == /\ "xmitStarted" \in events => /\ ctl \in {"waitRecv", "waitXmit"}
                                         /\ xmit # "start" /\ recv # "start"
           /\ ctl \in {"watch", "stopping"} => xmit # "start" /\ recv # "start"
           /\ ctl \in {"create", "accept"} => xmit = "none" /\ recv = "none"
           /\ ctl = "error" => xmit = "none"
           /\ ctl = "accept" => sock = "open"

\* A torn measure is less than ByteSize too large.
CopyBounded == recv = "copy" => rxLen < Len(rxBuf) + ByteSize
WriteLength == recv = "write" => rxLen = Len(rxBuf1)

RxInv      == RxOK /\ CopyBounded /\ WriteLength
SessionInv == ControlOK /\ Counted /\ Started /\ SessionsDontOverlap
LineInv    == SessionInv /\ MutexHeld

\* What makes Relayed inductive.
Exact == ~spoilt => /\ recv = "torn"  => low = Len(rxBuf) % ByteSize
                    /\ recv = "copy"  => rxLen = Len(rxBuf)
RelayInv == SessionInv /\ RxInv /\ Exact /\ Relayed

\* What makes WholeMessage inductive: while bytes are left the shift register is
\* busy and no event of the transmission is signaled; afterwards it ends in
\* exactly one of three ways.
Busy   == shift /\ ~txc /\ udrie /\ {"sendDone", "txEmpty"} \cap events = {}
Ending == /\ ~udr /\ ~udrie /\ txIdx = txLen
          /\ \/ shift /\ ~txc /\ "txEmpty" \notin events
             \/ ~shift /\ txc /\ "txEmpty" \notin events
             \/ ~shift /\ ~txc /\ "txEmpty" \in events

Stages == timely =>
          /\ xmit = "prime" => Silent /\ txIdx = 0
          /\ xmit = "waitDone" => Busy \/ (Ending /\ "sendDone" \in events)
          /\ xmit \in {"enable", "waitEmpty"} => Ending /\ "sendDone" \notin events
          /\ xmit = "release" => txIdx = txLen /\ ~udr /\ ~shift
Fresh  == /\ xmit \in {"lock"} \cup Sending => txLen \in Lengths
          /\ xmit = "lock" => txIdx = 0 \/ udrie \/ "sendDone" \in events
WholeInv == LineInv /\ TxOK /\ Fresh /\ Stages

(* What comments say and the code does not do. *)

\* "No more than 10 msec to send it all": a message that the line carries well
\* within the timeouts goes out whole, whatever was sent before it.
ShortWhole == [][driver /\ ~driver' /\ txLen <= SlowBytes
                   => txIdx = txLen /\ ~udr /\ ~shift]_vars

\* "getting all recvd data": nothing stored is lost or doubled on its way to TCP.
NeverSpoilt == recv \notin {"none", "start"} => ~spoilt

\* The copy takes no more than the buffer has been filled with.
Measured == recv = "copy" => rxLen <= Len(rxBuf)
=============================================================================
