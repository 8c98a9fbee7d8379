----------------------------- MODULE ModbusSlave -----------------------------
(***************************************************************************)
(* The serial Modbus slave of the ATmega firmwares (pump_mega32 and        *)
(* one_wire_temp share modbus_pkt.c): the receive interrupt assembles a    *)
(* frame, a 5 ms timer interrupt declares an RTU frame complete after a    *)
(* pause, and the main loop decodes it and starts the reply.  The two      *)
(* interrupts preempt the main loop between any two of its accesses to the *)
(* shared variables, so main is split at each of them; an interrupt        *)
(* handler is one step.                                                    *)
(*                                                                         *)
(* Bytes are abstracted to what the framing tells apart: ':' , the CR LF   *)
(* pair (one element here) and any other byte.  Checksums are perfect: a   *)
(* buffer that is empty, or is ASCII text, never passes the RTU CRC.       *)
(***************************************************************************)
EXTENDS Naturals, Sequences

CONSTANTS MaxRx,     \* MODBUS_MAX_RX_PKT, 25 in the code
          Timeout,   \* modbus_timeout_ms, in 5 ms callouts
          CntMod     \* the event counters wrap: 2^16 in the code

ASSUME SlaveAssumption == /\ MaxRx \in Nat \ {0}
                          /\ Timeout \in Nat \ {0}
                          /\ CntMod \in Nat \ {0}

Byte == {"colon", "crlf", "other"}

VARIABLES
  rxBuf,        \* modbus_rx_buf[0 .. rx_pos-1]
  rxCorrupt,    \* rx_corrupt
  flag,         \* process_rx_packet_flag
  proto,        \* uart_auto_protocol
  timer,        \* modbus_timer, in callouts
  inSend,       \* inSend: set by modbus_start_tx, cleared by the TXC interrupt
  pc,           \* where the main loop is
  verdict,      \* local of main: how modbus_decode_pkt will end
  ret,          \* where main goes on once the frame is answered
  eventCnt,     \* modbus_event_cnt
  crcCnt,       \* modbus_crc_cnt
  exceptCnt,    \* modbus_exceptions_cnt
  \* History, read by no action of the code:
  kind,         \* framing under which the last frame was accepted
  prevKind,     \* ... and the one before it
  encoded,      \* framing of the reply built for the current frame
  replies       \* replies started, modulo CntMod

rx    == <<rxBuf, rxCorrupt, flag, proto, timer, kind, prevKind>>
count == <<eventCnt, crcCnt, exceptCnt, replies>>
main  == <<pc, verdict, ret>>
vars  == <<rx, inSend, main, count, encoded>>

Init == /\ rxBuf = << >> /\ rxCorrupt = FALSE /\ flag = FALSE
        /\ proto = "rtu" /\ timer = 0 /\ inSend = FALSE
        /\ pc = "idle" /\ verdict = "none" /\ ret = "idle"
        /\ eventCnt = 0 /\ crcCnt = 0 /\ exceptCnt = 0 /\ replies = 0
        /\ kind = "none" /\ prevKind = "none" /\ encoded = "none"

Inc(n) == (n + 1) % CntMod

(***************************************************************************)
(* Interrupts.                                                             *)
(***************************************************************************)
IsAsciiFrame(b) == /\ Len(b) > 1
                   /\ b[1] = "colon"
                   /\ b[Len(b)] = "crlf"

\* A frame becomes complete under framing k (history only).
Accepted(k) == IF flag THEN UNCHANGED <<kind, prevKind>>
                       ELSE kind' = k /\ prevKind' = kind

\* A byte that arrives while a reply is being sent, or while a complete frame
\* waits for main, is lost: the handler returns without a state change.
ListeningAlways == ~inSend
Listening == ~inSend /\ ~flag

HasRoom == Len(rxBuf) < MaxRx

RxOverrun ==
  /\ Listening
  /\ ~HasRoom
  /\ rxCorrupt' = TRUE
  /\ UNCHANGED <<rxBuf, flag, proto, timer, kind, prevKind, inSend, main,
                 count, encoded>>

RxByte(b) ==
  /\ Listening
  /\ HasRoom
  /\ timer' = Timeout
  /\ rxBuf' = Append(rxBuf, b)
  /\ IF IsAsciiFrame(rxBuf')
     THEN proto' = "ascii" /\ flag' = TRUE /\ Accepted("ascii")
     ELSE UNCHANGED <<proto, flag, kind, prevKind>>
  /\ UNCHANGED <<rxCorrupt, inSend, main, count, encoded>>

\* modbus_timeout_occured
TimeoutOccured ==
  IF rxCorrupt
  THEN rxBuf' = << >> /\ UNCHANGED <<proto, flag, kind, prevKind>>
  ELSE /\ proto' = "rtu" /\ flag' = TRUE /\ Accepted("rtu")
       /\ UNCHANGED rxBuf

TimerRuns == timer > 0

TimerCallout ==
  /\ TimerRuns
  /\ timer' = IF timer > 1 THEN timer - 1 ELSE 0
  /\ IF timer' = 0 THEN TimeoutOccured
                   ELSE UNCHANGED <<rxBuf, proto, flag, kind, prevKind>>
  /\ UNCHANGED <<rxCorrupt, inSend, main, count, encoded>>

\* The transmit-complete interrupt (module UartTx has the detail).
TxComplete == /\ inSend
              /\ inSend' = FALSE
              /\ UNCHANGED <<rx, main, count, encoded>>

(***************************************************************************)
(* Main loop: modbus_process_rx.                                           *)
(***************************************************************************)
Goto(l1, l2) == pc = l1 /\ pc' = l2

Poll == /\ pc = "idle" /\ flag
        /\ pc' = IF rxCorrupt THEN "clearPos" ELSE "askRtu"
        /\ UNCHANGED <<rx, inSend, verdict, ret, count, encoded>>

\* What decoding the buffer under framing p may find.
Verdicts(p) ==
  {"notForUs", "badCrc"} \cup
  (IF p = "rtu" /\ (rxBuf = << >> \/ rxBuf[1] = "colon")
   THEN {} ELSE {"ok", "exception"})

\* The "if" of modbus_process_rx for framing p, which continues at next.
Ask(p, here, next) ==
  /\ pc = here
  /\ IF proto # p
     THEN pc' = next /\ UNCHANGED <<verdict, ret, crcCnt>>
     ELSE \E v \in Verdicts(p) :
            \/ v = "notForUs" /\ pc' = next /\ UNCHANGED <<verdict, ret, crcCnt>>
            \/ /\ v = "badCrc" /\ pc' = next
               /\ crcCnt' = Inc(crcCnt) /\ UNCHANGED <<verdict, ret>>
            \/ /\ v \in {"ok", "exception"}
               /\ pc' = "encodeRtu" /\ verdict' = v /\ ret' = next
               /\ UNCHANGED crcCnt
  /\ UNCHANGED <<rx, inSend, eventCnt, exceptCnt, replies, encoded>>

AskRtu   == Ask("rtu", "askRtu", "askAscii")
AskAscii == Ask("ascii", "askAscii", "clearPos")

\* modbus_send_packet reads uart_auto_protocol twice, once per framing.
EncodeRtu == /\ Goto("encodeRtu", "encodeAscii")
             /\ encoded' = IF proto = "rtu" THEN "rtu" ELSE "raw"
             /\ UNCHANGED <<rx, inSend, verdict, ret, count>>

EncodeAscii == /\ Goto("encodeAscii", "startTx")
               /\ encoded' = IF proto = "ascii" THEN "ascii" ELSE encoded
               /\ UNCHANGED <<rx, inSend, verdict, ret, count>>

StartTx == /\ Goto("startTx", "count")
           /\ inSend' = TRUE
           /\ replies' = Inc(replies)
           /\ UNCHANGED <<rx, verdict, ret, eventCnt, crcCnt, exceptCnt,
                          encoded>>

\* The counter increments that follow modbus_send_packet; an error reply
\* returns before the event is counted.
Tally == /\ eventCnt' = IF verdict = "ok" THEN Inc(eventCnt) ELSE eventCnt
         /\ exceptCnt' = IF verdict = "exception" THEN Inc(exceptCnt) ELSE exceptCnt

RetryDecode == "askRtu"
AfterReply  == ret

Count == /\ Goto("count", AfterReply)
         /\ Tally
         /\ verdict' = "none"
         /\ UNCHANGED <<rx, inSend, ret, crcCnt, replies, encoded>>

ClearPos == /\ Goto("clearPos", "clearCorrupt")
            /\ rxBuf' = << >>
            /\ UNCHANGED <<rxCorrupt, flag, proto, timer, kind, prevKind,
                           inSend, verdict, ret, count, encoded>>

ClearCorruptForgotten == /\ Goto("clearCorrupt", "clearFlag")
                         /\ UNCHANGED <<rx, inSend, verdict, ret, count, encoded>>
ClearCorrupt == /\ Goto("clearCorrupt", "clearFlag")
                /\ rxCorrupt' = FALSE
                /\ UNCHANGED <<rxBuf, flag, proto, timer, kind, prevKind,
                               inSend, verdict, ret, count, encoded>>

ClearFlag == /\ Goto("clearFlag", "idle")
             /\ flag' = FALSE
             /\ encoded' = "none"
             /\ UNCHANGED <<rxBuf, rxCorrupt, proto, timer, kind, prevKind,
                            inSend, verdict, ret, count>>

Main == \/ Poll \/ AskRtu \/ AskAscii \/ EncodeRtu \/ EncodeAscii
        \/ StartTx \/ Count \/ ClearPos \/ ClearCorrupt \/ ClearFlag

Interrupt == \/ \E b \in Byte : RxByte(b)
             \/ RxOverrun
             \/ TimerCallout
             \/ TxComplete

Next == Main \/ Interrupt

(***************************************************************************)
(* The processor always runs: main proceeds, the timer ticks, a reply that *)
(* was started is sent.                                                    *)
(***************************************************************************)
Fairness == WF_vars(Main) /\ WF_vars(TimerCallout) /\ WF_vars(TxComplete)

Spec == Init /\ [][Next]_vars /\ Fairness
(***************************************************************************)
(* Properties.                                                             *)
(***************************************************************************)
Label == {"idle", "askRtu", "askAscii", "encodeRtu", "encodeAscii", "startTx",
          "count", "clearPos", "clearCorrupt", "clearFlag"}

\* Every variable keeps its type; in particular the frame never outgrows
\* modbus_rx_buf (modbus_rx_byte) and the timer stays within one timeout.
TypeOK ==
  /\ rxBuf \in Seq(Byte) /\ Len(rxBuf) <= MaxRx
  /\ rxCorrupt \in BOOLEAN /\ flag \in BOOLEAN /\ inSend \in BOOLEAN
  /\ proto \in {"rtu", "ascii"} /\ timer \in 0 .. Timeout
  /\ pc \in Label /\ ret \in Label
  /\ verdict \in {"none", "ok", "exception"}
  /\ eventCnt \in 0 .. CntMod - 1 /\ crcCnt \in 0 .. CntMod - 1
  /\ exceptCnt \in 0 .. CntMod - 1 /\ replies \in 0 .. CntMod - 1
  /\ kind \in {"none", "rtu", "ascii"} /\ prevKind \in {"none", "rtu", "ascii"}
  /\ encoded \in {"none", "rtu", "ascii", "raw"}

\* Main is between the test of process_rx_packet_flag and its reset.
Handling == pc # "idle"

Decoding == pc \in {"askRtu", "askAscii", "encodeRtu", "encodeAscii",
                    "startTx", "count"}

\* The frame main is decoding and answering is never touched by the receive
\* or the timer interrupt, although they preempt it (modbus_process_rx holds
\* no lock: process_rx_packet_flag alone protects modbus_rx_buf).
FrameUntouched == [][Decoding => rxBuf' = rxBuf /\ rxCorrupt' = rxCorrupt]_vars

\* When main gives the buffer back the receiver starts from nothing: no byte
\* or overrun of another frame slipped in between the three assignments that
\* end modbus_process_rx.
FreshOnRelease == [][flag /\ ~flag' => rxBuf' = << >> /\ ~rxCorrupt']_vars

\* A frame is handed over as RTU only after a full pause on the line: the
\* timer has run out since the last byte was stored.
RtuFrameIsQuiet == flag /\ proto = "rtu" => timer = 0

\* The only way main is given an empty RTU frame is an ASCII frame answered
\* before its own timeout: modbus_rx_byte starts the timer for the last byte
\* of an ASCII frame as for any other and nobody stops it.
EmptyFrameFollowsAscii ==
  flag /\ ~rxCorrupt /\ rxBuf = << >> /\ ~Handling
    => kind = "rtu" /\ prevKind = "ascii"

\* A reply is framed like its request; only the reply to an ASCII request
\* whose RTU timeout fired while main was busy with it may be framed otherwise
\* (modbus_send_packet reads uart_auto_protocol again).
ReplyFraming ==
  pc \in {"startTx", "count"} =>
    encoded = kind \/ (kind = "ascii" /\ timer = 0)

\* Every reply that was started is counted once, as an event or as an
\* exception, across the wrap of the 16-bit counters.
RepliesCounted ==
  (eventCnt + exceptCnt + (IF pc = "count" THEN 1 ELSE 0)) % CntMod = replies

\* The slave keeps the promise of RequestReply: one frame at a time, at most
\* one reply per frame, and it always comes back to listening.
Promise == INSTANCE RequestReply
             WITH phase    <- IF flag THEN "handling" ELSE "listening",
                  answered <- /\ flag /\ encoded # "none"
                              /\ pc \notin {"encodeRtu", "encodeAscii", "startTx"}

\* The promise as a property of this module's behaviours.
KeepsPromise == Promise!Spec

\* Why the promise is kept.  While main handles a frame the flag stays up, a
\* frame is decoded only if it was not overrun, the three final assignments
\* build on each other, and an RTU timeout has stopped the timer for good.
ReleaseOrder ==
  /\ Handling => flag
  /\ Decoding => ~rxCorrupt
  /\ pc \in {"clearCorrupt", "clearFlag"} => rxBuf = << >>
  /\ pc = "clearFlag" => ~rxCorrupt
  /\ flag /\ proto = "rtu" => timer = 0

Replying == pc \in {"encodeRtu", "encodeAscii", "startTx", "count"}

\* ... and the framing of an accepted frame can only turn to RTU, so that the
\* frame answered under the first if of modbus_process_rx is not answered
\* again under the second.
OneReply ==
  /\ ret \in {"idle", "askAscii", "clearPos"}
  /\ pc \in {"idle", "askRtu", "encodeRtu"} => encoded = "none"
  /\ pc \in {"encodeAscii", "startTx", "count"} => encoded # "none"
  /\ Replying => ret \in {"askAscii", "clearPos"}
  /\ Replying /\ ret = "askAscii" => proto = "rtu"
  /\ pc = "askAscii" /\ encoded # "none" => proto = "rtu"

IndInv == TypeOK /\ ReleaseOrder /\ OneReply

\* Why replies are framed like their requests: until main releases a frame its
\* framing turns only from ASCII to RTU, when its own timeout fires; what
\* modbus_send_packet encoded under its first test it does not under the second.
Framing ==
  /\ flag => kind = proto \/ (kind = "ascii" /\ timer = 0)
  /\ pc = "encodeAscii" => \/ encoded = "rtu" /\ proto = "rtu"
                           \/ encoded = "raw" /\ kind = "ascii"
  /\ ReplyFraming

\* "just ignore packet, start over" (modbus_timeout_occured on an overrun):
\* a slave that lost a frame to an overrun can take frames again.  Stated for
\* a master that keeps sending RTU frames and leaves the pauses between them.
StartsOver == rxCorrupt ~> ~rxCorrupt

RtuSpec == /\ Init
           /\ [][Next /\ \A b \in {"colon", "crlf"} : ~RxByte(b)]_vars
           /\ Fairness /\ WF_vars(RxByte("other"))
=============================================================================
