------------------------------- MODULE UartTx -------------------------------
(***************************************************************************)
(* Transmission of a reply by uart.c: the main loop switches the RS485     *)
(* driver on, enables the UDRE and TXC interrupts and primes the           *)
(* transmitter by calling the routine the UDRE interrupt also calls; the   *)
(* TXC interrupt switches the driver off.                                  *)
(*                                                                         *)
(* The UART has a holding and a shift register: UDRE says that the holding *)
(* register is empty, the TXC flag that a byte was shifted out and no      *)
(* other waited.  A pending interrupt is served before main's next         *)
(* instruction, UDRE before TXC, and well before the byte time is over.    *)
(* After a return from interrupt main executes one instruction first, but  *)
(* most handlers end with sei and let the next one in before they return.  *)
(* Other handlers interfere: log_event writes the EEPROM between cli and   *)
(* sei, the timer handler is "too long with interrupts off" and writes the *)
(* EEPROM after its sei, with every other interrupt served meanwhile.      *)
(* Main primes the transmitter within a byte time unless one of these runs.*)
(***************************************************************************)
EXTENDS Naturals, Sequences

CONSTANTS Lengths,       \* possible values of tx_len
          Interference   \* the other interrupts that happen, see OtherInterrupts

\* A handler that is over within a byte time (a received byte, most timer
\* ticks); one that is not, with interrupts masked; one that enabled them again.
OtherInterrupts == {"short", "masked", "nested"}

ASSUME UartAssumption == /\ Lengths \subseteq Nat \ {0}
                         /\ Interference \subseteq OtherInterrupts

None == 0                \* an empty register; byte number i of the reply is i

VARIABLES
  txLen,         \* tx_len
  pos,           \* send_buf_pos
  driver,        \* the pin HALF_DUPLEX_PIN, and with it inSend
  udrie, txcie,  \* interrupt enables in UCSRB
  txc,           \* the TXC flag of UCSRA
  hold, shift,   \* the transmitter's two registers
  busy,          \* a long handler runs: "masked", or "nested" after its sei
  slack,         \* main is to execute one instruction before any interrupt
  txPc,          \* main loop inside modbus_start_tx
  cur,           \* send_buf_pos as main's register holds it
  wire,          \* history: bytes put on the line since the driver went on,
                 \* as long as the reply is not raced
  raced,         \* history: see Overtaken
  calm           \* history: no other handler ran since the driver went on

regs == <<hold, shift>>
cpu  == <<busy, slack>>
hist == <<wire, raced, calm>>
uartVars == <<txLen, pos, driver, udrie, txcie, txc, regs, cpu, txPc, cur, hist>>

UartInit == /\ txLen = 0 /\ pos = 0 /\ driver = FALSE
            /\ udrie = FALSE /\ txcie = FALSE /\ txc = FALSE
            /\ hold = None /\ shift = None
            /\ busy = "no" /\ slack = FALSE /\ txPc = "idle" /\ cur = 0
            /\ wire = << >> /\ raced = FALSE /\ calm = TRUE

UDRE == hold = None

UdrePending == busy # "masked" /\ udrie /\ UDRE
TxcPending  == busy # "masked" /\ txcie /\ txc
Pending     == UdrePending \/ TxcPending

\* After a return from interrupt, unless another interrupt came after the sei
\* of the handler; an idle main has other instructions to spend.
Return == slack' \in {FALSE, txPc # "idle" /\ busy = "no"} /\ UNCHANGED busy

(***************************************************************************)
(* Hardware and the rest of the firmware.                                  *)
(***************************************************************************)
Priming == txPc \in {"test", "clear", "write", "advance", "disable"}

ShiftOut == /\ shift # None /\ ~slack /\ ~Pending
            /\ Priming => busy # "no"
            /\ shift' = hold /\ hold' = None
            /\ txc' = (txc \/ hold = None)
            /\ wire' = (IF raced THEN wire ELSE Append(wire, shift))
            /\ UNCHANGED <<txLen, pos, driver, udrie, txcie, cpu, txPc, cur, raced, calm>>

\* Received bytes and timer ticks have priority over the transmitter.
ShortHandler == /\ "short" \in Interference /\ busy = "no" /\ ~slack
                /\ Return /\ calm' = (calm /\ ~driver)
                /\ UNCHANGED <<txLen, pos, driver, udrie, txcie, txc, regs, txPc, cur,
                                wire, raced>>

LongHandler == /\ busy = "no" /\ ~slack
               /\ busy' \in Interference \ {"short"}
               /\ calm' = (calm /\ ~driver)
               /\ UNCHANGED <<txLen, pos, driver, udrie, txcie, txc, regs, slack, txPc, cur,
                              wire, raced>>

EndHandler == /\ busy # "no"
              /\ busy = "nested" => ~Pending
              /\ busy' = "no" /\ slack' \in {FALSE, txPc # "idle"}
              /\ UNCHANGED <<txLen, pos, driver, udrie, txcie, txc, regs, txPc, cur, hist>>

\* Writing UDR: straight to the shift register if that is idle; ignored if the
\* holding register is occupied.
Holds(b)  == IF hold = None /\ shift # None THEN b ELSE hold
Shifts(b) == IF hold = None /\ shift = None THEN b ELSE shift

(***************************************************************************)
(* Interrupts.  The UDRE handler runs the loop of send_next_byte: it fills *)
(* the free registers and, if the reply is exhausted before they are full, *)
(* clears the TXC flag once more and disables itself.                      *)
(***************************************************************************)
\* What is left of the reply: the test send_buf_pos >= tx_len.
LeftShort == IF pos + 1 < txLen THEN txLen - pos - 1 ELSE 0
LeftPast  == IF pos <= txLen THEN txLen - pos + 1 ELSE 0
Left == IF pos < txLen THEN txLen - pos ELSE 0

\* "reset transmit complete flag for RS485 half-duplex logic"
KeepTxc  == UNCHANGED txc
ResetTxc == txc' = FALSE

\* The handler comes between main's test of UDRE and its store of send_buf_pos.
Overtaken == txPc \in {"clear", "write", "advance"}

IsrUdre ==
  /\ UdrePending /\ ~slack
  /\ LET room == IF shift = None THEN 2 ELSE 1
         n    == IF Left < room THEN Left ELSE room
     IN  /\ shift' = IF shift = None /\ n > 0 THEN pos + 1 ELSE shift
         /\ hold'  = IF n = room THEN pos + n ELSE None
         /\ pos'   = pos + n
         /\ udrie' = (n = room)
  /\ ResetTxc
  /\ raced' = (raced \/ Overtaken)
  /\ Return
  /\ UNCHANGED <<txLen, driver, txcie, txPc, cur, wire, calm>>

IsrTxc == /\ TxcPending /\ ~UdrePending /\ ~slack
          /\ txcie' = FALSE /\ txc' = FALSE
          /\ driver' = FALSE
          /\ Return
          /\ UNCHANGED <<txLen, pos, udrie, regs, txPc, cur, hist>>

(***************************************************************************)
(* Main loop: modbus_start_tx, then send_next_byte step by step.           *)
(***************************************************************************)
Runs(here, next) == /\ busy = "no" /\ (slack \/ ~Pending)
                    /\ slack' = FALSE /\ UNCHANGED busy
                    /\ txPc = here /\ txPc' \in next

\* uart_set_send(1).  The previous reply is over: a request is received only
\* while inSend = 0.  If it was raced the UART may still hold some of it.
Dirty == hold # None \/ shift # None \/ udrie \/ txcie
StartSend == /\ Runs("idle", {"reset"}) /\ ~driver
             /\ txLen' \in Lengths
             /\ driver' = TRUE /\ wire' = << >> /\ raced' = Dirty /\ calm' = TRUE
             /\ UNCHANGED <<pos, udrie, txcie, txc, regs, cur>>

ResetPos == /\ Runs("reset", {"enable"})
            /\ pos' = 0
            /\ UNCHANGED <<txLen, driver, udrie, txcie, txc, regs, cur, hist>>

EnableNoTxc == /\ Runs("enable", {"test"})
               /\ udrie' = TRUE
               /\ UNCHANGED <<txLen, pos, driver, txcie, txc, regs, cur, hist>>
Enable == /\ Runs("enable", {"test"})
          /\ udrie' = TRUE /\ txcie' = TRUE
          /\ UNCHANGED <<txLen, pos, driver, txc, regs, cur, hist>>

TestUdre == /\ Runs("test", IF UDRE THEN {"clear"} ELSE {"idle"})
            /\ UNCHANGED <<txLen, pos, driver, udrie, txcie, txc, regs, cur, hist>>

ClearTxc == /\ Runs("clear", IF pos >= txLen THEN {"disable"} ELSE {"write"})
            /\ ResetTxc /\ cur' = pos
            /\ UNCHANGED <<txLen, pos, driver, udrie, txcie, regs, hist>>

Disable == /\ Runs("disable", {"idle"})
           /\ udrie' = FALSE
           /\ UNCHANGED <<txLen, pos, driver, txcie, txc, regs, cur, hist>>

\* send_buf_pos is not volatile: the compiler may load it once for the test, the
\* index and the increment, or again for each.
WriteByte == /\ Runs("write", {"advance"})
             /\ \E p \in {cur, pos} :
                  hold' = Holds(p + 1) /\ shift' = Shifts(p + 1)
             /\ UNCHANGED <<txLen, pos, driver, udrie, txcie, txc, cur, hist>>

Advance == /\ Runs("advance", {"test"})
           /\ pos' \in {cur + 1, pos + 1}
           /\ UNCHANGED <<txLen, driver, udrie, txcie, txc, regs, cur, hist>>

Transmit == \/ StartSend \/ ResetPos \/ Enable \/ TestUdre \/ ClearTxc
            \/ Disable \/ WriteByte \/ Advance

UartNext == \/ Transmit \/ IsrUdre \/ IsrTxc
            \/ ShiftOut \/ ShortHandler \/ LongHandler \/ EndHandler

\* Main and the hardware go on; an interrupt that is pending again and again
\* is served; every handler ends.
UartFairness == /\ WF_uartVars(Transmit) /\ SF_uartVars(IsrUdre) /\ SF_uartVars(IsrTxc)
                /\ SF_uartVars(ShiftOut) /\ WF_uartVars(EndHandler)

UartSpec == UartInit /\ [][UartNext]_uartVars /\ UartFairness

(***************************************************************************)
(* Properties.                                                             *)
(***************************************************************************)
\* Every variable keeps its type.
UartTypeOK ==
  /\ txLen \in Lengths \cup {0} /\ pos \in Nat /\ cur \in Nat
  /\ driver \in BOOLEAN /\ udrie \in BOOLEAN /\ txcie \in BOOLEAN
  /\ txc \in BOOLEAN /\ slack \in BOOLEAN
  /\ busy \in OtherInterrupts \cup {"no"}
  /\ hold \in Nat /\ shift \in Nat
  /\ txPc \in {"idle", "reset", "enable", "test", "clear", "write", "advance", "disable"}
  /\ wire \in Seq(Nat) /\ raced \in BOOLEAN /\ calm \in BOOLEAN

\* Main and the UDRE interrupt both test and move send_buf_pos and may each move
\* it for the same byte, yet whatever other handlers run, main never sends more
\* than the one byte of modbus_tx_buf behind the reply (send_next_byte).
WithinReply == txPc = "write" => pos <= txLen

\* The transmitter is a half-duplex line as HalfDuplexLine describes it - driver
\* on, every byte of the reply once and in order, and only then driver off -
\* whatever other handlers run and whenever they enable interrupts, for every
\* reply in which the UDRE interrupt does not come between main's test of UDRE
\* and its store of send_buf_pos.  What a raced reply left behind spoils only
\* a reply that is begun before the UART is at rest (send_next_byte, UART_ISR_TX).
Line == INSTANCE HalfDuplexLine WITH length <- txLen, line <- wire, calm <- ~raced
KeepsLine == Line!Spec

\* The driver is released in the end when no other handler runs during the
\* reply, whatever had disturbed the replies before it.
CalmSendingEnds == driver ~> ~driver \/ ~calm

(***************************************************************************)
(* What the code does not keep.                                            *)
(***************************************************************************)
\* "If we are sending, ignore incoming" (UART_ISR_RX): incoming bytes are only
\* ignored while a reply is being sent, which comes to an end.
SendingEnds == driver ~> ~driver

\* "for RS485 half-duplex logic" (send_next_byte): the driver is not released
\* while the UART still holds a byte.
DriverCoversWire == ~driver => hold = None /\ shift = None

(***************************************************************************)
(* The inductive invariants.                                               *)
(***************************************************************************)
\* Two increments for one byte take send_buf_pos one past the reply, and never
\* further: the next test ends the loop.
PosBound == /\ txPc \in {"enable", "test", "clear"} => pos <= txLen + 1
            /\ txPc \in {"write", "advance"} => cur < txLen /\ pos <= txLen
BoundInv == UartTypeOK /\ PosBound

Empty == hold = None /\ shift = None

\* The rest of LineInv is about a reply that is not raced.  The driver is off:
\* the transmitter is at rest, and nothing is left for main to write.
OffRest == ~driver => /\ Empty /\ ~udrie /\ ~txcie
                      /\ txPc \notin {"reset", "enable", "write", "advance"}
                      /\ txPc \in {"test", "clear"} => pos >= txLen

\* The driver is on: the transmitter is at rest until main enables it.
OnRest == driver /\ txPc \in {"reset", "enable"} =>
            /\ Empty /\ ~udrie /\ ~txcie /\ wire = << >>
            /\ txPc = "enable" => pos = 0

\* Main is about to write the byte at send_buf_pos, or has written it.
InLoop == /\ txPc = "clear" => hold = None
          /\ txPc \in {"write", "advance"} => cur = pos
          /\ txPc = "write"   => hold = None
          /\ txPc = "disable" => pos >= txLen

\* The TXC flag is up while a byte is on its way only if main has just written
\* it behind an empty transmitter; the UDRE interrupt, which is enabled, or
\* main's next pass clears the flag again.
FlagTells == driver /\ txc /\ txPc \notin {"reset", "enable"} =>
               /\ hold = None
               /\ shift = None \/ (udrie /\ txPc \in {"advance", "test", "clear"})

\* Between send_buf_pos, the UART and the line no byte is lost or repeated, and
\* the UDRE interrupt is off only when the reply is exhausted.
Waiting == (IF shift = None THEN 0 ELSE 1) + (IF hold = None THEN 0 ELSE 1)
Sent    == IF txPc = "advance" THEN pos + 1 ELSE pos
Accounted == driver /\ txPc \notin {"reset", "enable"} =>
  /\ Len(wire) + Waiting = Sent /\ Sent <= txLen
  /\ ~udrie => pos = txLen
  /\ shift # None => shift = Len(wire) + 1
  /\ hold # None  => hold = Len(wire) + 2 /\ shift # None

Regular == OffRest /\ OnRest /\ InLoop /\ FlagTells /\ Accounted
LineInv == BoundInv /\ (~raced => Regular)
=============================================================================
