------------------------------ MODULE Settings ------------------------------
(***************************************************************************)
(* The settings of pump_mega32 that survive a restart (modbus_reg.c,       *)
(* ui_menu.c, temp_sens_eeprom.c) and the event log that shares the EEPROM *)
(* with them (errlog.c).  The main loop changes a setting and asks for a   *)
(* write; the five-second tick, called by the timer interrupt after its    *)
(* sei (timer0.c), collects the requests and writes the cells one by one.  *)
(* The main loop stands still meanwhile, but interrupts nest: one more     *)
(* timer tick may come between any two steps of EEPROM_write, and once in  *)
(* twelve hours it logs an event, with five EEPROM writes of its own.      *)
(* Power may fail at any time.                                             *)
(*                                                                         *)
(* A log record is one cell, as is the sensor map; an interrupted write of *)
(* the EEPROM leaves the old value or the new one.  Locals that are dead   *)
(* keep their first value.                                                 *)
(***************************************************************************)
EXTENDS Naturals, Sequences

CONSTANTS Addrs,      \* Modbus addresses that are set
          Los, His,   \* low and high bytes of the speeds that are set
          FactoryAddr, FactoryLo, FactoryHi,  \* the settings after reset
          Erased,     \* a byte of erased EEPROM, 0xFF
          Delay,      \* EEPROM_TIMEOUT_SEC, in calls of the tick
          Slots,      \* EEPROM_LOG_N_RECORS
          MaxEvents   \* bound on the events of one uptime

ASSUME SettingsAssumption ==
  /\ FactoryAddr \in Addrs /\ FactoryLo \in Los /\ FactoryHi \in His
  /\ {0, Erased} \cap (Addrs \cup Los \cup His) = {} /\ Erased # 0
  /\ Delay \in Nat /\ MaxEvents \in Nat /\ Slots \in Nat \ {0}

Factory == <<FactoryAddr, FactoryLo, FactoryHi>>

Flags == {"map", "485"}          \* EEPROM_WR_MAP, EEPROM_WR_485
Cells == {"valid", "addr", "lo", "hi", "map"}
Bytes == {0, 1, Erased} \cup Addrs \cup Los \cup His

VARIABLES
  addr, lo, hi,   \* modbus_our_address and the bytes of uart_speed
  request,        \* eeprom_write_request
  timer,          \* eeprom_timer_sec
  marker,         \* ui_marker_unsaved
  pc,             \* main loop: where it is in the handler
  what, val,      \* eeprom_request_write: its argument, the flags it loaded
  newLo,          \* uart_set_baud: the low byte still to be stored
  ee,             \* EEPROM: the settings and the map
  ear, edr, armed,\* EEAR, EEDR, EEMWE
  job, step,      \* the tick: writes left, place in EEPROM_write
  log, logPos,    \* EEPROM: the log; log_pos
  slot,           \* log_event in the main loop: its p
  \* History:
  events,         \* events of this uptime
  raced,          \* a log_event of the interrupt came inside another
  excuse          \* why the EEPROM may differ, since the last flush

ram      == <<addr, lo, hi>>
ask      == <<request, timer, marker>>
main     == <<pc, what, val, newLo>>
port     == <<ear, edr, armed>>
eventlog == <<log, logPos, slot, events, raced>>
vars     == <<ram, ask, main, ee, port, job, step, eventlog, excuse>>

\* load_eeprom_settings: what a restart would begin with.
Loaded(e) == IF e["valid"] # 0 THEN Factory
             ELSE <<e["addr"], e["lo"], e["hi"]>>

PowerUp(e) ==
  /\ addr' = Loaded(e)[1] /\ lo' = Loaded(e)[2] /\ hi' = Loaded(e)[3]
  /\ request' = {} /\ timer' = 0 /\ marker' = FALSE
  /\ pc' = "idle" /\ what' = "485" /\ val' = {} /\ newLo' = FactoryLo
  /\ ear' = "valid" /\ edr' = 0 /\ armed' = FALSE
  /\ job' = << >> /\ step' = "none"
  /\ log' = [i \in 0 .. Slots - 1 |-> 0] /\ logPos' = 0 /\ slot' = 0
  /\ events' = 0 /\ raced' = FALSE /\ excuse' = excuse \cap {"ever"}

Init ==
  /\ addr = FactoryAddr /\ lo = FactoryLo /\ hi = FactoryHi
  /\ request = {} /\ timer = 0 /\ marker = FALSE
  /\ pc = "idle" /\ what = "485" /\ val = {} /\ newLo = FactoryLo
  /\ ee = [c \in Cells |-> IF c = "map" THEN 1 ELSE Erased]
  /\ ear = "valid" /\ edr = 0 /\ armed = FALSE
  /\ job = << >> /\ step = "none"
  /\ log = [i \in 0 .. Slots - 1 |-> 0] /\ logPos = 0 /\ slot = 0
  /\ events = 0 /\ raced = FALSE /\ excuse = {}

\* Bound: one spoiled write between two saves of the settings.
SpoilBound == "astray" \notin excuse

(***************************************************************************)
(* The main loop, while no interrupt runs.                                 *)
(***************************************************************************)
At(p) == pc = p /\ step = "none"

\* A write of the address register; the menu's OK, whose value is displayed
\* and in force already, is the same with a = addr.
SetAddr ==
  /\ At("idle") /\ \E a \in Addrs : addr' = a
  /\ pc' = "report" /\ what' = "485"
  /\ UNCHANGED <<lo, hi, ask, val, newLo, ee, port, job, step, eventlog, excuse>>

\* The menu puts the address it displays in force.
Preview ==
  /\ At("idle") /\ \E a \in Addrs \ {addr} : addr' = a
  /\ excuse' = excuse \cup {"preview"}
  /\ UNCHANGED <<lo, hi, ask, main, ee, port, job, step, eventlog>>

\* uart_set_baud stores the 16-bit speed in two instructions.
SetSpeed ==
  /\ At("idle")
  /\ \E h \in His, l \in Los : hi' = h /\ newLo' = l
  /\ pc' = "speed" /\ what' = "485"
  /\ UNCHANGED <<addr, lo, ask, val, ee, port, job, step, eventlog, excuse>>

StoreLow ==
  /\ At("speed") /\ lo' = newLo /\ pc' = "report" /\ newLo' = FactoryLo
  /\ UNCHANGED <<addr, hi, ask, what, val, ee, port, job, step, eventlog, excuse>>

\* The menu gives a sensor a number.
SetMap ==
  /\ At("idle") /\ pc' = "report" /\ what' = "map"
  /\ UNCHANGED <<ram, ask, val, newLo, ee, port, job, step, eventlog, excuse>>

\* eeprom_request_write.
Report ==
  /\ At("report") /\ marker' = TRUE /\ pc' = "load"
  /\ UNCHANGED <<ram, request, timer, what, val, newLo, ee, port, job, step, eventlog, excuse>>

LoadFlags ==
  /\ At("load") /\ val' = request /\ pc' = "store"
  /\ UNCHANGED <<ram, ask, what, newLo, ee, port, job, step, eventlog, excuse>>

RequestedOnly == {what}
Requested     == val \cup {what}

\* Nothing tests the timer: its store is one step with that of the flags.
StoreFlags ==
  /\ At("store") /\ request' = Requested /\ timer' = Delay /\ pc' = "idle"
  /\ val' = {} /\ what' = "485"
  /\ UNCHANGED <<ram, marker, newLo, ee, port, job, step, eventlog, excuse>>

(***************************************************************************)
(* log_event.  The place is computed with interrupts on, the five writes   *)
(* are made with interrupts off; the last one is the high byte of uptime.  *)
(***************************************************************************)
NextPosKept == logPos
NextPos     == IF logPos + 1 >= Slots THEN 0 ELSE logPos + 1

Record(p) ==
  /\ events' = events + 1
  /\ log' = [i \in DOMAIN log \cup {p} |-> IF i = p THEN events + 1 ELSE log[i]]
  /\ logPos' = NextPos
  /\ ear' = "valid" /\ edr' = 0 /\ armed' = FALSE

\* A write of the error flags register resets the pumps and logs it.
FindSlot ==
  /\ At("idle") /\ events < MaxEvents
  /\ slot' = logPos /\ pc' = "log"
  /\ UNCHANGED <<ram, ask, what, val, newLo, ee, port, job, step, log, logPos, events,
                 raced, excuse>>

LogEvent ==
  /\ At("log") /\ Record(slot) /\ pc' = "idle" /\ slot' = 0
  /\ UNCHANGED <<ram, ask, what, val, newLo, ee, job, step, raced, excuse>>

\* pump_every_second, twelve hours after the last one: in the main loop's way
\* or in that of a flush.
Retry ==
  /\ step # "none" => SpoilBound
  /\ events + (IF pc = "log" THEN 1 ELSE 0) < MaxEvents
  /\ Record(logPos)
  /\ raced' = (raced \/ pc = "log")
  /\ UNCHANGED <<ram, ask, main, ee, job, step, slot, excuse>>

(***************************************************************************)
(* eeprom_timer_5sec.                                                      *)
(***************************************************************************)
SaveNoHigh     == << <<"addr", addr>>, <<"lo", lo>>, <<"valid", 0>> >>
SaveSettings   == << <<"addr", addr>>, <<"lo", lo>>, <<"hi", hi>>, <<"valid", 0>> >>
SaveMap        == << <<"map", 1>> >>

Countdown == timer' = IF timer > 0 THEN timer - 1 ELSE 0

Tick5sec ==
  /\ step = "none" /\ Countdown
  /\ IF request # {}
     THEN /\ job' = (IF "485" \in request THEN SaveSettings ELSE << >>)
                    \o (IF "map" \in request THEN SaveMap ELSE << >>)
          /\ request' = {} /\ step' = "wait"
          /\ excuse' = IF "485" \in request THEN excuse \cap {"ever"} ELSE excuse
     ELSE UNCHANGED <<job, request, step, excuse>>
  /\ UNCHANGED <<ram, marker, main, ee, port, eventlog>>

\* EEPROM_write of the first of the writes left; step names what comes next.
\* The wait for an earlier write changes nothing.
Goal == Head(job)

SetAddress == ear' = Goal[1] /\ UNCHANGED edr
SetData    == edr' = Goal[2] /\ UNCHANGED ear

LoadPortSwapped(s) == IF s = "wait" THEN SetData ELSE SetAddress
LoadPort(s)        == IF s = "wait" THEN SetAddress ELSE SetData

WriteAddress ==
  /\ step = "wait" /\ job # << >>
  /\ LoadPort(step) /\ step' = "data"
  /\ UNCHANGED <<ram, ask, main, ee, armed, job, eventlog, excuse>>

WriteData ==
  /\ step = "data" /\ LoadPort(step) /\ step' = "arm"
  /\ UNCHANGED <<ram, ask, main, ee, armed, job, eventlog, excuse>>

Arm ==
  /\ step = "arm" /\ armed' = TRUE /\ step' = "write"
  /\ UNCHANGED <<ram, ask, main, ee, ear, edr, job, eventlog, excuse>>

\* Of the validity byte only zero or not is ever read.
Kept(cell, byte) == IF cell = "valid" /\ byte # 0 THEN Erased ELSE byte

\* EEWE does nothing when EEMWE has fallen.  EEAR is left at the validity byte;
\* EEDR is dead until the next write.
Astray == ~armed \/ ear # Goal[1] \/ edr # Goal[2]

Write ==
  /\ step = "write" /\ step' = "wait" /\ job' = Tail(job)
  /\ ee' = IF armed THEN [ee EXCEPT ![ear] = Kept(ear, edr)] ELSE ee
  /\ ear' = "valid" /\ edr' = 0 /\ armed' = FALSE
  /\ excuse' = IF ~Astray THEN excuse ELSE excuse \cup {"astray", "ever"}
  /\ UNCHANGED <<ram, ask, main, eventlog>>

\* The end: ui_report_unsaved.
Flushed ==
  /\ step = "wait" /\ job = << >>
  /\ marker' = (request # {}) /\ step' = "none"
  /\ excuse' = IF pc \in {"load", "store"} /\ what = "485"
               THEN excuse \cup {"slipped"} ELSE excuse
  /\ UNCHANGED <<ram, request, timer, main, ee, port, job, eventlog>>

Flush == WriteAddress \/ WriteData \/ Arm \/ Write \/ Flushed

\* Any other interrupt: EEMWE falls after four cycles.
Interrupt ==
  /\ armed /\ SpoilBound /\ armed' = FALSE
  /\ UNCHANGED <<ram, ask, main, ee, ear, edr, job, step, eventlog, excuse>>

PowerLoss == PowerUp(ee) /\ UNCHANGED ee

Main == SetAddr \/ Preview \/ SetSpeed \/ StoreLow \/ SetMap \/ Report \/ LoadFlags
        \/ StoreFlags \/ FindSlot \/ LogEvent

Next == Main \/ Retry \/ Tick5sec \/ Flush \/ Interrupt \/ PowerLoss

\* Interrupts come and handlers end.
Fairness == WF_vars(Tick5sec) /\ WF_vars(Flush)

Spec == Init /\ [][Next]_vars /\ Fairness
(***************************************************************************)
(* Properties.                                                             *)
(***************************************************************************)
\* The variables stay in their types; a log record is written inside the log.
TypeOK ==
  /\ addr \in Addrs \cup {0, 1, Erased} /\ lo \in Los \cup {Erased}
  /\ hi \in His \cup {Erased}
  /\ request \subseteq Flags /\ timer \in 0 .. Delay /\ marker \in BOOLEAN
  /\ pc \in {"idle", "speed", "report", "load", "store", "log"}
  /\ what \in Flags /\ val \subseteq Flags /\ newLo \in Los
  /\ ee \in [Cells -> Bytes] /\ ear \in Cells /\ edr \in Bytes /\ armed \in BOOLEAN
  /\ job \in Seq(Cells \X Bytes)
  /\ step \in {"none", "wait", "data", "arm", "write"}
  /\ log \in [0 .. Slots - 1 -> 0 .. MaxEvents] /\ logPos \in 0 .. Slots - 1
  /\ slot \in 0 .. Slots - 1 /\ events \in 0 .. MaxEvents /\ raced \in BOOLEAN
  /\ excuse \subseteq {"preview", "astray", "ever", "slipped"}

\* When the main display shows no unsaved settings, a restart brings the
\* settings in force, but for an address only previewed in the menu, a write
\* that an interrupt spoiled, and a request that a flush found half made.
DisplayHonest ==
  At("idle") /\ ~marker /\ excuse \subseteq {"ever"} => Loaded(ee) = <<addr, lo, hi>>

\* Whatever interrupts EEPROM_write, a cell holds nothing but values meant for
\* it: only the validity byte can be hit by a stray write.
CellsOwn ==
  /\ ee["addr"] \in Addrs \cup {Erased} /\ ee["map"] \in {1, Erased}
  /\ ee["lo"] \in Los \cup {Erased} /\ ee["hi"] \in His \cup {Erased}

\* Power may fail in the first flush: the validity byte is 0 only over cells
\* that were all written, unless an interrupt spoiled a write.
ValidLast ==
  ee["valid"] = 0 /\ "ever" \notin excuse
    => \A c \in {"addr", "lo", "hi"} : ee[c] # Erased

\* The log holds the newest events, as many as it has places; all but the
\* newest can be missing once the interrupt logged between the place and the
\* writes of another event.
LogKept ==
  LET kept == {log[i] : i \in DOMAIN log}
  IN  /\ events > 0 => events \in kept
      /\ ~raced => \A k \in 1 .. events : k + Slots > events => k \in kept

\* Settings asked to be saved are the ones a restart brings, in the end and
\* whatever requests follow, unless a write is spoiled.
Saves ==
  "485" \in request ~> \/ step = "none" /\ Loaded(ee) = <<addr, lo, hi>>
                       \/ "ever" \in excuse

\* "delay each write operation for 60 sec to wait for next settings to come"
\* (temp_sens_eeprom.c, 286): a flush begins with the timer run out.
DelayHonoured == [][step = "none" /\ step' = "wait" => timer' = 0]_vars

\* Why CellsOwn holds: a flush writes values of the cell's own, and in each step
\* of EEPROM_write the port holds its cell, or the validity byte when another
\* log_event came in between.
Own == ({"addr"} \X (Addrs \cup {Erased})) \cup ({"lo"} \X (Los \cup {Erased}))
       \cup ({"hi"} \X (His \cup {Erased})) \cup {<<"map", 1>>, <<"valid", 0>>}
Aimed ==
  /\ addr \in Addrs \cup {Erased} /\ job \in Seq(Own)
  /\ ee["valid"] \in {0, Erased}
  /\ step \in {"data", "arm", "write"} => job # << >>
  /\ step = "data" => ear \in {Goal[1], "valid"}
  /\ step \in {"arm", "write"} => ear = "valid" \/ (ear = Goal[1] /\ edr = Goal[2])
Room   == pc = "log" => events < MaxEvents
IndInv == TypeOK /\ CellsOwn /\ Aimed /\ Room

\* Why DisplayHonest holds: between flushes the settings in force are the saved
\* ones, or a request for them is under way and shown; a flush either has every
\* cell saved or still to write, as it is in force, or writes the map only.
Now == [addr |-> addr, lo |-> lo, hi |-> hi, valid |-> 0]
Same == Loaded(ee) = <<addr, lo, hi>>
Asking == what = "485" /\ (pc \in {"speed", "report"} \/ (pc \in {"load", "store"} /\ marker))
Left(c) == \E i \in 1 .. Len(job) : job[i] = <<c, Now[c]>>
Saving ==
  /\ \A c \in DOMAIN Now : ee[c] = Now[c] \/ Left(c)
  /\ \A i \in 1 .. Len(job) : job[i][1] \in DOMAIN Now => job[i][2] = Now[job[i][1]]
MapOnly == \A i \in 1 .. Len(job) : job[i][1] = "map"
Shown ==
  /\ pc = "speed" => what = "485"
  /\ pc = "store" => request \subseteq val
  /\ step # "none" => request = {}
  /\ excuse \subseteq {"ever"} =>
       IF step = "none" THEN Same \/ Asking \/ ("485" \in request /\ marker)
       ELSE Saving \/ (MapOnly /\ (Same \/ Asking))

\* Why LogKept holds: unless an event slipped in between the place and the writes
\* of another, the log is a ring whose newest record is the one before log_pos.
Holds(i) == events + 1 - logPos + i - (IF i < logPos THEN 0 ELSE Slots)
Ring ==
  /\ events > 0 => \E i \in 0 .. Slots - 1 : log[i] = events
  /\ ~raced => /\ pc = "log" => slot = logPos
               /\ \A i \in 0 .. Slots - 1 : Holds(i) > 0 => log[i] = Holds(i)

===========================================================================
