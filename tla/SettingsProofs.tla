---------------------------- MODULE SettingsProofs ----------------------------
(***************************************************************************)
(* Theorems about the saved settings, for every set of addresses and       *)
(* speeds and every size of the log: the state is typed; no cell ever holds *)
(* a value that was meant for another, whatever interrupts a write of the   *)
(* EEPROM; the log holds the newest events; and the mark on the display     *)
(* tells the truth about what a restart would bring.                        *)
(***************************************************************************)
EXTENDS Settings, TLAPS

\* What every proof below expands.
USE SettingsAssumption DEF SettingsAssumption, Cells, Flags, Bytes

\* What a flush is to write is meant for the cell it goes to (eeprom_timer_5sec).
LEMMA JobOwn ==
  ASSUME addr \in Addrs \cup {Erased}, lo \in Los \cup {Erased}, hi \in His \cup {Erased}
  PROVE  SaveSettings \in Seq(Own) /\ SaveMap \in Seq(Own)
BY DEF SaveSettings, SaveMap, Own

\* What is left of a sequence of own writes; its first cell and value.
LEMMA JobTail ==
  ASSUME NEW q \in Seq(Own), q # << >>
  PROVE  /\ Tail(q) \in Seq(Own) /\ Head(q) \in Own
         /\ Head(q)[1] \in Cells /\ Head(q)[2] \in Bytes
         /\ q \in Seq(Cells \X Bytes)
<1>1. Tail(q) \in Seq(Own) /\ Head(q) \in Own
  OBVIOUS
<1>2. Own \subseteq Cells \X Bytes
  BY DEF Own
<1>3. q \in Seq(Cells \X Bytes)
  BY <1>2
<1> QED BY <1>1, <1>2, <1>3

\* What a restart begins with is in the cells' types (load_eeprom_settings).
LEMMA LoadedOwn ==
  ASSUME CellsOwn
  PROVE  /\ Loaded(ee)[1] \in Addrs \cup {Erased}
         /\ Loaded(ee)[2] \in Los \cup {Erased}
         /\ Loaded(ee)[3] \in His \cup {Erased}
<1>1. CASE ee["valid"] # 0
  BY <1>1 DEF Loaded, Factory
<1>2. CASE ee["valid"] = 0
  BY <1>2 DEF Loaded, CellsOwn
<1> QED BY <1>1, <1>2

\* The position after a record is a place of the log (log_event).
LEMMA NextPosIn == ASSUME logPos \in 0 .. Slots - 1 PROVE NextPos \in 0 .. Slots - 1
BY DEF NextPos

\* A record leaves the log in its type.
LEMMA RecordTyped ==
  ASSUME NEW p \in 0 .. Slots - 1, Record(p), events \in 0 .. MaxEvents - 1,
         log \in [0 .. Slots - 1 -> 0 .. MaxEvents], logPos \in 0 .. Slots - 1
  PROVE  /\ log' \in [0 .. Slots - 1 -> 0 .. MaxEvents] /\ logPos' \in 0 .. Slots - 1
         /\ events' \in 0 .. MaxEvents /\ events' = events + 1
         /\ ear' = "valid" /\ edr' = 0 /\ armed' \in BOOLEAN
<1>1. events' = events + 1 /\ events' \in 0 .. MaxEvents
  BY DEF Record
<1>2. DOMAIN log \cup {p} = 0 .. Slots - 1
  OBVIOUS
<1>3. log' \in [0 .. Slots - 1 -> 0 .. MaxEvents]
  BY <1>1, <1>2 DEF Record
<1>4. armed' \in BOOLEAN
  BY Zenon DEF Record
<1> QED BY <1>1, <1>3, <1>4, NextPosIn DEF Record

\* The erased EEPROM and the factory's settings satisfy the invariant.
LEMMA InitInd == Init => IndInv
<1> SUFFICES ASSUME Init PROVE IndInv
  OBVIOUS
<1>1. /\ ee \in [Cells -> Bytes]
      /\ ee["addr"] = Erased /\ ee["lo"] = Erased /\ ee["hi"] = Erased
      /\ ee["valid"] = Erased /\ ee["map"] = 1
  BY DEF Init
<1>2. /\ log \in [0 .. Slots - 1 -> 0 .. MaxEvents] /\ logPos \in 0 .. Slots - 1
      /\ slot \in 0 .. Slots - 1 /\ events \in 0 .. MaxEvents /\ timer \in 0 .. Delay
  BY DEF Init
<1>3. job \in Seq(Cells \X Bytes) /\ job \in Seq(Own)
  BY DEF Init
<1>4. /\ marker \in BOOLEAN /\ armed \in BOOLEAN /\ raced \in BOOLEAN
  BY Zenon DEF Init
<1>5. TypeOK
  BY <1>1, <1>2, <1>3, <1>4 DEF Init, TypeOK
<1>6. CellsOwn /\ Aimed /\ Room
  BY <1>1, <1>3 DEF Init, CellsOwn, Aimed, Room
<1> QED BY <1>5, <1>6 DEF IndInv

\* The handlers of the main loop leave the EEPROM and its port alone.
LEMMA MainStep ==
  ASSUME IndInv,
         SetAddr \/ Preview \/ SetSpeed \/ StoreLow \/ SetMap \/ Report \/ LoadFlags
         \/ StoreFlags \/ FindSlot
  PROVE  IndInv'
<1> USE DEF IndInv, TypeOK, Aimed, CellsOwn, Room, Goal, At,
            ram, ask, main, port, eventlog
<1>1. CASE SetAddr
  BY <1>1 DEF SetAddr
<1>2. CASE Preview
  BY <1>2 DEF Preview
<1>3. CASE SetSpeed
  BY <1>3 DEF SetSpeed
<1>4. CASE StoreLow
  BY <1>4 DEF StoreLow
<1>5. CASE SetMap
  BY <1>5 DEF SetMap
<1>6. CASE Report
  BY <1>6 DEF Report
<1>7. CASE LoadFlags
  BY <1>7 DEF LoadFlags
<1>8. CASE StoreFlags
  BY <1>8 DEF StoreFlags, Requested
<1>9. CASE FindSlot
  BY <1>9 DEF FindSlot
<1> QED BY <1>1, <1>2, <1>3, <1>4, <1>5, <1>6, <1>7, <1>8, <1>9

\* Events are logged inside the log; one that interrupts EEPROM_write leaves the
\* port at the validity byte.
LEMMA LogStep == ASSUME IndInv, LogEvent \/ Retry PROVE IndInv'
<1> USE DEF IndInv, TypeOK, Aimed, CellsOwn, Room, Goal, At, ram, ask, main
<1>1. CASE LogEvent
  <2>1. events \in 0 .. MaxEvents - 1 /\ Record(slot) /\ step = "none"
    BY <1>1 DEF LogEvent
  <2>2. /\ log' \in [0 .. Slots - 1 -> 0 .. MaxEvents] /\ logPos' \in 0 .. Slots - 1
        /\ events' \in 0 .. MaxEvents
        /\ ear' = "valid" /\ edr' = 0 /\ armed' \in BOOLEAN
    BY <2>1, RecordTyped
  <2>3. /\ pc' = "idle" /\ slot' = 0
        /\ UNCHANGED <<ram, ask, what, val, newLo, ee, job, step, raced, excuse>>
    BY <1>1 DEF LogEvent
  <2> QED BY <2>1, <2>2, <2>3, SMTT(30)
<1>2. CASE Retry
  <2>1. /\ events \in 0 .. MaxEvents - 1 /\ Record(logPos)
        /\ pc = "log" => events + 1 < MaxEvents
    BY <1>2 DEF Retry
  <2>2. raced' \in BOOLEAN
    BY <1>2, Zenon DEF Retry
  <2>3. UNCHANGED <<ram, ask, main, ee, job, step, slot>> /\ excuse' = excuse
    BY <1>2 DEF Retry
  <2>4. /\ log' \in [0 .. Slots - 1 -> 0 .. MaxEvents] /\ logPos' \in 0 .. Slots - 1
        /\ events' \in 0 .. MaxEvents /\ events' = events + 1
        /\ ear' = "valid" /\ edr' = 0 /\ armed' \in BOOLEAN
    BY <2>1, RecordTyped
  <2> QED BY <2>1, <2>2, <2>3, <2>4, SMTT(30)
<1> QED BY <1>1, <1>2

\* A flush and its writes: where the port points is where its data belong.
LEMMA FlushStep ==
  ASSUME IndInv, Tick5sec \/ Flush \/ Interrupt PROVE IndInv'
<1> USE DEF IndInv, TypeOK, Aimed, CellsOwn, Room, Goal, ram, ask, main, port, eventlog
<1>1. CASE Tick5sec
  <2>1. timer' \in 0 .. Delay /\ job' \in Seq(Own) /\ job' \in Seq(Cells \X Bytes)
    <3>1. timer' \in 0 .. Delay
      BY <1>1 DEF Tick5sec, Countdown
    <3>2. job' \in Seq(Own)
      <4>1. SaveSettings \in Seq(Own) /\ SaveMap \in Seq(Own) /\ << >> \in Seq(Own)
        BY JobOwn
      <4>2. \A q, r \in Seq(Own) : q \o r \in Seq(Own)
        OBVIOUS
      <4>3. (IF "485" \in request THEN SaveSettings ELSE << >>) \in Seq(Own)
        BY <4>1
      <4>4. (IF "map" \in request THEN SaveMap ELSE << >>) \in Seq(Own)
        BY <4>1
      <4>5. CASE request # {}
        <5>1. job' = (IF "485" \in request THEN SaveSettings ELSE << >>)
                     \o (IF "map" \in request THEN SaveMap ELSE << >>)
          BY <1>1, <4>5, Zenon DEF Tick5sec
        <5> QED BY <4>2, <4>3, <4>4, <5>1
      <4>6. CASE request = {}
        BY <1>1, <4>6 DEF Tick5sec
      <4> QED BY <4>5, <4>6
    <3>3. job' \in Seq(Cells \X Bytes)
      BY <3>2, JobTail
    <3> QED BY <3>1, <3>2, <3>3
  <2>2. /\ request' \subseteq Flags /\ step' \in {"none", "wait"}
        /\ excuse' \subseteq {"preview", "astray", "ever", "slipped"}
        /\ UNCHANGED <<ram, marker, main, ee, port, eventlog>>
    BY <1>1 DEF Tick5sec
  <2> QED BY <2>1, <2>2
<1>2. CASE WriteAddress
  BY <1>2, JobTail DEF WriteAddress, LoadPort, SetAddress, SetData
<1>3. CASE WriteData
  BY <1>3, JobTail DEF WriteData, LoadPort, SetAddress, SetData
<1>4. CASE Arm
  BY <1>4 DEF Arm
<1>5. CASE Write
  <2>1. /\ Head(job) \in Own /\ Tail(job) \in Seq(Own)
        /\ Tail(job) \in Seq(Cells \X Bytes)
    BY <1>5, JobTail DEF Write
  <2>2. /\ ee' \in [Cells -> Bytes] /\ ee'["valid"] \in {0, Erased}
        /\ CellsOwn'
    <3>1. CASE ~armed
      BY <1>5, <3>1 DEF Write
    <3>2. CASE armed /\ ear = "valid"
      <4>1. Kept(ear, edr) \in {0, Erased}
        BY <3>2 DEF Kept
      <4> QED BY <1>5, <3>2, <4>1 DEF Write
    <3>3. CASE armed /\ ear # "valid"
      <4>1. Head(job) = <<ear, edr>> /\ Kept(ear, edr) = edr
        BY <1>5, <2>1, <3>3 DEF Write, Kept, Own
      <4> QED BY <1>5, <2>1, <3>3, <4>1 DEF Write, Own
    <3> QED BY <3>1, <3>2, <3>3
  <2>3. excuse' \subseteq {"preview", "astray", "ever", "slipped"}
    BY <1>5 DEF Write
  <2> QED BY <1>5, <2>1, <2>2, <2>3, ZenonT(30) DEF Write
<1>6. CASE Flushed
  <2>1. marker' \in BOOLEAN /\ excuse' \subseteq {"preview", "astray", "ever", "slipped"}
    BY <1>6, Zenon DEF Flushed
  <2> QED BY <1>6, <2>1 DEF Flushed
<1>7. CASE Interrupt
  <2>1. armed' \in BOOLEAN
    BY <1>7, Zenon DEF Interrupt
  <2>2. UNCHANGED <<ram, ask, main, ee, ear, edr, job, step, eventlog, excuse>>
    BY <1>7 DEF Interrupt
  <2> QED BY <2>1, <2>2
<1> QED BY <1>1, <1>2, <1>3, <1>4, <1>5, <1>6, <1>7 DEF Flush

\* After a power failure the cells are what they were.
LEMMA PowerStep == ASSUME IndInv, PowerLoss PROVE IndInv'
<1>1. /\ addr' \in Addrs \cup {Erased} /\ lo' \in Los \cup {Erased}
      /\ hi' \in His \cup {Erased}
  BY LoadedOwn DEF PowerLoss, PowerUp, IndInv
<1>2. /\ log' \in [0 .. Slots - 1 -> 0 .. MaxEvents] /\ logPos' \in 0 .. Slots - 1
      /\ slot' \in 0 .. Slots - 1 /\ events' \in 0 .. MaxEvents /\ timer' \in 0 .. Delay
      /\ job' \in Seq(Cells \X Bytes) /\ job' \in Seq(Own)
  BY DEF PowerLoss, PowerUp
<1>3. marker' \in BOOLEAN /\ armed' \in BOOLEAN /\ raced' \in BOOLEAN
  BY Zenon DEF PowerLoss, PowerUp
<1>4. TypeOK'
  BY <1>1, <1>2, <1>3 DEF PowerLoss, PowerUp, IndInv, TypeOK
<1>5. CellsOwn' /\ Aimed' /\ Room'
  BY <1>1, <1>2 DEF PowerLoss, PowerUp, IndInv, CellsOwn, Aimed, Room
<1> QED BY <1>4, <1>5 DEF IndInv

\* IndInv is an inductive invariant.
THEOREM Inductive == Spec => []IndInv
<1>1. ASSUME IndInv, UNCHANGED vars PROVE IndInv'
  BY <1>1 DEF IndInv, TypeOK, Aimed, CellsOwn, Room, Goal,
              vars, ram, ask, main, port, eventlog
<1>2. IndInv /\ [Next]_vars => IndInv'
  BY <1>1, MainStep, LogStep, FlushStep, PowerStep DEF Next, Main
<1> QED BY <1>2, InitInd, PTL DEF Spec

\* The variables keep their types; log_event never writes outside the log.
THEOREM TypeCorrect == Spec => []TypeOK
<1>1. IndInv => TypeOK
  BY DEF IndInv
<1> QED BY <1>1, Inductive, PTL

\* No setting is ever stored in another's cell (EEPROM_write, errlog.c).
THEOREM OwnValues == Spec => []CellsOwn
<1>1. IndInv => CellsOwn
  BY DEF IndInv
<1> QED BY <1>1, Inductive, PTL

-----------------------------------------------------------------------------
\* One more record in its place keeps the newest ones (log_event).
LEMMA RingRecord ==
  ASSUME TypeOK, NEW p \in 0 .. Slots - 1, Record(p), events \in 0 .. MaxEvents - 1
  PROVE  /\ \E i \in 0 .. Slots - 1 : log'[i] = events'
         /\ p = logPos /\ (\A i \in 0 .. Slots - 1 : Holds(i) > 0 => log[i] = Holds(i))
              => \A i \in 0 .. Slots - 1 : Holds(i)' > 0 => log'[i] = Holds(i)'
<1> USE DEF TypeOK
<1>1. /\ events' = events + 1 /\ logPos' = NextPos
      /\ \A i \in 0 .. Slots - 1 : log'[i] = IF i = p THEN events + 1 ELSE log[i]
  BY DEF Record
<1>2. \E i \in 0 .. Slots - 1 : log'[i] = events'
  BY <1>1
<1>3. ASSUME p = logPos, NEW i \in 0 .. Slots - 1, Holds(i) > 0 => log[i] = Holds(i), Holds(i)' > 0
      PROVE  log'[i] = Holds(i)'
  <2>1. Holds(i)' = IF i = p THEN events + 1 ELSE Holds(i)
    <3>1. CASE logPos + 1 >= Slots
      <4>1. logPos = Slots - 1 /\ logPos' = 0
        BY <1>1, <3>1 DEF NextPos
      <4> QED BY <1>1, <1>3, <4>1 DEF Holds
    <3>2. CASE ~(logPos + 1 >= Slots)
      <4>1. logPos' = logPos + 1
        BY <1>1, <3>2 DEF NextPos
      <4> QED BY <1>1, <1>3, <4>1 DEF Holds
    <3> QED BY <3>1, <3>2
  <2> QED BY <1>1, <1>3, <2>1
<1> QED BY <1>2, <1>3

\* Every step keeps the ring.
LEMMA RingStep == ASSUME IndInv, Ring, [Next]_vars PROVE Ring'
<1> USE DEF IndInv
<1>1. CASE UNCHANGED <<log, logPos, slot, events, raced>> /\ (pc' = "log" => pc = "log")
  BY <1>1 DEF Ring, Holds
<1>2. CASE FindSlot
  BY <1>2 DEF FindSlot, Ring, Holds
<1>3. CASE LogEvent
  <2>1. /\ Record(slot) /\ pc = "log" /\ pc' = "idle" /\ raced' = raced
        /\ events \in 0 .. MaxEvents - 1 /\ slot \in 0 .. Slots - 1
    BY <1>3 DEF LogEvent, At, Room, TypeOK
  <2> QED BY <2>1, RingRecord DEF Ring
<1>4. CASE Retry
  <2>1. /\ Record(logPos) /\ pc' = pc /\ slot' = slot
        /\ events \in 0 .. MaxEvents - 1 /\ logPos \in 0 .. Slots - 1
    BY <1>4 DEF Retry, main, TypeOK
  <2>2. ~raced' => ~raced /\ pc # "log"
    BY <1>4, Zenon DEF Retry
  <2> QED BY <2>1, <2>2, RingRecord DEF Ring
<1>5. CASE PowerLoss
  <2>1. /\ events' = 0 /\ logPos' = 0 /\ pc' = "idle"
        /\ \A i \in 0 .. Slots - 1 : log'[i] = 0
    BY <1>5 DEF PowerLoss, PowerUp
  <2> QED BY <2>1 DEF Ring, Holds
<1>6. CASE SetAddr \/ Preview \/ SetSpeed \/ StoreLow \/ SetMap \/ Report \/ LoadFlags \/ StoreFlags
  BY <1>1, <1>6 DEF SetAddr, Preview, SetSpeed, StoreLow, SetMap, Report, LoadFlags, StoreFlags,
                    eventlog, main
<1>7. CASE Tick5sec \/ Flush \/ Interrupt \/ UNCHANGED vars
  BY <1>1, <1>7 DEF Tick5sec, Flush, WriteAddress, WriteData, Arm, Write, Flushed, Interrupt,
                    vars, eventlog, main
<1> QED BY <1>2, <1>3, <1>4, <1>5, <1>6, <1>7 DEF Next, Main

\* The log holds the newest events, as many as it has places, for every size of
\* the log: a record only ever replaces the oldest one, unless an event slipped in
\* between the place and the writes of another (log_event).
THEOREM NewestKept == Spec => []LogKept
<1>1. Init => Ring
  <2> SUFFICES ASSUME Init PROVE Ring
    OBVIOUS
  <2>1. events = 0 /\ logPos = 0 /\ pc = "idle"
    BY DEF Init
  <2> QED BY <2>1 DEF Ring, Holds
<1>2. IndInv /\ Ring => LogKept
  <2> SUFFICES ASSUME IndInv, Ring PROVE LogKept
    OBVIOUS
  <2>1. /\ DOMAIN log = 0 .. Slots - 1 /\ logPos \in 0 .. Slots - 1 /\ events \in Nat
    BY DEF IndInv, TypeOK
  <2>2. ASSUME events > 0 PROVE events \in {log[i] : i \in DOMAIN log}
    BY <2>1, <2>2 DEF Ring
  <2>3. ASSUME ~raced, NEW k \in 1 .. events, k + Slots > events
        PROVE  k \in {log[i] : i \in DOMAIN log}
    <3>1. CASE k + logPos > events
      <4>1. k + logPos - events - 1 \in 0 .. Slots - 1 /\ Holds(k + logPos - events - 1) = k
        BY <2>1, <3>1 DEF Holds
      <4> QED BY <2>1, <2>3, <4>1 DEF Ring
    <3>2. CASE ~(k + logPos > events)
      <4>1. /\ k + logPos - events - 1 + Slots \in 0 .. Slots - 1
            /\ Holds(k + logPos - events - 1 + Slots) = k
        BY <2>1, <2>3, <3>2 DEF Holds
      <4> QED BY <2>1, <2>3, <4>1 DEF Ring
    <3> QED BY <3>1, <3>2
  <2> QED BY <2>2, <2>3 DEF LogKept
<1>3. IndInv /\ Ring /\ [Next]_vars => Ring'
  BY RingStep
<1> QED BY <1>1, <1>2, <1>3, Inductive, PTL DEF Spec

-----------------------------------------------------------------------------
\* What a flush of the settings is to write: each cell, as it is in force.
LEMMA WholeJob ==
  ASSUME addr \in Addrs \cup {Erased}, lo \in Los \cup {Erased}, hi \in His \cup {Erased},
         NEW q, q = SaveSettings \/ q = SaveSettings \o SaveMap
  PROVE  /\ 1 \in 1 .. Len(q) /\ 2 \in 1 .. Len(q) /\ 3 \in 1 .. Len(q) /\ 4 \in 1 .. Len(q)
         /\ q[1] = <<"addr", addr>> /\ q[2] = <<"lo", lo>> /\ q[3] = <<"hi", hi>>
         /\ q[4] = <<"valid", 0>>
         /\ \A i \in 1 .. Len(q) : i \in 1 .. 4 \/ q[i] = <<"map", 1>>
<1> DEFINE s == SaveSettings
           r == SaveMap
<1>1. /\ Len(s) = 4 /\ s[1] = <<"addr", addr>> /\ s[2] = <<"lo", lo>> /\ s[3] = <<"hi", hi>>
      /\ s[4] = <<"valid", 0>> /\ Len(r) = 1 /\ r[1] = <<"map", 1>>
  BY DEF SaveSettings, SaveMap
<1>2. s \in Seq(Own) /\ r \in Seq(Own) /\ (q = s \/ q = s \o r)
  BY JobOwn
<1> HIDE DEF s, r
<1>3. CASE q = s
  <2>1. Len(q) = 4 /\ \A i \in 1 .. 4 : q[i] = s[i]
    BY <1>1, <1>3
  <2>2. \A i \in 1 .. Len(q) : i \in 1 .. 4
    BY <2>1
  <2>3. 1 \in 1 .. Len(q) /\ 2 \in 1 .. Len(q) /\ 3 \in 1 .. Len(q) /\ 4 \in 1 .. Len(q)
    BY <2>1
  <2> QED BY <1>1, <1>3, <2>2, <2>3, Zenon
<1>4. CASE q = s \o r
  <2>1. Len(q) = Len(s) + Len(r)
    BY <1>2, <1>4
  <2>2. \A i \in 1 .. Len(q) : q[i] = IF i <= Len(s) THEN s[i] ELSE r[i - Len(s)]
    BY <1>2, <1>4
  <2>3. Len(q) = 5
    BY <1>1, <2>1
  <2>4. /\ q[1] = s[1] /\ q[2] = s[2] /\ q[3] = s[3] /\ q[4] = s[4] /\ q[5] = r[1]
    BY <1>1, <2>2, <2>3
  <2>5. \A i \in 1 .. Len(q) : i \in 1 .. 4 \/ i = 5
    BY <2>3
  <2>6. 1 \in 1 .. Len(q) /\ 2 \in 1 .. Len(q) /\ 3 \in 1 .. Len(q) /\ 4 \in 1 .. Len(q)
    BY <2>3
  <2> QED BY <1>1, <2>4, <2>5, <2>6, Zenon
<1> QED BY <1>2, <1>3, <1>4

\* A flush begins with everything still to write (eeprom_timer_5sec).
LEMMA TickShown == ASSUME IndInv, Shown, Tick5sec PROVE Shown'
<1>1. /\ UNCHANGED <<addr, lo, hi, marker, pc, what, val, ee>> /\ step = "none"
      /\ request' \subseteq request
  BY DEF Tick5sec, ram, main
<1>2. CASE request = {}
  BY <1>1, <1>2 DEF Tick5sec, Shown, Same, Asking, Loaded
<1>3. CASE "485" \in request
  <2>1. /\ request' = {} /\ step' = "wait"
        /\ job' = SaveSettings \o (IF "map" \in request THEN SaveMap ELSE << >>)
    BY <1>3 DEF Tick5sec
  <2>2. job' = SaveSettings \/ job' = SaveSettings \o SaveMap
    <3>1. SaveSettings \o << >> = SaveSettings
      BY DEF SaveSettings
    <3> QED BY <2>1, <3>1
  <2>3. /\ 1 \in 1 .. Len(job') /\ 2 \in 1 .. Len(job') /\ 3 \in 1 .. Len(job') /\ 4 \in 1 .. Len(job')
        /\ job'[1] = <<"addr", addr>> /\ job'[2] = <<"lo", lo>> /\ job'[3] = <<"hi", hi>>
        /\ job'[4] = <<"valid", 0>>
        /\ \A i \in 1 .. Len(job') : i \in 1 .. 4 \/ job'[i] = <<"map", 1>>
    BY <2>2, WholeJob DEF IndInv, Aimed, CellsOwn, TypeOK
  <2>4. Saving'
    BY <1>1, <2>3 DEF Saving, Left, Now
  <2> QED BY <1>1, <2>1, <2>4 DEF Shown
<1>4. CASE request # {} /\ "485" \notin request
  <2>1. /\ request' = {} /\ step' = "wait" /\ excuse' = excuse /\ "map" \in request
    BY <1>4, ZenonT(30) DEF Tick5sec, IndInv, TypeOK
  <2>2. job' = << >> \o SaveMap
    BY <1>4, <2>1 DEF Tick5sec
  <2>3. MapOnly'
    BY <2>2 DEF MapOnly, SaveMap
  <2> QED BY <1>1, <1>4, <2>1, <2>3 DEF Shown, Same, Asking, Loaded
<1> QED BY <1>2, <1>3, <1>4

\* A write that nothing spoiled stores what was meant for its cell (EEPROM_write).
LEMMA WriteShown == ASSUME IndInv, Shown, Write PROVE Shown'
<1>1. /\ UNCHANGED <<addr, lo, hi, request, marker, pc, what, val>>
      /\ step = "write" /\ step' = "wait" /\ job' = Tail(job)
      /\ ee' = IF armed THEN [ee EXCEPT ![ear] = Kept(ear, edr)] ELSE ee
      /\ excuse' = IF ~Astray THEN excuse ELSE excuse \cup {"astray", "ever"}
  BY DEF Write, ram, ask, main
<1>2. /\ job \in Seq(Own) /\ job # << >> /\ ee \in [Cells -> Bytes]
  BY <1>1 DEF IndInv, Aimed, TypeOK
<1>3. /\ Len(job) \in Nat \ {0} /\ Len(job') = Len(job) - 1 /\ Goal = job[1]
      /\ \A i \in 1 .. Len(job') : job'[i] = job[i + 1] /\ i + 1 \in 1 .. Len(job)
      /\ 1 \in 1 .. Len(job)
  BY <1>1, <1>2 DEF Goal
<1>4. \A i \in 1 .. Len(job) : i = 1 \/ (i - 1 \in 1 .. Len(job') /\ job'[i - 1] = job[i])
  BY <1>3
<1>5. CASE Astray
  BY <1>1, <1>5 DEF Shown
<1>6. CASE ~Astray
  <2>1. armed /\ ear = job[1][1] /\ edr = job[1][2] /\ excuse' = excuse
    BY <1>1, <1>3, <1>6 DEF Astray
  <2>2. job[1] \in Own /\ job[1] = <<ear, edr>>
    BY <1>2, <1>3, <2>1 DEF Own
  <2>3. Kept(ear, edr) = edr /\ ear \in Cells
    BY <2>2 DEF Kept, Own
  <2>4. \A c \in Cells : ee'[c] = IF c = ear THEN edr ELSE ee[c]
    BY <1>1, <1>2, <2>1, <2>3
  <2>5. Now' = Now
    BY <1>1 DEF Now
  <2> HIDE DEF Cells
  <2>6. ASSUME Saving PROVE Saving'
    <3>1. \A i \in 1 .. Len(job') : job'[i][1] \in DOMAIN Now => job'[i][2] = Now[job'[i][1]]
      BY <1>3, <2>6 DEF Saving
    <3>2. ASSUME NEW c \in DOMAIN Now PROVE ee'[c] = Now[c] \/ \E i \in 1 .. Len(job') : job'[i] = <<c, Now[c]>>
      <4>1. c \in Cells
        BY DEF Now, Cells
      <4>2. CASE c = ear
        BY <1>3, <2>1, <2>4, <2>6, <4>1, <4>2 DEF Saving
      <4>3. CASE c # ear
        <5>1. CASE ee[c] = Now[c]
          BY <2>4, <4>1, <4>3, <5>1
        <5>2. CASE Left(c)
          BY <1>4, <2>2, <4>3, <5>2, SMTT(30) DEF Left
        <5> QED BY <2>6, <5>1, <5>2 DEF Saving
      <4> QED BY <4>2, <4>3
    <3> QED BY <2>5, <3>1, <3>2 DEF Saving, Left
  <2>7. ASSUME MapOnly PROVE MapOnly' /\ (Same => Same') /\ (Asking => Asking')
    <3>1. MapOnly'
      BY <1>3, <2>7 DEF MapOnly
    <3>2. ear = "map"
      BY <1>3, <2>1, <2>7 DEF MapOnly
    <3>3. \A c \in {"valid", "addr", "lo", "hi"} : ee'[c] = ee[c]
      BY <2>4, <3>2 DEF Cells
    <3> QED BY <1>1, <3>1, <3>3 DEF Same, Loaded, Asking
  <2> QED BY <1>1, <2>1, <2>6, <2>7 DEF Shown
<1> QED BY <1>5, <1>6

\* Every step keeps it.
LEMMA ShownStep == ASSUME IndInv, Shown, [Next]_vars PROVE Shown'
<1>1. CASE /\ UNCHANGED <<addr, lo, hi, request, marker, what, val, ee, job, excuse>>
           /\ step' = step \/ (step # "none" /\ step' # "none")
           /\ pc' = pc \/ (pc \in {"idle", "log"} /\ pc' \in {"idle", "log"})
  BY <1>1 DEF Shown, Saving, MapOnly, Left, Now, Same, Asking, Loaded
<1>2. CASE SetAddr \/ Preview \/ SetSpeed \/ StoreLow \/ SetMap
  BY <1>2 DEF SetAddr, Preview, SetSpeed, StoreLow, SetMap, At, Shown, Same, Asking, Loaded,
              ram, ask, main, port, eventlog
<1>3. CASE Report \/ LoadFlags \/ StoreFlags
  BY <1>3 DEF Report, LoadFlags, StoreFlags, Requested, At, Shown, Same, Asking, Loaded,
              ram, ask, main, port, eventlog
<1>4. CASE FindSlot \/ LogEvent
  BY <1>1, <1>4 DEF FindSlot, LogEvent, At, ram, ask
<1>5. CASE Retry \/ Interrupt
  BY <1>1, <1>5 DEF Retry, Interrupt, ram, ask, main
<1>6. CASE WriteAddress \/ WriteData \/ Arm
  BY <1>1, <1>6 DEF WriteAddress, WriteData, Arm, ram, ask, main
<1>7. CASE Flushed
  <2>1. /\ UNCHANGED <<addr, lo, hi, request, pc, what, val, ee>> /\ step = "wait" /\ job = << >>
        /\ step' = "none"
        /\ excuse' = IF pc \in {"load", "store"} /\ what = "485" THEN excuse \cup {"slipped"} ELSE excuse
    BY <1>7 DEF Flushed, ram, main
  <2>2. CASE pc \in {"load", "store"} /\ what = "485"
    BY <2>1, <2>2 DEF Shown
  <2>3. CASE ~(pc \in {"load", "store"} /\ what = "485")
    <3>1. excuse' = excuse
      BY <2>1, <2>3
    <3>2. Saving => Same
      BY <2>1 DEF Saving, Left, Now, Same, Loaded
    <3>3. Same => Same'
      BY <2>1 DEF Same, Loaded
    <3>4. Asking => Asking'
      BY <2>1, <2>3 DEF Asking
    <3> QED BY <2>1, <3>1, <3>2, <3>3, <3>4 DEF Shown
  <2> QED BY <2>2, <2>3
<1>8. CASE PowerLoss
  <2>1. /\ addr' = Loaded(ee)[1] /\ lo' = Loaded(ee)[2] /\ hi' = Loaded(ee)[3] /\ ee' = ee
        /\ pc' = "idle" /\ request' = {} /\ step' = "none"
    BY <1>8 DEF PowerLoss, PowerUp
  <2>2. Same'
    BY <2>1 DEF Same, Loaded, Factory
  <2> QED BY <2>1, <2>2 DEF Shown
<1>9. CASE UNCHANGED vars
  BY <1>1, <1>9 DEF vars, ram, ask, main
<1> QED BY <1>2, <1>3, <1>4, <1>5, <1>6, <1>7, <1>8, <1>9, TickShown, WriteShown DEF Next, Main, Flush

\* The display is honest (ui_report_unsaved, eeprom_timer_5sec): with no mark on it
\* and the main loop idle, a restart would bring the settings in force, wherever
\* interrupts, ticks and power failures fell in the making of requests and in the
\* writes, but for the exceptions that excuse names.
THEOREM DisplayTellsTruth == Spec => []DisplayHonest
<1>1. Init => Shown
  <2> SUFFICES ASSUME Init PROVE Shown
    OBVIOUS
  <2>1. ee["valid"] # 0
    BY DEF Init
  <2>2. Loaded(ee) = Factory
    BY <2>1 DEF Loaded
  <2>3. Factory = <<addr, lo, hi>>
    BY DEF Init, Factory
  <2>4. Same
    BY <2>2, <2>3 DEF Same
  <2> QED BY <2>4 DEF Init, Shown
<1>2. IndInv /\ Shown /\ [Next]_vars => Shown'
  BY ShownStep
<1>3. Shown => DisplayHonest
  BY DEF Shown, DisplayHonest, Same, Asking, At
<1> QED BY <1>1, <1>2, <1>3, Inductive, PTL DEF Spec
=============================================================================
