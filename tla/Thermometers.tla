------------------------------ MODULE Thermometers ------------------------------
(***************************************************************************)
(* The 1-Wire thermometers of the 485 server: the scan that gives every    *)
(* device found a slot (io_temp.c, ds18x20.c), the map that gives a device *)
(* a permanent number (runtime_cfg.c), set on the setup page and kept in   *)
(* EEPROM, and the measuring that fills the slots once a second.           *)
(*                                                                         *)
(* NutOS threads are cooperative and neither the scan nor the measuring    *)
(* waits, so no thread runs inside them.  Devices do not wait: they come,  *)
(* go and are shorted between two searches, or disturb one.                *)
(*                                                                         *)
(* A temperature is modelled by the device that measured it.               *)
(***************************************************************************)
EXTENDS OneWire, Sequences, FiniteSets, FiniteSetsExt

CONSTANTS Devices,     \* the ROMs of the devices there are
          Kind,        \* family of each: "thermometer", "serial" (DS2401) or "other"
          Buses,       \* N_1W_BUS, 7
          NTemp,       \* SERVANT_NTEMP, 16
          MapSize,     \* MAX_OW_MAP, 16
          MaxEvents    \* bound: what happens around the module

ASSUME ThermometersAssumption ==
  /\ Devices \subseteq Rom \ {[i \in 1..Bits |-> 0], [i \in 1..Bits |-> 1]}
  /\ Kind \in [Devices -> {"thermometer", "serial", "other"}]
  /\ Buses \in Nat \ {0} /\ NTemp \in Nat \ {0} /\ MapSize \in Nat \ {0} /\ MaxEvents \in Nat

VARIABLES
  at,          \* environment: the bus each device is plugged in at, or Out
  shorted,     \* environment: the buses that are shorted
  found,       \* gTempSensorIDs and gTempSensorBus, nTempSensors of them
  temp,        \* currTemperature
  place,       \* ow_id_map: the slot of each permanent number
  cfg,         \* ee_cfg.ow_map, and IO_1W1 and IO_1W8 of ee_cfg.io_enable
  saved,       \* the configuration in EEPROM
  scan,        \* search_sensors: bus, diff and id
  rescanned,   \* temperatureRescanCnt is not 0
  events,
  \* History:
  read,        \* the ROMs read on the bus that is scanned, in order
  calm,        \* nothing came, went or was disturbed since the scan began
  edited       \* the setup page was used since the scan began

wiring  == <<at, shorted>>
slots   == <<found, temp>>
history == <<read, calm, edited>>
vars    == <<wiring, slots, place, cfg, saved, scan, rescanned, events, history>>

Out     == Buses
Bus     == 0..Buses - 1
Slot    == 0..NTemp - 1
Number  == 0..MapSize - 1
None    == [i \in 1..Bits |-> 0]       \* an all-zero ROM marks an empty entry
NoIndex == MapSize                     \* 255, any index that is no number
Entry   == [id : Devices \cup {None}, index : Number \cup {NoIndex}]
Configs == [map : [Number -> Entry], one : BOOLEAN, eight : BOOLEAN]
Error   == [i \in 1..Bits |-> 1]       \* ERROR_VALUE_16; what a silent bus reads
Zero    == None                        \* what a shorted bus reads, with a good CRC
Idle    == [bus |-> Out, diff |-> Last, id |-> None]
Scanning == scan # Idle

Plugged(b)  == {r \in Devices : at[r] = b}
Answers(b)  == Plugged(b) # {} /\ b \notin shorted      \* ow_reset finds a presence
Enabled(c)  == c.one \/ c.eight
Searched(b) == Enabled(cfg) /\ (b = 0 \/ cfg.eight)

\* init_temperature with the configuration c, up to the first search of the first
\* bus.  id is uninitialized and not looked at in a first search.
ClearTemp == [s \in Slot |-> Error]

FirstBus == [bus |-> 0, diff |-> First, id |-> None]
InitTemperature(c) ==
  /\ found' = <<>> /\ temp' = ClearTemp
  /\ scan' = IF Enabled(c) THEN FirstBus ELSE Idle
  /\ read' = <<>> /\ calm' = TRUE /\ edited' = FALSE

\* The map an earlier session left: empty, or full of thermometers a user numbered
Blank == [id |-> None, index |-> 0]
Left  == {[n \in Number |-> Blank]} \cup
         {map \in [Number -> [id : {r \in Devices : Kind[r] = "thermometer"}, index : Number]] :
            \A n, m \in Number : n # m => map[n].id # map[m].id}

Init ==
  /\ at \in [Devices -> Bus] /\ shorted = {}
  /\ found = <<>> /\ temp = [s \in Slot |-> Error] /\ place = [n \in Number |-> 0]
  /\ \E map \in Left, on \in BOOLEAN :            \* both bits as a new device has them, or off
       cfg = [map |-> map, one |-> on, eight |-> on]
  /\ saved = cfg
  /\ scan = (IF Enabled(cfg) THEN FirstBus ELSE Idle) /\ rescanned = FALSE /\ events = 0
  /\ read = <<>> /\ calm = TRUE /\ edited = FALSE

-----------------------------------------------------------------------------
(* Scanning *)

\* search_sensors goes on while there is a difference left and a slot free
SearchOn == scan.diff # Last /\ Len(found) < NTemp

Empty(n) == cfg.map[n].id = None

\* The slot of the next device
NextSlot == Len(found) + 1
NewSlot  == Len(found)

\* find_entry_by_id: the first entry of a device
EntriesOf(r)  == {n \in Number : cfg.map[n].id = r}
Numbered(r)   == EntriesOf(r) # {} /\ cfg.map[Min(EntriesOf(r))].index # NoIndex
NumberOf(r)   == cfg.map[Min(EntriesOf(r))].index

\* ow_map_add_found: a device with a number is put at its place, another one
\* gets an entry without a number, one more every time it is found
AddFound(r, slot) ==
  IF Numbered(r)
  THEN place' = [place EXCEPT ![NumberOf(r)] = slot] /\ UNCHANGED cfg
  ELSE /\ cfg' = IF \E n \in Number : Empty(n)
                 THEN [cfg EXCEPT !.map[Min({n \in Number : Empty(n)})] =
                                     [id |-> r, index |-> NoIndex]]
                 ELSE cfg
       /\ UNCHANGED place

\* DS18X20_find_sensor skips what is no thermometer, unless it is the last
Skip(hit) == Kind[hit.id] = "other" /\ hit.diff # Last

\* One ow_rom_search and what search_sensors does with the result
Search ==
  /\ Scanning /\ SearchOn
  /\ IF Answers(scan.bus)
     THEN \E hit \in {RomSearch(Plugged(scan.bus), scan.diff, scan.id)} :
            /\ scan' = [scan EXCEPT !.diff = hit.diff, !.id = hit.id]
            /\ read' = Append(read, hit.id)
            /\ IF Skip(hit) \/ Kind[hit.id] = "serial"
               THEN UNCHANGED <<found, place, cfg>>
               ELSE /\ found' = Append(found, [id |-> hit.id, bus |-> scan.bus])
                    /\ AddFound(hit.id, NewSlot)
     ELSE /\ scan' = [scan EXCEPT !.diff = Last]       \* OW_PRESENCE_ERR
          /\ UNCHANGED <<found, place, cfg, read>>
  /\ UNCHANGED <<wiring, temp, saved, rescanned, events, calm, edited>>

\* A device that leaves in the middle of a search: OW_DATA_ERR, and the bus is left
Disturb ==
  /\ Scanning /\ SearchOn /\ Answers(scan.bus)
  /\ events < MaxEvents /\ events' = events + 1
  /\ scan' = [scan EXCEPT !.diff = Last]
  /\ calm' = FALSE
  /\ UNCHANGED <<wiring, slots, place, cfg, saved, rescanned, read, edited>>

EnterWithOld(b) == [scan EXCEPT !.bus = b]
Enter(b)        == [bus |-> b, diff |-> First, id |-> None]

NextBus ==
  /\ Scanning /\ ~SearchOn
  /\ scan' = IF scan.bus + 1 \in Bus /\ cfg.eight THEN Enter(scan.bus + 1) ELSE Idle
  /\ read' = <<>>
  /\ UNCHANGED <<wiring, slots, place, cfg, saved, rescanned, events, calm, edited>>

Scan == Search \/ NextBus

-----------------------------------------------------------------------------
(* main_loop, once a second *)

\* Nothing counts temperatureRescanCnt down: the second scan is the last
Rescan ==
  /\ ~Scanning /\ ~rescanned
  /\ rescanned' = TRUE
  /\ InitTemperature(cfg)
  /\ UNCHANGED <<wiring, place, cfg, saved, events>>

\* Only buses that are switched on; the slots of others keep what they show.
Measured(s) == Searched(found[s + 1].bus)

AllButLast == {s \in Slot : s + 1 < Len(found)}
InUse      == {s \in Slot : s < Len(found)}

\* read_temperature_data.  With no answer all bits are 1 and the CRC is wrong.
Reading(f) == IF f.bus \in shorted THEN Zero
              ELSE IF at[f.id] = f.bus THEN f.id ELSE Error

Measure ==
  /\ ~Scanning /\ rescanned
  /\ temp' = [s \in Slot |-> IF s \in InUse /\ Measured(s) THEN Reading(found[s + 1]) ELSE temp[s]]
  /\ UNCHANGED <<wiring, found, place, cfg, saved, scan, rescanned, events, history>>

-----------------------------------------------------------------------------
(* The setup page and the world *)

Event == events < MaxEvents /\ events' = events + 1

SetNumber(n, number) ==
  /\ cfg' = [cfg EXCEPT !.map[n].index = number]
  /\ edited' = TRUE /\ UNCHANGED saved

\* ow_map_clear leaves ow_id_map alone
ClearMap == cfg' = [cfg EXCEPT !.map = [n \in Number |-> Blank]] /\ edited' = TRUE /\ UNCHANGED saved

SwitchBuses == /\ \/ cfg' = [cfg EXCEPT !.one = ~@]
                  \/ cfg' = [cfg EXCEPT !.eight = ~@]
               /\ edited' = TRUE /\ UNCHANGED saved

Save == saved' = cfg /\ UNCHANGED <<cfg, edited>>

Load == cfg' = saved /\ edited' = TRUE /\ UNCHANGED saved

SetupPage ==
  /\ ~Scanning /\ Event
  /\ \/ \E n \in Number, k \in Number \cup {NoIndex} : SetNumber(n, k)
     \/ ClearMap \/ SwitchBuses
     \/ Save \/ Load
  /\ UNCHANGED <<wiring, slots, place, scan, rescanned, read, calm>>

Move(r) == \E b \in (Bus \cup {Out}) \ {at[r]} : at' = [at EXCEPT ![r] = b] /\ UNCHANGED shorted
Short(b) == shorted' = (IF b \in shorted THEN shorted \ {b} ELSE shorted \cup {b}) /\ UNCHANGED at

World ==
  /\ Event
  /\ (\E r \in Devices : Move(r)) \/ \E b \in Bus : Short(b)
  /\ calm' = FALSE
  /\ UNCHANGED <<slots, place, cfg, saved, scan, rescanned, read, edited>>

Restart ==
  /\ Event
  /\ cfg' = saved /\ place' = [n \in Number |-> 0] /\ rescanned' = FALSE
  /\ InitTemperature(saved)
  /\ UNCHANGED <<wiring, saved>>

Next == Scan \/ Disturb \/ Rescan \/ Measure \/ SetupPage \/ World \/ Restart

\* The main loop runs.  A scan busy-waits: nothing keeps it from its next search.
Spec == Init /\ [][Next]_vars /\ WF_vars(Scan) /\ WF_vars(Rescan) /\ WF_vars(Measure)

-----------------------------------------------------------------------------
\* Every variable is of its type; a slot's device was found on a bus that was
\* searched, and there are never more devices than slots (gTempSensorIDs).
TypeOK ==
  /\ at \in [Devices -> Bus \cup {Out}] /\ shorted \in SUBSET Bus
  /\ found \in Seq([id : Devices, bus : Bus]) /\ Len(found) <= NTemp
  /\ temp \in [Slot -> Devices \cup {Error, Zero}]
  /\ place \in [Number -> Slot]
  /\ cfg \in Configs /\ saved \in Configs
  /\ scan \in [bus : Bus \cup {Out}, diff : 0..First, id : Devices \cup {None}]
  /\ rescanned \in BOOLEAN /\ events \in 0..MaxEvents
  /\ read \in Seq(Devices) /\ calm \in BOOLEAN /\ edited \in BOOLEAN

\* The search against its reference: on a bus that is left alone every search
\* reads a device not read before, those read are the greatest ones down to the
\* last one read, and the search ends with the least (ow_rom_search).
SearchInOrder ==
  Scanning /\ calm /\ scan.diff # First /\ Answers(scan.bus) =>
    /\ Range(read) = {r \in Plugged(scan.bus) : AtLeast(r, scan.id)}
    /\ Len(read) = Cardinality(Range(read))
    /\ scan.diff = Last <=> Range(read) = Plugged(scan.bus)

SlotsOf(r, b) == {i \in 1..Len(found) : found[i] = [id |-> r, bus |-> b]}

\* Why: a search starts with nothing read, and goes on at the last difference of the
\* ROM it read last.
GoesOn ==
  /\ Scanning /\ scan.diff = First => read = <<>>
  /\ Scanning /\ calm /\ scan.diff # First /\ Answers(scan.bus) =>
       scan.id \in Plugged(scan.bus) /\ Resumes(Plugged(scan.bus), scan.id, scan.diff)

\* After a scan nobody disturbed every thermometer has one slot, as long as there
\* are slots, whatever other devices share its bus (search_sensors,
\* DS18X20_find_sensor).
AllFound ==
  ~Scanning /\ calm /\ ~edited /\ Len(found) < NTemp =>
    \A b \in Bus \ shorted, r \in Devices :
      Searched(b) /\ at[r] = b /\ Kind[r] = "thermometer" => Cardinality(SlotsOf(r, b)) = 1

\* Why: the slots are of the buses that have been scanned and the ROMs that have been
\* read, and of those each thermometer has one.
SlotsOfRead == \A i \in 1..Len(found) :
  found[i].bus <= scan.bus /\ (found[i].bus = scan.bus => found[i].id \in Range(read))

OneSlot == calm /\ ~edited => \A r \in Devices :
  /\ Kind[r] = "thermometer" /\ at[r] \in Bus \ shorted /\ Searched(at[r])
  /\ \/ at[r] < scan.bus /\ Len(found) < NTemp
     \/ at[r] = scan.bus /\ r \in Range(read)
  => Cardinality(SlotsOf(r, at[r])) = 1

\* A device that was found and has a permanent number nobody else claims is at its
\* place, whatever else the map holds (ow_map_add_found).
NumberedInPlace ==
  ~edited => \A i \in 1..Len(found) :
    LET r == found[i].id
    IN  /\ Numbered(r)
        /\ \A j \in 1..Len(found) \ {i} : Numbered(found[j].id) => NumberOf(found[j].id) # NumberOf(r)
        => place[NumberOf(r)] = i - 1

\* Again and again a scan is over and every slot of a bus that is switched on
\* shows what reading its device gives, which on a shorted bus is 0 degrees:
\* searches end, whatever devices share the buses, as long as the plugging does,
\* and the pass over the slots leaves none of those out (main_loop, io_temp.c).
Reports == []<>(~Scanning /\ \A s \in Slot : s < Len(found) /\ Measured(s) => temp[s] = Reading(found[s + 1]))

\* "mapped - returns temp in order set in web setup": what a number reports was
\* measured by a device with that number (modbus.c:222, ow_id_map).
RightNumber ==
  ~Scanning /\ ~edited => \A k \in Number :
    temp[place[k]] \in Devices => \E n \in Number : cfg.map[n] = [id |-> temp[place[k]], index |-> k]

-----------------------------------------------------------------------------
(* What the code does not keep *)

\* What a measured slot shows was measured by its device, or is an error: a
\* shorted bus reads zeros, whose CRC is right, and shows 0 degrees.
OwnOrError == [][Measure => \A s \in InUse : Measured(s) => temp'[s] \in {found[s + 1].id, Error}]_vars

\* Devices plugged in and out for ever, and without the bound.
Plugging ==
  /\ \E r \in Devices : Move(r)
  /\ calm' = FALSE
  /\ UNCHANGED <<slots, place, cfg, saved, scan, rescanned, events, read, edited>>
PluggingSpec == Init /\ [][Next \/ Plugging]_vars /\ WF_vars(Scan)

\* Scans end: DS18X20_find_sensor skips devices that are no thermometers without
\* a bound, and a device plugged in meanwhile gives the search a higher difference
\* to go on from.
ScansEnd == []<>~Scanning
=============================================================================
