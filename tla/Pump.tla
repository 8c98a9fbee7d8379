-------------------------------- MODULE Pump --------------------------------
(***************************************************************************)
(* The water pump controller of pump_mega32 (pump.c): two pumps, a main    *)
(* and a spare one, switched by pressure sensors.  pump_control is a pass  *)
(* of the main loop; pump_every_second is called by the timer interrupt    *)
(* and preempts a pass between any two of its accesses to the shared       *)
(* variables, so the pass is split there.                                  *)
(*                                                                         *)
(* As built, nothing calls pump_control; the model is of the loop that      *)
(* pump.c's header and its timer hook describe.                            *)
(*                                                                         *)
(* Time is scaled: the four times are constants in seconds.  A sensor's    *)
(* reading is abstracted to its comparison with L_level and H_level.       *)
(***************************************************************************)
EXTENDS Naturals

CONSTANTS Sensors,        \* the analog sensors
          PressureTime,   \* SANITY_PRESSURE_TIME_SEC, 20
          LongRunTime,    \* SANITY_LONG_RUN_TIME_SEC, 600
          StartupTime,    \* SANITY_STARTUP_TIME, 300
          RetryTime,      \* BIG_RETRY_TIME, 12 hours
          Byte            \* values of a byte, 256

ASSUME PumpAssumption == /\ PressureTime \in Nat /\ LongRunTime \in Nat
                         /\ StartupTime \in Nat /\ RetryTime \in Nat
                         /\ Byte \in Nat \ {0}

Pumps == {"main", "spare"}
Other(p) == IF p = "main" THEN "spare" ELSE "main"
Level == {"below", "between", "above"}

VARIABLES
  enabled,       \* the sensors with conf.active = 1; may be none
  level,         \* environment: the pressure each sensor measures
  din,           \* environment: the binary pressure switch asks for water
  uptime, work, retry,   \* uptime, pump_work_seconds, big_retry_timer
  failed,        \* system_failed
  active,        \* active_pump
  state,         \* pump_state
  haveBelow, haveAbove,  \* have_below, have_above
  on,            \* the relays: PORTB bits 2 (main) and 3 (spare)
  pc,            \* main loop inside pump_control
  arg,           \* argument of set_pump_state
  ret,           \* where set_pump_state returns to
  target,        \* pump_onoff's arguments, already evaluated
  check,         \* check_seconds; before that, its low byte
  low,           \* low byte of uptime, as the comparison loads it
  passed,        \* a pass has ended since the last tick
  \* History:
  logged         \* last event given to log_event by the sanity checks

env     == <<enabled, level, din>>
timers  == <<uptime, retry>>
locals  == <<arg, ret, target, check, low>>
vars    == <<env, timers, work, failed, active, state, haveBelow, haveAbove, on,
             pc, locals, passed, logged>>

Init == /\ enabled \in SUBSET Sensors
        /\ level \in [Sensors -> Level] /\ din \in BOOLEAN
        /\ uptime = 0 /\ work = 0 /\ retry = 0
        /\ failed = FALSE /\ active = "main" /\ state = FALSE
        /\ haveBelow = FALSE /\ haveAbove = FALSE
        /\ on = [p \in Pumps |-> FALSE]
        /\ pc = "idle" /\ arg = FALSE /\ ret = "idle"
        /\ target = [pump |-> "main", on |-> FALSE] /\ check = 0 /\ low = 0
        /\ passed = TRUE /\ logged = "none"

(***************************************************************************)
(* The environment.                                                        *)
(***************************************************************************)
Pressure == /\ \/ \E s \in enabled, l \in Level :
                    level' = [level EXCEPT ![s] = l] /\ UNCHANGED din
               \/ enabled = {} /\ din' = ~din /\ UNCHANGED level
            /\ UNCHANGED <<enabled, timers, work, failed, active, state, haveBelow,
                           haveAbove, on, pc, locals, passed, logged>>

(***************************************************************************)
(* The timer interrupt: pump_every_second, with pump_reset_all.  A pass of *)
(* the main loop takes less than a second.                                 *)
(***************************************************************************)
\* uptime only matters up to the end of the startup grace.
Uptime == IF uptime > StartupTime THEN uptime ELSE uptime + 1

RetryDue     == retry >= RetryTime
ResetFailed  == FALSE

EverySecond ==
  /\ passed
  /\ passed' = FALSE
  /\ uptime' = Uptime
  /\ IF RetryDue
     THEN /\ retry' = 0 /\ work' = 0
          /\ failed' = ResetFailed /\ active' = "main" /\ state' = FALSE
          /\ on' = [p \in Pumps |-> FALSE]
     ELSE /\ retry' = retry + 1
          /\ work' = IF state THEN work + 1 ELSE work
          /\ UNCHANGED <<failed, active, state, on>>
  /\ UNCHANGED <<env, haveBelow, haveAbove, pc, locals, logged>>

(***************************************************************************)
(* The main loop: one pass of pump_control.                                *)
(***************************************************************************)
Below == \E s \in enabled : level[s] = "below"
Above == \E s \in enabled : level[s] = "above"

Call(s, r) == pc' = "setState" /\ arg' = s /\ ret' = r

\* process_din: the input is active low.
Asked == din

\* Sensors are read and latched; then set_pump_state is called or not.
Latch(old, new) == old \/ new

LowFirst(below, above) == IF below THEN {TRUE} ELSE IF above THEN {FALSE} ELSE {}
Orders(below, above)   == IF above THEN {FALSE} ELSE IF below THEN {TRUE} ELSE {}

Sense ==
  /\ pc = "idle"
  /\ IF enabled = {}
     THEN /\ haveBelow' = Asked /\ haveAbove' = ~Asked
          /\ Call(Asked, "sanity")
     ELSE /\ haveBelow' = Latch(haveBelow, Below)
          /\ haveAbove' = Latch(haveAbove, Above)
          /\ \/ \E s \in Orders(haveBelow', haveAbove') : Call(s, "sanity")
             \/ /\ Orders(haveBelow', haveAbove') = {}
                /\ pc' = "sanity" /\ UNCHANGED <<arg, ret>>
  /\ UNCHANGED <<env, timers, work, failed, active, state, on, target, check, low, passed, logged>>

\* set_pump_state
SetState == /\ pc = "setState"
            /\ state' = arg
            /\ work' = IF arg THEN work ELSE 0
            /\ pc' = "offUnused"
            /\ UNCHANGED <<env, timers, failed, active, haveBelow, haveAbove, on, locals, passed, logged>>

TurnOffForgotten(p) == on
TurnOff(p)          == [on EXCEPT ![p] = FALSE]

OffUnused == /\ pc = "offUnused"
             /\ on' = TurnOff(Other(active))
             /\ pc' = "evaluate"
             /\ UNCHANGED <<env, timers, work, failed, active, state, haveBelow, haveAbove,
                            locals, passed, logged>>

\* C leaves open which argument of pump_onoff is loaded first.  In the other
\* order the only new outcome is an order to switch the main pump off.
EvaluatePump == /\ pc = "evaluate"
                /\ target' = [target EXCEPT !.pump = active]
                /\ pc' = "evaluateOn"
                /\ UNCHANGED <<env, timers, work, failed, active, state, haveBelow, haveAbove,
                               on, arg, ret, check, low, passed, logged>>

AllowedAlways == TRUE
Allowed       == ~failed

EvaluateOn == /\ pc = "evaluateOn"
              /\ target' = [target EXCEPT !.on = arg /\ Allowed]
              /\ pc' = "switch"
              /\ UNCHANGED <<env, timers, work, failed, active, state, haveBelow, haveAbove,
                             on, arg, ret, check, low, passed, logged>>

Switch == /\ pc = "switch"
          /\ on' = [on EXCEPT ![target.pump] = target.on]
          /\ pc' = ret
          /\ passed' = (passed \/ ret = "idle")
          /\ UNCHANGED <<env, timers, work, failed, active, state, haveBelow, haveAbove,
                         locals, logged>>

\* sanity_checks.  An 8-bit CPU loads pump_work_seconds and uptime a byte at
\* a time, low byte first; the interrupt may come between the loads.
LowByte(n)  == n % Byte
HighPart(n) == n - LowByte(n)

Sanity == /\ pc = "sanity"
          /\ check' = LowByte(work)
          /\ pc' = "halve"
          /\ UNCHANGED <<env, timers, work, failed, active, state, haveBelow, haveAbove,
                         on, arg, ret, target, low, passed, logged>>

HalvedTwice(n) == IF active = "spare" THEN n \div 4 ELSE n
Halved(n)      == IF active = "spare" THEN n \div 2 ELSE n

Halve == /\ pc = "halve"
         /\ check' = Halved(check + HighPart(work))
         /\ pc' = "checkPressure"
         /\ UNCHANGED <<env, timers, work, failed, active, state, haveBelow, haveAbove,
                        on, arg, ret, target, low, passed, logged>>

Suspect == check > PressureTime /\ haveBelow

CheckPressure == /\ pc = "checkPressure"
                 /\ pc' = IF Suspect THEN "checkUptime" ELSE "checkRun"
                 /\ low' = IF Suspect THEN LowByte(uptime) ELSE low
                 /\ UNCHANGED <<env, timers, work, failed, active, state, haveBelow, haveAbove,
                                on, arg, ret, target, check, passed, logged>>

NoPressure == low + HighPart(uptime) > StartupTime

CheckUptime == /\ pc = "checkUptime"
               /\ IF NoPressure
                  THEN logged' = "noPressure" /\ pc' = "failPump" /\ ret' = "checkRun"
                  ELSE pc' = "checkRun" /\ UNCHANGED <<logged, ret>>
               /\ UNCHANGED <<env, timers, work, failed, active, state, haveBelow, haveAbove,
                              on, arg, target, check, low, passed>>

LongRun == check > LongRunTime

CheckRun == /\ pc = "checkRun"
            /\ IF LongRun
               THEN /\ logged' = "longRun" /\ pc' = "failPump" /\ ret' = "idle"
                    /\ UNCHANGED passed
               ELSE pc' = "idle" /\ passed' = TRUE /\ UNCHANGED <<logged, ret>>
            /\ UNCHANGED <<env, timers, work, failed, active, state, haveBelow, haveAbove,
                           on, arg, target, check, low>>

\* process_pump_failure: the test, then the store, then pump_reset.
TestActive == /\ pc = "failPump"
              /\ pc' = IF active = "spare" THEN "giveUp" ELSE "useSpare"
              /\ UNCHANGED <<env, timers, work, failed, active, state, haveBelow, haveAbove,
                             on, locals, passed, logged>>

GiveUp == /\ pc = "giveUp"
          /\ failed' = TRUE /\ work' = 0
          /\ pc' = "setState" /\ arg' = FALSE
          /\ UNCHANGED <<env, timers, active, state, haveBelow, haveAbove, on,
                         ret, target, check, low, passed, logged>>

UseSpare == /\ pc = "useSpare"
            /\ active' = "spare" /\ work' = 0
            /\ pc' = "setState" /\ arg' = FALSE
            /\ UNCHANGED <<env, timers, failed, state, haveBelow, haveAbove, on,
                           ret, target, check, low, passed, logged>>

Main == \/ Sense \/ SetState \/ OffUnused \/ EvaluatePump \/ EvaluateOn \/ Switch
        \/ Sanity \/ Halve \/ CheckPressure \/ CheckUptime \/ CheckRun
        \/ TestActive \/ GiveUp \/ UseSpare

Next == Main \/ EverySecond \/ Pressure

\* No fairness: as built, nothing runs the main loop.
Spec == Init /\ [][Next]_vars

(***************************************************************************)
(* Properties.                                                             *)
(***************************************************************************)

TypeOK ==
  /\ enabled \subseteq Sensors /\ level \in [Sensors -> Level] /\ din \in BOOLEAN
  /\ uptime \in 0 .. StartupTime + 1 /\ retry \in 0 .. RetryTime
  /\ work \in Nat /\ check \in Nat /\ low \in Nat
  /\ failed \in BOOLEAN /\ active \in Pumps /\ state \in BOOLEAN
  /\ haveBelow \in BOOLEAN /\ haveAbove \in BOOLEAN /\ passed \in BOOLEAN
  /\ on \in [Pumps -> BOOLEAN]
  /\ pc \in {"idle", "setState", "offUnused", "evaluate", "evaluateOn", "switch", "sanity",
             "halve", "checkPressure", "checkUptime", "checkRun", "failPump", "giveUp", "useSpare"}
  /\ arg \in BOOLEAN /\ ret \in {"idle", "sanity", "checkRun"}
  /\ target \in [pump : Pumps, on : BOOLEAN]
  /\ logged \in {"none", "noPressure", "longRun"}

\* The relays of the two pumps are never closed together, although the
\* interrupt may switch both off, or the active pump may change, anywhere in
\* a pass (set_pump_state, pump_reset_all).
NeverBoth == ~(on["main"] /\ on["spare"])

\* However a pass and the retry interleave, no pump is left working longer
\* than the start-up grace or twice the pressure time (sanity_checks).
DryLimit == IF StartupTime > 2 * PressureTime THEN StartupTime + 2
                                              ELSE 2 * PressureTime + 3
DryBounded == work <= DryLimit

\* A failed system has both pumps off between passes.
FailedIsOff == failed /\ pc = "idle" => \A p \in Pumps : ~on[p]

\* The ten minutes check never catches a run: every run is a run with
\* have_below set, and the pressure check ends it first.
NoLongRun == logged # "longRun"

\* Once high pressure was measured, at this pass or at any before, no pump runs
\* between passes, however the failure of a pump, the change to the spare one and
\* the retry interleave with the pass (pump_control: high pressure comes first).
HighStops == enabled # {} /\ haveAbove /\ pc = "idle" => \A p \in Pumps : ~on[p]

\* What makes NeverBoth, FailedIsOff and HighStops inductive: how far the pass has
\* switched the pump it does not use, whatever the interrupt does meanwhile.
Switching == {"setState", "offUnused", "evaluate", "evaluateOn", "switch"}
OtherOff ==
  /\ pc = "evaluate" => ~on[Other(active)]
  /\ pc \in {"evaluateOn", "switch"} => ~on[Other(target.pump)]
FailedKeepsOff ==
  /\ failed /\ pc \notin Switching => \A p \in Pumps : ~on[p]
  /\ failed /\ pc = "switch" => ~target.on
HighKeepsOff ==
  enabled # {} /\ haveAbove =>
    /\ pc \notin Switching => \A p \in Pumps : ~on[p]
    /\ pc \in Switching => ~arg
    /\ pc = "switch" => ~target.on
IndInv == TypeOK /\ NeverBoth /\ OtherOff /\ FailedKeepsOff /\ HighKeepsOff

\* What makes DryBounded inductive.  Left is 1 while a tick may still come in this
\* pass.  Only a pump asked for by have_below works; the count checked is at most
\* one second old, the uptime checked as well, and what a pass lets go on leaves
\* room for the ticks until the next one checks.
Left == IF passed THEN 1 ELSE 0
Requested ==
  /\ ~state => work = 0
  /\ state /\ ~haveBelow => pc = "setState" /\ ~arg
  /\ state /\ pc \in Switching \ {"setState"} => arg
  /\ pc \in Switching /\ arg => haveBelow /\ ret = "sanity"
Checked ==
  /\ pc = "halve" => \/ check = LowByte(work)
                     \/ ~passed /\ (work = 0 \/ check = LowByte(work - 1))
  /\ pc = "checkPressure" => work + Left <= 2 * check + 2
  /\ pc = "checkUptime" =>
       \/ low = LowByte(uptime)
       \/ ~passed /\ uptime > 0 /\ low = LowByte(uptime - 1) /\ work <= uptime
InTime ==
  /\ uptime <= StartupTime => work <= uptime
  /\ work + Left <= IF pc = "checkRun" THEN DryLimit - 1 ELSE DryLimit
DryInv == TypeOK /\ Requested /\ Checked /\ InTime

(***************************************************************************)
(* What the code does not keep.                                            *)
(***************************************************************************)
\* A pass that measures low pressure and no high one asks for a pump (pump.h:17,
\* "Turn pump on here"): have_above, once set, is never withdrawn, and after one
\* high reading no pass asks for water again (pump.c:75).
LowAsks == [][Sense /\ enabled # {} /\ Below /\ ~Above => pc' = "setState" /\ arg']_vars

\* When the retry is due the system is no longer failed after the pass: a pass
\* that had tested active_pump before it gives up after it (pump.c:216).
RetryRevives == retry = 0 /\ uptime > 0 /\ pc = "idle" => ~failed
=============================================================================
