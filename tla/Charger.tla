-------------------------------- MODULE Charger --------------------------------
(***************************************************************************)
(* The battery charger (charger.c): one of its two chargers, 12 V, as a   *)
(* pass of charger_main_loop runs it every half second, and the SPI loop   *)
(* that carries its button and its lamp (io_spi.c).                        *)
(*                                                                         *)
(* As built, nothing calls charger_main_loop; the model is of the loop as  *)
(* it is written.  The relay of the load is a TODO of it: load_enabled is  *)
(* a decision that so far only the lamps and a dump show.                  *)
(*                                                                         *)
(* Voltages and currents are abstracted to how the code compares them.     *)
(***************************************************************************)
EXTENDS Naturals

CONSTANT Top     \* greatest charge_pwm_percentage, 0xFF

ASSUME TopAssumption == Top \in Nat \ {0}

\* acc_voltage against low_charge_voltage, their middle and max_charge_voltage
Low  == 0
Half == 1
Part == 2
Near == 3
Full == 4
Over == 5
Acc     == Low..Over
Current == {"under", "right", "over"}    \* charge_current against its maximum
States  == {"init", "charge", "discharge", "idle", "low_charge"}
Charger == [state : States, pwm : 0..Top, load : BOOLEAN, green : 0..3, red : BOOLEAN]
Measure == [mains : BOOLEAN, acc : Acc, high : BOOLEAN, current : Current]

VARIABLES
  volts,      \* environment: what an ADC would measure; high is an overvoltage of the load
  pressed,    \* environment: the button
  c,          \* c12v
  di, do0,    \* the button's bit of spi_di, the lamp in spi_do0
  an,         \* the PWM output, set_an
  lamp,       \* environment: the lamp, as the SPI device got it
  \* History:
  starved,    \* passes that found the battery empty, no mains and no button
  powered     \* the last pass found mains power

chargerVars == <<volts, pressed, c, di, do0, an, lamp, starved, powered>>

ChargerInit ==
  /\ volts \in Measure /\ pressed \in BOOLEAN
  /\ c = [state |-> "init", pwm |-> 0, load |-> FALSE, green |-> 0, red |-> FALSE]
  /\ di = FALSE /\ do0 = FALSE /\ an = 0 /\ lamp = FALSE
  /\ starved = 0 /\ powered = FALSE

-----------------------------------------------------------------------------
(* ch_set_charge_current *)

Inc(n) == IF n < Top THEN n + 1 ELSE n     \* INCS
Dec(n) == IF n > 0 THEN n - 1 ELSE n       \* DECS

Hold(n, v)  == IF v.acc = Over THEN Dec(n) ELSE IF v.acc < Near THEN Inc(n) ELSE n
Drive(n, v) == IF v.current = "over" THEN Dec(n) ELSE IF v.current = "under" THEN Inc(n) ELSE n

SetChargeCurrent(ch, v) ==
  [ch EXCEPT !.pwm =
     IF ch.state \notin {"charge", "idle"} THEN 0
     ELSE IF v.high THEN Dec(@)
     ELSE IF ch.state = "charge" /\ v.acc < Near THEN Drive(@, v)
     ELSE Hold(@, v)]

-----------------------------------------------------------------------------
(* ch_state_action *)

Start(ch, v) ==
  [ch EXCEPT !.state = IF ~v.mains THEN IF v.acc = Low THEN "low_charge" ELSE "discharge"
                       ELSE IF v.acc >= Full THEN "idle" ELSE "charge"]

Charge(ch, v) ==
  [SetChargeCurrent(ch, v) EXCEPT
     !.load = TRUE,
     !.state = IF ~v.mains THEN "discharge" ELSE IF v.acc >= Full THEN "idle" ELSE @]

DischargeLoaded(ch, v) ==
  [ch EXCEPT !.load = TRUE,
             !.state = IF v.mains THEN "charge" ELSE IF v.acc = Low THEN "low_charge" ELSE @]
Discharge(ch, v) ==
  [ch EXCEPT !.state = IF v.mains THEN "charge" ELSE IF v.acc = Low THEN "low_charge" ELSE @]

Idling(ch, v) ==
  [SetChargeCurrent(ch, v) EXCEPT !.load = TRUE,
                                  !.state = IF ~v.mains THEN "discharge" ELSE @]

LowChargeKeeps(ch, v) == [ch EXCEPT !.state = IF v.mains THEN "charge" ELSE @]
LowCharge(ch, v) ==
  [ch EXCEPT !.load = FALSE, !.state = IF v.mains THEN "charge" ELSE @]

StateAction(ch, v) ==
  CASE ch.state = "init"       -> Start(ch, v)
    [] ch.state = "charge"     -> Charge(ch, v)
    [] ch.state = "discharge"  -> Discharge(ch, v)
    [] ch.state = "idle"       -> Idling(ch, v)
    [] ch.state = "low_charge" -> LowCharge(ch, v)

-----------------------------------------------------------------------------
(* ch_display; the flashing of a discharge is overwritten in the same pass *)

Display(ch, v, button) ==
  LET s == IF button THEN "init" ELSE ch.state
  IN  [ch EXCEPT !.state = s,
                 !.green = IF ~ch.load THEN 0 ELSE IF s = "charge" THEN (@ + 1) % 4 ELSE 1,
                 !.red   = IF ~ch.load THEN TRUE ELSE IF v.acc <= Half THEN ~@ ELSE @]

\* The current is set again after the state has changed
SetOnce(ch, v)  == ch
SetAgain(ch, v) == SetChargeCurrent(ch, v)

Pass ==
  /\ LET next == SetAgain(StateAction(c, volts), volts)
     IN  /\ an' = next.pwm
         /\ do0' = (next.green # 0)
         /\ c' = Display(next, volts, di)
  /\ starved' = IF volts.mains \/ volts.acc # Low \/ di THEN 0 ELSE IF starved < 4 THEN starved + 1 ELSE 4
  /\ powered' = volts.mains
  /\ UNCHANGED <<volts, pressed, di, lamp>>

\* spi_loop: the outputs are sent, then the inputs are read
SpiLoop == lamp' = do0 /\ di' = pressed /\ UNCHANGED <<volts, pressed, c, do0, an, starved, powered>>

World ==
  /\ \/ volts' \in Measure /\ UNCHANGED pressed
     \/ pressed' = ~pressed /\ UNCHANGED volts
  /\ UNCHANGED <<c, di, do0, an, lamp, starved, powered>>

ChargerNext == Pass \/ SpiLoop \/ World

ChargerSpec == ChargerInit /\ [][ChargerNext]_chargerVars

-----------------------------------------------------------------------------
ChargerTypeOK ==
  /\ volts \in Measure /\ pressed \in BOOLEAN /\ c \in Charger
  /\ di \in BOOLEAN /\ do0 \in BOOLEAN /\ an \in 0..Top /\ lamp \in BOOLEAN
  /\ starved \in 0..4 /\ powered \in BOOLEAN

\* "Green light - on = load is on": four passes on an empty battery put the green
\* lamp out, whatever the state they began in and wherever its flashing was: two
\* to reach low_charge, one to clear load_enabled, one to send what that displays.
\* A button held down keeps the lamp as it is (ch_display, ch_output_12v).
EmptyIsDark == starved = 4 => ~do0

\* The charger's MOSFET is never driven after a pass that found no mains power,
\* although the state leaves charge and idle only after the current was set.
NoMainsNoPwm == ~powered => an = 0

\* load_enabled is set again only with mains power, found in this pass or the one
\* before: what a relay that followed the flag would need not to flutter on an
\* empty battery, whose voltage rises when the load is gone (ch_state_action).
LoadNeedsMains == [][~c.load /\ c'.load => powered \/ powered']_chargerVars

\* Why EmptyIsDark and LoadNeedsMains hold: where a starved charger can be, that
\* the display follows the flag, and that charge and idle, before they set it, were
\* entered with mains.
Starving ==
  /\ starved >= 1 => c.state \in {"discharge", "low_charge"}
  /\ starved >= 2 => c.state = "low_charge"
  /\ starved >= 3 => ~c.load
Shown == ~c.load => c.green = 0
Entered == c.state \in {"charge", "idle"} /\ ~c.load => powered
ChargerInv == ChargerTypeOK /\ Starving /\ Shown /\ EmptyIsDark /\ NoMainsNoPwm /\ Entered
=============================================================================
