----------------------------- MODULE PumpProofs -----------------------------
(***************************************************************************)
(* Theorems about the pump controller, for every set of sensors and every  *)
(* choice of the times: the state is typed, the two pumps are never on     *)
(* together, a failed system is off, and so is one that has seen high      *)
(* pressure.  The charger's theorems, the other *)
(* control loop, follow at the end.                                        *)
(***************************************************************************)
EXTENDS Pump, Charger, TLAPS

\* What every proof below expands.
USE PumpAssumption DEF PumpAssumption, Pumps, Other, Level

\* The initial state is typed and both relays are off (pump.c, PORTB).
LEMMA InitInd == Init => IndInv
<1> SUFFICES ASSUME Init PROVE IndInv
  OBVIOUS
<1>1. /\ uptime \in 0 .. StartupTime + 1 /\ retry \in 0 .. RetryTime
      /\ work \in Nat /\ check \in Nat /\ low \in Nat
  BY DEF Init
<1>2. /\ on \in [Pumps -> BOOLEAN]
      /\ target \in [pump : Pumps, on : BOOLEAN]
  BY DEF Init
<1>3. TypeOK
  BY <1>1, <1>2, Zenon DEF Init, TypeOK
<1>4. NeverBoth /\ OtherOff /\ FailedKeepsOff /\ HighKeepsOff
  BY DEF Init, NeverBoth, OtherOff, FailedKeepsOff, HighKeepsOff, Switching
<1> QED BY <1>3, <1>4 DEF IndInv

\* Types are kept by every step of a pass and by the interrupt.
LEMMA TypeStep == ASSUME TypeOK, [Next]_vars PROVE TypeOK'
<1> USE DEF TypeOK, env, timers, locals
<1>1. CASE Sense
  <2> USE <1>1 DEF Sense, Asked, Latch, Orders, Call
  <2>1. haveBelow' \in BOOLEAN /\ haveAbove' \in BOOLEAN
    BY Zenon DEF Below, Above
  <2>2. /\ pc' \in {"setState", "sanity"} /\ arg' \in BOOLEAN
        /\ ret' \in {"idle", "sanity", "checkRun"}
    OBVIOUS
  <2> QED BY <2>1, <2>2
<1>2. CASE SetState
  BY <1>2 DEF SetState
<1>3. CASE OffUnused
  BY <1>3 DEF OffUnused, TurnOff
<1>4. CASE EvaluatePump
  BY <1>4 DEF EvaluatePump
<1>5. CASE EvaluateOn
  <2>1. target' \in [pump : Pumps, on : BOOLEAN]
    BY <1>5 DEF EvaluateOn, Allowed
  <2> QED BY <1>5, <2>1 DEF EvaluateOn
<1>6. CASE Switch
  <2>1. passed' \in BOOLEAN
    BY <1>6, Zenon DEF Switch
  <2>2. on' \in [Pumps -> BOOLEAN] /\ pc' \in {"idle", "sanity", "checkRun"}
    BY <1>6 DEF Switch
  <2>3. UNCHANGED <<env, timers, work, failed, active, state, haveBelow, haveAbove,
                    locals, logged>>
    BY <1>6 DEF Switch
  <2> QED BY <2>1, <2>2, <2>3
<1>7. CASE Sanity
  BY <1>7 DEF Sanity, LowByte
<1>8. CASE Halve
  BY <1>8 DEF Halve, HighPart, LowByte, Halved
<1>9. CASE CheckPressure
  BY <1>9 DEF CheckPressure, Suspect, LowByte
<1>10. CASE CheckUptime
  BY <1>10 DEF CheckUptime, NoPressure
<1>11. CASE CheckRun
  <2> USE <1>11 DEF CheckRun
  <2>1. pc' \in {"failPump", "idle"} /\ passed' \in BOOLEAN
    BY Zenon
  <2>2. logged' \in {"none", "noPressure", "longRun"} /\ ret' \in {"idle", "sanity", "checkRun"}
    BY Zenon
  <2> QED BY <2>1, <2>2
<1>12. CASE TestActive
  BY <1>12 DEF TestActive
<1>13. CASE GiveUp
  <2>1. failed' \in BOOLEAN /\ arg' \in BOOLEAN /\ work' \in Nat /\ pc' = "setState"
    BY <1>13 DEF GiveUp
  <2>2. UNCHANGED <<env, timers, active, state, haveBelow, haveAbove, on,
                    ret, target, check, low, passed, logged>>
    BY <1>13 DEF GiveUp
  <2> QED BY <2>1, <2>2
<1>14. CASE UseSpare
  <2>1. active' \in Pumps /\ arg' \in BOOLEAN /\ work' \in Nat /\ pc' = "setState"
    BY <1>14 DEF UseSpare
  <2>2. UNCHANGED <<env, timers, failed, state, haveBelow, haveAbove, on,
                    ret, target, check, low, passed, logged>>
    BY <1>14 DEF UseSpare
  <2> QED BY <2>1, <2>2
<1>15. CASE EverySecond
  <2> USE <1>15 DEF EverySecond, ResetFailed
  <2>1. uptime' \in 0 .. StartupTime + 1 /\ retry' \in 0 .. RetryTime
    BY DEF Uptime, RetryDue
  <2>2. work' \in Nat
    OBVIOUS
  <2>3. /\ failed' \in BOOLEAN /\ active' \in Pumps /\ state' \in BOOLEAN
        /\ on' \in [Pumps -> BOOLEAN]
    BY Zenon
  <2>4. /\ enabled' \subseteq Sensors /\ level' \in [Sensors -> Level]
        /\ din' \in BOOLEAN /\ passed' \in BOOLEAN
        /\ haveBelow' \in BOOLEAN /\ haveAbove' \in BOOLEAN /\ logged' = logged
    BY Zenon
  <2>5. /\ pc' = pc /\ arg' = arg /\ ret' = ret
        /\ target' = target /\ check' = check /\ low' = low
    BY Zenon
  <2> HIDE DEF EverySecond
  <2> QED BY <2>1, <2>2, <2>3, <2>4, <2>5
<1>16. CASE Pressure
  <2>1. level' \in [Sensors -> Level] /\ enabled' \subseteq Sensors
    BY <1>16 DEF Pressure
  <2>2. din' \in BOOLEAN
    BY <1>16, Zenon DEF Pressure
  <2>3. UNCHANGED <<timers, work, failed, active, state, haveBelow, haveAbove,
                    on, pc, locals, passed, logged>>
    BY <1>16 DEF Pressure
  <2> QED BY <2>1, <2>2, <2>3
<1>17. CASE UNCHANGED vars
  BY <1>17 DEF vars
<1> QED BY <1>1, <1>2, <1>3, <1>4, <1>5, <1>6, <1>7, <1>8,
          <1>9, <1>10, <1>11, <1>12, <1>13, <1>14, <1>15, <1>16, <1>17 DEF Next, Main

\* The interrupt can only switch pumps off, and a pass switches a pump on
\* after the other one is off.
LEMMA RelayStep ==
  ASSUME IndInv, [Next]_vars
  PROVE  NeverBoth' /\ OtherOff' /\ FailedKeepsOff'
<1> USE DEF IndInv, TypeOK, NeverBoth, OtherOff, FailedKeepsOff, Switching, env, timers, locals
<1>1. CASE Sense
  BY <1>1 DEF Sense, Asked, Latch, Orders, Below, Above, Call
<1>2. CASE SetState
  BY <1>2 DEF SetState
<1>3. CASE OffUnused
  BY <1>3 DEF OffUnused, TurnOff
<1>4. CASE EvaluatePump
  BY <1>4 DEF EvaluatePump
<1>5. CASE EvaluateOn
  BY <1>5 DEF EvaluateOn, Allowed
<1>6. CASE Switch
  BY <1>6 DEF Switch
<1>7. CASE Sanity
  BY <1>7 DEF Sanity, LowByte
<1>8. CASE Halve
  BY <1>8 DEF Halve, HighPart, LowByte, Halved
<1>9. CASE CheckPressure
  BY <1>9 DEF CheckPressure, Suspect, LowByte
<1>10. CASE CheckUptime
  BY <1>10 DEF CheckUptime, NoPressure
<1>11. CASE CheckRun
  BY <1>11 DEF CheckRun, LongRun
<1>12. CASE TestActive
  BY <1>12 DEF TestActive
<1>13. CASE GiveUp
  BY <1>13 DEF GiveUp
<1>14. CASE UseSpare
  BY <1>14 DEF UseSpare
<1>15. CASE EverySecond
  BY <1>15 DEF EverySecond, Uptime, RetryDue, ResetFailed
<1>16. CASE Pressure
  BY <1>16 DEF Pressure
<1>17. CASE UNCHANGED vars
  BY <1>17 DEF vars
<1> QED BY <1>1, <1>2, <1>3, <1>4, <1>5, <1>6, <1>7, <1>8,
          <1>9, <1>10, <1>11, <1>12, <1>13, <1>14, <1>15, <1>16, <1>17 DEF Next, Main

\* After a high reading set_pump_state is only ever called to switch off.
LEMMA HighStep ==
  ASSUME IndInv, [Next]_vars
  PROVE  HighKeepsOff'
<1> USE DEF IndInv, TypeOK, OtherOff, HighKeepsOff, Switching, env, timers, locals
<1>1. CASE Sense
  BY <1>1 DEF Sense, Asked, Latch, Orders, Below, Above, Call
<1>2. CASE SetState
  BY <1>2 DEF SetState
<1>3. CASE OffUnused
  BY <1>3 DEF OffUnused, TurnOff
<1>4. CASE EvaluatePump
  BY <1>4 DEF EvaluatePump
<1>5. CASE EvaluateOn
  BY <1>5 DEF EvaluateOn, Allowed
<1>6. CASE Switch
  BY <1>6 DEF Switch
<1>7. CASE Sanity
  BY <1>7 DEF Sanity, LowByte
<1>8. CASE Halve
  BY <1>8 DEF Halve, HighPart, LowByte, Halved
<1>9. CASE CheckPressure
  BY <1>9 DEF CheckPressure, Suspect, LowByte
<1>10. CASE CheckUptime
  BY <1>10 DEF CheckUptime, NoPressure
<1>11. CASE CheckRun
  BY <1>11 DEF CheckRun, LongRun
<1>12. CASE TestActive
  BY <1>12 DEF TestActive
<1>13. CASE GiveUp
  BY <1>13 DEF GiveUp
<1>14. CASE UseSpare
  BY <1>14 DEF UseSpare
<1>15. CASE EverySecond
  BY <1>15 DEF EverySecond, Uptime, RetryDue, ResetFailed
<1>16. CASE Pressure
  BY <1>16 DEF Pressure
<1>17. CASE UNCHANGED vars
  BY <1>17 DEF vars
<1> QED BY <1>1, <1>2, <1>3, <1>4, <1>5, <1>6, <1>7, <1>8,
          <1>9, <1>10, <1>11, <1>12, <1>13, <1>14, <1>15, <1>16, <1>17 DEF Next, Main

\* IndInv is an inductive invariant.
THEOREM Inductive == Spec => []IndInv
<1>1. Init => IndInv
  BY InitInd
<1>2. IndInv /\ [Next]_vars => IndInv'
  BY TypeStep, RelayStep, HighStep DEF IndInv
<1> QED BY <1>1, <1>2, PTL DEF Spec

\* The controller's variables keep their types, uptime and the retry timer
\* their bounds.
THEOREM TypeCorrect == Spec => []TypeOK
<1>1. IndInv => TypeOK
  BY DEF IndInv
<1> QED BY <1>1, Inductive, PTL

\* The relays of the main and the spare pump are never closed together,
\* wherever the interrupt preempts a pass.
THEOREM PumpsExclude == Spec => []NeverBoth
<1>1. IndInv => NeverBoth
  BY DEF IndInv
<1> QED BY <1>1, Inductive, PTL

\* A failed system has both pumps off between passes.
THEOREM FailedOff == Spec => []FailedIsOff
<1>1. IndInv => FailedIsOff
  BY DEF IndInv, FailedKeepsOff, FailedIsOff, Switching
<1> QED BY <1>1, Inductive, PTL

\* Once high pressure was measured no pump runs between passes.
THEOREM HighPressureStops == Spec => []HighStops
<1>1. IndInv => HighStops
  BY DEF IndInv, HighKeepsOff, HighStops, Switching
<1> QED BY <1>1, Inductive, PTL

(***************************************************************************)
(* No dry run beyond its limit.                                            *)
(***************************************************************************)
\* The two parts of a counter put together again are the counter; with the low
\* byte of a second ago they are at most one second behind (sanity_checks).
LEMMA TornRead ==
  ASSUME NEW n \in Nat
  PROVE  /\ LowByte(n) \in Nat /\ LowByte(n) + HighPart(n) = n
         /\ n > 0 => LowByte(n - 1) \in Nat /\ LowByte(n - 1) + HighPart(n) >= n - 1
<1>1. LowByte(n) \in Nat /\ LowByte(n) + HighPart(n) = n
  BY DEF LowByte, HighPart
<1>2. ASSUME n > 0
      PROVE  LowByte(n - 1) \in Nat /\ LowByte(n - 1) >= LowByte(n) - 1
  <2> DEFINE q == (n - 1) \div Byte
             r == (n - 1) % Byte
  <2>1. /\ q \in Nat /\ r \in 0 .. Byte - 1 /\ n - 1 = Byte * q + r
    BY <1>2
  <2> HIDE DEF q, r
  <2>2. CASE r + 1 < Byte
    <3>1. n = Byte * q + (r + 1) /\ r + 1 \in 0 .. Byte - 1
      BY <2>1, <2>2
    <3>2. n % Byte = r + 1
      BY <3>1, <2>1
    <3> QED BY <3>2, <2>1 DEF LowByte, r
  <2>3. CASE r + 1 = Byte
    BY <2>1, <2>3 DEF LowByte, r
  <2> QED BY <2>1, <2>2, <2>3
<1> QED BY <1>1, <1>2 DEF HighPart

\* A fresh start has worked no second.
LEMMA InitDry == Init => DryInv
  BY InitInd DEF Init, DryInv, IndInv, Requested, Checked, InTime, Left, DryLimit, Switching

\* Only a pump that have_below asked for works, and a run that is not asked for
\* is over when set_pump_state returns.
LEMMA RequestedStep ==
  ASSUME TypeOK, Requested, [Next]_vars
  PROVE  Requested'
<1> USE DEF TypeOK, Requested, Switching, env, timers, locals
<1>1. CASE Sense
  BY <1>1 DEF Sense, Asked, Latch, Orders, Below, Above, Call
<1>2. CASE SetState
  BY <1>2 DEF SetState
<1>3. CASE OffUnused
  BY <1>3 DEF OffUnused
<1>4. CASE EvaluatePump
  BY <1>4 DEF EvaluatePump
<1>5. CASE EvaluateOn
  BY <1>5 DEF EvaluateOn
<1>6. CASE Switch
  BY <1>6 DEF Switch
<1>7. CASE Sanity
  BY <1>7 DEF Sanity
<1>8. CASE Halve
  BY <1>8 DEF Halve, Halved
<1>9. CASE CheckPressure
  BY <1>9 DEF CheckPressure, Suspect
<1>10. CASE CheckUptime
  BY <1>10 DEF CheckUptime, NoPressure
<1>11. CASE CheckRun
  BY <1>11 DEF CheckRun, LongRun
<1>12. CASE TestActive
  BY <1>12 DEF TestActive
<1>13. CASE GiveUp
  BY <1>13 DEF GiveUp
<1>14. CASE UseSpare
  BY <1>14 DEF UseSpare
<1>15. CASE EverySecond
  BY <1>15 DEF EverySecond, Uptime, RetryDue, ResetFailed
<1>16. CASE Pressure
  BY <1>16 DEF Pressure
<1>17. CASE UNCHANGED vars
  BY <1>17 DEF vars
<1> QED BY <1>1, <1>2, <1>3, <1>4, <1>5, <1>6, <1>7, <1>8,
          <1>9, <1>10, <1>11, <1>12, <1>13, <1>14, <1>15, <1>16, <1>17 DEF Next, Main

\* What the pass has loaded stays at most one second old.
LEMMA CheckedStep ==
  ASSUME DryInv, [Next]_vars
  PROVE  Checked'
<1> USE DEF DryInv, TypeOK, Checked, Left, env, timers, locals
<1>1. CASE Sense
  BY <1>1 DEF Sense, Asked, Latch, Orders, Below, Above, Call
<1>2. CASE SetState
  BY <1>2 DEF SetState
<1>3. CASE OffUnused
  BY <1>3 DEF OffUnused
<1>4. CASE EvaluatePump
  BY <1>4 DEF EvaluatePump
<1>5. CASE EvaluateOn
  BY <1>5 DEF EvaluateOn
<1>6. CASE Switch
  BY <1>6 DEF Switch
<1>7. CASE Sanity
  BY <1>7 DEF Sanity
<1>8. CASE Halve
  <2>1. work + Left <= check + HighPart(work) + 1
    BY <1>8, TornRead DEF Halve, LowByte, HighPart
  <2>2. check + HighPart(work) \in Nat
    BY TornRead DEF HighPart, LowByte
  <2>3. work + Left <= 2 * Halved(check + HighPart(work)) + 2
    BY <2>1, <2>2 DEF Halved
  <2> QED BY <1>8, <2>3 DEF Halve
<1>9. CASE CheckPressure
  BY <1>9 DEF CheckPressure, Suspect
<1>10. CASE CheckUptime
  BY <1>10 DEF CheckUptime, NoPressure
<1>11. CASE CheckRun
  BY <1>11 DEF CheckRun, LongRun
<1>12. CASE TestActive
  BY <1>12 DEF TestActive
<1>13. CASE GiveUp
  BY <1>13 DEF GiveUp
<1>14. CASE UseSpare
  BY <1>14 DEF UseSpare
<1>15. CASE EverySecond
  <2> USE <1>15 DEF EverySecond
  <2>1. CASE pc = "halve"
    <3>1. work' = 0 \/ check = LowByte(work') \/ check = LowByte(work' - 1)
      BY <2>1
    <3> QED BY <2>1, <3>1 DEF LowByte
  <2>2. CASE pc = "checkPressure"
    BY <2>2
  <2>3. CASE pc = "checkUptime"
    <3>1. CASE uptime <= StartupTime
      <4>1. work' <= uptime' /\ uptime = uptime' - 1 /\ uptime' > 0
        BY <3>1 DEF InTime, Uptime
      <4> QED BY <2>3, <4>1
    <3>2. CASE uptime > StartupTime
      BY <2>3, <3>2 DEF Uptime, LowByte
    <3> QED BY <3>1, <3>2
  <2> QED BY <2>1, <2>2, <2>3
<1>16. CASE Pressure
  BY <1>16 DEF Pressure
<1>17. CASE UNCHANGED vars
  BY <1>17 DEF vars
<1> QED BY <1>1, <1>2, <1>3, <1>4, <1>5, <1>6, <1>7, <1>8,
          <1>9, <1>10, <1>11, <1>12, <1>13, <1>14, <1>15, <1>16, <1>17 DEF Next, Main

\* A pass that lets a pump go on leaves room for the seconds until the next check.
LEMMA InTimeStep ==
  ASSUME DryInv, [Next]_vars
  PROVE  InTime'
<1> USE DEF DryInv, TypeOK, InTime, Left, DryLimit, env, timers, locals
<1>1. CASE Sense
  BY <1>1 DEF Sense, Asked, Latch, Orders, Below, Above, Call
<1>2. CASE SetState
  BY <1>2 DEF SetState, Requested, Switching, Checked
<1>3. CASE OffUnused
  BY <1>3 DEF OffUnused
<1>4. CASE EvaluatePump
  BY <1>4 DEF EvaluatePump
<1>5. CASE EvaluateOn
  BY <1>5 DEF EvaluateOn
<1>6. CASE Switch
  BY <1>6 DEF Switch, Requested, Switching, Checked
<1>7. CASE Sanity
  BY <1>7 DEF Sanity
<1>8. CASE Halve
  BY <1>8 DEF Halve, Halved
<1>9. CASE CheckPressure
  BY <1>9 DEF CheckPressure, Suspect, Requested, Switching, Checked
<1>10. CASE CheckUptime
  BY <1>10, TornRead DEF CheckUptime, NoPressure, Checked
<1>11. CASE CheckRun
  BY <1>11 DEF CheckRun, LongRun, Requested, Switching, Checked
<1>12. CASE TestActive
  BY <1>12 DEF TestActive
<1>13. CASE GiveUp
  BY <1>13 DEF GiveUp
<1>14. CASE UseSpare
  BY <1>14 DEF UseSpare
<1>15. CASE EverySecond
  BY <1>15 DEF EverySecond, Uptime, RetryDue, ResetFailed
<1>16. CASE Pressure
  BY <1>16 DEF Pressure
<1>17. CASE UNCHANGED vars
  BY <1>17 DEF vars
<1> QED BY <1>1, <1>2, <1>3, <1>4, <1>5, <1>6, <1>7, <1>8,
          <1>9, <1>10, <1>11, <1>12, <1>13, <1>14, <1>15, <1>16, <1>17 DEF Next, Main

\* However a pass and the retry interleave, no pump works longer than the start-up
\* grace or twice the pressure time, and the seconds between two checks.
THEOREM DryRunsEnd == Spec => []DryBounded
<1>1. Init => DryInv
  BY InitDry
<1>2. DryInv /\ [Next]_vars => DryInv'
  BY TypeStep, RequestedStep, CheckedStep, InTimeStep DEF DryInv
<1>3. DryInv => DryBounded
  BY DEF DryInv, TypeOK, InTime, Left, DryLimit, DryBounded
<1> QED BY <1>1, <1>2, <1>3, PTL DEF Spec

-----------------------------------------------------------------------------
(* The charger, for every greatest PWM value Top: an empty battery puts the  *)
(* green lamp out, the charging transistor is idle without mains, and        *)
(* load_enabled is set again only with mains power.                          *)

\* What every proof below expands as well.
USE TopAssumption DEF Acc, Current, States, Low, Half, Part, Near, Full, Over

\* The PWM stays within its bounds, and a state that does not charge has none
\* (ch_set_charge_current).
LEMMA CurrentSet ==
  ASSUME NEW ch \in Charger, NEW v \in Measure
  PROVE  /\ SetChargeCurrent(ch, v) \in Charger
         /\ SetChargeCurrent(ch, v).state = ch.state
         /\ SetChargeCurrent(ch, v).load = ch.load
         /\ SetChargeCurrent(ch, v).green = ch.green
         /\ ch.state \notin {"charge", "idle"} => SetChargeCurrent(ch, v).pwm = 0
<1>1. /\ Inc(ch.pwm) \in 0..Top /\ Dec(ch.pwm) \in 0..Top /\ ch.pwm \in 0..Top
  BY DEF Inc, Dec, Charger
<1>2. Hold(ch.pwm, v) \in 0..Top /\ Drive(ch.pwm, v) \in 0..Top
  BY <1>1 DEF Hold, Drive
<1>3. SetChargeCurrent(ch, v).pwm \in 0..Top
  BY <1>1, <1>2 DEF SetChargeCurrent, Charger
<1> QED BY <1>3 DEF SetChargeCurrent, Charger

\* What one ch_state_action does to the state and the load: without mains it
\* leaves charge and idle, an empty battery is in low charge after two of them,
\* and only charge and idle connect the load.
LEMMA StateStep ==
  ASSUME NEW ch \in Charger, NEW v \in Measure, NEW next, next = StateAction(ch, v)
  PROVE  /\ next \in Charger
         /\ ~v.mains => next.state \in {"discharge", "low_charge"}
         /\ ~v.mains /\ v.acc = Low /\ ch.state \in {"discharge", "low_charge"}
              => next.state = "low_charge"
         /\ ~v.mains /\ v.acc = Low /\ ch.state = "low_charge" => ~next.load
         /\ next.green = ch.green
         /\ ~ch.load /\ next.load => ch.state \in {"charge", "idle"}
         /\ next.state \in {"charge", "idle"} /\ ~next.load => v.mains
<1>0. /\ v.mains \in BOOLEAN /\ ch.state \in States /\ ch.load \in BOOLEAN
  BY DEF Measure, Charger
<1>1. CASE ch.state = "init"
  BY <1>0, <1>1 DEF StateAction, Start, Charger
<1>2. CASE ch.state = "charge"
  <2> DEFINE set == SetChargeCurrent(ch, v)
  <2>1. set \in Charger /\ set.state = ch.state /\ set.green = ch.green
    BY CurrentSet
  <2>2. next = [set EXCEPT !.load = TRUE,
                           !.state = IF ~v.mains THEN "discharge"
                                     ELSE IF v.acc >= Full THEN "idle" ELSE @]
    BY <1>2 DEF StateAction, Charge
  <2> HIDE DEF set
  <2> QED BY <1>0, <1>2, <2>1, <2>2 DEF Charger
<1>3. CASE ch.state = "discharge"
  <2>1. next = Discharge(ch, v)
    BY <1>3 DEF StateAction
  <2> QED BY <1>0, <1>3, <2>1 DEF Discharge, Charger
<1>4. CASE ch.state = "idle"
  <2> DEFINE set == SetChargeCurrent(ch, v)
  <2>1. set \in Charger /\ set.state = ch.state /\ set.green = ch.green
    BY CurrentSet
  <2>2. next = [set EXCEPT !.load = TRUE,
                           !.state = IF ~v.mains THEN "discharge" ELSE @]
    BY <1>4 DEF StateAction, Idling
  <2> HIDE DEF set
  <2> QED BY <1>0, <1>4, <2>1, <2>2 DEF Charger
<1>5. CASE ch.state = "low_charge"
  <2>1. next = LowCharge(ch, v)
    BY <1>5 DEF StateAction
  <2> QED BY <1>0, <1>5, <2>1 DEF LowCharge, Charger
<1> QED BY <1>0, <1>1, <1>2, <1>3, <1>4, <1>5

\* A pass, display included: what it leaves of the state, the load and the PWM.
LEMMA PassStep ==
  ASSUME ChargerTypeOK, Pass
  PROVE  /\ ChargerTypeOK'
         /\ ~volts.mains => c'.state \in {"init", "discharge", "low_charge"} /\ an' = 0
         /\ di => c'.state = "init"
         /\ ~volts.mains /\ ~di => c'.state \in {"discharge", "low_charge"}
         /\ /\ ~volts.mains /\ volts.acc = Low /\ ~di
            /\ c.state \in {"discharge", "low_charge"}
            => c'.state = "low_charge"
         /\ ~volts.mains /\ volts.acc = Low /\ c.state = "low_charge" => ~c'.load
         /\ ~c'.load => c'.green = 0
         /\ do0' = (c.green # 0)
         /\ ~c.load /\ c'.load => c.state \in {"charge", "idle"}
         /\ c'.state \in {"charge", "idle"} /\ ~c'.load => volts.mains
<1> DEFINE acted == StateAction(c, volts)
           next  == SetAgain(acted, volts)
<1>0. /\ volts \in Measure /\ c \in Charger /\ di \in BOOLEAN /\ volts.mains \in BOOLEAN
      /\ starved \in 0..4
  BY DEF ChargerTypeOK, Measure
<1>1. acted \in Charger
  BY <1>0, StateStep
<1>2. /\ next \in Charger /\ next.state = acted.state /\ next.load = acted.load
      /\ next.green = acted.green
      /\ acted.state \notin {"charge", "idle"} => next.pwm = 0
  BY <1>0, <1>1, CurrentSet DEF SetAgain
<1>3. /\ c' = Display(next, volts, di) /\ an' = next.pwm
      /\ do0' = (next.green # 0) /\ powered' = volts.mains
      /\ UNCHANGED <<volts, pressed, di, lamp>>
  BY DEF Pass
<1>4. /\ c' \in Charger /\ c'.load = next.load /\ (~c'.load => c'.green = 0)
      /\ c'.state = IF di THEN "init" ELSE next.state
  <2> HIDE DEF next
  <2>1. /\ next.green \in 0..3 /\ (next.green + 1) % 4 \in 0..3
        /\ next.red \in BOOLEAN /\ next.load \in BOOLEAN /\ next.pwm \in 0..Top
        /\ next.state \in States
    BY <1>2 DEF Charger
  <2>2. /\ (IF di THEN "init" ELSE next.state) \in States
        /\ (IF ~next.load THEN TRUE
            ELSE IF volts.acc <= Half THEN ~next.red ELSE next.red) \in BOOLEAN
    BY <1>0, <2>1, Zenon
  <2> DEFINE lit == IF ~next.load THEN TRUE
                    ELSE IF volts.acc <= Half THEN ~next.red ELSE next.red
             shown == IF di THEN "init" ELSE next.state
             green == IF ~next.load THEN 0
                      ELSE IF shown = "charge" THEN (next.green + 1) % 4 ELSE 1
  <2>3. c' = [next EXCEPT !.state = shown, !.green = green, !.red = lit]
    BY <1>3 DEF Display
  <2>4. lit \in BOOLEAN /\ shown \in States
    BY <2>2, Zenon
  <2>5. green \in 0..3 /\ (~next.load => green = 0)
    BY <2>1
  <2> HIDE DEF lit, green
  <2>6. c' \in Charger /\ c'.load = next.load /\ c'.green = green /\ c'.state = shown
    BY <1>2, <2>3, <2>4, <2>5 DEF Charger
  <2> QED BY <2>5, <2>6
<1>5. starved' \in 0..4
  BY <1>0 DEF Pass
<1>6. an' \in 0..Top /\ do0' \in BOOLEAN /\ powered' \in BOOLEAN
  <2> HIDE DEF next
  <2> QED BY <1>0, <1>2, <1>3 DEF Charger
<1>7. ChargerTypeOK'
  BY <1>3, <1>4, <1>5, <1>6 DEF ChargerTypeOK
<1> HIDE DEF next
<1>8. /\ ~volts.mains => acted.state \in {"discharge", "low_charge"}
      /\ ~volts.mains /\ volts.acc = Low /\ c.state \in {"discharge", "low_charge"}
           => acted.state = "low_charge"
      /\ ~volts.mains /\ volts.acc = Low /\ c.state = "low_charge" => ~acted.load
      /\ acted.green = c.green
      /\ ~c.load /\ acted.load => c.state \in {"charge", "idle"}
      /\ acted.state \in {"charge", "idle"} /\ ~acted.load => volts.mains
  BY <1>0, StateStep
<1> HIDE DEF acted
<1> QED BY <1>0, <1>2, <1>3, <1>4, <1>7, <1>8

\* ChargerInv holds at power-up and every step keeps it.
THEOREM ChargerInductive == ChargerSpec => []ChargerInv
<1>1. ChargerInit => ChargerInv
  <2> SUFFICES ASSUME ChargerInit PROVE ChargerInv
    OBVIOUS
  <2>1. c \in Charger
    BY DEF ChargerInit, Charger
  <2>2. ChargerTypeOK
    <3>1. an \in 0..Top /\ starved \in 0..4
      BY DEF ChargerInit
    <3> QED BY <2>1, <3>1, Zenon DEF ChargerInit, ChargerTypeOK
  <2> QED BY <2>2 DEF ChargerInit, ChargerInv, Starving, Shown, EmptyIsDark, NoMainsNoPwm, Entered
<1>2. ASSUME ChargerInv, [ChargerNext]_chargerVars PROVE ChargerInv'
  <2>1. CASE Pass
    <3>1. ChargerTypeOK /\ ChargerTypeOK' /\ starved \in 0..4 /\ volts.mains \in BOOLEAN /\ di \in BOOLEAN
      BY <1>2, <2>1, PassStep DEF ChargerInv, ChargerTypeOK, Measure
    <3>2. /\ powered' = volts.mains
          /\ starved' = IF volts.mains \/ volts.acc # Low \/ di THEN 0
                        ELSE IF starved < 4 THEN starved + 1 ELSE 4
      BY <2>1 DEF Pass
    <3>3. Starving'
      BY <1>2, <2>1, <3>1, <3>2, PassStep DEF ChargerInv, Starving
    <3>4. EmptyIsDark' /\ Shown'
      BY <1>2, <2>1, <3>1, <3>2, PassStep DEF ChargerInv, Starving, Shown, EmptyIsDark
    <3>5. NoMainsNoPwm' /\ Entered'
      BY <2>1, <3>1, <3>2, PassStep DEF NoMainsNoPwm, Entered
    <3> QED BY <3>1, <3>3, <3>4, <3>5 DEF ChargerInv
  <2>2. CASE SpiLoop
    BY <1>2, <2>2 DEF SpiLoop, ChargerInv, ChargerTypeOK, Starving, Shown, EmptyIsDark, NoMainsNoPwm, Entered
  <2>3. CASE World
    BY <1>2, <2>3 DEF World, ChargerInv, ChargerTypeOK, Starving, Shown, EmptyIsDark, NoMainsNoPwm, Entered
  <2>4. CASE UNCHANGED chargerVars
    BY <1>2, <2>4 DEF chargerVars, ChargerInv, ChargerTypeOK, Starving, Shown, EmptyIsDark, NoMainsNoPwm, Entered
  <2> QED BY <1>2, <2>1, <2>2, <2>3, <2>4 DEF ChargerNext
<1> QED BY <1>1, <1>2, PTL DEF ChargerSpec

\* The charger's variables keep their types, the PWM its range (INCS, DECS).
THEOREM ChargerTypeCorrect == ChargerSpec => []ChargerTypeOK
<1>1. ChargerInv => ChargerTypeOK
  BY DEF ChargerInv
<1> QED BY <1>1, ChargerInductive, PTL

\* Four passes on an empty battery put the green lamp's output out, from any state
\* and phase of its flashing (ch_low_charge, ch_display, ch_output_12v).
THEOREM EmptyGoesDark == ChargerSpec => []EmptyIsDark
<1>1. ChargerInv => EmptyIsDark
  BY DEF ChargerInv
<1> QED BY <1>1, ChargerInductive, PTL

\* The charge transistor is off after any pass without mains power
\* (ch_set_charge_current).
THEOREM NoChargeWithoutMains == ChargerSpec => []NoMainsNoPwm
<1>1. ChargerInv => NoMainsNoPwm
  BY DEF ChargerInv
<1> QED BY <1>1, ChargerInductive, PTL

\* load_enabled, which no code carries to a relay yet, is set again only within a
\* pass of mains power (ch_charge, ch_idle).
THEOREM EnabledWithMains == ChargerSpec => LoadNeedsMains
<1>1. ASSUME ChargerInv, [ChargerNext]_chargerVars PROVE [~c.load /\ c'.load => powered \/ powered']_chargerVars
  <2>1. CASE Pass
    <3>1. ~c.load /\ c'.load => c.state \in {"charge", "idle"}
      BY <1>1, <2>1, PassStep DEF ChargerInv
    <3> QED BY <1>1, <3>1 DEF ChargerInv, Entered
  <2>2. CASE ~Pass
    BY <1>1, <2>2 DEF ChargerNext, SpiLoop, World, chargerVars
  <2> QED BY <2>1, <2>2
<1> QED BY <1>1, ChargerInductive, PTL DEF ChargerSpec, LoadNeedsMains
=============================================================================
