----------------------------- MODULE MCThermometers -----------------------------
(* Two thermometers, a serial number chip and another device, in three bits. *)
(* The other device is between the thermometers in the order of the search.  *)
EXTENDS Thermometers, TLC

Device(a, b, c) == (3 :> a) @@ (2 :> b) @@ (1 :> c)
Few   == {Device(1, 1, 0), Device(1, 0, 1), Device(0, 1, 1), Device(0, 1, 0)}
Kinds == [r \in Few |-> CASE r = Device(1, 0, 1) -> "other"
                          [] r = Device(0, 1, 0) -> "serial"
                          [] OTHER -> "thermometer"]
=============================================================================
