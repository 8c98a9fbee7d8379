--------------------------- MODULE MCModbusSlave ---------------------------
(***************************************************************************)
(* ModbusSlave for TLC: a receive buffer of three elements holds every     *)
(* shape of frame the code tells apart (empty, partial, ASCII, RTU, full), *)
(* a timeout of two callouts has a callout that is ignored, and counters   *)
(* modulo 2 wrap early.                                                    *)
(***************************************************************************)
EXTENDS ModbusSlave

MCMaxRx == 3
MCTimeout == 2
MCCntMod == 2
=============================================================================
