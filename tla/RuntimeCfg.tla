----------------------------- MODULE RuntimeCfg -----------------------------
(***************************************************************************)
(* The configuration of mmnet_485_server (runtime_cfg.c) and the web form  *)
(* that edits it (web_setup.c): a structure in RAM, a copy in EEPROM behind *)
(* a CRC.  A save writes the structure, then the CRC, with interrupts off:  *)
(* nothing else runs, so it is one step, unless power fails in between.     *)
(*                                                                         *)
(* The structure is two fields written one after the other: net for        *)
(* the addresses, start for the outputs at start-up.  The CRC is perfect:   *)
(* it is the structure it was computed from.                               *)
(***************************************************************************)
EXTENDS Naturals

CONSTANTS Nets, Starts,                    \* values of the two fields
          FactoryNet, FactoryStart,        \* those of a new device
          Blank                            \* a byte of erased EEPROM

ASSUME CfgAssumption == FactoryNet \in Nets /\ FactoryStart \in Starts

Cfgs    == [net : Nets, start : Starts]
Factory == [net |-> FactoryNet, start |-> FactoryStart]

VARIABLES
  cfg,      \* ee_cfg
  nv,       \* EEPROM: the fields and the CRC
  \* History:
  torn      \* power failed in a save since the last whole one

cfgvars == <<cfg, nv, torn>>

ReadableAlways(e) == e.net # Blank /\ e.start # Blank
Readable(e)       == e.crc = [net |-> e.net, start |-> e.start]

\* Start-up: init_runtime_cfg, then runtime_cfg_eeprom_read.
Stored(e) == IF Readable(e) THEN [net |-> e.net, start |-> e.start] ELSE Factory

CfgInit ==
  /\ cfg = Factory /\ nv = [net |-> Blank, start |-> Blank, crc |-> Factory]
  /\ torn = FALSE

\* A parameter of the form.
SetField ==
  /\ \/ \E v \in Nets : cfg' = [cfg EXCEPT !.net = v]
     \/ \E v \in Starts : cfg' = [cfg EXCEPT !.start = v]
  /\ UNCHANGED <<nv, torn>>

\* eeprom=init: init_runtime_cfg leaves the start values as they are.
LoadDefaults ==
  /\ cfg' = [cfg EXCEPT !.net = FactoryNet]
  /\ UNCHANGED <<nv, torn>>

\* eeprom=load.
LoadCfg ==
  /\ cfg' = IF Readable(nv) THEN Stored(nv) ELSE cfg
  /\ UNCHANGED <<nv, torn>>

\* eeprom=save: what the EEPROM holds after n of the three parts.
Parts(n) == [nv EXCEPT !.net   = IF n >= 1 THEN cfg.net ELSE nv.net,
                       !.start = IF n >= 2 THEN cfg.start ELSE nv.start,
                       !.crc   = IF n >= 3 THEN cfg ELSE nv.crc]

SaveCfg ==
  /\ nv' = Parts(3) /\ torn' = FALSE
  /\ UNCHANGED cfg

CfgNext == SetField \/ LoadDefaults \/ LoadCfg \/ SaveCfg

\* A restart, at any time or in the middle of a save.
CfgRestart ==
  /\ \/ UNCHANGED <<nv, torn>>
     \/ \E n \in 1 .. 2 : nv' = Parts(n) /\ torn' = TRUE
  /\ cfg' = Stored(nv')

CfgTypeOK ==
  /\ cfg \in Cfgs /\ torn \in BOOLEAN
  /\ nv \in [net : Nets \cup {Blank}, start : Starts \cup {Blank}, crc : Cfgs]

\* A restart finds the last configuration saved, the one of the CRC; after
\* power failed in a save it finds that one or the factory's, never a mixture.
CfgWhole == /\ ~torn => Stored(nv) = nv.crc
            /\ Stored(nv) \in {Factory, nv.crc}
============================================================================
