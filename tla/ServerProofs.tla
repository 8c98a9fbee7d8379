----------------------------- MODULE ServerProofs -----------------------------
(***************************************************************************)
(* Theorems about the 485 server, for every configuration and all times:   *)
(* while communications are lost no output changes unnoticed, but by a     *)
(* request that writes and is then refused; a restart finds a whole        *)
(* configuration.                                                          *)
(***************************************************************************)
EXTENDS Server, TLAPS

\* What every proof below expands.
USE CfgAssumption, ServerAssumption DEF CfgAssumption, ServerAssumption, Cfgs

(***************************************************************************)
(* The configuration.                                                      *)
(***************************************************************************)

\* A configuration is the two fields it is saved as (runtime_cfg.c).
LEMMA CfgFields ==
  ASSUME NEW x \in Cfgs
  PROVE  /\ x = [net |-> x.net, start |-> x.start]
         /\ x.net \in Nets /\ x.start \in Starts
OBVIOUS

\* What a restart begins with is a configuration: the one of the CRC, or the
\* factory's (runtime_cfg_eeprom_read).
LEMMA StoredWhole ==
  ASSUME NEW e, e.crc \in Cfgs
  PROVE  /\ Stored(e) \in Cfgs /\ Stored(e) \in {Factory, e.crc}
         /\ Readable(e) => Stored(e) = e.crc
BY DEF Stored, Readable, Factory

\* What n parts of a save leave in the EEPROM (runtime_cfg_eeprom_write).
LEMMA PartsTyped ==
  ASSUME CfgTypeOK, NEW n \in 1 .. 3
  PROVE  /\ Parts(n) \in [net : Nets \cup {Blank}, start : Starts \cup {Blank}, crc : Cfgs]
         /\ n = 3 => /\ Parts(n).net = cfg.net /\ Parts(n).start = cfg.start
                     /\ Parts(n).crc = cfg
<1> DEFINE first  == IF n >= 1 THEN cfg.net ELSE nv.net
           second == IF n >= 2 THEN cfg.start ELSE nv.start
           third  == IF n >= 3 THEN cfg ELSE nv.crc
<1>1. /\ nv.net \in Nets \cup {Blank} /\ nv.start \in Starts \cup {Blank} /\ nv.crc \in Cfgs
      /\ nv = [net |-> nv.net, start |-> nv.start, crc |-> nv.crc]
  BY DEF CfgTypeOK
<1>2. /\ cfg \in Cfgs /\ cfg.net \in Nets /\ cfg.start \in Starts
  BY DEF CfgTypeOK
<1>3. Parts(n) = [net |-> first, start |-> second, crc |-> third]
  <2>1. Parts(n) = [nv EXCEPT !.net = first, !.start = second, !.crc = third]
    BY Zenon DEF Parts
  <2> HIDE DEF first, second, third
  <2> QED BY <2>1 DEF CfgTypeOK
<1>4. first \in Nets \cup {Blank} /\ second \in Starts \cup {Blank}
  BY <1>1, <1>2
<1>5. third \in Cfgs
  BY <1>1, <1>2
<1>6. n = 3 => first = cfg.net /\ second = cfg.start /\ third = cfg
  OBVIOUS
<1> HIDE DEF first, second, third
<1> QED BY <1>3, <1>4, <1>5, <1>6

\* A new device.
LEMMA CfgInitInd == CfgInit => CfgTypeOK /\ CfgWhole
<1> SUFFICES ASSUME CfgInit PROVE CfgTypeOK /\ CfgWhole
  OBVIOUS
<1>1. Factory \in Cfgs
  BY DEF Factory
<1>2. nv \in [net : Nets \cup {Blank}, start : Starts \cup {Blank}, crc : Cfgs]
      /\ nv.crc = Factory
  BY <1>1 DEF CfgInit
<1>3. CfgTypeOK
  BY <1>1, <1>2, Zenon DEF CfgInit, CfgTypeOK
<1>4. Stored(nv) = Factory
  BY <1>2, StoredWhole DEF Stored
<1> QED BY <1>2, <1>3, <1>4 DEF CfgWhole

\* The form and the four commands of the setup page (web_setup.c).
LEMMA CfgStep ==
  ASSUME CfgTypeOK, CfgWhole, CfgNext PROVE CfgTypeOK' /\ CfgWhole'
<1> USE DEF CfgTypeOK
<1>1. CASE SetField
  BY <1>1, Zenon DEF SetField, CfgWhole, Stored, Readable
<1>2. CASE LoadDefaults
  BY <1>2 DEF LoadDefaults, CfgWhole, Stored, Readable
<1>3. CASE LoadCfg
  <2>1. cfg' \in Cfgs
    BY <1>3, StoredWhole DEF LoadCfg
  <2> QED BY <1>3, <2>1 DEF LoadCfg, CfgWhole, Stored, Readable
<1>4. CASE SaveCfg
  <2>1. /\ nv' \in [net : Nets \cup {Blank}, start : Starts \cup {Blank}, crc : Cfgs]
        /\ nv'.net = cfg.net /\ nv'.start = cfg.start /\ nv'.crc = cfg
    BY <1>4, PartsTyped DEF SaveCfg
  <2>2. Readable(nv')
    BY <2>1, CfgFields DEF Readable
  <2>3. Stored(nv') = nv'.crc
    BY <2>1, <2>2, StoredWhole
  <2>4. torn' \in BOOLEAN
    BY <1>4, Zenon DEF SaveCfg
  <2> QED BY <1>4, <2>1, <2>3, <2>4 DEF SaveCfg, CfgWhole
<1> QED BY <1>1, <1>2, <1>3, <1>4 DEF CfgNext

\* A restart, in the middle of a save as well (init_runtime_cfg).
LEMMA CfgRestartStep ==
  ASSUME CfgTypeOK, CfgWhole, CfgRestart PROVE CfgTypeOK' /\ CfgWhole'
<1> USE DEF CfgTypeOK
<1>1. /\ nv' \in [net : Nets \cup {Blank}, start : Starts \cup {Blank}, crc : Cfgs]
      /\ torn' \in BOOLEAN
  <2>1. CASE UNCHANGED <<nv, torn>>
    BY <2>1
  <2>2. CASE \E n \in 1 .. 2 : nv' = Parts(n) /\ torn' = TRUE
    <3>1. PICK n \in 1 .. 2 : nv' = Parts(n) /\ torn' = TRUE
      BY <2>2
    <3>2. torn' \in BOOLEAN
      BY <3>1, Zenon
    <3> QED BY <3>1, <3>2, PartsTyped
  <2> QED BY <2>1, <2>2 DEF CfgRestart
<1>2. cfg' \in Cfgs
  BY <1>1, StoredWhole DEF CfgRestart
<1>3. CfgWhole'
  <2>1. Stored(nv') \in {Factory, nv'.crc}
    BY <1>1, StoredWhole
  <2>2. CASE UNCHANGED <<nv, torn>>
    BY <2>2 DEF CfgWhole
  <2>3. CASE torn' = TRUE
    BY <2>1, <2>3 DEF CfgWhole
  <2> QED BY <2>2, <2>3 DEF CfgRestart
<1> QED BY <1>1, <1>2, <1>3

(***************************************************************************)
(* The server.                                                             *)
(***************************************************************************)

\* The start of the server.
LEMMA InitInd == Init => IndInv
<1> SUFFICES ASSUME Init PROVE IndInv
  OBVIOUS
<1>1. CfgTypeOK /\ CfgWhole
  BY CfgInitInd DEF Init
<1>2. out \in Starts /\ applied \in Starts
  BY <1>1 DEF Init, CfgTypeOK
<1>3. posted \in BOOLEAN /\ unseen \in BOOLEAN /\ slipped \in BOOLEAN
  BY Zenon DEF Init
<1>4. TypeOK
  BY <1>1, <1>2, <1>3 DEF Init, TypeOK
<1> QED BY <1>1, <1>4 DEF Init, IndInv

\* Steps that leave the configuration alone leave it whole.
LEMMA CfgSame ==
  ASSUME CfgTypeOK, CfgWhole, UNCHANGED cfgvars PROVE CfgTypeOK' /\ CfgWhole'
BY DEF cfgvars, CfgTypeOK, CfgWhole, Stored, Readable

\* What a request is, and that more of them leave the first one the first.
LEMMA StreamFacts ==
  ASSUME NEW s \in Seq(Requests), NEW r \in Requests
  PROVE  /\ Append(s, r) \in Seq(Requests) /\ Append(s, r) # << >>
         /\ s # << >> => /\ Head(Append(s, r)) = Head(s) /\ Tail(s) \in Seq(Requests)
                         /\ Head(s) \in Requests
<1>1. /\ Append(s, r) \in Seq(Requests) /\ Len(Append(s, r)) = Len(s) + 1
      /\ Len(s) \in Nat
  OBVIOUS
<1>2. Append(s, r) # << >>
  BY <1>1
<1>3. ASSUME s # << >>
      PROVE  /\ Head(Append(s, r)) = Head(s) /\ Tail(s) \in Seq(Requests)
             /\ Head(s) \in Requests
  <2>1. Len(s) >= 1 /\ Append(s, r)[1] = s[1]
    BY <1>3
  <2>2. Head(s) = s[1] /\ Head(Append(s, r)) = Append(s, r)[1]
    BY <1>1, <1>2, <1>3
  <2> QED BY <1>3, <2>1, <2>2
<1> QED BY <1>1, <1>2, <1>3

LEMMA RequestOp ==
  ASSUME NEW r \in Requests
  PROVE  /\ r.op \in {"read", "refused", "short", "write", "broken"} /\ r.value \in Starts
         /\ r.op \in Writes => Counts(r.op) \/ r.op = "broken"
BY DEF Requests, Counts, Writes

\* The master's side and the waits of the thread: the outputs are not touched.
LEMMA QuietStep ==
  ASSUME IndInv,
         Connect \/ Ask \/ Leave \/ CreateSocket \/ Accept \/ HaveMemory
         \/ ReadNothing \/ ReadShort \/ EventWait
  PROVE  IndInv'
<1> USE DEF IndInv, TypeOK, Changing, net, hist
<1>0. UNCHANGED cfgvars => CfgTypeOK' /\ CfgWhole'
  BY CfgSame
<1>1. CASE Connect
  BY <1>0, <1>1 DEF Connect
<1>2. CASE Ask
  <2>1. PICK r \in Requests : stream' = Append(stream, r)
    BY <1>2 DEF Ask
  <2>2. /\ stream' \in Seq(Requests) /\ stream' # << >>
        /\ stream # << >> => Head(stream') = Head(stream)
    BY <2>1, StreamFacts
  <2> QED BY <1>0, <1>2, <2>2 DEF Ask
<1>3. CASE Leave
  BY <1>0, <1>3 DEF Leave
<1>4. CASE CreateSocket
  BY <1>0, <1>4 DEF CreateSocket
<1>5. CASE Accept
  BY <1>0, <1>5 DEF Accept
<1>6. CASE HaveMemory
  BY <1>0, <1>6 DEF HaveMemory
<1>7. CASE ReadNothing
  BY <1>0, <1>7 DEF ReadNothing, CloseSocket
<1>8. CASE ReadShort
  BY <1>0, <1>8 DEF ReadShort, CloseSocket
<1>9. CASE EventWait
  <2>1. posted' \in BOOLEAN
    BY <1>9, Zenon DEF EventWait
  <2> QED BY <1>0, <1>9, <2>1 DEF EventWait
<1> QED BY <1>1, <1>2, <1>3, <1>4, <1>5, <1>6, <1>7, <1>8, <1>9

\* A request that writes is under way from its write to its count
\* (modbus_process_tcp_pkt), one of item.cgi from its write to its answer.
LEMMA RequestStep ==
  ASSUME IndInv, Process \/ Sent \/ WebItem \/ WebDone PROVE IndInv'
<1> USE DEF IndInv, TypeOK, net, hist
<1>0. UNCHANGED cfgvars => CfgTypeOK' /\ CfgWhole'
  BY CfgSame
<1>1. CASE Process
  <2>0. slipped' = (slipped \/ Head(stream).op = "broken")
    BY <1>1 DEF Process
  <2>1. /\ stream # << >> /\ stream' = stream /\ Head(stream) \in Requests
        /\ pc = "read" /\ pc' = "send" /\ slipped' \in BOOLEAN
        /\ UNCHANGED <<cfgvars, posted, activity, unseen, web, since, applied>>
    <3>1. slipped' \in BOOLEAN
      BY <2>0, Zenon
    <3> QED BY <1>1, <3>1 DEF Process
  <2>2. out' \in Starts /\ (Head(stream).op \in Writes => Changing' \/ slipped')
    BY <1>1, <2>0, <2>1, RequestOp DEF Process, Changing
  <2>3. Head(stream).op \notin Writes => out' = out
    BY <1>1 DEF Process
  <2>4. activity' = 0 /\ ~Changing' /\ ~slipped' => out' = applied'
    BY <2>0, <2>1, <2>2, <2>3 DEF Changing
  <2>5. TypeOK'
    <3>1. out' \in Starts /\ CfgTypeOK'
      BY <1>0, <2>1, <2>2
    <3>2. UNCHANGED <<link, posted, activity, unseen, web, since, applied>>
      BY <2>1, <1>1 DEF Process
    <3> QED BY <2>1, <3>1, <3>2
  <2> QED BY <1>0, <2>1, <2>4, <2>5
<1>2. CASE Sent
  <2>1. /\ stream # << >> /\ Tail(stream) \in Seq(Requests)
        /\ pc = "send" /\ pc' = "wait" /\ stream' = Tail(stream)
        /\ UNCHANGED <<cfgvars, link, out, activity, web, applied, slipped>>
    BY <1>2 DEF Sent
  <2>2. posted' \in BOOLEAN /\ unseen' \in BOOLEAN /\ since' \in 0 .. Quiet
    <3>1. posted' \in BOOLEAN /\ unseen' \in BOOLEAN
      BY <1>2, Zenon DEF Sent
    <3>2. since' \in 0 .. Quiet
      BY <1>2 DEF Sent
    <3> QED BY <3>1, <3>2
  <2>3. ~Changing' => ~Changing
    BY <1>2, <2>1 DEF Sent, Changing
  <2> QED BY <1>0, <2>1, <2>2, <2>3
<1>3. CASE WebItem
  <2>1. out' \in Starts
    BY <1>3 DEF WebItem
  <2> QED BY <1>0, <1>3, <2>1 DEF WebItem, Changing
<1>4. CASE WebDone
  BY <1>0, <1>4 DEF WebDone
<1> QED BY <1>1, <1>2, <1>3, <1>4

\* The second that takes communications for lost sets the outputs (servant.c).
LEMMA ServantStep ==
  ASSUME IndInv, EverySecond \/ MainLoop PROVE IndInv'
<1> USE DEF IndInv, TypeOK, net, hist
<1>0. UNCHANGED cfgvars => CfgTypeOK' /\ CfgWhole'
  BY CfgSame
<1>1. CASE EverySecond
  <2>1. cfg.start \in Starts
    BY DEF CfgTypeOK
  <2>2. /\ out' \in Starts /\ applied' \in Starts /\ activity' \in 0 .. Grace
        /\ since' \in 0 .. Quiet
    BY <1>1, <2>1 DEF EverySecond, Less
  <2>3. activity' = 0 /\ activity # 0 => out' = applied'
    BY <1>1 DEF EverySecond, Less, Lost
  <2>4. activity = 0 => out' = out /\ applied' = applied /\ slipped' = slipped
    BY <1>1 DEF EverySecond, Lost
  <2>5. slipped' \in BOOLEAN
    BY <1>1, Zenon DEF EverySecond
  <2>6. TypeOK'
    BY <1>0, <1>1, <2>2, <2>5 DEF EverySecond
  <2> QED BY <1>0, <1>1, <2>3, <2>4, <2>6 DEF EverySecond, Changing
<1>2. CASE MainLoop
  <2>1. unseen' \in BOOLEAN
    BY <1>2, Zenon DEF MainLoop, NowSeen
  <2> QED BY <1>0, <1>2, <2>1 DEF MainLoop, Noticed
<1> QED BY <1>1, <1>2

\* A restart sets the outputs to the start values it has read.
LEMMA RestartStep == ASSUME IndInv, Restart PROVE IndInv'
<1>1. CfgTypeOK' /\ CfgWhole'
  BY CfgRestartStep DEF Restart, IndInv, TypeOK
<1>2. out' \in Starts /\ applied' \in Starts
  BY <1>1 DEF Restart, CfgTypeOK
<1>3. posted' \in BOOLEAN /\ unseen' \in BOOLEAN /\ slipped' \in BOOLEAN
  BY Zenon DEF Restart
<1>4. TypeOK'
  BY <1>1, <1>2, <1>3 DEF Restart, TypeOK
<1> QED BY <1>1, <1>4 DEF Restart, IndInv

\* IndInv is an inductive invariant.
THEOREM Inductive == Spec => []IndInv
<1>1. ASSUME IndInv, Configure PROVE IndInv'
  <2>1. CfgTypeOK' /\ CfgWhole'
    BY <1>1, CfgStep DEF Configure, IndInv, TypeOK
  <2> QED BY <1>1, <2>1 DEF Configure, IndInv, TypeOK, Changing, srv, net, hist
<1>2. ASSUME IndInv, UNCHANGED vars PROVE IndInv'
  <2>1. CfgTypeOK' /\ CfgWhole'
    BY <1>2, CfgSame DEF vars, IndInv, TypeOK
  <2> QED BY <1>2, <2>1 DEF vars, IndInv, TypeOK, Changing, srv, net, hist
<1>3. IndInv /\ [Next]_vars => IndInv'
  BY <1>1, <1>2, QuietStep, RequestStep, ServantStep, RestartStep DEF Next, Thread
<1> QED BY <1>3, InitInd, PTL DEF Spec

\* The server's variables keep their types.
THEOREM TypeCorrect == Spec => []TypeOK
<1>1. IndInv => TypeOK
  BY DEF IndInv
<1> QED BY <1>1, Inductive, PTL

\* While communications are lost the outputs have their start values, unless a
\* request is under way, or one wrote and was then refused
\* (dio_set_default_output_state, modbus_decode_pkt).
THEOREM OutputsFallBack == Spec => []LostIsDefault
<1>1. IndInv => LostIsDefault
  BY DEF IndInv, TypeOK, LostIsDefault, Changing, Underway
<1> QED BY <1>1, Inductive, PTL

\* A restart never begins with a mixture of two configurations, power lost in a
\* save or not (runtime_cfg_eeprom_write).
THEOREM WholeConfiguration == Spec => []CfgWhole
<1>1. IndInv => CfgWhole
  BY DEF IndInv
<1> QED BY <1>1, Inductive, PTL
=============================================================================
