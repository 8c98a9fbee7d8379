-------------------------- MODULE WallSwitchProofs --------------------------
(***************************************************************************)
(* Theorems about the wall panels, for any number of panels and buttons and *)
(* any register width: contacts that bounce toggle nothing, what came from  *)
(* the network is not broadcast again, and panels that are done show what   *)
(* was last said of each channel, unless they missed it.                    *)
(***************************************************************************)
EXTENDS WallSwitch, FiniteSetTheorems, TLAPS

Register == [bit : {0, 1}, run : Nat]

\* The types the debouncer's proof needs.
Registers ==
  /\ shift \in [Panels -> [Buttons -> Register]]
  /\ prev \in [Panels -> [Buttons -> {0, 1, Undefined}]]
  /\ since \in [Panels -> [Buttons -> 0..2 * Width]]

\* One more pass, as DioInput counts it for a button
Older(seen, n) == IF seen THEN 0 ELSE IF n < 2 * Width THEN n + 1 ELSE n

\* One sample keeps a debouncer steady, and a press it reports was long in coming.
LEMMA OneSample ==
  ASSUME NEW s \in Register, NEW before \in {0, 1, Undefined}, NEW n \in 0..2 * Width,
         NEW in \in {0, 1}, Steady(s, before, n)
  PROVE  LET t == Shifted(s, in)
             level == Debounced(t, before)
             seen == Noticed(before, level, TRUE)
         IN  /\ t \in Register /\ level \in {0, 1} /\ Older(seen, n) \in 0..2 * Width
             /\ Steady(t, level, Older(seen, n))
             /\ before # 0 /\ level = 0 => seen /\ n >= 2 * Width - 1
<1> USE WallAssumption DEF WallAssumption
<1> DEFINE t == Shifted(s, in)
           level == Debounced(t, before)
           seen == Noticed(before, level, TRUE)
<1>1. t \in Register /\ t.bit = in /\ t.run \in 1..Width
  BY DEF Register, Shifted, Steady
<1>2. level \in {0, 1} /\ (level # before => t.run = Width \/ before = Undefined)
  BY <1>1 DEF Debounced, Undefined
<1>3. Older(seen, n) \in 0..2 * Width
  <2>1. CASE seen
    BY <2>1 DEF Older
  <2>2. CASE ~seen
    BY <2>2 DEF Older
  <2> QED BY <2>1, <2>2
<1>4. before # 0 /\ level = 0 => seen /\ n >= 2 * Width - 1
  <2>1. SUFFICES ASSUME before # 0, level = 0 PROVE seen /\ n >= 2 * Width - 1
    OBVIOUS
  <2>2. t.run = Width /\ in = 0
    BY <1>1, <2>1 DEF Debounced, Register
  <2>3. n >= 2 * Width - 1
    BY <2>1, <2>2 DEF Shifted, Steady, Register
  <2> QED BY <2>1, <2>3 DEF Noticed
<1>5. Steady(t, level, Older(seen, n))
  <2>1. CASE level = 0 /\ before # 0
    <3>1. in = 0 /\ t.run = Width
      BY <1>1, <2>1 DEF Debounced, Register
    <3> HIDE DEF t, level, seen
    <3> QED BY <1>1, <2>1, <3>1 DEF Steady
  <2>2. CASE level = 0 /\ before = 0
    <3>1. ~seen
      BY <2>2 DEF Noticed
    <3>2. in = 1 => t.run < Width
      BY <1>1, <2>2 DEF Debounced, Register
    <3>3. in = 1 => Older(seen, n) >= t.run
      BY <1>1, <3>1, <2>2 DEF Older, Steady, Shifted, Register
    <3> HIDE DEF t, level, seen
    <3> QED BY <1>1, <2>2, <3>2, <3>3 DEF Steady
  <2>3. CASE level # 0
    <3>1. ~seen
      BY <2>3, <1>2 DEF Noticed
    <3>2. in = 1 => Older(seen, n) >= Width
      <4>1. SUFFICES ASSUME in = 1 PROVE Older(seen, n) >= Width
        OBVIOUS
      <4>2. CASE before = 0
        <5>1. t.run = Width
          BY <4>2, <2>3, <1>1 DEF Debounced
        <5> QED BY <5>1, <4>1, <4>2, <3>1 DEF Older, Steady, Shifted, Register
      <4>3. CASE before # 0
        <5>1. n >= Width
          BY <4>3 DEF Steady, Register
        <5> QED BY <5>1, <3>1 DEF Older
      <4> QED BY <4>2, <4>3
    <3>3. in = 0 => t.run < Width /\ Older(seen, n) >= Width + t.run
      <4>1. SUFFICES ASSUME in = 0 PROVE t.run < Width /\ Older(seen, n) >= Width + t.run
        OBVIOUS
      <4>2. t.run < Width /\ before # 0
        BY <4>1, <2>3, <1>1 DEF Debounced
      <4>3. Older(seen, n) >= Width + t.run
        BY <4>1, <4>2, <3>1, <1>1 DEF Older, Steady, Shifted, Register
      <4> QED BY <4>2, <4>3
    <3> HIDE DEF t, level, seen
    <3> QED BY <1>1, <1>2, <2>3, <3>2, <3>3 DEF Steady
  <2> QED BY <2>1, <2>2, <2>3, <1>2
<1> QED BY <1>1, <1>2, <1>3, <1>4, <1>5

\* Every action keeps the debouncers steady; a press comes only of a pass.
LEMMA StepKeeps ==
  ASSUME Registers, Debouncing, [Next]_vars
  PROVE  /\ Registers' /\ Debouncing'
         /\ \A p \in Panels, b \in Buttons : Pressed(p, b) => since[p][b] >= 2 * Width - 1
<1> USE WallAssumption DEF WallAssumption
<1>1. CASE UNCHANGED inputs
  BY <1>1 DEF inputs, Registers, Debouncing, Pressed
<1>2. ASSUME NEW p \in Panels, Process(p)
      PROVE  /\ Registers' /\ Debouncing'
             /\ \A q \in Panels, b \in Buttons : Pressed(q, b) => since[q][b] >= 2 * Width - 1
  <2>1. PICK now \in Readings(p) : DioInput(p, now, NewlyChanged(p, now))
    BY <1>2 DEF Process
  <2>2. \A b \in Buttons : now[b] \in {0, 1}
    BY <2>1 DEF Readings, Channels
  <2> DEFINE seen(b) == Noticed(prev[p][b], Level(p, b, now), TRUE)
  <2>3. \A b \in Buttons : Level(p, b, now) = Debounced(Shifted(shift[p][b], now[b]), prev[p][b])
    BY DEF Level
  <2>4. ASSUME NEW b \in Buttons
        PROVE  /\ Shifted(shift[p][b], now[b]) \in Register /\ Level(p, b, now) \in {0, 1}
               /\ Older(seen(b), since[p][b]) \in 0..2 * Width
               /\ Steady(Shifted(shift[p][b], now[b]), Level(p, b, now), Older(seen(b), since[p][b]))
               /\ prev[p][b] # 0 /\ Level(p, b, now) = 0 => seen(b) /\ since[p][b] >= 2 * Width - 1
    <3> DEFINE s == shift[p][b]
               before == prev[p][b]
               n == since[p][b]
               in == now[b]
    <3>1. /\ s \in Register /\ before \in {0, 1, Undefined} /\ n \in 0..2 * Width /\ in \in {0, 1}
          /\ Steady(s, before, n)
      BY <2>2 DEF Registers, Debouncing
    <3>2. LET t == Shifted(s, in)
              level == Debounced(t, before)
              pressed == Noticed(before, level, TRUE)
          IN  /\ t \in Register /\ level \in {0, 1} /\ Older(pressed, n) \in 0..2 * Width
              /\ Steady(t, level, Older(pressed, n))
              /\ before # 0 /\ level = 0 => pressed /\ n >= 2 * Width - 1
      <4> HIDE DEF s, before, n, in
      <4> QED BY ONLY <3>1, OneSample, ZenonT(30)
    <3> QED BY <3>2, <2>3
  <2>5. /\ shift' = [shift EXCEPT ![p] = [b \in Buttons |-> Shifted(shift[p][b], now[b])]]
        /\ prev' = [prev EXCEPT ![p] = [b \in Buttons |-> Level(p, b, now)]]
    BY <2>1 DEF DioInput
  <2>6. since' = [since EXCEPT ![p] = [b \in Buttons |-> Older(seen(b), since[p][b])]]
    BY <2>1 DEF DioInput, Older, NewlyPressed
  <2>7. /\ shift'[p] = [b \in Buttons |-> Shifted(shift[p][b], now[b])]
        /\ prev'[p] = [b \in Buttons |-> Level(p, b, now)]
        /\ since'[p] = [b \in Buttons |-> Older(seen(b), since[p][b])]
        /\ \A q \in Panels \ {p} : shift'[q] = shift[q] /\ prev'[q] = prev[q] /\ since'[q] = since[q]
    BY <2>5, <2>6 DEF Registers
  <2>8. Registers'
    <3> HIDE DEF seen
    <3>1. shift'[p] \in [Buttons -> Register] /\ prev'[p] \in [Buttons -> {0, 1, Undefined}]
          /\ since'[p] \in [Buttons -> 0..2 * Width]
      BY <2>4, <2>7
    <3> QED BY <3>1, <2>5, <2>6 DEF Registers
  <2>9. Debouncing'
    <3> HIDE DEF seen
    <3> SUFFICES ASSUME NEW q \in Panels, NEW b \in Buttons
                 PROVE  Steady(shift'[q][b], prev'[q][b], since'[q][b])
      BY DEF Debouncing
    <3>1. CASE q = p
      BY <3>1, <2>4, <2>7
    <3>2. CASE q # p
      BY <3>2, <2>7 DEF Debouncing
    <3> QED BY <3>1, <3>2
  <2>10. ASSUME NEW q \in Panels, NEW b \in Buttons, Pressed(q, b)
         PROVE  since[q][b] >= 2 * Width - 1
    <3>1. q = p
      BY <2>7, <2>10 DEF Pressed
    <3> QED BY <3>1, <2>4, <2>7, <2>10 DEF Pressed
  <2> QED BY <2>8, <2>9, <2>10
<1>3. ASSUME NEW p \in Panels, Restart(p)
      PROVE  /\ Registers' /\ Debouncing'
             /\ \A q \in Panels, b \in Buttons : Pressed(q, b) => since[q][b] >= 2 * Width - 1
  <2>1. /\ shift' = [shift EXCEPT ![p] = [b \in Buttons |-> [bit |-> 1, run |-> Width \div 2]]]
        /\ prev' = [prev EXCEPT ![p] = [b \in Buttons |-> Undefined]]
        /\ since' = [since EXCEPT ![p] = [b \in Buttons |-> 2 * Width]]
    BY <1>3 DEF Restart, PoweredUp
  <2>2. Width \div 2 \in Nat /\ Width \div 2 <= Width /\ 2 * Width \in 0..2 * Width
    OBVIOUS
  <2>3. Registers'
    BY <2>1, <2>2 DEF Registers, Register
  <2>4. Debouncing'
    <3> SUFFICES ASSUME NEW q \in Panels, NEW b \in Buttons
                 PROVE  Steady(shift'[q][b], prev'[q][b], since'[q][b])
      BY DEF Debouncing
    <3>1. CASE q = p
      BY <3>1, <2>1, <2>2 DEF Steady, Registers, Undefined
    <3>2. CASE q # p
      BY <3>2, <2>1 DEF Debouncing, Registers
    <3> QED BY <3>1, <3>2
  <2>5. ASSUME NEW q \in Panels, NEW b \in Buttons PROVE ~Pressed(q, b)
    BY <2>1 DEF Pressed, Registers, Undefined
  <2> QED BY <2>3, <2>4, <2>5
<1>4. ASSUME NEW p \in Panels, SendChannel(p) \/ EndPass(p) \/ Receive(p) \/ Lose(p) \/ NetworkStarted(p)
      PROVE  UNCHANGED inputs
  BY <1>4 DEF SendChannel, EndPass, Receive, Lose, NetworkStarted
<1>5. CASE UNCHANGED vars
  BY <1>5, <1>1 DEF vars
<1> QED BY <1>1, <1>2, <1>3, <1>4, <1>5 DEF Next, DioProc

\* Contacts that bounce never toggle a channel twice, for every register width.
THEOREM BouncesFiltered == Spec => NoBounce
<1> DEFINE Inv == Registers /\ Debouncing
           Late == \A p \in Panels, b \in Buttons : Pressed(p, b) => since[p][b] >= 2 * Width - 1
<1>1. Init => Inv
  <2> SUFFICES ASSUME Init PROVE Inv
    OBVIOUS
  <2>1. Width \div 2 \in Nat /\ Width \div 2 <= Width /\ 2 * Width \in 0..2 * Width
    BY WallAssumption DEF WallAssumption
  <2>2. Registers
    BY <2>1 DEF Init, Registers, Register
  <2>3. Debouncing
    BY <2>1, WallAssumption DEF Init, Debouncing, Steady, Undefined, WallAssumption
  <2> QED BY <2>2, <2>3
<1>2. Inv /\ [Next]_vars => Inv' /\ Late
  BY StepKeeps
<1>3. Inv /\ [Next]_vars => [Late]_vars
  BY <1>2
<1> QED BY <1>1, <1>2, <1>3, PTL DEF Spec, NoBounce

-----------------------------------------------------------------------------
Message == [ch : Channels, on : BOOLEAN]

Used(p) == Switches \cup {ch \in Channels : <<p, ch>> \in Hands}

\* What NoEcho rests on: an input nobody uses reads 1, so its debouncer never
\* reports a press, and the flags hold changes of the panel's own inputs only.
EchoInv ==
  /\ Registers
  /\ \A p \in Panels, b \in Buttons : <<p, b>> \notin Hands => shift[p][b].bit = 1 /\ prev[p][b] # 0
  /\ frontChanged \in [Panels -> SUBSET Channels]
  /\ \A p \in Panels : frontChanged[p] \subseteq Used(p)
  /\ pass \in [Panels -> [fb : SUBSET Channels, re : SUBSET Channels, todo : SUBSET Channels]]
  /\ remoteChanged \in [Panels -> SUBSET Channels]
  /\ line \in [Panels -> Seq(Message)]
  /\ \A p \in Panels : pass[p].todo \subseteq Used(p)

\* A pass notices no press of an input nobody uses.
LEMMA UnusedRests ==
  ASSUME Registers, NEW p \in Panels, NEW b \in Buttons, <<p, b>> \notin Hands,
         shift[p][b].bit = 1, prev[p][b] # 0, NEW now \in Readings(p)
  PROVE  Shifted(shift[p][b], now[b]).bit = 1 /\ Level(p, b, now) = 1 /\ b \notin NewlyPressed(p, now)
<1>1. now[b] = 1
  BY DEF Readings, Channels
<1>2. Shifted(shift[p][b], now[b]).bit = 1
  BY <1>1 DEF Shifted
<1>3. Level(p, b, now) = 1
  BY <1>2 DEF Level, Debounced
<1> QED BY <1>2, <1>3 DEF NewlyPressed, Noticed

LEMMA EchoStep ==
  ASSUME EchoInv, Debouncing, [Next]_vars
  PROVE  EchoInv'
<1>1. Registers'
  BY StepKeeps DEF EchoInv
<1>2. ASSUME NEW p \in Panels, Process(p) PROVE EchoInv'
  <2>1. PICK now \in Readings(p) :
          LET fb == frontChanged[p] \cup NewlyChanged(p, now)
              re == remoteChanged[p]
              todo == ToSend(fb, re)
          IN  /\ DioInput(p, now, NewlyChanged(p, now))
              /\ pass' = [pass EXCEPT ![p] = IF todo = {} THEN Asleep ELSE [fb |-> fb, re |-> re, todo |-> todo]]
              /\ frontChanged' = [frontChanged EXCEPT ![p] = IF todo = {} THEN @ \ fb ELSE fb]
              /\ remoteChanged' = [remoteChanged EXCEPT ![p] = IF todo = {} THEN @ \ re ELSE @]
    BY <1>2 DEF Process
  <2> DEFINE fb == frontChanged[p] \cup NewlyChanged(p, now)
             todo == ToSend(fb, remoteChanged[p])
  <2>2. NewlyChanged(p, now) \subseteq Used(p) /\ NewlyChanged(p, now) \subseteq Channels
    <3>1. NewlyPressed(p, now) \subseteq {ch \in Channels : <<p, ch>> \in Hands}
      BY UnusedRests DEF EchoInv, NewlyPressed, Channels
    <3> QED BY <3>1 DEF NewlyChanged, Used, Channels
  <2>3. fb \subseteq Used(p) /\ fb \in SUBSET Channels /\ todo \subseteq Used(p) /\ todo \in SUBSET Channels
    BY <2>2 DEF EchoInv, ToSend
  <2>4. /\ shift' = [shift EXCEPT ![p] = [b \in Buttons |-> Shifted(shift[p][b], now[b])]]
        /\ prev' = [prev EXCEPT ![p] = [b \in Buttons |-> Level(p, b, now)]]
    BY <2>1 DEF DioInput
  <2>5. \A q \in Panels, b \in Buttons : <<q, b>> \notin Hands => shift'[q][b].bit = 1 /\ prev'[q][b] # 0
    BY <2>4, UnusedRests DEF EchoInv, Registers
  <2>6. /\ frontChanged' \in [Panels -> SUBSET Channels]
        /\ \A q \in Panels : frontChanged'[q] \subseteq Used(q)
    BY <2>1, <2>3 DEF EchoInv
  <2>7. remoteChanged' \in [Panels -> SUBSET Channels]
    BY <2>1 DEF EchoInv
  <2>8. /\ pass' \in [Panels -> [fb : SUBSET Channels, re : SUBSET Channels, todo : SUBSET Channels]]
        /\ \A q \in Panels : pass'[q].todo \subseteq Used(q)
    <3>1. CASE todo = {}
      BY <2>1, <3>1 DEF EchoInv, Asleep
    <3>2. CASE todo # {}
      BY <2>1, <2>3, <3>2 DEF EchoInv
    <3> QED BY <3>1, <3>2
  <2>9. line' = line
    BY <1>2 DEF Process
  <2> QED BY <1>1, <2>5, <2>6, <2>7, <2>8, <2>9 DEF EchoInv, Used
<1>3. ASSUME NEW p \in Panels, SendChannel(p) PROVE EchoInv'
  <2>1. PICK ch \in pass[p].todo :
          /\ pass' = [pass EXCEPT ![p].todo = pass[p].todo \ {ch}]
          /\ IF started[p]
             THEN line' = [q \in Panels |-> IF Hears(p, q) THEN Append(line[q], News(p, ch)) ELSE line[q]]
             ELSE line' = line
    BY <1>3 DEF SendChannel
  <2>2. UNCHANGED <<shift, prev, frontChanged, remoteChanged>>
    BY <1>3 DEF SendChannel, inputs, flags
  <2>3. line' \in [Panels -> Seq(Message)]
    <3> DEFINE m == News(p, ch)
    <3>1. m \in Message
      BY <2>1 DEF News, EchoInv, Message
    <3>2. \A q \in Panels : line[q] \in Seq(Message)
      BY DEF EchoInv
    <3>3. CASE started[p]
      <4>1. line' = [q \in Panels |-> IF Hears(p, q) THEN Append(line[q], m) ELSE line[q]]
        BY <2>1, <3>3
      <4> HIDE DEF m
      <4>2. \A q \in Panels : Append(line[q], m) \in Seq(Message)
        BY <3>1, <3>2
      <4> QED BY <4>1, <4>2, <3>2
    <3>4. CASE ~started[p]
      BY <2>1, <3>4 DEF EchoInv
    <3> QED BY <3>3, <3>4
  <2>5. /\ pass' \in [Panels -> [fb : SUBSET Channels, re : SUBSET Channels, todo : SUBSET Channels]]
        /\ \A q \in Panels : pass'[q].todo \subseteq Used(q)
    BY <2>1 DEF EchoInv
  <2> QED BY <1>1, <2>2, <2>3, <2>5 DEF EchoInv, Used
<1>4. ASSUME NEW p \in Panels, EndPass(p) PROVE EchoInv'
  <2>1. /\ frontChanged' = [frontChanged EXCEPT ![p] = frontChanged[p] \ pass[p].fb]
        /\ remoteChanged' = [remoteChanged EXCEPT ![p] = remoteChanged[p] \ pass[p].re]
        /\ pass' = [pass EXCEPT ![p] = Asleep]
    BY <1>4 DEF EndPass
  <2>2. UNCHANGED <<shift, prev, line>>
    BY <1>4 DEF EndPass, inputs
  <2> QED BY <1>1, <2>1, <2>2 DEF EchoInv, Used, Asleep
<1>5. ASSUME NEW p \in Panels, Receive(p) \/ Lose(p) PROVE EchoInv'
  <2>1. line[p] # <<>> /\ line' = [line EXCEPT ![p] = Tail(line[p])]
    BY <1>5 DEF Receive, Lose
  <2>2. /\ line[p] \in Seq(Message)
        /\ Tail(line[p]) \in Seq(Message)
        /\ Head(line[p]) \in Message
    <3>1. line[p] \in Seq(Message)
      BY DEF EchoInv
    <3> QED BY <2>1, <3>1
  <2>3. line' \in [Panels -> Seq(Message)]
    BY <2>1, <2>2 DEF EchoInv
  <2>4. UNCHANGED <<shift, prev, frontChanged, pass>>
    BY <1>5 DEF Receive, Lose, inputs, flags
  <2>5. remoteChanged' \in [Panels -> SUBSET Channels]
    <3>1. CASE Receive(p)
      <4>1. Head(line[p]).ch \in Channels
        BY <2>2 DEF Message
      <4>2. remoteChanged' = [remoteChanged EXCEPT ![p] = remoteChanged[p] \cup {Head(line[p]).ch}]
        BY <3>1 DEF Receive
      <4> QED BY <4>1, <4>2 DEF EchoInv
    <3>2. CASE Lose(p)
      BY <3>2 DEF Lose, flags, EchoInv
    <3> QED BY <1>5, <3>1, <3>2
  <2> QED BY <1>1, <2>3, <2>4, <2>5 DEF EchoInv, Used
<1>6. ASSUME NEW p \in Panels, Restart(p) PROVE EchoInv'
  <2>1. /\ shift' = [shift EXCEPT ![p] = [b \in Buttons |-> [bit |-> 1, run |-> Width \div 2]]]
        /\ prev' = [prev EXCEPT ![p] = [b \in Buttons |-> Undefined]]
        /\ frontChanged' = [frontChanged EXCEPT ![p] = {}]
        /\ remoteChanged' = [remoteChanged EXCEPT ![p] = {}]
        /\ pass' = [pass EXCEPT ![p] = Asleep]
        /\ line' = [line EXCEPT ![p] = <<>>]
    BY <1>6 DEF Restart, PoweredUp
  <2>2. \A q \in Panels, b \in Buttons : <<q, b>> \notin Hands => shift'[q][b].bit = 1 /\ prev'[q][b] # 0
    BY <2>1 DEF EchoInv, Registers, Undefined
  <2>3. line' \in [Panels -> Seq(Message)]
    <3>1. <<>> \in Seq(Message)
      OBVIOUS
    <3> QED BY <2>1, <3>1 DEF EchoInv
  <2>4. /\ frontChanged' \in [Panels -> SUBSET Channels]
        /\ remoteChanged' \in [Panels -> SUBSET Channels]
        /\ \A q \in Panels : frontChanged'[q] \subseteq Used(q)
    BY <2>1 DEF EchoInv
  <2>5. /\ pass' \in [Panels -> [fb : SUBSET Channels, re : SUBSET Channels, todo : SUBSET Channels]]
        /\ \A q \in Panels : pass'[q].todo \subseteq Used(q)
    BY <2>1 DEF EchoInv, Asleep
  <2> QED BY <1>1, <2>2, <2>3, <2>4, <2>5 DEF EchoInv, Used
<1>7. ASSUME NEW p \in Panels, NetworkStarted(p) PROVE EchoInv'
  BY <1>1, <1>7 DEF NetworkStarted, inputs, flags, EchoInv, Used
<1>8. CASE UNCHANGED vars
  BY <1>1, <1>8 DEF vars, inputs, flags, EchoInv, Used
<1> QED BY <1>2, <1>3, <1>4, <1>5, <1>6, <1>7, <1>8 DEF Next, DioProc

\* No panel starts with anything to send, nor in the middle of a bounce.
LEMMA InitEcho == ASSUME Init PROVE EchoInv /\ Debouncing
<1>1. Width \div 2 \in Nat /\ Width \div 2 <= Width /\ 2 * Width \in 0..2 * Width
  BY WallAssumption DEF WallAssumption
<1>2. Registers /\ Debouncing
  BY <1>1, WallAssumption
  DEF Init, Registers, Register, Debouncing, Steady, Undefined, WallAssumption
<1>3. EchoInv
  BY <1>2 DEF Init, EchoInv, Asleep, Undefined
<1> QED BY <1>2, <1>3

\* What came from the network is never broadcast again, for any number of panels.
THEOREM NothingEchoed == Spec => []NoEcho
<1>1. Init => EchoInv /\ Debouncing
  BY InitEcho
<1>2. EchoInv /\ Debouncing /\ [Next]_vars => EchoInv' /\ Debouncing'
  BY EchoStep, StepKeeps DEF EchoInv
<1>3. EchoInv => NoEcho
  BY DEF EchoInv, NoEcho, Used
<1> QED BY <1>1, <1>2, <1>3, PTL DEF Spec

-----------------------------------------------------------------------------
\* The types of what the panels show and know.
Shown ==
  /\ state \in [Panels -> SUBSET Channels] /\ remote \in [Panels -> SUBSET Channels]
  /\ behind \in [Panels -> SUBSET Channels] /\ started \in [Panels -> BOOLEAN]

AgreeInv == EchoInv /\ Debouncing /\ Shown /\ Following

\* What was said of the news on their way, after one more.
LEMMA OneMoreNews ==
  ASSUME NEW s \in Seq(Message), NEW m \in Message, NEW ch, NEW v
  PROVE  /\ m.ch # ch => /\ LastNews(s, ch, v) => LastNews(Append(s, m), ch, v)
                         /\ NoNews(Append(s, m), ch) => NoNews(s, ch)
         /\ m.ch = ch => /\ (m.on <=> ch \in v) => LastNews(Append(s, m), ch, v)
                         /\ ~NoNews(Append(s, m), ch)
<1> DEFINE t == Append(s, m)
<1>1. /\ Len(t) = Len(s) + 1 /\ Len(s) \in Nat
      /\ \A i \in 1 .. Len(s) : t[i] = s[i]
      /\ t[Len(s) + 1] = m
  OBVIOUS
<1> HIDE DEF t
<1>2. 1 .. Len(t) = (1 .. Len(s)) \cup {Len(t)} /\ Len(t) \in 1 .. Len(t)
  BY <1>1
<1>3. ASSUME m.ch # ch, LastNews(s, ch, v) PROVE LastNews(t, ch, v)
  <2> SUFFICES ASSUME NEW i \in 1 .. Len(t), IsNews(t[i], ch),
                      \A j \in i + 1 .. Len(t) : ~IsNews(t[j], ch)
               PROVE  t[i].on <=> ch \in v
    BY DEF LastNews
  <2>1. i \in 1 .. Len(s) /\ t[i] = s[i]
    BY <1>1, <1>2, <1>3 DEF IsNews
  <2>2. \A j \in i + 1 .. Len(s) : j \in i + 1 .. Len(t) /\ t[j] = s[j]
    BY <1>1, <2>1
  <2> QED BY <1>3, <2>1, <2>2 DEF LastNews
<1>4. ASSUME NoNews(t, ch) PROVE NoNews(s, ch)
  BY <1>1, <1>4 DEF NoNews
<1>5. ASSUME m.ch = ch PROVE ((m.on <=> ch \in v) => LastNews(t, ch, v)) /\ ~NoNews(t, ch)
  <2>1. ~NoNews(t, ch)
    BY <1>1, <1>2, <1>5 DEF NoNews, IsNews
  <2>2. ASSUME NEW i \in 1 .. Len(t), \A j \in i + 1 .. Len(t) : ~IsNews(t[j], ch)
        PROVE  t[i] = m
    <3>1. CASE i = Len(t)
      BY <1>1, <3>1
    <3>2. CASE i \in 1 .. Len(s)
      <4>1. Len(t) \in i + 1 .. Len(t) /\ t[Len(t)] = m
        BY <1>1, <3>2
      <4> QED BY <1>5, <2>2, <4>1 DEF IsNews
    <3> QED BY <1>2, <3>1, <3>2
  <2> QED BY <2>1, <2>2 DEF LastNews
<1> QED BY <1>3, <1>4, <1>5 DEF t

\* What is left after the first: the same last news, unless the first was the last.
LEMMA RestNews ==
  ASSUME NEW s \in Seq(Message), s # <<>>, NEW ch, NEW v, LastNews(s, ch, v)
  PROVE  /\ LastNews(Tail(s), ch, v)
         /\ NoNews(Tail(s), ch) => NoNews(s, ch) \/ (Head(s).ch = ch /\ (Head(s).on <=> ch \in v))
<1> DEFINE t == Tail(s)
<1>1. /\ Len(t) = Len(s) - 1 /\ Len(s) \in Nat \ {0} /\ Head(s) = s[1]
      /\ \A i \in 1 .. Len(s) - 1 : t[i] = s[i + 1]
  OBVIOUS
<1> HIDE DEF t
<1>2. LastNews(t, ch, v)
  <2> SUFFICES ASSUME NEW i \in 1 .. Len(t), IsNews(t[i], ch),
                      \A j \in i + 1 .. Len(t) : ~IsNews(t[j], ch)
               PROVE  t[i].on <=> ch \in v
    BY DEF LastNews
  <2>1. i + 1 \in 1 .. Len(s) /\ t[i] = s[i + 1]
    BY <1>1
  <2>2. ASSUME NEW j \in i + 2 .. Len(s) PROVE ~IsNews(s[j], ch)
    <3>1. j - 1 \in i + 1 .. Len(t) /\ t[j - 1] = s[j]
      BY <1>1
    <3> QED BY <3>1
  <2>3. i + 1 + 1 = i + 2
    BY <2>1
  <2> QED BY <2>1, <2>2, <2>3 DEF LastNews
<1>3. ASSUME NoNews(t, ch) PROVE NoNews(s, ch) \/ (Head(s).ch = ch /\ (Head(s).on <=> ch \in v))
  <2>1. ASSUME NEW j \in 2 .. Len(s) PROVE ~IsNews(s[j], ch)
    <3>1. j - 1 \in 1 .. Len(t) /\ t[j - 1] = s[j]
      BY <1>1
    <3> QED BY <1>3, <3>1 DEF NoNews
  <2>2. \A i \in 1 .. Len(s) : i = 1 \/ i \in 2 .. Len(s)
    BY <1>1
  <2>3. CASE IsNews(s[1], ch)
    <3>1. 1 \in 1 .. Len(s)
      BY <1>1
    <3> QED BY <1>1, <2>1, <2>3, <3>1 DEF LastNews, IsNews
  <2>4. CASE ~IsNews(s[1], ch)
    BY <2>1, <2>2, <2>4 DEF NoNews
  <2> QED BY <2>3, <2>4
<1> QED BY <1>2, <1>3 DEF t

\* What the panels show keeps its type.
LEMMA ShownStep == ASSUME EchoInv, Shown, [Next]_vars PROVE Shown'
<1> USE DEF Shown
<1>1. CASE UNCHANGED <<state, remote, behind, started>>
  BY <1>1
<1>2. ASSUME NEW p \in Panels, Process(p) PROVE Shown'
  <2>1. PICK now \in Readings(p) :
          LET fb == frontChanged[p] \cup NewlyChanged(p, now)
              re == remoteChanged[p]
          IN  /\ state' = [state EXCEPT ![p] = Toggled(Applied(p, re), fb)]
              /\ behind' = [behind EXCEPT ![p] = IF started[p] THEN @ \ fb ELSE @ \cup fb]
    BY <1>2 DEF Process
  <2> DEFINE fb == frontChanged[p] \cup NewlyChanged(p, now)
  <2>2. fb \subseteq Channels
    BY DEF EchoInv, NewlyChanged, NewlyPressed, Channels
  <2>3. Toggled(Applied(p, remoteChanged[p]), fb) \subseteq Channels
    BY <2>2 DEF Toggled, Applied, EchoInv
  <2>4. UNCHANGED <<remote, started>>
    BY <1>2 DEF Process
  <2>5. (IF started[p] THEN behind[p] \ fb ELSE behind[p] \cup fb) \subseteq Channels
    BY <2>2
  <2> HIDE DEF fb
  <2>6. /\ state' = [state EXCEPT ![p] = Toggled(Applied(p, remoteChanged[p]), fb)]
        /\ behind' = [behind EXCEPT ![p] = IF started[p] THEN behind[p] \ fb ELSE behind[p] \cup fb]
    BY <2>1 DEF fb
  <2> QED BY <2>3, <2>4, <2>5, <2>6
<1>3. ASSUME NEW p \in Panels, SendChannel(p) PROVE Shown'
  <2>1. PICK ch \in pass[p].todo :
          IF started[p]
          THEN behind' = [q \in Panels |->
                 IF q = p THEN IF Crosses(p, ch) THEN behind[q] \cup {ch} ELSE behind[q] \ {ch}
                 ELSE IF Hears(p, q) THEN behind[q] ELSE behind[q] \cup {ch}]
          ELSE UNCHANGED behind
    BY <1>3 DEF SendChannel
  <2>2. ch \in Channels /\ UNCHANGED <<state, remote, started>>
    BY <1>3, <2>1 DEF EchoInv, SendChannel, flags
  <2> QED BY <2>1, <2>2
<1>4. ASSUME NEW p \in Panels, EndPass(p) PROVE Shown'
  BY <1>1, <1>4 DEF EndPass
<1>5. ASSUME NEW p \in Panels, Receive(p) \/ Lose(p) PROVE Shown'
  <2>1. Head(line[p]).ch \in Channels
    <3>1. line[p] \in Seq(Message) /\ line[p] # <<>>
      BY <1>5 DEF EchoInv, Receive, Lose
    <3>2. Head(line[p]) \in Message
      BY <3>1
    <3> QED BY <3>2 DEF Message
  <2> DEFINE c == Head(line[p]).ch
  <2>2. /\ UNCHANGED <<state, started>>
        /\ remote' = remote \/ remote' = [remote EXCEPT ![p] = remote[p] \cup {c}]
           \/ remote' = [remote EXCEPT ![p] = remote[p] \ {c}]
        /\ behind' = behind \/ behind' = [behind EXCEPT ![p] = behind[p] \cup {c}]
           \/ behind' = [behind EXCEPT ![p] = behind[p] \ {c}]
    BY <1>5 DEF Receive, Lose, flags
  <2> HIDE DEF c
  <2>3. c \in Channels
    BY <2>1 DEF c
  <2> QED BY <2>2, <2>3
<1>6. ASSUME NEW p \in Panels, NetworkStarted(p) PROVE Shown'
  BY <1>6 DEF NetworkStarted, flags
<1>7. ASSUME NEW p \in Panels, Restart(p) PROVE Shown'
  BY <1>7 DEF Restart, PoweredUp
<1>8. CASE UNCHANGED vars
  BY <1>1, <1>8 DEF vars, flags
<1> QED BY <1>2, <1>3, <1>4, <1>5, <1>6, <1>7, <1>8 DEF Next, DioProc

\* What was last said of a channel is on its way to a panel, or waits to be
\* applied, or is shown, or the panel is about to say something itself.
LEMMA FollowingStep == ASSUME AgreeInv, [Next]_vars PROVE Following'
<1> USE DEF AgreeInv
<1>1. ASSUME NEW q \in Panels, NEW ch \in Sent \ behind[q], said' = said, line'[q] = line[q],
             pass'[q] = pass[q], started'[q] = started[q], remoteChanged'[q] = remoteChanged[q],
             remote'[q] = remote[q], state'[q] = state[q]
      PROVE  \/ ch \in pass'[q].todo /\ started'[q]
             \/ LastNews(line'[q], ch, said') /\ (NoNews(line'[q], ch) => Follows(q, ch)')
  BY <1>1 DEF Following, Follows
<1>2. ASSUME NEW p \in Panels, Process(p) PROVE Following'
  <2>1. PICK now \in Readings(p) :
          LET fb == frontChanged[p] \cup NewlyChanged(p, now)
              re == remoteChanged[p]
              todo == ToSend(fb, re)
          IN  /\ state' = [state EXCEPT ![p] = Toggled(Applied(p, re), fb)]
              /\ pass' = [pass EXCEPT ![p] = IF todo = {} THEN Asleep ELSE [fb |-> fb, re |-> re, todo |-> todo]]
              /\ remoteChanged' = [remoteChanged EXCEPT ![p] = IF todo = {} THEN @ \ re ELSE @]
              /\ behind' = [behind EXCEPT ![p] = IF started[p] THEN @ \ fb ELSE @ \cup fb]
    BY <1>2 DEF Process
  <2> DEFINE fb == frontChanged[p] \cup NewlyChanged(p, now)
             re == remoteChanged[p]
             todo == ToSend(fb, re)
  <2>2. UNCHANGED <<remote, started, line, said>> /\ pass[p] = Asleep
    BY <1>2 DEF Process
  <2>3. /\ \A q \in Panels \ {p} : state'[q] = state[q] /\ pass'[q] = pass[q]
             /\ remoteChanged'[q] = remoteChanged[q] /\ behind'[q] = behind[q]
        /\ state'[p] = Toggled(Applied(p, re), fb)
        /\ pass'[p] = IF todo = {} THEN Asleep ELSE [fb |-> fb, re |-> re, todo |-> todo]
        /\ remoteChanged'[p] = IF todo = {} THEN {} ELSE re
        /\ behind'[p] = IF started[p] THEN behind[p] \ fb ELSE behind[p] \cup fb
    BY <2>1 DEF Shown, EchoInv
  <2> HIDE DEF fb, re
  <2>4. ASSUME NEW ch \in Sent, ch \notin behind'[p]
        PROVE  \/ ch \in pass'[p].todo /\ started'[p]
               \/ LastNews(line'[p], ch, said') /\ (NoNews(line'[p], ch) => Follows(p, ch)')
    <3>1. CASE ch \in fb
      <4>1. started[p] /\ ch \in todo
        BY <2>3, <2>4, <3>1 DEF ToSend
      <4>2. pass'[p].todo = todo
        BY <2>3, <4>1
      <4> QED BY <2>2, <4>1, <4>2
    <3>2. CASE ch \notin fb
      <4>1. ch \notin behind[p]
        BY <2>3, <2>4, <3>2
      <4>2. LastNews(line[p], ch, said) /\ (NoNews(line[p], ch) => Follows(p, ch))
        BY <2>2, <4>1 DEF Following, Asleep
      <4>3. ch \notin remoteChanged'[p] \ pass'[p].re
        <5>1. CASE todo = {}
          BY <2>3, <5>1
        <5>2. CASE todo # {}
          BY <2>3, <5>2
        <5> QED BY <5>1, <5>2
      <4>4. ch \in state'[p] <=> (IF ch \in re THEN ch \in remote[p] ELSE ch \in state[p])
        BY <2>3, <3>2 DEF Toggled, Applied
      <4>5. Follows(p, ch) => Follows(p, ch)'
        BY <2>2, <4>3, <4>4 DEF Follows, Asleep, re
      <4> QED BY <2>2, <4>2, <4>5
    <3> QED BY <3>1, <3>2
  <2>5. ASSUME NEW q \in Panels \ {p}, NEW ch \in Sent \ behind'[q]
        PROVE  \/ ch \in pass'[q].todo /\ started'[q]
               \/ LastNews(line'[q], ch, said') /\ (NoNews(line'[q], ch) => Follows(q, ch)')
    BY <1>1, <2>2, <2>3, <2>5
  <2> QED BY <2>4, <2>5 DEF Following
<1>3. ASSUME NEW p \in Panels, SendChannel(p) PROVE Following'
  <2>1. PICK c \in pass[p].todo :
          /\ pass' = [pass EXCEPT ![p].todo = pass[p].todo \ {c}]
          /\ IF started[p]
             THEN /\ line' = [q \in Panels |-> IF Hears(p, q) THEN Append(line[q], News(p, c)) ELSE line[q]]
                  /\ said' = IF c \in state[p] THEN said \cup {c} ELSE said \ {c}
                  /\ behind' = [q \in Panels |->
                       IF q = p THEN IF Crosses(p, c) THEN behind[q] \cup {c} ELSE behind[q] \ {c}
                       ELSE IF Hears(p, q) THEN behind[q] ELSE behind[q] \cup {c}]
             ELSE UNCHANGED <<line, said, behind>>
    BY <1>3 DEF SendChannel
  <2>2. UNCHANGED <<remoteChanged, remote, state, started>>
    BY <1>3 DEF SendChannel, flags
  <2>3. /\ pass'[p].todo = pass[p].todo \ {c} /\ pass'[p].re = pass[p].re
        /\ \A q \in Panels \ {p} : pass'[q] = pass[q]
    BY <2>1 DEF EchoInv
  <2>4. \A q \in Panels, ch \in Sent : Follows(q, ch) /\ (ch \in said' <=> ch \in said) => Follows(q, ch)'
    BY <2>2, <2>3 DEF Follows
  <2>5. CASE ~started[p]
    <3> SUFFICES ASSUME NEW q \in Panels, NEW ch \in Sent, ch \notin behind[q]
                 PROVE  \/ ch \in pass'[q].todo /\ started[q]
                        \/ LastNews(line[q], ch, said) /\ (NoNews(line[q], ch) => Follows(q, ch)')
      BY <2>1, <2>2, <2>5 DEF Following
    <3>1. \/ ch \in pass[q].todo /\ started[q]
          \/ LastNews(line[q], ch, said) /\ (NoNews(line[q], ch) => Follows(q, ch))
      BY DEF Following
    <3>2. ch \in pass[q].todo /\ started[q] => ch \in pass'[q].todo
      BY <2>3, <2>5
    <3>3. Follows(q, ch) => Follows(q, ch)'
      BY <2>1, <2>4, <2>5
    <3> QED BY <3>1, <3>2, <3>3
  <2>6. CASE started[p]
    <3> DEFINE m == News(p, c)
    <3>1. m \in Message /\ m.ch = c /\ m.on = (c \in state[p])
      BY <2>1 DEF News, EchoInv, Message
    <3>2. c \in state[p] <=> c \in said'
      BY <2>1, <2>6
    <3>3. \A q \in Panels : line[q] \in Seq(Message)
      BY DEF EchoInv
    <3>4. /\ line' = [q \in Panels |-> IF Hears(p, q) THEN Append(line[q], m) ELSE line[q]]
          /\ \A ch : ch # c => (ch \in said' <=> ch \in said)
      BY <2>1, <2>6
    <3>5. \A q \in Panels : behind'[q] =
             IF q = p THEN IF Crosses(p, c) THEN behind[q] \cup {c} ELSE behind[q] \ {c}
             ELSE IF Hears(p, q) THEN behind[q] ELSE behind[q] \cup {c}
      BY <2>1, <2>6
    <3> HIDE DEF m
    <3>6. ASSUME NEW q \in Panels, NEW ch \in Sent, ch \notin behind'[q], ch # c
          PROVE  \/ ch \in pass'[q].todo /\ started'[q]
                 \/ LastNews(line'[q], ch, said') /\ (NoNews(line'[q], ch) => Follows(q, ch)')
      <4>1. ch \notin behind[q]
        BY <3>5, <3>6
      <4>2. CASE ch \in pass[q].todo /\ started[q]
        BY <2>2, <2>3, <3>6, <4>2
      <4>3. CASE LastNews(line[q], ch, said) /\ (NoNews(line[q], ch) => Follows(q, ch))
        <5>1. LastNews(line[q], ch, said')
          BY <3>4, <3>6, <4>3 DEF LastNews
        <5>2. LastNews(line'[q], ch, said') /\ (NoNews(line'[q], ch) => NoNews(line[q], ch))
          BY <3>1, <3>3, <3>4, <3>6, <5>1, OneMoreNews
        <5> QED BY <2>4, <3>4, <3>6, <4>3, <5>2
      <4> QED BY <4>1, <4>2, <4>3 DEF Following
    <3>7. ASSUME NEW q \in Panels, c \in Sent, c \notin behind'[q]
          PROVE  LastNews(line'[q], c, said') /\ (NoNews(line'[q], c) => Follows(q, c)')
      <4>1. CASE q = p
        <5>1. NoNews(line[p], c) /\ c \notin remoteChanged[p] \ pass[p].re
          BY <3>5, <3>7, <4>1 DEF Crosses
        <5>2. line'[p] = line[p]
          BY <3>4 DEF Hears
        <5>3. LastNews(line[p], c, said')
          BY <5>1 DEF NoNews, LastNews
        <5>4. Follows(p, c)'
          BY <2>2, <2>3, <3>2, <5>1 DEF Follows
        <5> QED BY <4>1, <5>2, <5>3, <5>4
      <4>2. CASE q # p
        <5>1. Hears(p, q) /\ line'[q] = Append(line[q], m)
          BY <3>4, <3>5, <3>7, <4>2
        <5>2. m.on <=> c \in said'
          BY <3>1, <3>2, Zenon
        <5>3. LastNews(Append(line[q], m), c, said') /\ ~NoNews(Append(line[q], m), c)
          BY <3>1, <3>3, <5>2, OneMoreNews
        <5> QED BY <5>1, <5>3
      <4> QED BY <4>1, <4>2
    <3> QED BY <3>6, <3>7 DEF Following
  <2> QED BY <2>5, <2>6
<1>4. ASSUME NEW p \in Panels, EndPass(p) PROVE Following'
  <2>1. /\ remoteChanged' = [remoteChanged EXCEPT ![p] = remoteChanged[p] \ pass[p].re]
        /\ pass' = [pass EXCEPT ![p] = Asleep]
        /\ UNCHANGED <<remote, state, started, line, said, behind>> /\ pass[p].todo = {}
    BY <1>4 DEF EndPass
  <2>2. /\ \A q \in Panels \ {p} : pass'[q] = pass[q] /\ remoteChanged'[q] = remoteChanged[q]
        /\ pass'[p] = Asleep /\ remoteChanged'[p] = remoteChanged[p] \ pass[p].re
    BY <2>1 DEF EchoInv
  <2>3. ASSUME NEW ch \in Sent, ch \notin behind'[p]
        PROVE  LastNews(line'[p], ch, said') /\ (NoNews(line'[p], ch) => Follows(p, ch)')
    <3>1. LastNews(line[p], ch, said) /\ (NoNews(line[p], ch) => Follows(p, ch))
      BY <2>1, <2>3 DEF Following
    <3>2. Follows(p, ch) => Follows(p, ch)'
      BY <2>1, <2>2 DEF Follows, Asleep
    <3> QED BY <2>1, <3>1, <3>2
  <2>4. ASSUME NEW q \in Panels \ {p}, NEW ch \in Sent \ behind'[q]
        PROVE  \/ ch \in pass'[q].todo /\ started'[q]
               \/ LastNews(line'[q], ch, said') /\ (NoNews(line'[q], ch) => Follows(q, ch)')
    BY <1>1, <2>1, <2>2, <2>4
  <2> QED BY <2>3, <2>4 DEF Following
<1>5. ASSUME NEW p \in Panels, Receive(p) PROVE Following'
  <2> DEFINE m == Head(line[p])
             s == Tail(line[p])
  <2>1. /\ remoteChanged' = [remoteChanged EXCEPT ![p] = remoteChanged[p] \cup {m.ch}]
        /\ remote' = [remote EXCEPT ![p] = IF m.on THEN remote[p] \cup {m.ch} ELSE remote[p] \ {m.ch}]
        /\ behind' = [behind EXCEPT ![p] = IF m.ch \in pass[p].re THEN behind[p] \cup {m.ch}
                        ELSE IF (m.on <=> m.ch \in said) /\ NoNews(s, m.ch)
                             THEN behind[p] \ {m.ch} ELSE behind[p]]
        /\ line' = [line EXCEPT ![p] = s]
    BY <1>5 DEF Receive, UpToDate
  <2>2. UNCHANGED <<state, pass, started, said>> /\ line[p] # <<>>
    BY <1>5 DEF Receive
  <2>3. /\ \A q \in Panels \ {p} : /\ remoteChanged'[q] = remoteChanged[q] /\ remote'[q] = remote[q]
                                   /\ behind'[q] = behind[q] /\ line'[q] = line[q]
        /\ remoteChanged'[p] = remoteChanged[p] \cup {m.ch} /\ line'[p] = s
        /\ remote'[p] = IF m.on THEN remote[p] \cup {m.ch} ELSE remote[p] \ {m.ch}
        /\ behind'[p] = IF m.ch \in pass[p].re THEN behind[p] \cup {m.ch}
                        ELSE IF (m.on <=> m.ch \in said) /\ NoNews(s, m.ch)
                             THEN behind[p] \ {m.ch} ELSE behind[p]
    BY <2>1 DEF EchoInv, Shown
  <2>4. line[p] \in Seq(Message)
    BY DEF EchoInv
  <2>5. ASSUME NEW ch, LastNews(line[p], ch, said)
        PROVE  /\ LastNews(s, ch, said)
               /\ NoNews(s, ch) => NoNews(line[p], ch) \/ (m.ch = ch /\ (m.on <=> ch \in said))
    BY <2>2, <2>4, <2>5, RestNews
  <2> HIDE DEF m, s
  <2>6. ASSUME NEW ch \in Sent, ch \notin behind'[p], ch # m.ch
        PROVE  \/ ch \in pass'[p].todo /\ started'[p]
               \/ LastNews(line'[p], ch, said') /\ (NoNews(line'[p], ch) => Follows(p, ch)')
    <3>1. ch \notin behind[p]
      BY <2>3, <2>6
    <3>2. Follows(p, ch) => Follows(p, ch)'
      BY <2>2, <2>3, <2>6 DEF Follows
    <3>3. CASE LastNews(line[p], ch, said) /\ (NoNews(line[p], ch) => Follows(p, ch))
      BY <2>2, <2>3, <2>5, <2>6, <3>2, <3>3
    <3> QED BY <2>2, <3>1, <3>3 DEF Following
  <2>7. ASSUME NEW ch \in Sent, ch \notin behind'[p], ch = m.ch
        PROVE  \/ ch \in pass'[p].todo /\ started'[p]
               \/ LastNews(line'[p], ch, said') /\ (NoNews(line'[p], ch) => Follows(p, ch)')
    <3>1. ch \notin pass[p].re
      BY <2>3, <2>7
    <3>2. (m.on <=> ch \in said) => Follows(p, ch)'
      <4>1. ch \in remoteChanged'[p] \ pass'[p].re
        BY <2>2, <2>3, <2>7, <3>1
      <4>2. ch \in remote'[p] <=> m.on
        BY <2>3, <2>7
      <4> QED BY <2>2, <4>1, <4>2 DEF Follows
    <3>3. CASE (m.on <=> ch \in said) /\ NoNews(s, ch)
      <4>1. LastNews(s, ch, said)
        BY <3>3 DEF NoNews, LastNews
      <4> QED BY <2>2, <2>3, <3>2, <3>3, <4>1
    <3>4. CASE ~((m.on <=> ch \in said) /\ NoNews(s, ch))
      <4>1. ch \notin behind[p]
        BY <2>3, <2>7, <3>1, <3>4
      <4>2. ~NoNews(line[p], ch)
        <5>1. 1 \in 1 .. Len(line[p]) /\ line[p][1] = m
          BY <2>2, <2>4 DEF m
        <5> QED BY <2>7, <5>1 DEF NoNews, IsNews
      <4>3. CASE LastNews(line[p], ch, said)
        BY <2>2, <2>3, <2>5, <3>2, <4>2, <4>3
      <4> QED BY <2>2, <2>7, <4>1, <4>3 DEF Following
    <3> QED BY <3>3, <3>4
  <2>8. ASSUME NEW q \in Panels \ {p}, NEW ch \in Sent \ behind'[q]
        PROVE  \/ ch \in pass'[q].todo /\ started'[q]
               \/ LastNews(line'[q], ch, said') /\ (NoNews(line'[q], ch) => Follows(q, ch)')
    BY <1>1, <2>2, <2>3, <2>8
  <2> QED BY <2>6, <2>7, <2>8 DEF Following
<1>6. ASSUME NEW p \in Panels, Lose(p) PROVE Following'
  <2> DEFINE m == Head(line[p])
             s == Tail(line[p])
  <2>1. UNCHANGED <<remoteChanged, remote, state, pass, started, said>> /\ line[p] # <<>>
    BY <1>6 DEF Lose, flags
  <2>2. /\ \A q \in Panels \ {p} : behind'[q] = behind[q] /\ line'[q] = line[q]
        /\ line'[p] = s /\ behind'[p] = behind[p] \cup {m.ch}
    BY <1>6 DEF Lose, EchoInv, Shown
  <2>3. line[p] \in Seq(Message)
    BY DEF EchoInv
  <2>4. ASSUME NEW ch, LastNews(line[p], ch, said)
        PROVE  /\ LastNews(s, ch, said)
               /\ NoNews(s, ch) => NoNews(line[p], ch) \/ (m.ch = ch /\ (m.on <=> ch \in said))
    BY <2>1, <2>3, <2>4, RestNews
  <2> HIDE DEF m, s
  <2>5. ASSUME NEW ch \in Sent, ch \notin behind'[p]
        PROVE  \/ ch \in pass'[p].todo /\ started'[p]
               \/ LastNews(line'[p], ch, said') /\ (NoNews(line'[p], ch) => Follows(p, ch)')
    <3>1. ch \notin behind[p] /\ ch # m.ch
      BY <2>2, <2>5
    <3>2. Follows(p, ch) => Follows(p, ch)'
      BY <2>1 DEF Follows
    <3>3. CASE LastNews(line[p], ch, said) /\ (NoNews(line[p], ch) => Follows(p, ch))
      BY <2>1, <2>2, <2>4, <3>1, <3>2, <3>3
    <3> QED BY <2>1, <3>1, <3>3 DEF Following
  <2>6. ASSUME NEW q \in Panels \ {p}, NEW ch \in Sent \ behind'[q]
        PROVE  \/ ch \in pass'[q].todo /\ started'[q]
               \/ LastNews(line'[q], ch, said') /\ (NoNews(line'[q], ch) => Follows(q, ch)')
    BY <1>1, <2>1, <2>2, <2>6
  <2> QED BY <2>5, <2>6 DEF Following
<1>7. ASSUME NEW p \in Panels, NetworkStarted(p) PROVE Following'
  <2>1. UNCHANGED <<remoteChanged, remote, state, pass, line, said, behind>>
    BY <1>7 DEF NetworkStarted, flags
  <2>2. \A q \in Panels : started[q] => started'[q]
    BY <1>7 DEF NetworkStarted, Shown
  <2>3. \A q \in Panels, ch \in Sent : Follows(q, ch) => Follows(q, ch)'
    BY <2>1 DEF Follows
  <2> QED BY <2>1, <2>2, <2>3 DEF Following
<1>8. ASSUME NEW p \in Panels, Restart(p) PROVE Following'
  <2>1. /\ UNCHANGED said /\ behind' = [behind EXCEPT ![p] = Channels]
        /\ remoteChanged' = [remoteChanged EXCEPT ![p] = {}] /\ remote' = [remote EXCEPT ![p] = {}]
        /\ state' = [state EXCEPT ![p] = {}] /\ pass' = [pass EXCEPT ![p] = Asleep]
        /\ started' = [started EXCEPT ![p] = FALSE] /\ line' = [line EXCEPT ![p] = <<>>]
    BY <1>8 DEF Restart, PoweredUp
  <2>2. ASSUME NEW q \in Panels, NEW ch \in Sent \ behind'[q]
        PROVE  \/ ch \in pass'[q].todo /\ started'[q]
               \/ LastNews(line'[q], ch, said') /\ (NoNews(line'[q], ch) => Follows(q, ch)')
    <3>1. q # p
      BY <2>1, <2>2 DEF Shown, Sent
    <3>2. /\ pass'[q] = pass[q] /\ line'[q] = line[q] /\ behind'[q] = behind[q]
          /\ remoteChanged'[q] = remoteChanged[q] /\ remote'[q] = remote[q]
          /\ state'[q] = state[q] /\ started'[q] = started[q]
      BY <2>1, <3>1
    <3> QED BY <1>1, <2>1, <2>2, <3>2
  <2> QED BY <2>2 DEF Following
<1>9. CASE UNCHANGED vars
  <2>1. UNCHANGED <<remoteChanged, remote, state, pass, started, line, said, behind>>
    BY <1>9 DEF vars, flags
  <2> QED BY <1>1, <2>1 DEF Following
<1> QED BY <1>2, <1>3, <1>4, <1>5, <1>6, <1>7, <1>8, <1>9 DEF Next, DioProc

\* The panels agree (mqtt_udp_recv_item, dio_process, mqtt_udp_send_channel together):
\* one that has nothing left to do shows what was last broadcast of every channel
\* whose last news it did not miss, with any number of panels, of hands at the same
\* channel, of broadcasts on their way at once, of losses and of restarts.
THEOREM PanelsAgree == Spec => []Agreement
<1>1. Init => AgreeInv
  <2> SUFFICES ASSUME Init PROVE AgreeInv
    OBVIOUS
  <2>1. EchoInv /\ Debouncing
    BY InitEcho
  <2>2. Shown
    BY DEF Init, Shown
  <2>3. \A p \in Panels, ch \in Sent : LastNews(line[p], ch, said) /\ Follows(p, ch)
    BY DEF Init, LastNews, Follows
  <2> QED BY <2>1, <2>2, <2>3 DEF AgreeInv, Following
<1>2. AgreeInv /\ [Next]_vars => AgreeInv'
  <2> SUFFICES ASSUME AgreeInv, [Next]_vars PROVE AgreeInv'
    OBVIOUS
  <2>1. EchoInv' /\ Debouncing'
    BY EchoStep, StepKeeps DEF AgreeInv, EchoInv
  <2> QED BY <2>1, ShownStep, FollowingStep DEF AgreeInv
<1>3. AgreeInv => Agreement
  <2> SUFFICES ASSUME AgreeInv, NEW p \in Panels, Quiet(p), NEW ch \in Sent \ behind[p]
               PROVE  ch \in state[p] <=> ch \in said
    BY DEF Agreement
  <2>1. ch \notin pass[p].todo /\ line[p] = <<>> /\ remoteChanged[p] = {}
    BY DEF Quiet, Asleep
  <2>2. NoNews(line[p], ch)
    BY <2>1 DEF NoNews
  <2>3. Follows(p, ch)
    BY <2>1, <2>2 DEF AgreeInv, Following
  <2> QED BY <2>1, <2>3 DEF Follows
<1> QED BY <1>1, <1>2, <1>3, PTL DEF Spec
-----------------------------------------------------------------------------
\* What TypeOK says of the inputs beyond Registers.
Sampled ==
  /\ \A p \in Panels, b \in Buttons : shift[p][b].run \in 1..Width \cup {Width \div 2}
  /\ wire \in [Panels -> [Switches -> {0, 1, Undefined}]]
  /\ start \in [Panels -> BOOLEAN] /\ events \in 0..MaxEvents

\* What TypeOK says of broadcasts: they are of the channels that are sent, also
\* where they are noted, taken up and to be made.
SentNews == [ch : Sent, on : BOOLEAN]
Broadcast ==
  /\ remoteChanged \in [Panels -> SUBSET Sent] /\ remote \in [Panels -> SUBSET Sent]
  /\ \A p \in Panels : /\ pass[p].re \subseteq Sent /\ pass[p].todo \subseteq Sent
                       /\ pass[p].todo \subseteq pass[p].fb
                       /\ ~started[p] => line[p] = <<>>
  /\ line \in [Panels -> Seq(SentNews)] /\ said \subseteq Sent

TypeInv == EchoInv /\ Debouncing /\ Shown /\ Sampled /\ Broadcast

\* The inputs a pass counts can be counted.
LEMMA CountedFinite ==
  ASSUME NEW S \in SUBSET Channels
  PROVE  Cardinality(S) \in Nat
<1>1. IsFiniteSet(0..5)
  <2>1. 0 \in Int /\ 5 \in Int
    OBVIOUS
  <2> QED BY <2>1, FS_Interval, Zenon
<1>2. S \in SUBSET (0..5)
  BY WallAssumption DEF WallAssumption, Channels
<1> QED BY <1>1, <1>2, FS_Subset, FS_CardinalityType

LEMMA SampledStep ==
  ASSUME EchoInv, Sampled, [Next]_vars
  PROVE  Sampled'
<1> USE WallAssumption DEF WallAssumption
<1>1. CASE UNCHANGED <<inputs, start, events>>
  BY <1>1 DEF inputs, Sampled
<1>2. ASSUME NEW p \in Panels, Process(p) PROVE Sampled'
  <2>1. PICK now \in Readings(p) : DioInput(p, now, NewlyChanged(p, now))
    BY <1>2 DEF Process
  <2>2. \A ch \in Channels : now[ch] \in {0, 1}
    BY DEF Readings
  <2>3. shift' = [shift EXCEPT ![p] = [b \in Buttons |-> Shifted(shift[p][b], now[b])]]
    BY <2>1 DEF DioInput
  <2>4. \A b \in Buttons : Shifted(shift[p][b], now[b]).run \in 1..Width
    BY DEF Shifted, EchoInv, Registers, Register
  <2>5. \A q \in Panels, b \in Buttons : shift'[q][b].run \in 1..Width \cup {Width \div 2}
    BY <2>3, <2>4 DEF Sampled, EchoInv, Registers
  <2>6. wire' \in [Panels -> [Switches -> {0, 1, Undefined}]]
    <3>1. wire' = [wire EXCEPT ![p] = [s \in Switches |-> now[s]]]
      BY <2>1 DEF DioInput
    <3>2. [s \in Switches |-> now[s]] \in [Switches -> {0, 1, Undefined}]
      BY <2>2 DEF Channels
    <3> QED BY <3>1, <3>2 DEF Sampled
  <2>7. start' \in [Panels -> BOOLEAN]
    BY <1>2 DEF Process, Sampled
  <2>8. events' \in 0..MaxEvents
    <3> DEFINE n == Cardinality(Counted(p, NewlyChanged(p, now)))
    <3>1. Counted(p, NewlyChanged(p, now)) \in SUBSET Channels
      BY DEF Counted, NewlyChanged, NewlyPressed, Channels
    <3>2. n \in Nat /\ events' = events + n /\ events' <= MaxEvents
      BY <2>1, <3>1, CountedFinite DEF DioInput
    <3> HIDE DEF n
    <3> QED BY <3>2 DEF Sampled
  <2> QED BY <2>5, <2>6, <2>7, <2>8 DEF Sampled
<1>3. ASSUME NEW p \in Panels, Restart(p) PROVE Sampled'
  <2>1. /\ shift' = [shift EXCEPT ![p] = [b \in Buttons |-> [bit |-> 1, run |-> Width \div 2]]]
        /\ wire' = [wire EXCEPT ![p] = [s \in Switches |-> Undefined]]
        /\ start' = [start EXCEPT ![p] = TRUE]
        /\ events < MaxEvents /\ events' = events + 1
    BY <1>3 DEF Restart, PoweredUp
  <2>2. \A q \in Panels, b \in Buttons : shift'[q][b].run \in 1..Width \cup {Width \div 2}
    BY <2>1 DEF Sampled, EchoInv, Registers
  <2> QED BY <2>1, <2>2 DEF Sampled
<1>4. ASSUME NEW p \in Panels, Lose(p) PROVE Sampled'
  BY <1>4 DEF Lose, Sampled, inputs
<1>5. ASSUME NEW p \in Panels, SendChannel(p) \/ EndPass(p) \/ Receive(p) \/ NetworkStarted(p)
      PROVE  Sampled'
  BY <1>1, <1>5 DEF SendChannel, EndPass, Receive, NetworkStarted
<1>6. CASE UNCHANGED vars
  BY <1>1, <1>6 DEF vars
<1> QED BY <1>2, <1>3, <1>4, <1>5, <1>6 DEF Next, DioProc

LEMMA BroadcastStep ==
  ASSUME EchoInv, Shown, Broadcast, [Next]_vars
  PROVE  Broadcast'
<1>1. ASSUME NEW p \in Panels, Process(p) PROVE Broadcast'
  <2>1. PICK now \in Readings(p) :
          LET fb == frontChanged[p] \cup NewlyChanged(p, now)
              re == remoteChanged[p]
              todo == ToSend(fb, re)
          IN  /\ pass' = [pass EXCEPT ![p] = IF todo = {} THEN Asleep ELSE [fb |-> fb, re |-> re, todo |-> todo]]
              /\ remoteChanged' = [remoteChanged EXCEPT ![p] = IF todo = {} THEN @ \ re ELSE @]
    BY <1>1 DEF Process
  <2> DEFINE fb == frontChanged[p] \cup NewlyChanged(p, now)
             todo == ToSend(fb, remoteChanged[p])
  <2>2. todo \subseteq Sent /\ todo \subseteq fb /\ remoteChanged[p] \subseteq Sent
    BY DEF ToSend, Broadcast
  <2>3. \A q \in Panels : /\ pass'[q].re \subseteq Sent /\ pass'[q].todo \subseteq Sent
                          /\ pass'[q].todo \subseteq pass'[q].fb
    <3> HIDE DEF fb
    <3>1. CASE todo = {}
      BY <2>1, <3>1 DEF EchoInv, Broadcast, Asleep, fb
    <3>2. CASE todo # {}
      <4>1. pass' = [pass EXCEPT ![p] = [fb |-> fb, re |-> remoteChanged[p], todo |-> todo]]
        BY <2>1, <3>2 DEF fb
      <4> HIDE DEF todo
      <4> QED BY <2>2, <4>1 DEF EchoInv, Broadcast
    <3> QED BY <3>1, <3>2
  <2>4. remoteChanged' \in [Panels -> SUBSET Sent]
    BY <2>1 DEF Broadcast
  <2>5. UNCHANGED <<remote, started, line, said>>
    BY <1>1 DEF Process
  <2> QED BY <2>3, <2>4, <2>5 DEF Broadcast
<1>2. ASSUME NEW p \in Panels, SendChannel(p) PROVE Broadcast'
  <2>1. PICK ch \in pass[p].todo :
          /\ pass' = [pass EXCEPT ![p].todo = pass[p].todo \ {ch}]
          /\ IF started[p]
             THEN /\ line' = [q \in Panels |-> IF Hears(p, q) THEN Append(line[q], News(p, ch)) ELSE line[q]]
                  /\ said' = IF ch \in state[p] THEN said \cup {ch} ELSE said \ {ch}
             ELSE UNCHANGED <<line, said>>
    BY <1>2 DEF SendChannel
  <2>2. UNCHANGED <<remote, remoteChanged, started>>
    BY <1>2 DEF SendChannel, flags
  <2>3. ch \in Sent
    BY DEF Broadcast
  <2>4. \A q \in Panels : /\ pass'[q].re \subseteq Sent /\ pass'[q].todo \subseteq Sent
                          /\ pass'[q].todo \subseteq pass'[q].fb
    BY <2>1 DEF Broadcast, EchoInv
  <2>5. said' \subseteq Sent
    BY <2>1, <2>3 DEF Broadcast
  <2>6. line' \in [Panels -> Seq(SentNews)] /\ \A q \in Panels : ~started[q] => line'[q] = <<>>
    <3> DEFINE m == News(p, ch)
    <3>1. m \in SentNews
      BY <2>3 DEF News, SentNews
    <3>2. \A q \in Panels : line[q] \in Seq(SentNews)
      BY DEF Broadcast
    <3>3. CASE started[p]
      <4>1. line' = [q \in Panels |-> IF Hears(p, q) THEN Append(line[q], m) ELSE line[q]]
        BY <2>1, <3>3
      <4> HIDE DEF m
      <4>2. \A q \in Panels : Append(line[q], m) \in Seq(SentNews)
        BY <3>1, <3>2
      <4> QED BY <4>1, <4>2, <3>2 DEF Hears, Broadcast
    <3>4. CASE ~started[p]
      BY <2>1, <3>4 DEF Broadcast
    <3> QED BY <3>3, <3>4
  <2> QED BY <2>2, <2>4, <2>5, <2>6 DEF Broadcast
<1>3. ASSUME NEW p \in Panels, EndPass(p) PROVE Broadcast'
  BY <1>3 DEF EndPass, Broadcast, EchoInv, Asleep
<1>4. ASSUME NEW p \in Panels, Receive(p) \/ Lose(p) PROVE Broadcast'
  <2>1. line[p] # <<>> /\ line' = [line EXCEPT ![p] = Tail(line[p])] /\ UNCHANGED <<pass, started, said>>
    BY <1>4 DEF Receive, Lose
  <2>2. line[p] \in Seq(SentNews)
    BY DEF Broadcast
  <2>3. Tail(line[p]) \in Seq(SentNews) /\ Head(line[p]) \in SentNews
    BY <2>1, <2>2
  <2>4. line' \in [Panels -> Seq(SentNews)] /\ started[p]
    BY <2>1, <2>3 DEF Broadcast
  <2>5. remoteChanged' \in [Panels -> SUBSET Sent] /\ remote' \in [Panels -> SUBSET Sent]
    <3>1. CASE Receive(p)
      <4> DEFINE c == Head(line[p]).ch
      <4>1. /\ remoteChanged' = [remoteChanged EXCEPT ![p] = remoteChanged[p] \cup {c}]
            /\ remote' = [remote EXCEPT ![p] = remote[p] \cup {c}]
               \/ remote' = [remote EXCEPT ![p] = remote[p] \ {c}]
        BY <3>1 DEF Receive
      <4>2. c \in Sent
        BY <2>3 DEF SentNews
      <4> HIDE DEF c
      <4> QED BY <4>1, <4>2 DEF Broadcast
    <3>2. CASE Lose(p)
      BY <3>2 DEF Lose, flags, Broadcast
    <3> QED BY <1>4, <3>1, <3>2
  <2> QED BY <2>1, <2>4, <2>5 DEF Broadcast
<1>5. ASSUME NEW p \in Panels, NetworkStarted(p) PROVE Broadcast'
  <2>1. started' = [started EXCEPT ![p] = TRUE] /\ UNCHANGED <<flags, pass, line, said>>
    BY <1>5 DEF NetworkStarted
  <2>2. \A q \in Panels : ~started'[q] => ~started[q]
    BY <2>1 DEF Shown
  <2> QED BY <2>1, <2>2 DEF Broadcast, flags
<1>6. ASSUME NEW p \in Panels, Restart(p) PROVE Broadcast'
  <2>1. /\ remoteChanged' = [remoteChanged EXCEPT ![p] = {}] /\ remote' = [remote EXCEPT ![p] = {}]
        /\ pass' = [pass EXCEPT ![p] = Asleep] /\ line' = [line EXCEPT ![p] = <<>>]
        /\ started' = [started EXCEPT ![p] = FALSE] /\ said' = said
    BY <1>6 DEF Restart, PoweredUp
  <2>2. <<>> \in Seq(SentNews)
    OBVIOUS
  <2>3. line' \in [Panels -> Seq(SentNews)] /\ \A q \in Panels : ~started'[q] => line'[q] = <<>>
    BY <2>1, <2>2 DEF Broadcast, Shown
  <2>4. \A q \in Panels : /\ pass'[q].re \subseteq Sent /\ pass'[q].todo \subseteq Sent
                          /\ pass'[q].todo \subseteq pass'[q].fb
    BY <2>1 DEF Broadcast, EchoInv, Asleep
  <2> QED BY <2>1, <2>3, <2>4 DEF Broadcast
<1>7. CASE UNCHANGED vars
  BY <1>7 DEF vars, flags, Broadcast
<1> QED BY <1>1, <1>2, <1>3, <1>4, <1>5, <1>6, <1>7 DEF Next, DioProc

\* Every variable of the panels stays of its type; no broadcast is of a channel
\* above 3, and none waits on the way to a panel whose network is down.
THEOREM TypeCorrect == Spec => []TypeOK
<1>1. Init => TypeInv
  <2> SUFFICES ASSUME Init PROVE TypeInv
    OBVIOUS
  <2>1. Shown
    BY DEF Init, Shown
  <2>2. Sampled
    BY WallAssumption DEF WallAssumption, Init, Sampled
  <2>3. Broadcast
    <3>1. <<>> \in Seq(SentNews)
      OBVIOUS
    <3> QED BY <3>1 DEF Init, Broadcast, Asleep
  <2> QED BY <2>1, <2>2, <2>3, InitEcho DEF TypeInv
<1>2. TypeInv /\ [Next]_vars => TypeInv'
  <2> SUFFICES ASSUME TypeInv, [Next]_vars PROVE TypeInv'
    OBVIOUS
  <2>1. EchoInv' /\ Debouncing'
    BY EchoStep, StepKeeps DEF TypeInv, EchoInv
  <2> QED BY <2>1, ShownStep, SampledStep, BroadcastStep DEF TypeInv
<1>3. TypeInv => TypeOK
  <2> SUFFICES ASSUME TypeInv PROVE TypeOK
    OBVIOUS
  <2>1. shift \in [Panels -> [Buttons -> [bit : {0, 1}, run : 1..Width \cup {Width \div 2}]]]
    <3>1. \A p \in Panels, b \in Buttons :
            shift[p][b] \in [bit : {0, 1}, run : 1..Width \cup {Width \div 2}]
      BY DEF TypeInv, Sampled, EchoInv, Registers, Register
    <3> QED BY <3>1 DEF TypeInv, EchoInv, Registers
  <2>2. pass \in [Panels -> [fb : SUBSET Channels, re : SUBSET Sent, todo : SUBSET Sent]]
    <3>1. \A p \in Panels : pass[p] \in [fb : SUBSET Channels, re : SUBSET Sent, todo : SUBSET Sent]
      BY DEF TypeInv, EchoInv, Broadcast
    <3> QED BY <3>1 DEF TypeInv, EchoInv
  <2>3. line \in [Panels -> Seq([ch : Sent, on : BOOLEAN])] /\ said \in SUBSET Sent
    BY DEF TypeInv, Broadcast, SentNews
  <2> QED BY <2>1, <2>2, <2>3
          DEF TypeInv, EchoInv, Registers, Shown, Sampled, Broadcast, TypeOK
<1> QED BY <1>1, <1>2, <1>3, PTL DEF Spec
=============================================================================
