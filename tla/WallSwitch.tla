----------------------------- MODULE WallSwitch -----------------------------
(***************************************************************************)
(* Wall control panels (mmnet_mqt_udp_server) on one Ethernet: main/io_dig.c, *)
(* main/mqtt_map.c, main/mqtt_udp_glue.c.  Every panel runs two cooperative *)
(* Nut/OS threads: dio_proc samples the buttons every 4 ms, toggles the     *)
(* channels and broadcasts them; the MQTT/UDP thread notes what other       *)
(* panels broadcast.  A thread runs undisturbed until it waits: dio_proc    *)
(* may wait inside each send, with its snapshot of the flags in hand.       *)
(*                                                                         *)
(* Levels are 0 and 1 as the pins read them: a pressed button reads 0.      *)
(* The 8-bit shift register of debounce_t is compared with 0 and 0xFF only, *)
(* so its last sample and how often that was seen in a row stand for it.    *)
(***************************************************************************)
EXTENDS Integers, Sequences, FiniteSets

CONSTANTS
  Panels,
  Buttons,      \* front panel buttons: channels 0..3, debounced
  Switches,     \* channels of the Di inputs in switch mode
  Hands,        \* pairs <<panel, channel>>: the inputs somebody uses
  Width,        \* samples in a debouncer's shift register, 8 in the code
  MaxEvents     \* bound: local changes, broadcasts lost and restarts, together

Channels == Buttons \cup Switches

ASSUME WallAssumption ==
  /\ Buttons \subseteq 0..3 /\ Switches \subseteq 0..5
  /\ Hands \subseteq Panels \X Channels
  /\ Width \in Nat \ {0} /\ MaxEvents \in Nat

VARIABLES
  shift,        \* buttons[].shift, as [bit, run]
  prev,         \* buttons[].prev
  wire,         \* di0_prev, di1_prev
  start,        \* dio_start
  frontChanged, \* dio_front_buttons_changed, as a set of channels
  remoteChanged,\* dio_remote_state_changed
  remote,       \* dio_remote_state, as the set of channels that are on
  state,        \* dio_state, as the set of channels that are on
  pass,         \* dio_process: its locals fb_ch and re_ch, and what is to be sent
  started,      \* network_started
  line,         \* broadcasts on their way to a panel
  said,         \* history: the channels whose last broadcast was ON
  behind,       \* history: channels of which a panel missed the last news
  since,        \* history: passes since a button was noticed, up to 2 * Width
  events        \* what the bound counts; a switch's first reading is free

inputs == <<shift, prev, wire, since>>
flags == <<frontChanged, remoteChanged, remote>>
vars == <<inputs, start, flags, state, pass, started, line, said, behind, events>>

Undefined == 255                                \* -1 in an unsigned char
Asleep == [fb |-> {}, re |-> {}, todo |-> {}]
Sent == {ch \in Channels : ch < 4}              \* mask < 0x10

PoweredUp(p) ==
  /\ shift' = [shift EXCEPT ![p] = [b \in Buttons |-> [bit |-> 1, run |-> Width \div 2]]]
  /\ prev' = [prev EXCEPT ![p] = [b \in Buttons |-> Undefined]]
  /\ wire' = [wire EXCEPT ![p] = [s \in Switches |-> Undefined]]
  /\ since' = [since EXCEPT ![p] = [b \in Buttons |-> 2 * Width]]
  /\ start' = [start EXCEPT ![p] = TRUE]
  /\ frontChanged' = [frontChanged EXCEPT ![p] = {}]
  /\ remoteChanged' = [remoteChanged EXCEPT ![p] = {}]
  /\ remote' = [remote EXCEPT ![p] = {}]
  /\ state' = [state EXCEPT ![p] = {}]
  /\ pass' = [pass EXCEPT ![p] = Asleep]
  /\ started' = [started EXCEPT ![p] = FALSE]
  /\ line' = [line EXCEPT ![p] = <<>>]

Init ==
  /\ shift = [p \in Panels |-> [b \in Buttons |-> [bit |-> 1, run |-> Width \div 2]]]
  /\ prev = [p \in Panels |-> [b \in Buttons |-> Undefined]]
  /\ wire = [p \in Panels |-> [s \in Switches |-> Undefined]]
  /\ since = [p \in Panels |-> [b \in Buttons |-> 2 * Width]]
  /\ start = [p \in Panels |-> TRUE]
  /\ frontChanged = [p \in Panels |-> {}] /\ remoteChanged = [p \in Panels |-> {}]
  /\ remote = [p \in Panels |-> {}] /\ state = [p \in Panels |-> {}]
  /\ pass = [p \in Panels |-> Asleep]
  /\ started = [p \in Panels |-> FALSE]
  /\ line = [p \in Panels |-> <<>>]
  /\ said = {} /\ behind = [p \in Panels |-> {}]
  /\ events = 0

-----------------------------------------------------------------------------
(* dio_input *)

Shifted(s, in) == [bit |-> in, run |-> IF in = s.bit /\ s.run < Width THEN s.run + 1
                                       ELSE IF in = s.bit THEN Width ELSE 1]

\* Faulty variant: the register looks full one sample early
DebouncedEarly(s, before) == IF s.run >= Width - 1 THEN s.bit ELSE IF before = 0 THEN 0 ELSE 1

\* debounce_button: the level held for the whole register, else the level before
Debounced(s, before) == IF s.run = Width THEN s.bit ELSE IF before = 0 THEN 0 ELSE 1

\* dio_in_channel: a button counts when it is pressed, a switch when it moves
Noticed(before, level, isButton) == level # before /\ ~(isButton /\ level = 1)

\* What dio_in_channel is given for a button, once it is sampled
Level(p, b, now) == Debounced(Shifted(shift[p][b], now[b]), prev[p][b])

NewlyPressed(p, now) == {b \in Buttons : Noticed(prev[p][b], Level(p, b, now), TRUE)}
NewlyChanged(p, now) ==
  NewlyPressed(p, now) \cup {s \in Switches : Noticed(wire[p][s], now[s], FALSE)}

Counted(p, seen) == {ch \in seen : ch \in Buttons \/ wire[p][ch] # Undefined}

DioInput(p, now, seen) ==
  /\ events' = events + Cardinality(Counted(p, seen))
  /\ events' <= MaxEvents
  /\ shift' = [shift EXCEPT ![p] = [b \in Buttons |-> Shifted(@[b], now[b])]]
  /\ prev' = [prev EXCEPT ![p] = [b \in Buttons |-> Level(p, b, now)]]
  /\ wire' = [wire EXCEPT ![p] = [s \in Switches |-> now[s]]]
  /\ since' = [since EXCEPT ![p] = [b \in Buttons |->
                 IF b \in NewlyPressed(p, now) THEN 0 ELSE IF @[b] < 2 * Width THEN @[b] + 1 ELSE @[b]]]

\* What DI_PIN may read: an input nobody uses is pulled up
Readings(p) ==
  {[ch \in Channels |-> IF ch \in down THEN 0 ELSE 1] : down \in SUBSET {ch \in Channels : <<p, ch>> \in Hands}}

-----------------------------------------------------------------------------
(* dio_process *)

\* Faulty variant: what was switched off remotely is not cleared
AppliedOnOnly(p, re) == state[p] \cup (re \cap remote[p])
Applied(p, re) == (state[p] \ re) \cup (re \cap remote[p])

Toggled(s, fb) == (s \ fb) \cup (fb \ s)

\* Faulty variant: the remote change is broadcast, too
EchoToSend(fb, re) == Sent \cap (fb \cup re)
ToSend(fb, re) == Sent \cap fb

\* Up to the first send the pass is one step; without a send it is the whole pass
Process(p) ==
  /\ pass[p] = Asleep
  /\ \E now \in Readings(p) :
       LET seen == NewlyChanged(p, now)
           fb == frontChanged[p] \cup seen
           re == remoteChanged[p]
           todo == ToSend(fb, re)
       IN  /\ DioInput(p, now, seen)
           /\ state' = [state EXCEPT ![p] = Toggled(Applied(p, re), fb)]
           /\ pass' = [pass EXCEPT ![p] = IF todo = {} THEN Asleep ELSE [fb |-> fb, re |-> re, todo |-> todo]]
           /\ frontChanged' = [frontChanged EXCEPT ![p] = IF todo = {} THEN @ \ fb ELSE fb]
           /\ remoteChanged' = [remoteChanged EXCEPT ![p] = IF todo = {} THEN @ \ re ELSE @]
           /\ behind' = [behind EXCEPT ![p] = IF started[p] THEN @ \ fb ELSE @ \cup fb]
  /\ start' = [start EXCEPT ![p] = FALSE]
  /\ UNCHANGED <<remote, started, line, said>>

Hears(p, q) == q # p /\ started[q]

News(p, ch) == [ch |-> ch, on |-> ch \in state[p]]

IsNews(m, ch) == m.ch = ch
NoNews(s, ch) == \A i \in 1 .. Len(s) : ~IsNews(s[i], ch)

\* Older news of the channel, from a hand at another panel, reach the sender after
\* its own broadcast: it will show what it has switched over.
Crosses(p, ch) == ~NoNews(line[p], ch) \/ ch \in remoteChanged[p] \ pass[p].re

\* mqtt_udp_send_channel, for the lowest channel left; the broadcast reaches the others
SendChannel(p) == \E ch \in pass[p].todo :
  /\ \A other \in pass[p].todo : ch <= other
  /\ pass' = [pass EXCEPT ![p].todo = @ \ {ch}]
  /\ IF started[p]
     THEN /\ line' = [q \in Panels |-> IF Hears(p, q) THEN Append(line[q], News(p, ch)) ELSE line[q]]
          /\ said' = IF ch \in state[p] THEN said \cup {ch} ELSE said \ {ch}
          /\ behind' = [q \in Panels |->
                          IF q = p THEN IF Crosses(p, ch) THEN behind[q] \cup {ch} ELSE behind[q] \ {ch}
                          ELSE IF Hears(p, q) THEN behind[q] ELSE behind[q] \cup {ch}]
     ELSE UNCHANGED <<line, said, behind>>
  /\ UNCHANGED <<inputs, start, flags, state, started, events>>

EndPass(p) ==
  /\ pass[p] # Asleep /\ pass[p].todo = {}
  /\ frontChanged' = [frontChanged EXCEPT ![p] = @ \ pass[p].fb]
  /\ remoteChanged' = [remoteChanged EXCEPT ![p] = @ \ pass[p].re]
  /\ pass' = [pass EXCEPT ![p] = Asleep]
  /\ UNCHANGED <<inputs, start, remote, state, started, line, said, behind, events>>

\* dio_proc: pass after pass
DioProc(p) == Process(p) \/ SendChannel(p) \/ EndPass(p)

-----------------------------------------------------------------------------
(* the MQTT/UDP thread, the network and the power *)

\* What brings a panel up to date: the last news on their way
UpToDate(p, m) == (m.on <=> m.ch \in said) /\ NoNews(Tail(line[p]), m.ch)

\* mqtt_udp_recv_item; news of a channel the waiting pass took up already is
\* wiped out when it ends, and the panel falls behind
Receive(p) ==
  /\ line[p] # <<>>
  /\ LET m == Head(line[p])
     IN  /\ remoteChanged' = [remoteChanged EXCEPT ![p] = @ \cup {m.ch}]
         /\ remote' = [remote EXCEPT ![p] = IF m.on THEN @ \cup {m.ch} ELSE @ \ {m.ch}]
         /\ behind' = [behind EXCEPT ![p] = IF m.ch \in pass[p].re THEN @ \cup {m.ch}
                                               ELSE IF UpToDate(p, m) THEN @ \ {m.ch} ELSE @]
  /\ line' = [line EXCEPT ![p] = Tail(@)]
  /\ UNCHANGED <<inputs, start, frontChanged, state, pass, started, said, events>>

\* A broadcast is not acknowledged
Lose(p) ==
  /\ line[p] # <<>> /\ events < MaxEvents
  /\ events' = events + 1
  /\ behind' = [behind EXCEPT ![p] = @ \cup {Head(line[p]).ch}]
  /\ line' = [line EXCEPT ![p] = Tail(@)]
  /\ UNCHANGED <<inputs, start, flags, state, pass, started, said>>

\* long_init: the receiver's thread, then network_started; the buttons are
\* sampled since init_devices, seconds before
NetworkStarted(p) ==
  /\ ~started[p] /\ ~start[p]
  /\ started' = [started EXCEPT ![p] = TRUE]
  /\ UNCHANGED <<inputs, start, flags, state, pass, line, said, behind, events>>

\* Nothing of the switches is kept in EEPROM
Restart(p) ==
  /\ events < MaxEvents
  /\ events' = events + 1
  /\ PoweredUp(p)
  /\ behind' = [behind EXCEPT ![p] = Channels]
  /\ UNCHANGED said

Next == \E p \in Panels :
  \/ DioProc(p)
  \/ Receive(p) \/ Lose(p) \/ NetworkStarted(p) \/ Restart(p)

Spec == Init /\ [][Next]_vars

-----------------------------------------------------------------------------
\* Every variable is of its type; the locals of a pass are empty between passes,
\* and nothing waits on the way to a panel whose network is down.
TypeOK ==
  /\ shift \in [Panels -> [Buttons -> [bit : {0, 1}, run : 1..Width \cup {Width \div 2}]]]
  /\ prev \in [Panels -> [Buttons -> {0, 1, Undefined}]]
  /\ wire \in [Panels -> [Switches -> {0, 1, Undefined}]]
  /\ since \in [Panels -> [Buttons -> 0..2 * Width]]
  /\ start \in [Panels -> BOOLEAN] /\ started \in [Panels -> BOOLEAN]
  /\ frontChanged \in [Panels -> SUBSET Channels]
  /\ remoteChanged \in [Panels -> SUBSET Sent] /\ remote \in [Panels -> SUBSET Sent]
  /\ state \in [Panels -> SUBSET Channels]
  /\ pass \in [Panels -> [fb : SUBSET Channels, re : SUBSET Sent, todo : SUBSET Sent]]
  /\ line \in [Panels -> Seq([ch : Sent, on : BOOLEAN])]
  /\ said \in SUBSET Sent /\ behind \in [Panels -> SUBSET Channels]
  /\ events \in 0..MaxEvents
  /\ \A p \in Panels : /\ pass[p].todo \subseteq pass[p].fb
                       /\ ~started[p] => line[p] = <<>>

Quiet(p) == pass[p] = Asleep /\ frontChanged[p] = {} /\ remoteChanged[p] = {} /\ line[p] = <<>>

\* A panel that has nothing left to do shows for every switch what was last
\* broadcast of it, unless it missed that: a lost packet, a restart, a press
\* while its network was down, news wiped out by the end of a pass, or its own
\* broadcast crossing that of another hand at the same channel (dio_process, mqtt_udp_recv_item, mqtt_udp_send_channel together).
Agreement == \A p \in Panels : Quiet(p) =>
  \A ch \in Sent \ behind[p] : ch \in state[p] <=> ch \in said

\* Two presses of a button are noticed at least two register lengths of samples
\* apart: bouncing contacts never toggle a channel twice (debounce_button,
\* dio_in_channel).
Pressed(p, b) == prev[p][b] # 0 /\ prev'[p][b] = 0
NoBounce == [][\A p \in Panels, b \in Buttons : Pressed(p, b) => since[p][b] >= 2 * Width - 1]_vars

\* What a debouncer knows of the time since a press was noticed: the register is
\* never half full of anything it did not have the time to see.
Steady(s, before, n) ==
  /\ s.run <= Width
  /\ before = 0 /\ s.bit = 1 => s.run < Width /\ n >= s.run
  /\ before # 0 /\ s.bit = 1 => n >= Width
  /\ before # 0 /\ s.bit = 0 => s.run < Width /\ n >= Width + s.run
Debouncing == \A p \in Panels, b \in Buttons : Steady(shift[p][b], prev[p][b], since[p][b])

\* Why Agreement holds: the last news on their way to a panel are what was last
\* said; with no news on their way, this is what the panel knows and has not
\* applied yet, or shows already; or it is about to say something itself.
LastNews(s, ch, v) == \A i \in 1 .. Len(s) :
                        IsNews(s[i], ch) /\ (\A j \in i + 1 .. Len(s) : ~IsNews(s[j], ch))
                          => (s[i].on <=> ch \in v)
Follows(p, ch) == IF ch \in remoteChanged[p] \ pass[p].re
                  THEN ch \in remote[p] <=> ch \in said
                  ELSE ch \in state[p] <=> ch \in said
Following == \A p \in Panels : \A ch \in Sent \ behind[p] :
  \/ ch \in pass[p].todo /\ started[p]
  \/ LastNews(line[p], ch, said) /\ (NoNews(line[p], ch) => Follows(p, ch))

\* A panel broadcasts only what was changed at its own inputs: what came from
\* the network is shown and not sent on, in whatever pass it is taken up
\* (io_dig.c:125, 139).
NoEcho == \A p \in Panels :
  pass[p].todo \subseteq Switches \cup {ch \in Channels : <<p, ch>> \in Hands}

\* "Send to remote what we changed localy": what a panel that is done shows, for
\* every channel a hand at it changes, is what it last broadcast (io_dig.c:135).
ChangesAreSent == \A p \in Panels : \A ch \in Channels :
  /\ <<p, ch>> \in Hands /\ Quiet(p) /\ ch \notin behind[p]
  => (ch \in state[p] <=> ch \in said)
=============================================================================
