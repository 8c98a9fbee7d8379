------------------------------ MODULE WallBoard ------------------------------
(***************************************************************************)
(* The MQTT wall board (mmnet_wall_board): main/io_dig.c, main/mqtt_main.c, *)
(* main/mqtt_map.c and what main/libemqtt.c does for them, with a broker at *)
(* the other end of a TCP connection and other clients behind it.  Two      *)
(* cooperative Nut/OS threads: dio_proc samples the Di inputs, toggles the  *)
(* channels and hands every change to the thread mqtt_recv, which connects, *)
(* publishes, reads packets and starts over after an error.  A thread runs  *)
(* undisturbed until it sleeps, waits for the mutex or for TCP.             *)
(*                                                                         *)
(* A TCP segment holds whole packets; packets are short (one length byte).  *)
(***************************************************************************)
EXTENDS Integers, Sequences, SequencesExt, FiniteSets

CONSTANTS
  Topics,             \* channels with an MQTT topic: 0..3
  Switches, Buttons,  \* channels of the Di inputs, by di_mode
  ErrorLimit,         \* read errors in all until the board reconnects, 1000 in the code
  MaxEvents,          \* bound: local changes, foreign publications, breaks and refusals
  MaxStream           \* bound: packets on their way to the board

Inputs   == Switches \cup Buttons
Channels == Inputs \cup Topics

ASSUME BoardAssumption ==
  /\ Topics \subseteq 0..3 /\ Inputs \subseteq 0..7 /\ Switches \cap Buttons = {}
  /\ ErrorLimit \in Nat /\ MaxEvents \in Nat /\ MaxStream \in Nat

VARIABLES
  \* dio_proc
  prev,          \* di0_prev, di1_prev
  front,         \* dio_front_buttons_changed, as a set of channels
  start,         \* dio_start
  state,         \* dio_state, as the set of channels that are on
  pass,          \* dio_process: where it is, fb_ch, re_ch and the channels to send
  \* shared
  remoteChanged, \* dio_remote_state_changed
  remote,        \* dio_remote_state
  flag,          \* mqtt_send_flag
  item,          \* what mqtt_send_mqtt_name and mqtt_send_data point to
  \* mqtt_recv
  pc,            \* where it waits
  toSub,         \* channels subscribe_all has not come to
  needRestart,   \* need_restart
  readErrors,    \* read_err_cnt
  \* TCP and the broker
  conn,          \* the connection: "none", "up" or "dead"
  session,       \* the broker has accepted the session
  subs,          \* the topics the session is subscribed to
  stream,        \* packets on their way to the board
  value,         \* the channels whose topic was last published ON
  \* history
  reading,       \* what each input read last
  behind,        \* channels whose last publication the board or the broker missed
  reached,       \* the broker took the PUBLISH whose acknowledgement is awaited
  events         \* what the bound counts

local  == <<prev, front, start, state, pass, reading>>
shared == <<remoteChanged, remote, flag, item>>
client == <<pc, toSub, needRestart, readErrors>>
peer   == <<conn, session, subs, stream, value>>
vars   == <<local, shared, client, peer, behind, reached, events>>

Undefined == 255                                    \* -1 in a uint8_t
Asleep == [at |-> "asleep", fb |-> {}, re |-> {}, todo |-> {}]
News(ch, on) == [type |-> "PUBLISH", ch |-> ch, on |-> on]

NoItem == News(0, FALSE)

\* Message identifiers are only compared with msg_id, the one sent last: an
\* acknowledgement says whether it is the one awaited.
Ack(type, awaited) == [type |-> type, awaited |-> awaited]

Init ==
  /\ prev = [ch \in Inputs |-> Undefined] /\ reading = [ch \in Inputs |-> 1]
  /\ front = {} /\ start = TRUE /\ state = {} /\ pass = Asleep
  /\ remoteChanged = {} /\ remote = {} /\ flag = FALSE /\ item = NoItem
  /\ pc = "loop" /\ toSub = {} /\ needRestart = TRUE /\ readErrors = 0
  /\ conn = "none" /\ session = FALSE /\ subs = {} /\ stream = <<>>
  /\ value = {} /\ behind = {} /\ reached = FALSE /\ events = 0

-----------------------------------------------------------------------------
(* dio_proc *)

\* dio_in_channel: a released button returns before prev is stored
Stored(ch, level) == IF ch \in Buttons /\ level = 1 THEN prev[ch] ELSE level
Noticed(now) == {ch \in Inputs : Stored(ch, now[ch]) # prev[ch]}

Toggled(s, fb) == (s \ fb) \cup (fb \ s)

\* Faulty variant: what was switched off remotely is not cleared
AppliedOnOnly(re) == state \cup (re \cap remote)
Applied(re) == (state \ re) \cup (re \cap remote)

\* The first reading of an input is free, any other change is an event
Changed(now) == {ch \in Noticed(now) : prev[ch] # Undefined}

\* dio_process up to the first send, or all of it if there is nothing to send.
\* The flags are read before the inputs are.
DioProcess ==
  /\ pass = Asleep
  /\ \E now \in [Inputs -> {0, 1}] :
       LET fb == front
           re == remoteChanged
           todo == fb \cap Topics                  \* mask < 0x10, pos_by_id
       IN  /\ events' = events + Cardinality(Changed(now)) /\ events' <= MaxEvents
           /\ prev' = [ch \in Inputs |-> Stored(ch, now[ch])]
           /\ reading' = now
           /\ IF fb = {} /\ re = {} /\ ~start
              THEN /\ front' = Noticed(now)
                   /\ UNCHANGED <<state, pass, start, remoteChanged, behind>>
              ELSE /\ start' = FALSE
                   /\ state' = Toggled(Applied(re), fb)
                   /\ behind' = behind \cup (fb \ Topics)
                   /\ IF todo = {}
                      THEN /\ front' = (front \cup Noticed(now)) \ fb
                           /\ remoteChanged' = remoteChanged \ re
                           /\ UNCHANGED pass
                      ELSE /\ front' = front \cup Noticed(now)
                           /\ pass' = [at |-> "offer", fb |-> fb, re |-> re, todo |-> todo]
                           /\ UNCHANGED remoteChanged
  /\ UNCHANGED <<remote, flag, item, client, peer, reached>>

\* mqtt_send_item: the mutex is free and no item is pending
Offer ==
  /\ pass.at = "offer" /\ pc # "puback" /\ ~flag
  /\ LET ch == CHOOSE c \in pass.todo : \A d \in pass.todo : c <= d
     IN  /\ item' = News(ch, ch \in state)
         /\ pass' = [pass EXCEPT !.at = "waiting", !.todo = @ \ {ch}]
  /\ flag' = TRUE
  /\ UNCHANGED <<prev, front, start, state, reading, remoteChanged, remote, client, peer, behind, reached, events>>

\* Faulty variant: the sender does not wait until its item is done with
TakenAtOnce == TRUE
Taken == ~flag

Left(flags, snapshot) == flags \ snapshot

\* mqtt_send_item returns, and its strings are gone; after the last channel dio_process clears the flags
\* of its snapshot
ItemSent ==
  /\ pass.at = "waiting" /\ Taken
  /\ item' = NoItem
  /\ IF pass.todo # {}
     THEN pass' = [pass EXCEPT !.at = "offer"] /\ UNCHANGED <<front, remoteChanged>>
     ELSE /\ pass' = Asleep
          /\ front' = front \ pass.fb
          /\ remoteChanged' = Left(remoteChanged, pass.re)
  /\ UNCHANGED <<prev, start, state, reading, remote, flag, client, peer, behind, reached, events>>

DioProc == DioProcess \/ Offer \/ ItemSent

-----------------------------------------------------------------------------
(* TCP and the broker *)

\* What the broker does with a packet; on a broken connection it sees none
Heard == conn = "up"

\* broker->seq++: what was acknowledged before is not awaited any longer
Outdated == [i \in DOMAIN stream |->
               IF stream[i].type = "PUBLISH" THEN stream[i] ELSE Ack(stream[i].type, FALSE)]

\* The broker acknowledges, and sends the message to its subscribers; in which
\* order is its own affair
PublishReplies(m) ==
  LET ack  == <<Ack("PUBACK", TRUE)>>
      echo == IF m.ch \in subs THEN <<m>> ELSE <<>>
  IN  {ack \o echo, echo \o ack}

\* mqtt_publish_with_qos
SendPublish ==
  /\ reached' = (Heard /\ session)
  /\ IF Heard /\ session
     THEN /\ \E r \in PublishReplies(item) : stream' = Outdated \o r
          /\ value' = IF item.on THEN value \cup {item.ch} ELSE value \ {item.ch}
          /\ behind' = behind \ {item.ch}
     ELSE /\ stream' = Outdated
          /\ behind' = behind \cup {item.ch}
          /\ UNCHANGED value

\* mqtt_subscribe
SendSubscribe(ch) ==
  /\ toSub' = toSub \ {ch}
  /\ IF Heard /\ session
     THEN subs' = subs \cup {ch} /\ stream' = Append(Outdated, Ack("SUBACK", TRUE))
     ELSE stream' = Outdated /\ UNCHANGED subs

\* mqtt_ping
SendPing == stream' = IF Heard /\ session THEN Append(stream, Ack("PINGRESP", FALSE)) ELSE stream

\* read_packet: NutTcpReceive takes whatever has arrived, and what follows the
\* first packet is dropped
GetPacket(p) ==
  /\ stream # <<>> /\ p = Head(stream)
  /\ \E n \in 1..Len(stream) : stream' = SubSeq(stream, n + 1, Len(stream))
NoData    == UNCHANGED stream                        \* after MQTT_READ_TIMEOUT
ReadError == conn = "dead" /\ UNCHANGED stream

NewsIn(packets) == {m.ch : m \in {p \in packets : p.type = "PUBLISH"}}

\* The channels of news that a read dropped, when the first packet is not looked at
Missed(first) == NewsIn({stream[i] : i \in first .. Len(stream) - Len(stream')})

-----------------------------------------------------------------------------
(* mqtt_recv: connecting *)

\* Close the old socket, connect and send CONNECT; the broker answers
Connect ==
  /\ pc = "loop" /\ needRestart
  /\ behind' = behind \cup NewsIn(ToSet(stream))
  /\ subs' = {}
  /\ \/ /\ conn' = "none" /\ session' = FALSE /\ stream' = <<>>
        /\ UNCHANGED <<pc, toSub, events>>
     \/ /\ conn' = "up" /\ session' = TRUE /\ stream' = <<Ack("CONNACK", TRUE)>>
        /\ pc' = "connack" /\ toSub' = Topics
        /\ UNCHANGED events
     \/ /\ events < MaxEvents /\ events' = events + 1
        /\ conn' = "up" /\ session' = FALSE /\ stream' = <<Ack("CONNACK", FALSE)>>
        /\ pc' = "connack" /\ toSub' = Topics
  /\ UNCHANGED <<local, shared, needRestart, readErrors, value, reached>>

\* expect_packet returns 255 for -1, which is not below 0: only a refusal that
\* was read keeps the board from going on
ExpectConnack ==
  /\ pc = "connack"
  /\ \/ \E p \in ToSet(stream) : GetPacket(p) /\ pc' = (IF p.awaited THEN "subscribe" ELSE "loop")
                                 /\ UNCHANGED needRestart
     \/ NoData /\ pc' = "subscribe" /\ UNCHANGED needRestart
     \/ ReadError /\ pc' = "subscribe" /\ needRestart' = TRUE
  /\ UNCHANGED <<local, shared, toSub, readErrors, conn, session, subs, value, behind, reached, events>>

Subscribe ==
  /\ pc = "subscribe"
  /\ \E ch \in toSub : (\A c \in toSub : ch <= c) /\ SendSubscribe(ch)
  /\ pc' = "suback"
  /\ UNCHANGED <<local, shared, needRestart, readErrors, conn, session, value, behind, reached, events>>

\* Faulty variant: any acknowledgement of the right type will do
MismatchNever(p, type) == FALSE
\* An acknowledgement that is not the awaited one asks for a restart
Mismatch(p, type) == p.type = type /\ ~p.awaited

\* expect_packet for a SUBACK or a PUBACK: another packet is dropped
Expect(type) ==
  \/ \E p \in ToSet(stream) :
       /\ GetPacket(p)
       /\ needRestart' = (needRestart \/ Mismatch(p, type))
       /\ behind' = behind \cup Missed(1)
  \/ NoData /\ UNCHANGED <<needRestart, behind>>
  \/ ReadError /\ needRestart' = TRUE /\ UNCHANGED behind

\* After the last topic need_restart is cleared, whatever has set it
ExpectSuback ==
  /\ pc = "suback"
  /\ IF toSub # {}
     THEN Expect("SUBACK") /\ pc' = "subscribe"
     ELSE /\ \/ \E p \in ToSet(stream) : GetPacket(p) /\ behind' = behind \cup Missed(1)
             \/ NoData /\ UNCHANGED behind
          /\ needRestart' = FALSE /\ pc' = "poll"
  /\ UNCHANGED <<local, shared, toSub, readErrors, conn, session, subs, value, reached, events>>

-----------------------------------------------------------------------------
(* mqtt_recv: the main loop *)

\* NutSleep(1) or the end of subscribe_all; the mutex is held until the
\* publication is over
Publish ==
  /\ pc = "poll" \/ (pc = "loop" /\ ~needRestart)
  /\ IF flag
     THEN SendPublish /\ pc' = "puback"
     ELSE pc' = "ping" /\ UNCHANGED <<stream, value, behind, reached>>
  /\ UNCHANGED <<local, shared, toSub, needRestart, readErrors, conn, session, subs, events>>

\* An item is over when its publication is, well or not
PendingAfter == FALSE

ExpectPuback ==
  /\ pc = "puback"
  /\ Expect("PUBACK")
  /\ flag' = PendingAfter /\ reached' = FALSE
  /\ pc' = IF needRestart' THEN "loop" ELSE "ping"
  /\ UNCHANGED <<local, remoteChanged, remote, item, toSub, readErrors, conn, session, subs, value, events>>

\* mqtt_keepalive_timer may be due
Ping ==
  /\ pc = "ping" /\ pc' = "read"
  /\ (SendPing /\ Len(stream') <= MaxStream) \/ UNCHANGED stream
  /\ UNCHANGED <<local, shared, toSub, needRestart, readErrors, conn, session, subs, value, behind, reached, events>>

\* News of a channel that the waiting pass took up already will be wiped out
\* when the pass ends; news as last published bring the board up to date, if no
\* older news follow.
UpToDate(m) == (m.on <=> m.ch \in value) /\ m.ch \notin NewsIn(ToSet(stream'))
Received(m) == IF m.ch \in pass.re THEN behind \cup {m.ch}
               ELSE IF UpToDate(m) THEN behind \ {m.ch} ELSE behind

\* mqtt_recv_item
RecvItem(m) ==
  /\ remoteChanged' = remoteChanged \cup {m.ch}
  /\ remote' = IF m.on THEN remote \cup {m.ch} ELSE remote \ {m.ch}

\* Faulty variant: an error resets the counter and nothing else
RestartNever == FALSE
RestartOnError == TRUE

ErrorsAfter == IF readErrors = ErrorLimit THEN 0 ELSE readErrors + 1

Read ==
  /\ pc = "read" /\ pc' = "loop"
  /\ \/ \E p \in ToSet(stream) :
          /\ GetPacket(p)
          /\ IF p.type = "PUBLISH"
             THEN /\ RecvItem(p)
                  /\ behind' = Received(p) \cup Missed(2)
             ELSE behind' = behind \cup Missed(2) /\ UNCHANGED <<remoteChanged, remote>>
          /\ UNCHANGED <<readErrors, needRestart>>
     \/ /\ NoData
        /\ readErrors' = ErrorsAfter
        /\ needRestart' = (readErrors = ErrorLimit)
        /\ UNCHANGED <<remoteChanged, remote, behind>>
     \/ /\ ReadError
        /\ readErrors' = 0 /\ needRestart' = RestartOnError
        /\ UNCHANGED <<remoteChanged, remote, behind>>
  /\ UNCHANGED <<local, flag, item, toSub, conn, session, subs, value, reached, events>>

Reconnecting == Connect \/ ExpectConnack \/ Subscribe \/ ExpectSuback
MqttRecv == Reconnecting \/ Publish \/ ExpectPuback \/ Ping \/ Read

-----------------------------------------------------------------------------
(* the rest of the world *)

\* Another client publishes
ForeignPublish ==
  /\ events < MaxEvents /\ Len(stream) < MaxStream
  /\ events' = events + 1
  /\ \E ch \in Topics, on \in BOOLEAN :
       /\ value' = IF on THEN value \cup {ch} ELSE value \ {ch}
       /\ IF Heard /\ ch \in subs
          THEN stream' = Append(stream, News(ch, on)) /\ UNCHANGED behind
          ELSE behind' = behind \cup {ch} /\ UNCHANGED stream
  /\ UNCHANGED <<local, shared, client, conn, session, subs, reached>>

\* The connection breaks; what has arrived may still be read
Break ==
  /\ conn = "up" /\ events < MaxEvents
  /\ events' = events + 1
  /\ conn' = "dead"
  /\ UNCHANGED <<local, shared, client, session, subs, stream, value, behind, reached>>

Next == DioProc \/ MqttRecv \/ ForeignPublish \/ Break

\* Both threads go on, and now and then the broker can be reached
Fairness ==
  /\ WF_vars(DioProc) /\ WF_vars(MqttRecv)
  /\ SF_vars(Connect /\ conn' = "up")

Spec == Init /\ [][Next]_vars /\ Fairness

-----------------------------------------------------------------------------
(* Properties *)

Packets == [type : {"PUBLISH"}, ch : Topics, on : BOOLEAN]
           \cup [type : {"CONNACK", "SUBACK", "PUBACK", "PINGRESP"}, awaited : BOOLEAN]

\* The variables stay in their types.
TypeOK ==
  /\ prev \in [Inputs -> {0, 1, Undefined}] /\ reading \in [Inputs -> {0, 1}]
  /\ front \subseteq Channels /\ state \subseteq Channels /\ start \in BOOLEAN
  /\ pass \in [at : {"asleep", "offer", "waiting"}, fb : SUBSET Channels, re : SUBSET Channels,
              todo : SUBSET Topics]
  /\ remoteChanged \subseteq Channels /\ remote \subseteq Channels
  /\ flag \in BOOLEAN /\ needRestart \in BOOLEAN /\ readErrors \in 0..ErrorLimit
  /\ item \in [type : {"PUBLISH"}, ch : 0..3, on : BOOLEAN]
  /\ pc \in {"loop", "connack", "subscribe", "suback", "poll", "puback", "ping", "read"}
  /\ toSub \subseteq Topics /\ subs \subseteq Topics /\ value \subseteq Topics
  /\ conn \in {"none", "up", "dead"} /\ session \in BOOLEAN /\ stream \in Seq(Packets)
  /\ behind \subseteq Channels /\ reached \in BOOLEAN /\ events \in 0..MaxEvents

\* mqtt_send_item is given strings on its caller's stack: "Other thread uses our
\* args, wait for it to finish using" (mqtt_main.c).  While the item is pending
\* its sender waits, and the item says what the sender means.
ItemAlive == flag => pass.at = "waiting" /\ item.on = (item.ch \in state)

\* mqtt_send_item tries again and again, without sleeping, while an earlier item
\* is pending: with cooperative threads that would be for ever.  It never comes
\* to that.
NeverSpins == pass.at = "offer" => ~flag /\ pc # "puback"

\* publish() reports success only of a message the broker has taken: an
\* acknowledgement that came late is not mistaken for that of a later message.
Acknowledged == pc = "puback" /\ pc' = "ping" /\ stream # <<>> /\ stream' # stream
                /\ Head(stream).type = "PUBACK"
AckedIsTaken == [][Acknowledged => reached]_vars

\* Once nothing is under way, the board shows what was last published of every
\* channel, whoever published it and in whatever order packets and local changes
\* came, unless a publication of that channel was lost in one of the ways that
\* behind records: dropped by read_packet or expect_packet, wiped out by the end
\* of a pass, or made while the board was not connected.
Quiet == pass = Asleep /\ front = {} /\ remoteChanged = {} /\ ~flag
         /\ NewsIn(ToSet(stream)) = {}
Agreement == Quiet => \A ch \in Topics \ behind : ch \in state <=> ch \in value

\* dio_proc gets its item off its hands, through every failure and reconnection,
\* if the broker can be reached.
SendingReturns == pass.at = "waiting" ~> pass.at # "waiting"

\* The board ends up subscribed to all its topics again and again, although a
\* restart asked for while subscribing is forgotten.
Resubscribes == []<>(subs = Topics)

\* "for button we react to 1->0 only (press, not release)" (io_dig.c)
Pressed(ch) == reading[ch] = 1 /\ reading'[ch] = 0
PressCounts == [][\A ch \in Buttons : Pressed(ch) => ch \in front']_vars

\* Why AckedIsTaken holds: an acknowledgement that is awaited is in the stream
\* only if the broker took the publication.
AckSound == pc = "puback" /\ ~reached =>
              \A i \in 1 .. Len(stream) : stream[i].type = "PUBACK" => ~stream[i].awaited

\* Why Agreement holds.  The echo of a publication comes back: a session that is
\* past subscribe_all is subscribed to every topic.
IsNews(p, ch) == p.type = "PUBLISH" /\ p.ch = ch
NoNews(s, ch) == \A i \in 1 .. Len(s) : ~IsNews(s[i], ch)

Subscribed ==
  /\ session /\ conn = "up" => Topics \subseteq subs \cup toSub
  /\ pc \in {"poll", "puback", "ping", "read"} \/ (pc = "loop" /\ ~needRestart) => toSub = {}
  /\ pc = "connack" => needRestart /\ subs = {} /\ \A ch \in Topics : NoNews(stream, ch)

\* The last news of a channel on their way are what was last published.  With no
\* news on their way, this is what the board knows and has not applied yet; or it
\* has a publication before it; or shows it already.
LastNews(s, ch, v) == \A i \in 1 .. Len(s) :
                        IsNews(s[i], ch) /\ (\A j \in i + 1 .. Len(s) : ~IsNews(s[j], ch))
                          => (s[i].on <=> ch \in v)
ToPublish(ch) == \/ ch \in front \ pass.fb \/ ch \in pass.todo
                 \/ flag /\ pc # "puback" /\ item.ch = ch
Follows(ch)   == IF ch \in remoteChanged \ pass.re
                 THEN ch \in remote <=> ch \in value
                 ELSE ToPublish(ch) \/ (ch \in state <=> ch \in value)
Following == \A ch \in Topics \ behind :
               LastNews(stream, ch, value) /\ (NoNews(stream, ch) => Follows(ch))
PassEmpty == pass.at = "asleep" => pass = Asleep

\* Why ItemAlive and NeverSpins hold: an item is pending only while dio_proc
\* waits for it, and mqtt_recv holds the mutex only over a pending item.
Holding == pc = "puback" => flag
Topical == flag => item.ch \in Topics
Offered == pass.at = "offer" => pass.todo # {}
IndInv  == TypeOK /\ ItemAlive /\ Holding /\ Topical /\ Offered
AckInv  == IndInv /\ AckSound
AgreeInv == IndInv /\ Subscribed /\ Following /\ PassEmpty
=============================================================================
