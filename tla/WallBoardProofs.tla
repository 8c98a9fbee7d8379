---------------------------- MODULE WallBoardProofs ----------------------------
(***************************************************************************)
(* Theorems about the wall board, for every set of topics and inputs and   *)
(* any number of events: the state is typed, the strings of a pending item *)
(* are alive and say what their sender means, mqtt_send_item never spins,  *)
(* what is taken for acknowledged was taken by the broker, and once nothing *)
(* is under way the board shows what was last published.                   *)
(***************************************************************************)
EXTENDS WallBoard, FiniteSetTheorems, SequenceTheorems, TLAPS

\* What every proof below expands.
USE BoardAssumption DEF BoardAssumption, Channels

Passes == [at : {"asleep", "offer", "waiting"}, fb : SUBSET Channels, re : SUBSET Channels,
           todo : SUBSET Topics]
Items  == [type : {"PUBLISH"}, ch : 0..3, on : BOOLEAN]

(***************************************************************************)
(* The packets on their way to the board.                                  *)
(***************************************************************************)

\* An acknowledgement and news of a topic are packets.
LEMMA PacketForms ==
  /\ \A type \in {"CONNACK", "SUBACK", "PUBACK", "PINGRESP"}, awaited \in BOOLEAN :
       Ack(type, awaited) \in Packets
  /\ \A ch \in Topics, on \in BOOLEAN : News(ch, on) \in Packets
BY DEF Packets, Ack, News

\* News is of a topic; an acknowledgement is not news.
LEMMA NewsTopic ==
  ASSUME NEW p \in Packets, p.type = "PUBLISH"
  PROVE  p.ch \in Topics /\ p.on \in BOOLEAN /\ p \in [type : {"PUBLISH"}, ch : Topics, on : BOOLEAN]
BY DEF Packets

\* A new message identifier leaves the packets packets (libemqtt.c).
LEMMA OutdatedTyped == ASSUME stream \in Seq(Packets) PROVE Outdated \in Seq(Packets)
<1>1. \A i \in DOMAIN stream : stream[i] \in Packets
  OBVIOUS
<1>2. \A i \in DOMAIN stream :
        stream[i].type # "PUBLISH" => stream[i].type \in {"CONNACK", "SUBACK", "PUBACK", "PINGRESP"}
  BY <1>1 DEF Packets
<1>3. \A i \in DOMAIN stream : (IF stream[i].type = "PUBLISH" THEN stream[i]
                                ELSE Ack(stream[i].type, FALSE)) \in Packets
  BY <1>1, <1>2, PacketForms
<1>4. DOMAIN stream = 1 .. Len(stream) /\ Len(stream) \in Nat
  OBVIOUS
<1> DEFINE aged(i) == IF stream[i].type = "PUBLISH" THEN stream[i]
                      ELSE Ack(stream[i].type, FALSE)
<1>5. \A i \in 1 .. Len(stream) : aged(i) \in Packets
  BY <1>3, <1>4
<1>6. Outdated = [i \in 1 .. Len(stream) |-> aged(i)]
  BY <1>4 DEF Outdated
<1> HIDE DEF aged
<1> QED BY <1>4, <1>5, <1>6

\* What is left after read_packet, and what it took.
LEMMA GetTyped ==
  ASSUME stream \in Seq(Packets), NEW p, GetPacket(p)
  PROVE  p \in Packets /\ stream' \in Seq(Packets)
<1>1. p \in Packets
  BY DEF GetPacket
<1>2. PICK n \in 1 .. Len(stream) : stream' = SubSeq(stream, n + 1, Len(stream))
  BY DEF GetPacket
<1>3. \A i \in n + 1 .. Len(stream) : stream[i] \in Packets
  OBVIOUS
<1>4. stream' \in Seq(Packets)
  BY <1>2, <1>3, SubSeqProperties
<1> QED BY <1>1, <1>4

\* Dropped news is of topics.
LEMMA MissedTopics ==
  ASSUME stream \in Seq(Packets), stream' \in Seq(Packets), NEW first \in {1, 2}
  PROVE  Missed(first) \subseteq Topics
<1>1. \A i \in first .. Len(stream) - Len(stream') : stream[i] \in Packets
  OBVIOUS
<1> QED BY <1>1, NewsTopic DEF Missed, NewsIn

LEMMA NewsInStream ==
  ASSUME stream \in Seq(Packets) PROVE NewsIn(ToSet(stream)) \subseteq Topics
<1>1. \A p \in ToSet(stream) : p \in Packets
  BY DEF ToSet
<1> QED BY <1>1, NewsTopic DEF NewsIn

(***************************************************************************)
(* dio_proc.                                                               *)
(***************************************************************************)

\* What counts as an event of the inputs is a number.
LEMMA ChangedFinite ==
  ASSUME NEW now PROVE Cardinality(Changed(now)) \in Nat
<1>1. IsFiniteSet(0..7)
  <2>1. 0 \in Int /\ 7 \in Int
    OBVIOUS
  <2> QED BY <2>1, FS_Interval
<1>2. Changed(now) \subseteq 0..7
  BY DEF Changed, Noticed, Inputs
<1> QED BY <1>1, <1>2, FS_Subset, FS_CardinalityType

\* A pass up to its first item (dio_process).
LEMMA PassStep == ASSUME IndInv, DioProcess PROVE IndInv'
<1> USE DEF IndInv, TypeOK
<1>1. PICK now \in [Inputs -> {0, 1}] :
        /\ events' = events + Cardinality(Changed(now)) /\ events' <= MaxEvents
        /\ prev' = [ch \in Inputs |-> Stored(ch, now[ch])] /\ reading' = now
        /\ \/ /\ front' = Noticed(now)
              /\ UNCHANGED <<state, pass, start, remoteChanged, behind>>
           \/ /\ start' = FALSE /\ state' = Toggled(Applied(remoteChanged), front)
              /\ behind' = behind \cup (front \ Topics)
              /\ \/ /\ front \cap Topics = {}
                    /\ front' = (front \cup Noticed(now)) \ front
                    /\ remoteChanged' = remoteChanged \ remoteChanged /\ UNCHANGED pass
                 \/ /\ front \cap Topics # {}
                    /\ front' = front \cup Noticed(now)
                    /\ pass' = [at |-> "offer", fb |-> front, re |-> remoteChanged,
                                todo |-> front \cap Topics]
                    /\ UNCHANGED remoteChanged
  BY Zenon DEF DioProcess
<1>2. events' \in 0..MaxEvents
  BY <1>1, ChangedFinite
<1>3. prev' \in [Inputs -> {0, 1, Undefined}] /\ reading' \in [Inputs -> {0, 1}]
  BY <1>1 DEF Stored
<1>4. Noticed(now) \subseteq Channels
  BY DEF Noticed
<1>5. /\ front' \subseteq Channels /\ state' \subseteq Channels
      /\ remoteChanged' \subseteq Channels /\ behind' \subseteq Channels
  BY <1>1, <1>4 DEF Toggled, Applied
<1>6. start' \in BOOLEAN
  BY <1>1, Zenon
<1>7. pass' \in Passes /\ ~flag /\ Offered'
  <2>1. pass = Asleep /\ Asleep.at = "asleep"
    BY DEF DioProcess, Asleep
  <2>2. ~flag
    BY <2>1 DEF ItemAlive
  <2>3. pass' = pass \/ /\ front \cap Topics # {}
                        /\ pass' = [at |-> "offer", fb |-> front, re |-> remoteChanged,
                                    todo |-> front \cap Topics]
    BY <1>1
  <2>4. front \in SUBSET Channels /\ remoteChanged \in SUBSET Channels
        /\ front \cap Topics \in SUBSET Topics /\ pass \in Passes
    BY DEF Passes
  <2>5. CASE pass' = pass
    BY <2>1, <2>2, <2>4, <2>5 DEF Offered
  <2>6. CASE front \cap Topics # {} /\ pass' = [at |-> "offer", fb |-> front,
                                               re |-> remoteChanged,
                                               todo |-> front \cap Topics]
    <3>1. pass' \in Passes
      BY <2>4, <2>6 DEF Passes
    <3> QED BY <2>2, <2>6, <3>1 DEF Offered
  <2> QED BY <2>3, <2>5, <2>6
<1>8. UNCHANGED <<remote, flag, item, client, peer, reached>>
  BY DEF DioProcess
<1>9. TypeOK'
  BY <1>2, <1>3, <1>5, <1>6, <1>7, <1>8 DEF client, peer, Passes
<1> QED BY <1>7, <1>8, <1>9 DEF ItemAlive, Holding, Topical, client

\* The channel of the next item is one of those left (dio_process, its for loop).
LEMMA NextChannel ==
  ASSUME NEW todo \in SUBSET Topics, todo # {}
  PROVE  (CHOOSE c \in todo : \A d \in todo : c <= d) \in todo
<1>1. todo \subseteq 0..3
  OBVIOUS
<1>2. \E c \in todo : \A d \in todo : c <= d
  <2>1. CASE 0 \in todo
    BY <1>1, <2>1
  <2>2. CASE 0 \notin todo /\ 1 \in todo
    BY <1>1, <2>2
  <2>3. CASE 0 \notin todo /\ 1 \notin todo /\ 2 \in todo
    BY <1>1, <2>3
  <2>4. CASE 0 \notin todo /\ 1 \notin todo /\ 2 \notin todo
    <3>1. \A c \in todo : c \in {0, 1, 2, 3}
      BY <1>1
    <3>2. \A c \in todo : c = 3
      BY <2>4, <3>1
    <3>3. PICK c \in todo : c = 3
      BY <3>2
    <3> QED BY <3>2, <3>3
  <2> QED BY <2>1, <2>2, <2>3, <2>4
<1> QED BY <1>2, Zenon

\* mqtt_send_item hands an item over and returns when it is done with.
LEMMA ItemStep == ASSUME IndInv, Offer \/ ItemSent PROVE IndInv'
<1> USE DEF client, peer
<1>0. pass \in Passes
  BY DEF IndInv, TypeOK, Passes
<1>1. CASE Offer
  <2>1. pass.at = "offer" /\ pass.todo # {} /\ ~flag /\ flag' = TRUE /\ pc # "puback"
        /\ UNCHANGED <<prev, front, start, state, reading, remoteChanged, remote, client,
                       peer, behind, reached, events>>
    BY <1>1 DEF Offer, IndInv, Offered
  <2> DEFINE ch == CHOOSE c \in pass.todo : \A d \in pass.todo : c <= d
  <2>2. item' = News(ch, ch \in state) /\ pass' = [pass EXCEPT !.at = "waiting", !.todo = @ \ {ch}]
    BY <1>1, Zenon DEF Offer
  <2>3. ch \in Topics
    BY <1>0, <2>1, NextChannel DEF Passes
  <2> HIDE DEF ch
  <2>4. pass' \in Passes /\ pass'.at = "waiting"
    BY <1>0, <2>2 DEF Passes
  <2>5. (ch \in state) \in BOOLEAN
    OBVIOUS
  <2>6. /\ item'.type = "PUBLISH" /\ item'.ch = ch /\ item'.on = (ch \in state)
        /\ item' \in Items
    BY <2>2, <2>3, <2>5 DEF News, Items
  <2>7. flag' \in BOOLEAN
    BY <2>1, Zenon
  <2>8. TypeOK'
    BY <2>1, <2>4, <2>6, <2>7 DEF IndInv, TypeOK, Passes, Items
  <2>9. ItemAlive'
    BY <2>1, <2>4, <2>6 DEF ItemAlive
  <2> QED BY <2>1, <2>3, <2>4, <2>6, <2>8, <2>9 DEF IndInv, Holding, Topical, Offered
<1>2. CASE ItemSent
  <2>1. ~flag /\ item' = NoItem
        /\ UNCHANGED <<prev, start, state, reading, remote, flag, client, peer, behind,
                       reached, events>>
    BY <1>2 DEF ItemSent, Taken
  <2>2. pass' \in Passes /\ Offered' /\ front' \subseteq front
        /\ remoteChanged' \subseteq remoteChanged
    <3>1. CASE pass.todo # {}
      BY <1>0, <1>2, <3>1 DEF ItemSent, Passes, Offered
    <3>2. CASE pass.todo = {}
      BY <1>0, <1>2, <3>2 DEF ItemSent, Passes, Offered, Asleep, Left
    <3> QED BY <3>1, <3>2
  <2>3. item' \in Items
    <3>1. FALSE \in BOOLEAN
      OBVIOUS
    <3> QED BY <2>1, <3>1 DEF NoItem, News, Items
  <2>4. TypeOK'
    BY <2>1, <2>2, <2>3 DEF IndInv, TypeOK, Passes, Items
  <2> QED BY <2>1, <2>2, <2>4 DEF IndInv, ItemAlive, Holding, Topical
<1> QED BY <1>1, <1>2

(***************************************************************************)
(* mqtt_recv and the broker.                                               *)
(***************************************************************************)

\* The acknowledgement and the echo of a publication are packets, in either order.
LEMMA RepliesTyped ==
  ASSUME NEW m \in Packets, m.type = "PUBLISH", NEW r \in PublishReplies(m)
  PROVE  r \in Seq(Packets)
<1>1. Ack("PUBACK", TRUE) \in Packets
  BY PacketForms
<1> DEFINE ack == Ack("PUBACK", TRUE)
<1> HIDE DEF ack
<1>2. <<ack>> \in Seq(Packets)
  <2>1. ack \in Packets
    BY <1>1 DEF ack
  <2> QED BY <2>1
<1>3. (IF m.ch \in subs THEN <<m>> ELSE <<>>) \in Seq(Packets)
  OBVIOUS
<1>4. \A q, s \in Seq(Packets) : q \o s \in Seq(Packets)
  OBVIOUS
<1>5. PublishReplies(m) \subseteq Seq(Packets)
  <2>1. PublishReplies(m) = {<<ack>> \o (IF m.ch \in subs THEN <<m>> ELSE <<>>),
                             (IF m.ch \in subs THEN <<m>> ELSE <<>>) \o <<ack>>}
    BY Zenon DEF PublishReplies, ack
  <2> QED BY <1>2, <1>3, <1>4, <2>1
<1> QED BY <1>5

\* expect_packet: what it may leave (need_restart, what was dropped).
LEMMA ExpectTyped ==
  ASSUME TypeOK, NEW type, Expect(type)
  PROVE  /\ stream' \in Seq(Packets) /\ needRestart' \in BOOLEAN
         /\ behind' \subseteq Channels
<1>1. CASE \E p \in ToSet(stream) :
             /\ GetPacket(p) /\ needRestart' = (needRestart \/ Mismatch(p, type))
             /\ behind' = behind \cup Missed(1)
  <2>1. PICK p : /\ GetPacket(p) /\ needRestart' = (needRestart \/ Mismatch(p, type))
                 /\ behind' = behind \cup Missed(1)
    BY <1>1
  <2>2. stream' \in Seq(Packets)
    BY <2>1, GetTyped DEF TypeOK
  <2>3. Missed(1) \subseteq Topics
    BY <2>2, MissedTopics DEF TypeOK
  <2>4. needRestart' \in BOOLEAN
    BY <2>1, Zenon
  <2> QED BY <2>1, <2>2, <2>3, <2>4 DEF TypeOK
<1>2. CASE NoData /\ UNCHANGED <<needRestart, behind>>
  BY <1>2 DEF TypeOK, NoData
<1>3. CASE ReadError /\ needRestart' = TRUE /\ UNCHANGED behind
  <2>1. needRestart' \in BOOLEAN
    BY <1>3, Zenon
  <2> QED BY <1>3, <2>1 DEF TypeOK, ReadError
<1> QED BY <1>1, <1>2, <1>3, Zenon DEF Expect

\* Connecting and subscribing.
LEMMA ConnectStep ==
  ASSUME IndInv, Reconnecting PROVE IndInv'
<1> USE DEF IndInv, Holding, Topical, ItemAlive, Offered
<1>1. CASE Connect
  <2>1. NewsIn(ToSet(stream)) \subseteq Topics
    BY NewsInStream DEF TypeOK
  <2>2. Ack("CONNACK", TRUE) \in Packets /\ Ack("CONNACK", FALSE) \in Packets
    BY PacketForms
  <2>3. /\ subs' = {} /\ behind' \subseteq Channels
        /\ \/ /\ conn' = "none" /\ session' = FALSE /\ stream' = <<>>
              /\ UNCHANGED <<pc, toSub, events>>
           \/ /\ conn' = "up" /\ session' = TRUE /\ stream' = <<Ack("CONNACK", TRUE)>>
              /\ pc' = "connack" /\ toSub' = Topics /\ UNCHANGED events
           \/ /\ events < MaxEvents /\ events' = events + 1
              /\ conn' = "up" /\ session' = FALSE /\ stream' = <<Ack("CONNACK", FALSE)>>
              /\ pc' = "connack" /\ toSub' = Topics
    <3>1. behind' \subseteq Channels
      BY <1>1, <2>1 DEF Connect, TypeOK
    <3> QED BY <1>1, <3>1, Zenon DEF Connect
  <2>5. session' \in BOOLEAN
    BY <2>3, Zenon
  <2>6. stream' \in Seq(Packets)
    <3> DEFINE yes == Ack("CONNACK", TRUE)
               no  == Ack("CONNACK", FALSE)
    <3>1. stream' = <<>> \/ stream' = <<yes>> \/ stream' = <<no>>
      BY <2>3, Zenon
    <3>2. yes \in Packets /\ no \in Packets
      BY <2>2
    <3> HIDE DEF yes, no
    <3>3. <<>> \in Seq(Packets) /\ <<yes>> \in Seq(Packets) /\ <<no>> \in Seq(Packets)
      BY <3>2
    <3> QED BY <3>1, <3>3
  <2>7. /\ conn' \in {"none", "up", "dead"} /\ toSub' \subseteq Topics
        /\ pc' \in {"loop", "connack"} /\ events' \in 0..MaxEvents
    <3>1. /\ conn' = "none" \/ conn' = "up"
          /\ toSub' = toSub \/ toSub' = Topics
          /\ pc' = pc \/ pc' = "connack"
          /\ events' = events \/ (events < MaxEvents /\ events' = events + 1)
      BY <2>3, Zenon
    <3>2. pc = "loop"
      BY <1>1 DEF Connect
    <3>3. toSub \subseteq Topics /\ events \in 0..MaxEvents
      BY DEF TypeOK
    <3>4. events' \in 0..MaxEvents
      BY <3>1, <3>3
    <3> QED BY <3>1, <3>2, <3>3, <3>4
  <2>4. UNCHANGED <<local, shared, needRestart, readErrors, value, reached>>
    BY <1>1 DEF Connect
  <2> QED BY <2>3, <2>4, <2>5, <2>6, <2>7 DEF TypeOK, local, shared
<1>2. CASE ExpectConnack
  <2>1. stream' \in Seq(Packets) /\ pc' \in {"subscribe", "loop"}
    BY <1>2, GetTyped DEF ExpectConnack, NoData, ReadError, TypeOK
  <2>2. needRestart' \in BOOLEAN
    <3>1. needRestart' = needRestart \/ needRestart' = TRUE
      BY <1>2 DEF ExpectConnack
    <3> QED BY <3>1, Zenon DEF TypeOK
  <2>3. UNCHANGED <<local, shared, toSub, readErrors, conn, session, subs, value, behind,
                    reached, events>>
    BY <1>2 DEF ExpectConnack
  <2> QED BY <2>1, <2>2, <2>3 DEF TypeOK, local, shared
<1>3. CASE Subscribe
  <2>1. PICK ch \in toSub : SendSubscribe(ch)
    BY <1>3 DEF Subscribe
  <2>2. stream' \in Seq(Packets) /\ toSub' \subseteq Topics /\ subs' \subseteq Topics
    <3>1. Outdated \in Seq(Packets) /\ Ack("SUBACK", TRUE) \in Packets
      BY OutdatedTyped, PacketForms DEF TypeOK
    <3>2. CASE Heard /\ session
      <4> DEFINE ack == Ack("SUBACK", TRUE)
      <4>1. stream' = Append(Outdated, ack) /\ subs' = subs \cup {ch} /\ toSub' = toSub \ {ch}
        BY <2>1, <3>2, Zenon DEF SendSubscribe
      <4>2. ack \in Packets
        BY <3>1
      <4> HIDE DEF ack
      <4> QED BY <3>1, <4>1, <4>2 DEF TypeOK
    <3>3. CASE ~(Heard /\ session)
      BY <2>1, <3>1, <3>3 DEF SendSubscribe, TypeOK
    <3> QED BY <3>2, <3>3
  <2>3. /\ pc' = "suback"
        /\ UNCHANGED <<local, shared, needRestart, readErrors, conn, session, value, behind,
                       reached, events>>
    BY <1>3 DEF Subscribe
  <2> QED BY <2>2, <2>3 DEF TypeOK, local, shared
<1>4. CASE ExpectSuback
  <2>1. /\ stream' \in Seq(Packets) /\ needRestart' \in BOOLEAN /\ behind' \subseteq Channels
        /\ pc' \in {"subscribe", "poll"}
    <3>1. CASE toSub # {}
      BY <1>4, <3>1, ExpectTyped DEF ExpectSuback
    <3>2. CASE toSub = {}
      <4>1. needRestart' \in BOOLEAN
        BY <1>4, <3>2, Zenon DEF ExpectSuback
      <4>2. CASE \E p \in ToSet(stream) : GetPacket(p) /\ behind' = behind \cup Missed(1)
        <5>1. stream' \in Seq(Packets)
          BY <4>2, GetTyped DEF TypeOK
        <5>2. Missed(1) \subseteq Topics
          BY <5>1, MissedTopics DEF TypeOK
        <5> QED BY <1>4, <3>2, <4>1, <4>2, <5>1, <5>2 DEF ExpectSuback, TypeOK
      <4>3. CASE NoData /\ UNCHANGED behind
        BY <1>4, <3>2, <4>1, <4>3 DEF ExpectSuback, NoData, TypeOK
      <4> QED BY <1>4, <3>2, <4>2, <4>3 DEF ExpectSuback
    <3> QED BY <3>1, <3>2
  <2>2. UNCHANGED <<local, shared, toSub, readErrors, conn, session, subs, value, reached,
                    events>>
    BY <1>4 DEF ExpectSuback
  <2> QED BY <2>1, <2>2 DEF TypeOK, local, shared
<1> QED BY <1>1, <1>2, <1>3, <1>4 DEF Reconnecting

\* Publishing: the flag falls only when the acknowledgement was waited for, and
\* the mutex is held no longer.
LEMMA PublishStep == ASSUME IndInv, Publish \/ ExpectPuback PROVE IndInv'
<1> USE DEF IndInv, Holding, Topical, ItemAlive, Offered
<1>1. CASE Publish /\ flag
  <2>1. SendPublish /\ pc' = "puback" /\ item \in Packets /\ item.type = "PUBLISH"
        /\ item.ch \in Topics
        /\ UNCHANGED <<local, shared, toSub, needRestart, readErrors, conn, session, subs,
                       events>>
    BY <1>1 DEF Publish, TypeOK, Packets
  <2>2. stream' \in Seq(Packets)
    <3>1. Outdated \in Seq(Packets)
      BY OutdatedTyped DEF TypeOK
    <3>2. \A r \in PublishReplies(item) : Outdated \o r \in Seq(Packets)
      BY <2>1, <3>1, RepliesTyped
    <3> QED BY <2>1, <3>1, <3>2 DEF SendPublish
  <2>3. value' \subseteq Topics /\ behind' \subseteq Channels
    BY <2>1 DEF SendPublish, TypeOK
  <2>4. reached' \in BOOLEAN
    BY <2>1, Zenon DEF SendPublish
  <2> QED BY <1>1, <2>1, <2>2, <2>3, <2>4 DEF TypeOK, local, shared
<1>2. CASE Publish /\ ~flag
  <2>1. /\ pc' = "ping" /\ UNCHANGED <<stream, value, behind, reached>>
        /\ UNCHANGED <<local, shared, toSub, needRestart, readErrors, conn, session, subs,
                       events>>
    BY <1>2 DEF Publish
  <2> QED BY <2>1 DEF TypeOK, local, shared
<1>3. CASE ExpectPuback
  <2>1. /\ stream' \in Seq(Packets) /\ needRestart' \in BOOLEAN /\ behind' \subseteq Channels
    BY <1>3, ExpectTyped DEF ExpectPuback
  <2>2. /\ pc' \in {"loop", "ping"}
        /\ UNCHANGED <<local, remoteChanged, remote, item, toSub, readErrors, conn, session,
                       subs, value, events>>
    BY <1>3 DEF ExpectPuback
  <2>3. flag' = FALSE /\ flag' \in BOOLEAN /\ reached' \in BOOLEAN
    BY <1>3, Zenon DEF ExpectPuback, PendingAfter
  <2> QED BY <2>1, <2>2, <2>3 DEF TypeOK, local
<1> QED BY <1>1, <1>2, <1>3, Zenon DEF TypeOK

\* The keep-alive and the read of the main loop.
LEMMA ReadStep == ASSUME IndInv, Ping \/ Read PROVE IndInv'
<1> USE DEF IndInv, Holding, Topical, ItemAlive, Offered
<1>1. CASE Ping
  <2>1. stream' \in Seq(Packets)
    <3>1. Ack("PINGRESP", FALSE) \in Packets
      BY PacketForms
    <3> DEFINE ack == Ack("PINGRESP", FALSE)
    <3>2. stream' = stream \/ stream' = Append(stream, ack)
      BY <1>1, Zenon DEF Ping, SendPing
    <3>3. ack \in Packets
      BY <3>1
    <3> HIDE DEF ack
    <3> QED BY <3>2, <3>3 DEF TypeOK
  <2>2. /\ pc' = "read"
        /\ UNCHANGED <<local, shared, toSub, needRestart, readErrors, conn, session, subs,
                       value, behind, reached, events>>
    BY <1>1 DEF Ping
  <2> QED BY <2>1, <2>2 DEF TypeOK, local, shared
<1>2. CASE Read
  <2>1. /\ pc' = "loop"
        /\ UNCHANGED <<local, flag, item, toSub, conn, session, subs, value, reached, events>>
    BY <1>2 DEF Read
  <2>2. /\ stream' \in Seq(Packets) /\ needRestart' \in BOOLEAN
        /\ readErrors' \in 0..ErrorLimit /\ remoteChanged' \subseteq Channels
        /\ remote' \subseteq Channels /\ behind' \subseteq Channels
    <3>1. CASE \E p \in ToSet(stream) :
                 /\ GetPacket(p)
                 /\ IF p.type = "PUBLISH"
                    THEN RecvItem(p) /\ behind' = Received(p) \cup Missed(2)
                    ELSE behind' = behind \cup Missed(2) /\ UNCHANGED <<remoteChanged, remote>>
                 /\ UNCHANGED <<readErrors, needRestart>>
      <4>1. PICK p : /\ GetPacket(p)
                     /\ IF p.type = "PUBLISH"
                        THEN RecvItem(p) /\ behind' = Received(p) \cup Missed(2)
                        ELSE /\ behind' = behind \cup Missed(2)
                             /\ UNCHANGED <<remoteChanged, remote>>
                     /\ UNCHANGED <<readErrors, needRestart>>
        BY <3>1
      <4>2. p \in Packets /\ stream' \in Seq(Packets)
        BY <4>1, GetTyped DEF TypeOK
      <4>3. Missed(2) \subseteq Topics
        BY <4>2, MissedTopics DEF TypeOK
      <4>4. CASE p.type = "PUBLISH"
        <5>1. p.ch \in Topics /\ p.ch \in Channels
          BY <4>2, <4>4, NewsTopic
        <5>2. /\ remoteChanged' = remoteChanged \cup {p.ch}
              /\ remote' = remote \cup {p.ch} \/ remote' = remote \ {p.ch}
              /\ behind' = Received(p) \cup Missed(2)
              /\ readErrors' = readErrors /\ needRestart' = needRestart
          BY <4>1, <4>4 DEF RecvItem
        <5>3. Received(p) \subseteq behind \cup {p.ch}
          BY DEF Received
        <5> QED BY <4>2, <4>3, <5>1, <5>2, <5>3 DEF TypeOK
      <4>5. CASE p.type # "PUBLISH"
        BY <4>1, <4>2, <4>3, <4>5 DEF TypeOK
      <4> QED BY <4>4, <4>5
    <3>2. CASE /\ NoData /\ readErrors' = ErrorsAfter /\ needRestart' = (readErrors = ErrorLimit)
               /\ UNCHANGED <<remoteChanged, remote, behind>>
      <4>1. needRestart' \in BOOLEAN
        BY <3>2
      <4> QED BY <3>2, <4>1 DEF NoData, ErrorsAfter, TypeOK
    <3>3. CASE /\ ReadError /\ readErrors' = 0 /\ needRestart' = RestartOnError
               /\ UNCHANGED <<remoteChanged, remote, behind>>
      <4>1. needRestart' \in BOOLEAN
        BY <3>3, Zenon DEF RestartOnError
      <4> QED BY <3>3, <4>1 DEF ReadError, TypeOK
    <3> QED BY <1>2, <3>1, <3>2, <3>3, Zenon DEF Read
  <2> QED BY <2>1, <2>2 DEF TypeOK, local
<1> QED BY <1>1, <1>2

\* Other clients, and the wire.
LEMMA WorldStep == ASSUME IndInv, ForeignPublish \/ Break PROVE IndInv'
<1> USE DEF IndInv, Holding, Topical, ItemAlive, Offered
<1>1. CASE ForeignPublish
  <2>1. PICK ch \in Topics, on \in BOOLEAN :
          /\ value' = IF on THEN value \cup {ch} ELSE value \ {ch}
          /\ IF Heard /\ ch \in subs
             THEN stream' = Append(stream, News(ch, on)) /\ UNCHANGED behind
             ELSE behind' = behind \cup {ch} /\ UNCHANGED stream
    BY <1>1 DEF ForeignPublish
  <2>2. value' \subseteq Topics /\ behind' \subseteq Channels
    BY <2>1 DEF TypeOK
  <2>3. stream' \in Seq(Packets)
    <3> DEFINE m == News(ch, on)
    <3>1. m \in Packets
      BY PacketForms
    <3>2. stream' = Append(stream, m) \/ stream' = stream
      BY <2>1
    <3>3. stream \in Seq(Packets)
      BY DEF TypeOK
    <3>4. \A s \in Seq(Packets), x \in Packets : Append(s, x) \in Seq(Packets)
      OBVIOUS
    <3> HIDE DEF m
    <3> QED BY <3>1, <3>2, <3>3, <3>4, Zenon
  <2>5. events' \in 0..MaxEvents
    BY <1>1 DEF ForeignPublish, TypeOK
  <2>4. UNCHANGED <<local, shared, client, conn, session, subs, reached>>
    BY <1>1 DEF ForeignPublish
  <2> QED BY <2>2, <2>3, <2>4, <2>5 DEF TypeOK, local, shared, client
<1>2. CASE Break
  <2>1. conn' = "dead" /\ events' \in 0..MaxEvents
        /\ UNCHANGED <<local, shared, client, session, subs, stream, value, behind, reached>>
    BY <1>2 DEF Break, TypeOK
  <2> QED BY <2>1 DEF TypeOK, local, shared, client
<1> QED BY <1>1, <1>2

\* The board after power-up.
LEMMA InitInd == Init => IndInv
<1> SUFFICES ASSUME Init PROVE IndInv
  OBVIOUS
<1>1. /\ start \in BOOLEAN /\ flag \in BOOLEAN /\ needRestart \in BOOLEAN
      /\ session \in BOOLEAN /\ reached \in BOOLEAN
  BY Zenon DEF Init
<1>2. item \in Items /\ pass \in Passes
  <2>1. FALSE \in BOOLEAN
    OBVIOUS
  <2> QED BY <2>1 DEF Init, NoItem, News, Items, Asleep, Passes
<1>3. prev \in [Inputs -> {0, 1, Undefined}] /\ reading \in [Inputs -> {0, 1}]
  BY DEF Init
<1>4. /\ stream \in Seq(Packets) /\ events \in 0..MaxEvents /\ readErrors \in 0..ErrorLimit
  BY DEF Init
<1>5. TypeOK
  BY <1>1, <1>2, <1>3, <1>4 DEF Init, TypeOK, Items, Passes
<1> QED BY <1>5 DEF Init, IndInv, Holding, Topical, ItemAlive, Offered, Asleep

\* Every step keeps IndInv.
LEMMA IndStep == ASSUME IndInv, [Next]_vars PROVE IndInv'
<1>1. CASE UNCHANGED vars
  BY <1>1 DEF vars, local, shared, client, peer, IndInv, TypeOK, Holding, Topical,
              ItemAlive, Offered
<1> QED BY <1>1, PassStep, ItemStep, ConnectStep, PublishStep, ReadStep, WorldStep
     DEF Next, DioProc, MqttRecv

\* IndInv is an inductive invariant.
THEOREM Inductive == Spec => []IndInv
BY IndStep, InitInd, PTL DEF Spec

\* The board's variables keep their types, and what is on its way to it is
\* packets.
THEOREM TypeCorrect == Spec => []TypeOK
<1>1. IndInv => TypeOK
  BY DEF IndInv
<1> QED BY <1>1, Inductive, PTL

\* The strings of a pending item are alive and say what their sender means,
\* through errors, reconnections and restarts (mqtt_send_item).
THEOREM ItemsAlive == Spec => []ItemAlive
<1>1. IndInv => ItemAlive
  BY DEF IndInv
<1> QED BY <1>1, Inductive, PTL

\* mqtt_send_item never finds an item pending: its loop without a sleep is never
\* entered twice.
THEOREM SendsAtOnce == Spec => []NeverSpins
<1>1. IndInv => NeverSpins
  BY DEF IndInv, ItemAlive, Holding, NeverSpins
<1> QED BY <1>1, Inductive, PTL
(***************************************************************************)
(* What is acknowledged was taken.                                         *)
(***************************************************************************)

\* An acknowledgement that is awaited comes only after the broker took the
\* publication: a new message identifier outdates all earlier ones.
LEMMA AckStep == ASSUME AckInv, [Next]_vars PROVE AckSound'
<1> USE DEF AckInv, AckSound
<1>1. CASE pc' # "puback"
  BY <1>1
<1>2. CASE UNCHANGED <<pc, reached, stream>>
  BY <1>2
<1>3. CASE Publish /\ flag
  <2>1. SendPublish
    BY <1>3 DEF Publish
  <2>2. CASE Heard /\ session
    BY <2>1, <2>2 DEF SendPublish
  <2>3. CASE ~(Heard /\ session)
    <3>1. stream' = Outdated
      BY <2>1, <2>3 DEF SendPublish
    <3>2. DOMAIN stream = 1 .. Len(stream) /\ Len(stream) \in Nat
      BY DEF IndInv, TypeOK
    <3>3. Len(Outdated) = Len(stream)
      BY <3>2 DEF Outdated
    <3>4. ASSUME NEW i \in 1 .. Len(stream), Outdated[i].type = "PUBACK" PROVE ~Outdated[i].awaited
      <4>1. Outdated[i] = IF stream[i].type = "PUBLISH" THEN stream[i]
                          ELSE Ack(stream[i].type, FALSE)
        BY <3>2 DEF Outdated
      <4>2. CASE stream[i].type = "PUBLISH"
        BY <3>4, <4>1, <4>2
      <4>3. CASE stream[i].type # "PUBLISH"
        BY <4>1, <4>3 DEF Ack
      <4> QED BY <4>2, <4>3
    <3> QED BY <3>1, <3>3, <3>4
  <2> QED BY <2>2, <2>3
<1>4. CASE Publish /\ ~flag
  BY <1>1, <1>4 DEF Publish
<1>5. CASE DioProc
  BY <1>2, <1>5 DEF DioProc, DioProcess, Offer, ItemSent, client, peer
<1>6. CASE ForeignPublish
  <2>1. PICK ch \in Topics, on \in BOOLEAN : stream' = Append(stream, News(ch, on)) \/ stream' = stream
    BY <1>6 DEF ForeignPublish
  <2>2. UNCHANGED <<pc, reached>>
    BY <1>6 DEF ForeignPublish, client
  <2>3. CASE stream' = stream
    BY <1>2, <2>2, <2>3
  <2>4. CASE stream' = Append(stream, News(ch, on))
    <3> DEFINE m == News(ch, on)
    <3>1. m.type = "PUBLISH"
      BY DEF News
    <3> HIDE DEF m
    <3>2. stream \in Seq(Packets) /\ stream' = Append(stream, m)
      BY <2>4 DEF m, IndInv, TypeOK
    <3>3. \A i \in 1 .. Len(stream') : (stream'[i] = stream[i] /\ i \in 1 .. Len(stream)) \/ stream'[i] = m
      BY <3>2
    <3> QED BY <2>2, <3>1, <3>3
  <2> QED BY <2>1, <2>3, <2>4
<1>7. CASE Break
  BY <1>2, <1>7 DEF Break, client
<1>8. CASE Connect \/ ExpectConnack \/ Subscribe \/ ExpectSuback
  BY <1>1, <1>8 DEF Connect, ExpectConnack, Subscribe, ExpectSuback
<1>9. CASE ExpectPuback \/ Ping \/ Read
  BY <1>1, <1>9 DEF ExpectPuback, Ping, Read
<1>10. CASE UNCHANGED vars
  BY <1>2, <1>10 DEF vars, client, peer
<1> QED BY <1>3, <1>4, <1>5, <1>6, <1>7, <1>8, <1>9, <1>10 DEF Next, MqttRecv, Reconnecting

\* The board takes no publication for acknowledged that the broker did not take:
\* acknowledgements that come late, or of an earlier connection, are told apart.
THEOREM AckedTaken == Spec => AckedIsTaken
<1>1. Init => AckInv
  BY InitInd DEF AckInv, AckSound, Init
<1>2. AckInv /\ [Next]_vars => AckInv'
  BY IndStep, AckStep DEF AckInv
<1>3. AckInv /\ [Next]_vars => [Acknowledged => reached]_vars
  <2> SUFFICES ASSUME AckInv, Next, Acknowledged PROVE reached
    OBVIOUS
  <2>1. pc = "puback" /\ pc' = "ping" /\ stream # <<>> /\ stream' # stream
        /\ Head(stream).type = "PUBACK"
    BY DEF Acknowledged
  <2>2. ExpectPuback
    <3>1. pc' # pc
      BY <2>1
    <3>2. ~(DioProc \/ ForeignPublish \/ Break)
      BY <3>1 DEF DioProc, DioProcess, Offer, ItemSent, ForeignPublish, Break, client
    <3>3. ~(Connect \/ ExpectConnack \/ Subscribe \/ ExpectSuback \/ Publish \/ Ping \/ Read)
      BY <2>1 DEF Connect, ExpectConnack, Subscribe, ExpectSuback, Publish, Ping, Read
    <3> QED BY <3>2, <3>3 DEF Next, MqttRecv, Reconnecting
  <2>3. Expect("PUBACK") /\ ~needRestart'
    BY <2>1, <2>2 DEF ExpectPuback
  <2>4. PICK p \in ToSet(stream) : GetPacket(p) /\ needRestart' = (needRestart \/ Mismatch(p, "PUBACK"))
    BY <2>1, <2>3 DEF Expect, NoData, ReadError
  <2>5. p = Head(stream) /\ p.awaited
    BY <2>1, <2>3, <2>4 DEF GetPacket, Mismatch
  <2>6. Head(stream) = stream[1] /\ 1 \in 1 .. Len(stream)
    BY <2>1 DEF AckInv, IndInv, TypeOK
  <2> QED BY <2>1, <2>5, <2>6 DEF AckInv, AckSound
<1> QED BY <1>1, <1>2, <1>3, PTL DEF Spec, AckedIsTaken
(***************************************************************************)
(* The board shows what was last published.                                *)
(***************************************************************************)
\* What was said of the packets on their way, after one more.
LEMMA OneMorePacket ==
  ASSUME NEW s \in Seq(Packets), NEW m \in Packets, NEW ch, NEW v
  PROVE  /\ ~IsNews(m, ch) => /\ LastNews(s, ch, v) => LastNews(Append(s, m), ch, v)
                              /\ NoNews(Append(s, m), ch) => NoNews(s, ch)
         /\ IsNews(m, ch) => /\ (m.on <=> ch \in v) => LastNews(Append(s, m), ch, v)
                             /\ ~NoNews(Append(s, m), ch)
<1> DEFINE t == Append(s, m)
<1>1. /\ Len(t) = Len(s) + 1 /\ Len(s) \in Nat
      /\ \A i \in 1 .. Len(s) : t[i] = s[i]
      /\ t[Len(s) + 1] = m
  OBVIOUS
<1> HIDE DEF t
<1>2. 1 .. Len(t) = (1 .. Len(s)) \cup {Len(t)} /\ Len(t) \in 1 .. Len(t)
  BY <1>1
<1>3. ASSUME ~IsNews(m, ch), LastNews(s, ch, v) PROVE LastNews(t, ch, v)
  <2> SUFFICES ASSUME NEW i \in 1 .. Len(t), IsNews(t[i], ch),
                      \A j \in i + 1 .. Len(t) : ~IsNews(t[j], ch)
               PROVE  t[i].on <=> ch \in v
    BY DEF LastNews
  <2>1. i \in 1 .. Len(s) /\ t[i] = s[i]
    BY <1>1, <1>2, <1>3
  <2>2. \A j \in i + 1 .. Len(s) : j \in i + 1 .. Len(t) /\ t[j] = s[j]
    BY <1>1, <2>1
  <2>3. s[i].on <=> ch \in v
    BY <1>3, <2>1, <2>2 DEF LastNews
  <2> QED BY <2>1, <2>3
<1>4. ASSUME NoNews(t, ch) PROVE NoNews(s, ch)
  BY <1>1, <1>4 DEF NoNews
<1>5. ASSUME IsNews(m, ch) PROVE ((m.on <=> ch \in v) => LastNews(t, ch, v)) /\ ~NoNews(t, ch)
  <2>1. ~NoNews(t, ch)
    BY <1>1, <1>2, <1>5 DEF NoNews
  <2>2. ASSUME NEW i \in 1 .. Len(t), \A j \in i + 1 .. Len(t) : ~IsNews(t[j], ch)
        PROVE  t[i] = m
    <3>1. CASE i = Len(t)
      BY <1>1, <3>1
    <3>2. CASE i \in 1 .. Len(s)
      <4>1. Len(t) \in i + 1 .. Len(t) /\ t[Len(t)] = m
        BY <1>1, <3>2
      <4> QED BY <1>5, <2>2, <4>1
    <3> QED BY <1>2, <3>1, <3>2
  <2> QED BY <2>1, <2>2 DEF LastNews
<1> QED BY <1>3, <1>4, <1>5 DEF t

\* New message identifiers leave news alone.
LEMMA OutdatedNews ==
  ASSUME stream \in Seq(Packets), NEW ch, NEW v
  PROVE  /\ LastNews(Outdated, ch, v) <=> LastNews(stream, ch, v)
         /\ NoNews(Outdated, ch) <=> NoNews(stream, ch)
<1>1. DOMAIN stream = 1 .. Len(stream) /\ Len(stream) \in Nat
  OBVIOUS
<1>2. Len(Outdated) = Len(stream)
  BY <1>1 DEF Outdated
<1>3. ASSUME NEW i \in 1 .. Len(stream)
      PROVE  /\ IsNews(Outdated[i], ch) <=> IsNews(stream[i], ch)
             /\ IsNews(stream[i], ch) => Outdated[i] = stream[i]
  <2>1. Outdated[i] = IF stream[i].type = "PUBLISH" THEN stream[i]
                      ELSE Ack(stream[i].type, FALSE)
    BY <1>1 DEF Outdated
  <2>2. CASE stream[i].type = "PUBLISH"
    BY <2>1, <2>2
  <2>3. CASE stream[i].type # "PUBLISH"
    BY <2>1, <2>3 DEF IsNews, Ack
  <2> QED BY <2>2, <2>3
<1>4. \A i \in 1 .. Len(stream) : \A j \in i + 1 .. Len(stream) : j \in 1 .. Len(stream)
  BY <1>1
<1> DEFINE o == Outdated
<1>5. o = Outdated
  OBVIOUS
<1> HIDE DEF o
<1>6. LastNews(o, ch, v) <=> LastNews(stream, ch, v)
  BY <1>2, <1>3, <1>4, <1>5 DEF LastNews
<1>7. NoNews(o, ch) <=> NoNews(stream, ch)
  BY <1>2, <1>3, <1>5 DEF NoNews
<1> QED BY <1>5, <1>6, <1>7

\* What the reading of packets leaves of the news: read_packet keeps a tail.
LEMMA TailNews ==
  ASSUME stream \in Seq(Packets), NEW ch \in Topics, NEW v, NEW p, GetPacket(p),
         LastNews(stream, ch, v)
  PROVE  /\ LastNews(stream', ch, v)
         /\ NoNews(stream', ch) /\ ch \notin Missed(1) => NoNews(stream, ch)
         /\ NoNews(stream', ch) /\ ch \notin Missed(2) =>
              NoNews(stream, ch) \/ (IsNews(p, ch) /\ (p.on <=> ch \in v))
<1>1. PICK n \in 1 .. Len(stream) : stream' = SubSeq(stream, n + 1, Len(stream))
  BY DEF GetPacket
<1>2. /\ Len(stream) \in Nat /\ n \in Nat /\ n <= Len(stream)
      /\ Len(stream') = Len(stream) - n
      /\ \A i \in 1 .. Len(stream) - n : stream'[i] = stream[i + n]
  BY <1>1
<1>3. p = stream[1]
  BY DEF GetPacket
<1>4. LastNews(stream', ch, v)
  <2> SUFFICES ASSUME NEW i \in 1 .. Len(stream'), IsNews(stream'[i], ch),
                      \A j \in i + 1 .. Len(stream') : ~IsNews(stream'[j], ch)
               PROVE  stream'[i].on <=> ch \in v
    BY DEF LastNews
  <2>1. i + n \in 1 .. Len(stream) /\ stream'[i] = stream[i + n]
    BY <1>2
  <2>2. ASSUME NEW j \in i + n + 1 .. Len(stream) PROVE ~IsNews(stream[j], ch)
    <3>1. j - n \in i + 1 .. Len(stream') /\ stream'[j - n] = stream[j]
      BY <1>2
    <3> QED BY <3>1
  <2> QED BY <2>1, <2>2 DEF LastNews
<1>5. ASSUME NEW first \in {1, 2}, ch \notin Missed(first), NEW i \in first .. n
      PROVE  ~IsNews(stream[i], ch)
  <2>1. i \in first .. Len(stream) - Len(stream')
    BY <1>2
  <2> QED BY <1>5, <2>1 DEF Missed, NewsIn, IsNews
<1>6. ASSUME NoNews(stream', ch), NEW i \in n + 1 .. Len(stream) PROVE ~IsNews(stream[i], ch)
  <2>1. i - n \in 1 .. Len(stream') /\ stream'[i - n] = stream[i]
    BY <1>2
  <2> QED BY <1>6, <2>1 DEF NoNews
<1>7. ASSUME NoNews(stream', ch), ch \notin Missed(1) PROVE NoNews(stream, ch)
  <2>1. \A i \in 1 .. Len(stream) : i \in 1 .. n \/ i \in n + 1 .. Len(stream)
    BY <1>2
  <2> QED BY <1>5, <1>6, <1>7, <2>1 DEF NoNews
<1>8. ASSUME NoNews(stream', ch), ch \notin Missed(2), IsNews(p, ch) PROVE p.on <=> ch \in v
  <2>1. 1 \in 1 .. Len(stream)
    BY <1>2
  <2>2. \A j \in 2 .. Len(stream) : j \in 2 .. n \/ j \in n + 1 .. Len(stream)
    BY <1>2
  <2>3. \A j \in 2 .. Len(stream) : ~IsNews(stream[j], ch)
    BY <1>5, <1>6, <1>8, <2>2
  <2> QED BY <1>3, <1>8, <2>1, <2>3 DEF LastNews
<1>9. ASSUME NoNews(stream', ch), ch \notin Missed(2), ~IsNews(p, ch) PROVE NoNews(stream, ch)
  <2>1. \A i \in 1 .. Len(stream) : i = 1 \/ i \in 2 .. n \/ i \in n + 1 .. Len(stream)
    BY <1>2
  <2> QED BY <1>3, <1>5, <1>6, <1>9, <2>1 DEF NoNews
<1> QED BY <1>4, <1>7, <1>8, <1>9

\* A pass that is over leaves nothing behind.
LEMMA PassEmptyStep == ASSUME IndInv, PassEmpty, [Next]_vars PROVE PassEmpty'
<1> USE DEF PassEmpty
<1>1. CASE UNCHANGED pass
  BY <1>1
<1>2. CASE DioProcess
  BY <1>2 DEF DioProcess, IndInv, TypeOK
<1>3. CASE Offer
  <2>1. pass' = [pass EXCEPT !.at = "waiting", !.todo = @ \ {CHOOSE c \in pass.todo : \A d \in pass.todo : c <= d}]
    BY <1>3, Zenon DEF Offer
  <2>2. pass \in Passes
    BY DEF IndInv, TypeOK, Passes
  <2> QED BY <2>1, <2>2 DEF Passes
<1>4. CASE ItemSent
  <2>1. pass \in Passes
    BY DEF IndInv, TypeOK, Passes
  <2> QED BY <1>4, <2>1 DEF ItemSent, Passes
<1>5. CASE Reconnecting
  BY <1>1, <1>5 DEF Reconnecting, Connect, ExpectConnack, Subscribe, ExpectSuback, local
<1>6. CASE Publish \/ ExpectPuback \/ Ping \/ Read
  BY <1>1, <1>6 DEF Publish, ExpectPuback, Ping, Read, local
<1>7. CASE ForeignPublish \/ Break
  BY <1>1, <1>7 DEF ForeignPublish, Break, local
<1>8. CASE UNCHANGED vars
  BY <1>1, <1>8 DEF vars, local
<1> QED BY <1>2, <1>3, <1>4, <1>5, <1>6, <1>7, <1>8 DEF Next, DioProc, MqttRecv

\* While the broker hears the board, a topic is subscribed to or still to come;
\* the main loop is reached when none is to come.
LEMMA SubscribedStep == ASSUME IndInv, Subscribed, [Next]_vars PROVE Subscribed'
<1> USE DEF Subscribed, IndInv, TypeOK
<1>1. CASE UNCHANGED <<session, conn, subs, toSub, pc, needRestart, stream>>
  BY <1>1
<1>2. CASE Connect
  <2>1. \A ch \in Topics : NoNews(<<Ack("CONNACK", TRUE)>>, ch) /\ NoNews(<<Ack("CONNACK", FALSE)>>, ch)
    BY DEF NoNews, IsNews, Ack
  <2>2. CASE conn' = "none" /\ UNCHANGED <<pc, toSub>>
    BY <1>2, <2>2 DEF Connect
  <2>3. CASE pc' = "connack" /\ toSub' = Topics
              /\ stream' \in {<<Ack("CONNACK", TRUE)>>, <<Ack("CONNACK", FALSE)>>}
    BY <1>2, <2>1, <2>3 DEF Connect
  <2> QED BY <1>2, <2>2, <2>3 DEF Connect
<1>3. CASE ExpectConnack
  BY <1>3 DEF ExpectConnack
<1>4. CASE Subscribe
  <2>1. PICK ch \in toSub : SendSubscribe(ch)
    BY <1>4 DEF Subscribe
  <2>2. toSub' = toSub \ {ch} /\ (Heard /\ session => subs' = subs \cup {ch})
        /\ (~(Heard /\ session) => subs' = subs)
    BY <2>1 DEF SendSubscribe
  <2>3. pc' = "suback" /\ UNCHANGED <<session, conn>>
    BY <1>4 DEF Subscribe
  <2> QED BY <2>2, <2>3 DEF Heard
<1>5. CASE ExpectSuback
  BY <1>5 DEF ExpectSuback
<1>6. CASE Publish
  BY <1>6 DEF Publish
<1>7. CASE ExpectPuback
  BY <1>7 DEF ExpectPuback
<1>8. CASE Ping \/ Read
  <2>1. pc \in {"ping", "read"} /\ pc' \in {"read", "loop"} /\ UNCHANGED <<toSub, session, conn, subs>>
    BY <1>8, Zenon DEF Ping, Read
  <2> QED BY <2>1
<1>9. CASE DioProc
  BY <1>1, <1>9 DEF DioProc, DioProcess, Offer, ItemSent, client, peer
<1>10. CASE ForeignPublish
  <2>1. PICK f \in Topics, on \in BOOLEAN :
          IF Heard /\ f \in subs
          THEN stream' = Append(stream, News(f, on))
          ELSE UNCHANGED stream
    BY <1>10 DEF ForeignPublish
  <2>2. UNCHANGED <<session, conn, subs, toSub, pc, needRestart>>
    BY <1>10 DEF ForeignPublish, client
  <2>3. CASE pc = "connack"
    BY <1>1, <2>1, <2>2, <2>3
  <2>4. CASE pc # "connack"
    BY <2>2, <2>4
  <2> QED BY <2>3, <2>4
<1>11. CASE Break
  BY <1>11 DEF Break, client
<1>12. CASE UNCHANGED vars
  BY <1>1, <1>12 DEF vars, client, peer
<1> QED BY <1>2, <1>3, <1>4, <1>5, <1>6, <1>7, <1>8, <1>9, <1>10, <1>11, <1>12
        DEF Next, MqttRecv, Reconnecting

\* What was last published of a topic is on its way to the board, or waits to be
\* applied, or is shown, or is about to be published over.
LEMMA FollowingStep == ASSUME AgreeInv, [Next]_vars PROVE Following'
<1> USE DEF AgreeInv, IndInv
<1>0. stream \in Seq(Packets) /\ pass \in Passes
  BY DEF TypeOK, Passes
<1>1. CASE DioProcess
  <2>1. PICK now \in [Inputs -> {0, 1}] :
          \/ /\ front = {} /\ remoteChanged = {} /\ UNCHANGED <<state, pass, remoteChanged, behind>>
          \/ /\ state' = Toggled(Applied(remoteChanged), front)
             /\ behind' = behind \cup (front \ Topics)
             /\ \/ /\ front \cap Topics = {}
                   /\ remoteChanged' = remoteChanged \ remoteChanged /\ UNCHANGED pass
                \/ /\ front \subseteq front'
                   /\ pass' = [at |-> "offer", fb |-> front, re |-> remoteChanged,
                               todo |-> front \cap Topics]
                   /\ UNCHANGED remoteChanged
    BY <1>1, Zenon DEF DioProcess
  <2>2. pass = Asleep /\ pass.re = {} /\ pass.fb = {} /\ pass.todo = {} /\ ~flag
    BY <1>1 DEF DioProcess, Asleep, ItemAlive
  <2>3. UNCHANGED <<remote, flag, item, pc, stream, value>>
    BY <1>1 DEF DioProcess, client, peer
  <2> SUFFICES ASSUME NEW ch \in Topics, ch \notin behind', NoNews(stream, ch)
               PROVE  Follows(ch)'
    BY <2>1, <2>3 DEF Following
  <2>4. Follows(ch)
    BY <2>1 DEF Following
  <2>5. CASE front = {} /\ remoteChanged = {} /\ UNCHANGED <<state, pass, remoteChanged, behind>>
    BY <2>2, <2>3, <2>4, <2>5 DEF Follows, ToPublish
  <2>6. CASE /\ state' = Toggled(Applied(remoteChanged), front)
             /\ front \cap Topics = {} /\ remoteChanged' = {} /\ UNCHANGED pass
    BY <2>2, <2>3, <2>4, <2>6 DEF Follows, ToPublish, Toggled, Applied
  <2>7. CASE /\ state' = Toggled(Applied(remoteChanged), front)
             /\ pass' = [at |-> "offer", fb |-> front, re |-> remoteChanged,
                         todo |-> front \cap Topics]
             /\ UNCHANGED remoteChanged
    BY <2>2, <2>3, <2>4, <2>7 DEF Follows, ToPublish, Toggled, Applied
  <2> QED BY <2>1, <2>5, <2>6, <2>7
<1>2. CASE Offer
  <2> DEFINE next == CHOOSE c \in pass.todo : \A d \in pass.todo : c <= d
  <2>1. /\ item' = News(next, next \in state) /\ flag' = TRUE /\ pc # "puback"
        /\ pass' = [pass EXCEPT !.at = "waiting", !.todo = @ \ {next}]
        /\ UNCHANGED <<front, state, remoteChanged, remote, pc, stream, value, behind>>
    BY <1>2, Zenon DEF Offer, client, peer
  <2> HIDE DEF next
  <2>2. pass'.fb = pass.fb /\ pass'.re = pass.re /\ pass'.todo = pass.todo \ {next}
    BY <1>0, <2>1 DEF Passes
  <2>3. item'.ch = next /\ ~flag
    BY <1>2, <2>1 DEF News, Offer
  <2> QED BY <2>1, <2>2, <2>3 DEF Following, Follows, ToPublish
<1>3. CASE ItemSent
  <2>1. ~flag /\ UNCHANGED <<state, remote, flag, pc, stream, value, behind>>
    BY <1>3 DEF ItemSent, Taken, client, peer
  <2>2. CASE pass.todo # {}
    <3>1. /\ pass'.fb = pass.fb /\ pass'.re = pass.re /\ pass'.todo = pass.todo
          /\ UNCHANGED <<front, remoteChanged>>
      BY <1>0, <1>3, <2>2 DEF ItemSent, Passes
    <3> QED BY <2>1, <3>1 DEF Following, Follows, ToPublish
  <2>3. CASE pass.todo = {}
    <3>1. /\ pass'.fb = {} /\ pass'.re = {} /\ pass'.todo = {}
          /\ front' = front \ pass.fb /\ remoteChanged' = remoteChanged \ pass.re
      BY <1>3, <2>3 DEF ItemSent, Asleep, Left
    <3> QED BY <2>1, <2>3, <3>1 DEF Following, Follows, ToPublish
  <2> QED BY <2>2, <2>3
<1>4. ASSUME UNCHANGED <<front, pass, state, remoteChanged, remote, flag, item, value>>,
             pc' = "puback" => pc = "puback" \/ ~flag,
             NEW ch \in Topics, Follows(ch)
      PROVE  Follows(ch)'
  BY <1>4 DEF Follows, ToPublish
<1>5. CASE Connect
  <2>1. UNCHANGED <<front, pass, state, remoteChanged, remote, flag, item, value>>
        /\ pc' # "puback"
    BY <1>5 DEF Connect, local, shared
  <2>2. stream' \in {<<>>, <<Ack("CONNACK", TRUE)>>, <<Ack("CONNACK", FALSE)>>}
    BY <1>5 DEF Connect
  <2>3. \A ch \in Topics : LastNews(stream', ch, value')
    BY <2>2 DEF LastNews, IsNews, Ack
  <2>4. ASSUME NEW ch \in Topics, ch \notin behind' PROVE ch \notin behind /\ NoNews(stream, ch)
    <3>1. behind' = behind \cup NewsIn(ToSet(stream))
      BY <1>5 DEF Connect
    <3>2. \A i \in 1 .. Len(stream) : stream[i] \in ToSet(stream)
      BY <1>0 DEF ToSet
    <3> QED BY <2>4, <3>1, <3>2 DEF NewsIn, NoNews, IsNews
  <2>5. ASSUME NEW ch \in Topics, ch \notin behind' PROVE Follows(ch)'
    BY <1>4, <2>1, <2>4, <2>5 DEF Following
  <2> QED BY <2>3, <2>5 DEF Following
<1>6. ASSUME NEW p, GetPacket(p), UNCHANGED <<front, pass, state, remoteChanged, remote, item, value>>,
             pc' # "puback", flag' = flag \/ pc = "puback", NEW ch \in Topics, ch \notin behind,
             ch \notin Missed(1)
      PROVE  LastNews(stream', ch, value') /\ (NoNews(stream', ch) => Follows(ch)')
  <2>1. LastNews(stream, ch, value)
    BY <1>6 DEF Following
  <2>2. LastNews(stream', ch, value) /\ (NoNews(stream', ch) => NoNews(stream, ch))
    BY <1>0, <1>6, <2>1, TailNews
  <2>3. ASSUME NoNews(stream, ch) PROVE Follows(ch)'
    BY <1>6, <2>3 DEF Following, Follows, ToPublish
  <2> QED BY <1>6, <2>2, <2>3
<1>7. ASSUME UNCHANGED <<front, pass, state, remoteChanged, remote, item, value, stream, behind>>,
             pc' # "puback", flag' = flag \/ pc = "puback"
      PROVE  Following'
  BY <1>7 DEF Following, Follows, ToPublish
<1>8. CASE ExpectConnack
  <2>1. /\ UNCHANGED <<front, pass, state, remoteChanged, remote, flag, item, value, behind>>
        /\ pc' # "puback" /\ pc = "connack"
    BY <1>8 DEF ExpectConnack, local, shared
  <2>2. CASE stream' = stream
    BY <1>7, <2>1, <2>2
  <2>3. CASE \E p : GetPacket(p)
    <3>1. PICK p : GetPacket(p)
      BY <2>3
    <3>2. ASSUME NEW ch \in Topics PROVE ch \notin Missed(1)
      <4>1. NoNews(stream, ch)
        BY <2>1 DEF Subscribed
      <4>2. \A i \in 1 .. Len(stream) - Len(stream') : i \in 1 .. Len(stream)
        BY <1>0, <3>1, GetTyped
      <4> QED BY <4>1, <4>2 DEF Missed, NewsIn, NoNews, IsNews
    <3> QED BY <1>6, <2>1, <3>1, <3>2 DEF Following
  <2> QED BY <1>8, <2>2, <2>3 DEF ExpectConnack, NoData, ReadError
<1>9. ASSUME NEW ch \in Topics, NEW awaited \in BOOLEAN,
             NEW type \in {"CONNACK", "SUBACK", "PUBACK", "PINGRESP"}, NEW s \in Seq(Packets),
             NEW v
      PROVE  /\ LastNews(s, ch, v) => LastNews(Append(s, Ack(type, awaited)), ch, v)
             /\ NoNews(Append(s, Ack(type, awaited)), ch) => NoNews(s, ch)
  <2> DEFINE a == Ack(type, awaited)
  <2>1. a \in Packets /\ ~IsNews(a, ch)
    BY PacketForms DEF IsNews, Ack
  <2> HIDE DEF a
  <2>2. /\ LastNews(s, ch, v) => LastNews(Append(s, a), ch, v)
        /\ NoNews(Append(s, a), ch) => NoNews(s, ch)
    BY <2>1, OneMorePacket
  <2> QED BY <2>2 DEF a
<1>10. CASE Subscribe
  <2>1. PICK c \in toSub : SendSubscribe(c)
    BY <1>10 DEF Subscribe
  <2>2. stream' = Outdated \/ stream' = Append(Outdated, Ack("SUBACK", TRUE))
    BY <2>1 DEF SendSubscribe
  <2>3. /\ UNCHANGED <<front, pass, state, remoteChanged, remote, flag, item, value, behind>>
        /\ pc' # "puback"
    BY <1>10 DEF Subscribe, local, shared
  <2> SUFFICES ASSUME NEW ch \in Topics, ch \notin behind
               PROVE  /\ LastNews(stream', ch, value)
                      /\ NoNews(stream', ch) => Follows(ch)'
    BY <2>3 DEF Following
  <2>4. LastNews(stream, ch, value) /\ (NoNews(stream, ch) => Follows(ch)')
    BY <1>4, <2>3 DEF Following
  <2>5. Outdated \in Seq(Packets) /\ LastNews(Outdated, ch, value)
        /\ (NoNews(Outdated, ch) => Follows(ch)')
    BY <1>0, <2>4, OutdatedTyped, OutdatedNews
  <2> QED BY <1>9, <2>2, <2>5
<1>11. ASSUME NEW type, Expect(type),
              UNCHANGED <<front, pass, state, remoteChanged, remote, item, value>>,
              pc' # "puback", flag' = flag \/ pc = "puback"
       PROVE  Following'
  <2>1. CASE \E p : GetPacket(p) /\ behind' = behind \cup Missed(1)
    <3>1. PICK p : GetPacket(p) /\ behind' = behind \cup Missed(1)
      BY <2>1
    <3> QED BY <1>6, <1>11, <3>1 DEF Following
  <2>2. CASE UNCHANGED <<stream, behind>>
    BY <1>7, <1>11, <2>2
  <2> QED BY <1>11, <2>1, <2>2 DEF Expect, NoData, ReadError
<1>12. CASE ExpectSuback
  <2>1. /\ UNCHANGED <<front, pass, state, remoteChanged, remote, flag, item, value>>
        /\ pc' # "puback"
    BY <1>12 DEF ExpectSuback, local, shared
  <2>2. CASE Expect("SUBACK")
    BY <1>11, <2>1, <2>2
  <2>3. CASE \E p : GetPacket(p) /\ behind' = behind \cup Missed(1)
    <3>1. PICK p : GetPacket(p) /\ behind' = behind \cup Missed(1)
      BY <2>3
    <3> QED BY <1>6, <2>1, <3>1 DEF Following
  <2>4. CASE UNCHANGED <<stream, behind>>
    BY <1>7, <2>1, <2>4
  <2> QED BY <1>12, <2>2, <2>3, <2>4 DEF ExpectSuback, NoData
<1>13. CASE ExpectPuback
  BY <1>11, <1>13 DEF ExpectPuback, local
<1>14. CASE Publish /\ ~flag
  BY <1>7, <1>14 DEF Publish, local, shared
<1>15. CASE Publish /\ flag
  <2>1. SendPublish /\ pc' = "puback" /\ toSub = {}
        /\ UNCHANGED <<front, pass, state, remoteChanged, remote, flag, item>>
    BY <1>15 DEF Publish, local, shared, Subscribed
  <2>2. item.type = "PUBLISH" /\ item.ch \in Topics /\ item.on \in BOOLEAN /\ item \in Packets
    BY <1>15 DEF Topical, TypeOK, Packets
  <2>3. Outdated \in Seq(Packets)
    BY <1>0, OutdatedTyped
  <2>4. ASSUME NEW ch \in Topics, ch # item.ch, ch \notin behind
        PROVE  /\ LastNews(Outdated, ch, value)
               /\ NoNews(Outdated, ch) => Follows(ch)
    BY <1>0, <2>4, OutdatedNews DEF Following
  <2>5. ASSUME NEW ch \in Topics, ch # item.ch, Follows(ch), ch \in value' <=> ch \in value
        PROVE  Follows(ch)'
    BY <2>1, <2>5 DEF Follows, ToPublish
  <2>6. CASE ~(Heard /\ session)
    <3>1. stream' = Outdated /\ behind' = behind \cup {item.ch} /\ value' = value
      BY <2>1, <2>6 DEF SendPublish
    <3> QED BY <2>4, <2>5, <3>1 DEF Following
  <2>7. CASE Heard /\ session
    <3>1. item.ch \in subs
      BY <2>1, <2>2, <2>7 DEF Subscribed, Heard
    <3> DEFINE ack == Ack("PUBACK", TRUE)
    <3>2. PICK r \in PublishReplies(item) : stream' = Outdated \o r
      BY <2>1, <2>7 DEF SendPublish
    <3>3. r = <<ack>> \o <<item>> \/ r = <<item>> \o <<ack>>
      BY <3>1, Zenon DEF PublishReplies
    <3>4. behind' = behind \ {item.ch}
          /\ value' = IF item.on THEN value \cup {item.ch} ELSE value \ {item.ch}
      BY <2>1, <2>7 DEF SendPublish
    <3>5. ack \in Packets /\ \A ch \in Topics : ~IsNews(ack, ch)
      BY PacketForms DEF IsNews, Ack
    <3> HIDE DEF ack
    <3>6. \A q \in Seq(Packets), x, y \in Packets : q \o (<<x>> \o <<y>>) = Append(Append(q, x), y)
      OBVIOUS
    <3>7. stream' = Append(Append(Outdated, ack), item) \/ stream' = Append(Append(Outdated, item), ack)
      <4>1. /\ Outdated \o (<<ack>> \o <<item>>) = Append(Append(Outdated, ack), item)
            /\ Outdated \o (<<item>> \o <<ack>>) = Append(Append(Outdated, item), ack)
        BY <2>2, <2>3, <3>5, <3>6, Zenon
      <4> QED BY <3>2, <3>3, <4>1, Zenon
    <3>8. Append(Outdated, ack) \in Seq(Packets) /\ Append(Outdated, item) \in Seq(Packets)
      BY <2>2, <2>3, <3>5
    <3>9. ASSUME NEW ch \in Topics, ch # item.ch, ch \notin behind
          PROVE  LastNews(stream', ch, value') /\ (NoNews(stream', ch) => Follows(ch)')
      <4>1. ~IsNews(item, ch)
        BY <3>9 DEF IsNews
      <4>2. /\ LastNews(Append(Outdated, ack), ch, value)
            /\ LastNews(Append(Outdated, item), ch, value)
            /\ NoNews(Append(Outdated, ack), ch) => NoNews(Outdated, ch)
            /\ NoNews(Append(Outdated, item), ch) => NoNews(Outdated, ch)
        BY <2>2, <2>3, <2>4, <3>5, <3>9, <4>1, OneMorePacket
      <4>3. /\ LastNews(Append(Append(Outdated, ack), item), ch, value)
            /\ LastNews(Append(Append(Outdated, item), ack), ch, value)
            /\ NoNews(Append(Append(Outdated, ack), item), ch) => NoNews(Outdated, ch)
            /\ NoNews(Append(Append(Outdated, item), ack), ch) => NoNews(Outdated, ch)
        BY <2>2, <3>5, <3>8, <3>9, <4>1, <4>2, OneMorePacket, Zenon
      <4>4. ch \in value' <=> ch \in value
        BY <3>4, <3>9
      <4>5. LastNews(stream', ch, value) /\ (NoNews(stream', ch) => NoNews(Outdated, ch))
        BY <3>7, <4>3, Zenon
      <4>6. LastNews(stream', ch, value')
        BY <4>4, <4>5 DEF LastNews
      <4> QED BY <2>4, <2>5, <3>9, <4>4, <4>5, <4>6
    <3>10. LastNews(stream', item.ch, value') /\ ~NoNews(stream', item.ch)
      <4>1. IsNews(item, item.ch) /\ (item.on <=> item.ch \in value')
        BY <2>2, <3>4 DEF IsNews
      <4>2. LastNews(Append(Outdated, item), item.ch, value') /\ ~NoNews(Append(Outdated, item), item.ch)
        BY <2>2, <2>3, <4>1, OneMorePacket
      <4>3. /\ LastNews(Append(Append(Outdated, ack), item), item.ch, value')
            /\ ~NoNews(Append(Append(Outdated, ack), item), item.ch)
        BY <2>2, <3>8, <4>1, OneMorePacket, Zenon
      <4>4. /\ LastNews(Append(Append(Outdated, item), ack), item.ch, value')
            /\ ~NoNews(Append(Append(Outdated, item), ack), item.ch)
        BY <2>2, <3>5, <3>8, <4>2, OneMorePacket, Zenon
      <4> QED BY <3>7, <4>3, <4>4, Zenon
    <3> QED BY <2>2, <3>4, <3>9, <3>10 DEF Following
  <2> QED BY <2>6, <2>7
<1>16. CASE Ping
  <2>1. /\ UNCHANGED <<front, pass, state, remoteChanged, remote, flag, item, value, behind>>
        /\ pc' # "puback"
    BY <1>16 DEF Ping, local, shared
  <2>2. stream' = stream \/ stream' = Append(stream, Ack("PINGRESP", FALSE))
    BY <1>16 DEF Ping, SendPing
  <2> SUFFICES ASSUME NEW ch \in Topics \ behind
               PROVE  LastNews(stream', ch, value) /\ (NoNews(stream', ch) => Follows(ch)')
    BY <2>1 DEF Following
  <2>3. LastNews(stream, ch, value) /\ (NoNews(stream, ch) => Follows(ch))
    BY DEF Following
  <2>4. Follows(ch) => Follows(ch)'
    BY <1>4, <2>1
  <2>5. CASE stream' = stream
    BY <2>3, <2>4, <2>5
  <2>6. CASE stream' = Append(stream, Ack("PINGRESP", FALSE))
    <3>1. LastNews(stream', ch, value) /\ (NoNews(stream', ch) => NoNews(stream, ch))
      <4>1. /\ LastNews(stream, ch, value) => LastNews(Append(stream, Ack("PINGRESP", FALSE)), ch, value)
            /\ NoNews(Append(stream, Ack("PINGRESP", FALSE)), ch) => NoNews(stream, ch)
        BY <1>0, <1>9
      <4> QED BY <2>3, <2>6, <4>1, Zenon
    <3> QED BY <2>3, <2>4, <3>1
  <2> QED BY <2>2, <2>5, <2>6
<1>17. CASE Read
  <2>1. UNCHANGED <<front, pass, state, flag, item, value>> /\ pc = "read" /\ pc' = "loop"
    BY <1>17 DEF Read, local
  <2>2. CASE UNCHANGED <<stream, remoteChanged, remote, behind>>
    BY <1>7, <2>1, <2>2
  <2>3. ASSUME NEW p, GetPacket(p), NEW ch \in Topics, ch \notin behind, ch \notin Missed(2),
               UNCHANGED <<remoteChanged, remote>>, ~IsNews(p, ch)
        PROVE  LastNews(stream', ch, value') /\ (NoNews(stream', ch) => Follows(ch)')
    <3>1. LastNews(stream, ch, value)
      BY <2>3 DEF Following
    <3>2. LastNews(stream', ch, value) /\ (NoNews(stream', ch) => NoNews(stream, ch))
      BY <1>0, <2>3, <3>1, TailNews
    <3>3. ASSUME NoNews(stream, ch) PROVE Follows(ch)'
      BY <2>1, <2>3, <3>3 DEF Following, Follows, ToPublish
    <3> QED BY <2>1, <3>2, <3>3
  <2>4. CASE \E p : /\ GetPacket(p) /\ p.type # "PUBLISH"
                    /\ behind' = behind \cup Missed(2) /\ UNCHANGED <<remoteChanged, remote>>
    BY <2>3, <2>4 DEF Following, IsNews
  <2>5. CASE \E p : /\ GetPacket(p) /\ p.type = "PUBLISH"
                    /\ RecvItem(p) /\ behind' = Received(p) \cup Missed(2)
    <3>1. PICK p : /\ GetPacket(p) /\ p.type = "PUBLISH"
                   /\ RecvItem(p) /\ behind' = Received(p) \cup Missed(2)
      BY <2>5
    <3>2. p \in Packets /\ stream' \in Seq(Packets) /\ p.on \in BOOLEAN
      BY <1>0, <3>1, GetTyped, NewsTopic
    <3>3. /\ remoteChanged' = remoteChanged \cup {p.ch}
          /\ remote' = IF p.on THEN remote \cup {p.ch} ELSE remote \ {p.ch}
      BY <3>1 DEF RecvItem
    <3> SUFFICES ASSUME NEW ch \in Topics, ch \notin behind'
                 PROVE  /\ LastNews(stream', ch, value)
                        /\ NoNews(stream', ch) => Follows(ch)'
      BY <2>1 DEF Following
    <3>4. ch \notin Missed(2) /\ ch \notin Received(p)
      BY <3>1
    <3>5. ch \notin behind =>
            /\ LastNews(stream', ch, value)
            /\ NoNews(stream', ch) => NoNews(stream, ch) \/ (IsNews(p, ch) /\ (p.on <=> ch \in value))
      BY <1>0, <3>1, <3>4, TailNews DEF Following
    <3>6. CASE ch # p.ch
      <4>1. ch \notin behind
        BY <3>4, <3>6 DEF Received
      <4>2. ASSUME NoNews(stream, ch) PROVE Follows(ch)'
        <5>1. Follows(ch)
          BY <4>1, <4>2 DEF Following
        <5>2. /\ ch \in remoteChanged' <=> ch \in remoteChanged
              /\ ch \in remote' <=> ch \in remote
          BY <3>3, <3>6
        <5> QED BY <2>1, <5>1, <5>2 DEF Follows, ToPublish
      <4> QED BY <3>5, <3>6, <4>1, <4>2 DEF IsNews
    <3>7. CASE ch = p.ch
      <4>1. ch \notin pass.re
        BY <3>4, <3>7 DEF Received
      <4>2. ASSUME p.on <=> ch \in value PROVE Follows(ch)'
        BY <2>1, <3>3, <3>7, <4>1, <4>2 DEF Follows
      <4>3. CASE UpToDate(p)
        <5>1. \A i \in 1 .. Len(stream') : stream'[i] \in ToSet(stream')
          BY <3>2 DEF ToSet
        <5>2. NoNews(stream', ch)
          BY <3>7, <4>3, <5>1 DEF UpToDate, NewsIn, NoNews, IsNews
        <5>3. LastNews(stream', ch, value)
          BY <5>2 DEF NoNews, LastNews
        <5> QED BY <3>7, <4>2, <4>3, <5>3 DEF UpToDate
      <4>4. CASE ~UpToDate(p)
        <5>1. ch \notin behind
          BY <3>4, <3>7, <4>4 DEF Received
        <5>2. ~NoNews(stream, ch)
          <6>1. p = stream[1] /\ 1 \in 1 .. Len(stream)
            BY <1>0, <3>1 DEF GetPacket
          <6> QED BY <3>1, <3>7, <6>1 DEF NoNews, IsNews
        <5> QED BY <3>5, <4>2, <5>1, <5>2
      <4> QED BY <4>3, <4>4
    <3> QED BY <3>6, <3>7
  <2> QED BY <1>17, <2>2, <2>4, <2>5, Zenon DEF Read, NoData, ReadError
<1>18. CASE ForeignPublish
  <2>1. PICK f \in Topics, on \in BOOLEAN :
          /\ value' = IF on THEN value \cup {f} ELSE value \ {f}
          /\ IF Heard /\ f \in subs
             THEN stream' = Append(stream, News(f, on)) /\ UNCHANGED behind
             ELSE behind' = behind \cup {f} /\ UNCHANGED stream
    BY <1>18 DEF ForeignPublish
  <2>2. UNCHANGED <<front, pass, state, remoteChanged, remote, flag, item, pc>>
    BY <1>18 DEF ForeignPublish, local, shared, client
  <2>3. ASSUME NEW ch \in Topics, ch # f, Follows(ch) PROVE Follows(ch)'
    BY <2>1, <2>2, <2>3 DEF Follows, ToPublish
  <2>4. \A ch \in Topics : ch # f => (ch \in value' <=> ch \in value)
    BY <2>1
  <2>5. CASE ~(Heard /\ f \in subs)
    <3> SUFFICES ASSUME NEW ch \in Topics, ch \notin behind, ch # f
                 PROVE  /\ LastNews(stream, ch, value')
                        /\ NoNews(stream, ch) => Follows(ch)'
      BY <2>1, <2>5 DEF Following
    <3>1. LastNews(stream, ch, value) /\ (NoNews(stream, ch) => Follows(ch))
      BY DEF Following
    <3>2. LastNews(stream, ch, value')
      BY <2>4, <3>1 DEF LastNews
    <3> QED BY <2>3, <3>1, <3>2
  <2>6. CASE Heard /\ f \in subs
    <3> DEFINE m == News(f, on)
    <3>1. stream' = Append(stream, m) /\ behind' = behind
      BY <2>1, <2>6
    <3>2. m \in Packets /\ m.on = on /\ \A ch \in Topics : IsNews(m, ch) <=> ch = f
      BY PacketForms DEF IsNews, News
    <3> HIDE DEF m
    <3>3. ASSUME NEW ch \in Topics, ch # f, ch \notin behind
          PROVE  LastNews(stream', ch, value') /\ (NoNews(stream', ch) => Follows(ch)')
      <4>1. LastNews(stream, ch, value) /\ (NoNews(stream, ch) => Follows(ch))
        BY <3>3 DEF Following
      <4>2. LastNews(stream', ch, value) /\ (NoNews(stream', ch) => NoNews(stream, ch))
        BY <1>0, <3>1, <3>2, <3>3, <4>1, OneMorePacket
      <4> QED BY <2>3, <2>4, <3>3, <4>1, <4>2 DEF LastNews
    <3>4. LastNews(stream', f, value') /\ ~NoNews(stream', f)
      <4>1. on <=> f \in value'
        BY <2>1
      <4> QED BY <1>0, <3>1, <3>2, <4>1, OneMorePacket
    <3> QED BY <3>1, <3>3, <3>4 DEF Following
  <2> QED BY <2>5, <2>6
<1>19. CASE Break \/ UNCHANGED vars
  <2>1. UNCHANGED <<front, pass, state, remoteChanged, remote, flag, item, pc, stream, value, behind>>
    BY <1>19 DEF Break, vars, local, shared, client, peer
  <2> QED BY <2>1 DEF Following, Follows, ToPublish
<1> QED BY <1>1, <1>2, <1>3, <1>5, <1>8, <1>10, <1>12, <1>13, <1>14, <1>15, <1>16, <1>17,
           <1>18, <1>19 DEF Next, DioProc, MqttRecv, Reconnecting

\* Once nothing is under way, the board shows of every topic what was last
\* published, except of those whose publications were lost in a way that behind
\* records: however local changes, echoes, news and reconnections interleave.
THEOREM BoardAgrees == Spec => []Agreement
<1>1. Init => AgreeInv
  BY InitInd DEF AgreeInv, Init, Subscribed, Following, LastNews, Follows, ToPublish, PassEmpty
<1>2. AgreeInv /\ [Next]_vars => AgreeInv'
  BY IndStep, SubscribedStep, FollowingStep, PassEmptyStep DEF AgreeInv
<1>3. AgreeInv => Agreement
  <2> SUFFICES ASSUME AgreeInv, Quiet, NEW ch \in Topics, ch \notin behind
               PROVE  ch \in state <=> ch \in value
    BY DEF Agreement
  <2>1. NoNews(stream, ch)
    <3>1. \A i \in 1 .. Len(stream) : stream[i] \in ToSet(stream)
      BY DEF AgreeInv, IndInv, TypeOK, ToSet
    <3> QED BY <3>1 DEF Quiet, NewsIn, NoNews, IsNews
  <2>2. Follows(ch)
    BY <2>1 DEF AgreeInv, Following
  <2> QED BY <2>2 DEF Follows, ToPublish, Quiet, Asleep
<1> QED BY <1>1, <1>2, <1>3, PTL DEF Spec
=============================================================================
