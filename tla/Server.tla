------------------------------- MODULE Server -------------------------------
(***************************************************************************)
(* The 485 server, mmnet_485_server: the Modbus/TCP thread (modbus.c, with *)
(* the packet code of modbus-lib), a web thread that serves item.cgi       *)
(* (web_cgi.c), the main loop and the one-second timer that sets the       *)
(* outputs to their start values when communications are lost (servant.c,  *)
(* io_dig.c), and the configuration those come from (RuntimeCfg).          *)
(*                                                                         *)
(* Nut/OS threads give way only where they block, and timers run there: an *)
(* action is what a thread does between two blocking calls.  The outputs   *)
(* are one register.  A connection serves one master; while it lasts there *)
(* is no listening socket.  Times are scaled.                              *)
(***************************************************************************)
EXTENDS RuntimeCfg, Sequences

CONSTANTS Grace,     \* the first value of network_activity, 60 s
          Quiet,     \* seconds between network calls, 30
          MaxPipe    \* bound on the requests a master sends ahead

ASSUME ServerAssumption ==
  /\ Quiet \in Nat \ {0, 1} /\ Grace \in Nat /\ Grace >= Quiet /\ MaxPipe \in Nat

\* What a packet asks for.  "refused" is answered by an exception, "broken" as
\* well, but only after registers were written: a later register, or the read that
\* follows the write in function 0x17, fails.  Of a "short" one the thread does
\* not get all bytes in a read.
Requests == [op : {"read", "refused", "short"}, value : {FactoryStart}]
            \cup [op : {"write", "broken"}, value : Starts]
Writes == {"write", "broken"}

VARIABLES
  pc,        \* ModbusService: the blocking call it is in, or comes to
  link,      \* the connection: "none", "open", "gone" (the master is)
  stream,    \* requests sent and not yet read
  posted,    \* replySentEvent
  out,       \* the output ports
  activity,  \* network_activity
  unseen,    \* modbus_event_cnt # modbus_event_cnt_prev
  web,       \* a web thread in item.cgi
  \* History:
  since,     \* seconds since a request was last answered, up to Quiet
  applied,   \* the start values last set
  slipped    \* a broken request has written since then

net    == <<link, stream>>
hist   == <<since, applied, slipped>>
srv    == <<pc, net, posted, out, activity, unseen, web, hist>>
vars   == <<srv, cfgvars>>

Init == /\ CfgInit
        /\ pc = "create" /\ link = "none" /\ stream = << >> /\ posted = FALSE
        /\ out = cfg.start /\ activity = Grace /\ unseen = FALSE /\ web = "idle"
        /\ since = 0 /\ applied = cfg.start /\ slipped = FALSE

(***************************************************************************)
(* The master.                                                             *)
(***************************************************************************)
Connect ==
  /\ pc = "accept" /\ link = "none" /\ link' = "open" /\ UNCHANGED stream
  /\ UNCHANGED <<cfgvars, pc, posted, out, activity, unseen, web, hist>>

Ask ==
  /\ link = "open" /\ Len(stream) < MaxPipe
  /\ \E r \in Requests : stream' = Append(stream, r)
  /\ UNCHANGED <<cfgvars, pc, link, posted, out, activity, unseen, web, hist>>

Leave ==
  /\ link = "open" /\ link' = "gone"
  /\ UNCHANGED <<cfgvars, pc, stream, posted, out, activity, unseen, web, hist>>

(***************************************************************************)
(* ModbusService.  A socket or memory is waited for without limit.         *)
(***************************************************************************)
CreateSocket ==
  /\ pc = "create" /\ pc' = "accept"
  /\ UNCHANGED <<cfgvars, net, posted, out, activity, unseen, web, hist>>

Accept ==
  /\ pc = "accept" /\ link # "none" /\ pc' = "memory"
  /\ UNCHANGED <<cfgvars, net, posted, out, activity, unseen, web, hist>>

HaveMemory ==
  /\ pc = "memory" /\ pc' = "read"
  /\ UNCHANGED <<cfgvars, net, posted, out, activity, unseen, web, hist>>

\* The read returns nothing: the connection ended, or SO_RCVTIMEO passed.
ReadEndsOpen == stream = << >> /\ link = "open"
ReadEnds     == stream = << >>

CloseSocket == pc' = "create" /\ link' = "none" /\ stream' = << >>

ReadNothing ==
  /\ pc = "read" /\ ReadEnds /\ CloseSocket
  /\ UNCHANGED <<cfgvars, posted, out, activity, unseen, web, hist>>

\* A short header or body, a bad length, no memory for the packet.
ReadShort ==
  /\ pc = "read" /\ stream # << >> /\ Head(stream).op = "short" /\ CloseSocket
  /\ UNCHANGED <<cfgvars, posted, out, activity, unseen, web, hist>>

\* modbus_process_tcp_pkt up to the reply: registers are written first.
Process ==
  /\ pc = "read" /\ stream # << >> /\ Head(stream).op # "short"
  /\ out' = IF Head(stream).op \in Writes THEN Head(stream).value ELSE out
  /\ slipped' = (slipped \/ Head(stream).op = "broken")
  /\ pc' = "send"
  /\ UNCHANGED <<cfgvars, net, posted, activity, unseen, web, since, applied>>

\* The reply is sent; only then is the request counted, an exception never,
\* whatever was written before it.
Counts(op) == op \in {"read", "write"}

Sent ==
  /\ pc = "send" /\ pc' = "wait" /\ posted' = TRUE /\ stream' = Tail(stream)
  /\ IF Counts(Head(stream).op)
     THEN unseen' = TRUE /\ since' = 0
     ELSE UNCHANGED <<unseen, since>>
  /\ UNCHANGED <<cfgvars, link, out, activity, web, applied, slipped>>

\* The event was posted before the wait: it returns at once.
EventWait ==
  /\ pc = "wait" /\ posted /\ posted' = FALSE /\ pc' = "memory"
  /\ UNCHANGED <<cfgvars, net, out, activity, unseen, web, hist>>

Thread == CreateSocket \/ Accept \/ HaveMemory \/ ReadNothing \/ ReadShort \/ Process
          \/ Sent \/ EventWait

(***************************************************************************)
(* item.cgi: the output is written, the answer sent, the activity noticed. *)
(***************************************************************************)
WebItem ==
  /\ web = "idle" /\ web' = "answer"
  /\ out' = out \/ \E v \in Starts : out' = v
  /\ UNCHANGED <<cfgvars, pc, net, posted, activity, unseen, hist>>

WebDone ==
  /\ web = "answer" /\ web' = "idle" /\ activity' = Quiet /\ since' = 0
  /\ UNCHANGED <<cfgvars, pc, net, posted, out, unseen, applied, slipped>>

(***************************************************************************)
(* servant.c.                                                              *)
(***************************************************************************)
LostLater == activity = 0
Lost      == activity = 1

Less(a)       == IF a > 0 THEN a - 1 ELSE 0

EverySecond ==
  /\ IF Lost THEN out' = cfg.start /\ applied' = cfg.start /\ slipped' = FALSE
             ELSE UNCHANGED <<out, applied, slipped>>
  /\ activity' = Less(activity)
  /\ since' = IF since < Quiet THEN since + 1 ELSE since
  /\ UNCHANGED <<cfgvars, pc, net, posted, unseen, web>>

\* The main loop's pass, every tenth of a second unless a sensor keeps it.
StillUnseen   == unseen
NowSeen       == FALSE
Noticed(a)    == Quiet

MainLoop ==
  /\ unseen /\ unseen' = NowSeen /\ activity' = Noticed(activity)
  /\ UNCHANGED <<cfgvars, pc, net, posted, out, web, hist>>

Configure == CfgNext /\ UNCHANGED srv

Restart ==
  /\ CfgRestart
  /\ pc' = "create" /\ link' = "none" /\ stream' = << >> /\ posted' = FALSE
  /\ out' = cfg'.start /\ activity' = Grace /\ unseen' = FALSE /\ web' = "idle"
  /\ since' = 0 /\ applied' = cfg'.start /\ slipped' = FALSE

Next == Connect \/ Ask \/ Leave \/ Thread \/ WebItem \/ WebDone \/ EverySecond
        \/ MainLoop \/ Configure \/ Restart

\* Threads run when they can, and timers expire.
Fairness == WF_vars(Thread) /\ WF_vars(EverySecond) /\ WF_vars(MainLoop)

Spec == Init /\ [][Next]_vars /\ Fairness

(***************************************************************************)
(* Properties.                                                             *)
(***************************************************************************)
\* The variables stay in their types.
TypeOK ==
  /\ CfgTypeOK
  /\ pc \in {"create", "accept", "memory", "read", "send", "wait"}
  /\ link \in {"none", "open", "gone"} /\ stream \in Seq(Requests)
  /\ posted \in BOOLEAN /\ out \in Starts /\ activity \in 0 .. Grace
  /\ unseen \in BOOLEAN /\ web \in {"idle", "answer"}
  /\ since \in 0 .. Quiet /\ applied \in Starts /\ slipped \in BOOLEAN

\* A request that has changed the outputs and is not yet noticed.
Underway == unseen \/ web = "answer" \/ pc = "send"

\* While communications are lost the outputs have their start values, but for
\* what a request under way has changed, or one that was refused after it had
\* written: no other change of an output goes unnoticed (servant.c, modbus_pkt.c).
LostIsDefault == activity = 0 /\ ~Underway /\ ~slipped => out = applied

\* The outputs are taken from a master only after Quiet - 1 seconds without an
\* answered request, unless one is under way.
DefaultsWhenQuiet ==
  [][EverySecond /\ Lost => since >= Quiet - 1 \/ Underway]_vars

\* "Used on start and if communications are lost" (io_dig.c:146): no output is
\* changed to its start value when a request has been answered since.
OnlyWhenLost == [][EverySecond /\ out' # out => since >= Quiet - 1]_vars

\* A loss is noticed: from any time on, another request is answered or the
\* server takes communications for lost.
LossNoticed == []<>(activity = 0 \/ since = 0)

\* "Timeout, or we will wait forever!" (modbus.c:60): a master that is gone
\* does not keep the server from the next one.
GoneIsFreed == link = "gone" ~> link = "none"

\* Why LostIsDefault holds: a change of the outputs that is not yet noticed belongs
\* to a request that will be, and is there to be counted, or to a broken one.
Changing == unseen \/ web = "answer" \/ (pc = "send" /\ Counts(Head(stream).op))
IndInv ==
  /\ TypeOK /\ CfgWhole
  /\ pc = "send" => stream # << >>
  /\ activity = 0 /\ ~Changing /\ ~slipped => out = applied

(***************************************************************************)
(* What the code does not keep.                                            *)
(***************************************************************************)
\* While communications are lost the outputs have their start values: a broken
\* request changes them, and is not counted (modbus_pkt.c:352, 398-407, 446).
AlwaysDefault == activity = 0 /\ ~Underway => out = applied
=============================================================================
