---------------------------- MODULE RequestReply ----------------------------
(***************************************************************************)
(* What a Modbus slave on a serial line promises its master, whatever the  *)
(* framing: it accepts one frame at a time, answers it at most once, and   *)
(* always comes back to listening.                                         *)
(***************************************************************************)
VARIABLES phase,     \* "listening" or "handling" one accepted frame
          answered   \* the accepted frame has been answered

rrvars == <<phase, answered>>

Init == phase = "listening" /\ answered = FALSE

\* A frame is complete; nothing else is accepted before Release.
Accept == /\ phase = "listening"
          /\ phase' = "handling"
          /\ answered' = FALSE

Answer == /\ phase = "handling"
          /\ ~answered
          /\ answered' = TRUE
          /\ UNCHANGED phase

Release == /\ phase = "handling"
           /\ phase' = "listening"
           /\ answered' = FALSE

Next == Accept \/ Answer \/ Release

Spec == Init /\ [][Next]_rrvars /\ WF_rrvars(Release)
=============================================================================
