--------------------------- MODULE HalfDuplexLine ---------------------------
(***************************************************************************)
(* What transmission on a two-wire RS485 line must look like from outside: *)
(* the driver is switched on, the reply is put on the line element by      *)
(* element, in order and once each, and only then the driver is released.  *)
(* A reply that was disturbed promises nothing: bytes of it may even be    *)
(* left over when the next one begins, which then promises nothing either. *)
(***************************************************************************)
EXTENDS Naturals, Sequences

CONSTANT Lengths     \* possible lengths of a reply

VARIABLES driver,    \* the line driver is on
          length,    \* length of the reply being sent
          line,      \* numbers of the reply's bytes put on the line so far
          calm       \* nothing has disturbed the reply

hdvars == <<driver, length, line, calm>>

Init == driver = FALSE /\ length = 0 /\ line = << >> /\ calm = TRUE

Seize == /\ ~driver
         /\ driver' = TRUE
         /\ calm' \in BOOLEAN /\ (calm => calm')
         /\ length' \in Lengths
         /\ line' = << >>

PutByte == /\ driver /\ calm /\ Len(line) < length
           /\ line' = Append(line, Len(line) + 1)
           /\ UNCHANGED <<driver, length, calm>>

Free == /\ driver /\ calm /\ Len(line) = length
        /\ driver' = FALSE
        /\ UNCHANGED <<length, line, calm>>

Disturb == /\ driver /\ calm /\ ~calm'
           /\ UNCHANGED <<driver, length, line>>

\* A disturbed reply may lose bytes, put them out again or without the driver,
\* or never end.
Garble == /\ ~calm /\ ~calm'
          /\ UNCHANGED length

Next == Seize \/ PutByte \/ Free \/ Disturb \/ Garble

Spec == Init /\ [][Next]_hdvars
=============================================================================
