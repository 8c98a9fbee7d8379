-------------------------------- MODULE OneWire --------------------------------
(***************************************************************************)
(* The search of a 1-Wire bus for the ROM codes of its devices            *)
(* (ow_rom_search).  A ROM is a function from bit numbers to bits; the     *)
(* bits are numbered as the loop counter i counts, from Bits down to 1.    *)
(* A bit slot is a wired AND: the bus reads 0 when a device that is still  *)
(* listening pulls it down.                                                *)
(***************************************************************************)
EXTENDS Naturals

CONSTANT Bits    \* OW_ROMCODE_SIZE * 8: 64

ASSUME BitsAssumption == Bits \in Nat \ {0}

Rom   == [1..Bits -> {0, 1}]
First == Bits + 1     \* OW_SEARCH_FIRST, greater than every bit number
Last  == 0            \* OW_LAST_DEVICE

\* The choice where both bits are present: below the last difference the search
\* starts again with ones, at it the other way is taken, above it the old way.
ChooseAgain(diff, old, i) == IF diff >= i \/ old = 1 THEN 1 ELSE 0
Choose(diff, old, i)      == IF diff > i \/ (old = 1 /\ diff # i) THEN 1 ELSE 0

\* One bit: read it and its complement, choose, write the choice
Bit(w, i, diff, id) ==
  LET bits == {d[i] : d \in w.listen}
      b    == IF bits = {0, 1} THEN Choose(diff, id[i], i) ELSE CHOOSE x \in bits : TRUE
  IN  [listen |-> {d \in w.listen : d[i] = b},
       next   |-> IF bits = {0, 1} /\ b = 1 THEN i ELSE w.next,
       id     |-> [w.id EXCEPT ![i] = b]]

\* ow_rom_search(diff, id) on a bus with the given devices: the difference to go
\* on with and the ROM it reads.  walk[i] is how far it got with bits above i.
RomSearch(devices, diff, id) ==
  LET walk[i \in 0..Bits] ==
        IF i = Bits THEN [listen |-> devices, next |-> Last, id |-> id]
        ELSE CHOOSE w \in {Bit(u, i + 1, diff, id) : u \in {walk[i + 1]}} : TRUE
  IN  CHOOSE hit \in {[diff |-> w.next, id |-> w.id] : w \in {walk[0]}} : TRUE

\* r and s have the same bits above i
Above(r, s, i)  == \A j \in i + 1..Bits : r[j] = s[j]

\* r took the way of the ones at i, and there is a device on the other way.  A
\* search that read r goes on at the last of these differences.
Branch(P, r, i) == r[i] = 1 /\ \E d \in P : d[i] = 0 /\ Above(d, r, i)
Resumes(P, r, diff) ==
  /\ diff \in {Last} \cup (1..Bits)
  /\ diff # Last => Branch(P, r, diff)
  /\ \A i \in 1..Bits : Branch(P, r, i) => diff # Last /\ diff <= i

\* The order in which a search should find ROMs: the first difference decides
AtLeast(r, s) == r = s \/ \E i \in 1..Bits : r[i] = 1 /\ s[i] = 0 /\ Above(r, s, i)
=============================================================================
