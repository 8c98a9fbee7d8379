------------------------- MODULE ThermometersProofs -------------------------
(***************************************************************************)
(* Theorems about the search of 1-Wire buses and the numbering of what it  *)
(* finds, for ROMs of every length, any set of devices of any kind and any *)
(* number of slots, numbers and buses.                                     *)
(*                                                                         *)
(* A search of a bus that is left alone reads the greatest ROM first and   *)
(* goes on from each ROM to the next below it, because the place it        *)
(* resumes from is the lowest bit at which the bus still has a ROM below   *)
(* (Resumes).  So the ROMs read are always those from the last one up,     *)
(* none twice; and as each one read gets one slot, a whole scan gives      *)
(* every thermometer exactly one.                                          *)
(***************************************************************************)
EXTENDS Thermometers, FiniteSetTheorems, WellFoundedInduction, TLAPS

\* A set of numbers has a least element.
LEMMA LeastOf ==
  ASSUME NEW T, T \subseteq Nat, T # {}
  PROVE  \E x \in T : \A y \in T : x <= y
<1> DEFINE R == OpToRel(<, Nat)
<1>1. \A x, y \in Nat : x < y => <<x, y>> \in R
  BY DEF OpToRel
<1>2. IsWellFoundedOn(R, Nat)
  BY NatLessThanWellFounded
<1> HIDE DEF R
<1>3. PICK x \in T : \A y \in T : ~ (<<y, x>> \in R)
  <2>1. \E x \in T : \A y \in T : ~ (<<y, x>> \in R)
    BY <1>2, WFMin
  <2> QED
    BY <2>1
<1>4. ASSUME NEW y \in T PROVE x <= y
  <2>1. x \in Nat /\ y \in Nat
    OBVIOUS
  <2>2. ~(y < x)
    BY <1>1, <1>3, <2>1, Zenon
  <2> QED
    BY <2>1, <2>2
<1> QED
  BY <1>4

\* A bounded set of numbers has a greatest element.
LEMMA GreatestOf ==
  ASSUME NEW n \in Nat, NEW T, T \subseteq 0..n, T # {}
  PROVE  \E x \in T : \A y \in T : y <= x
<1> DEFINE U == {n - x : x \in T}
<1>1. U \subseteq Nat /\ U # {}
  <2>1. U # {}
    OBVIOUS
  <2>2. \A x \in T : n - x \in Nat
    OBVIOUS
  <2> QED
    BY <2>1, <2>2
<1> HIDE DEF U
<1>2. PICK u \in U : \A v \in U : u <= v
  BY <1>1, LeastOf
<1>3. PICK x \in T : u = n - x
  BY DEF U
<1>4. ASSUME NEW y \in T PROVE y <= x
  <2>1. n - y \in U
    BY DEF U
  <2> QED
    BY <1>2, <1>3, <2>1
<1> QED
  BY <1>4

\* Min is the least element.
LEMMA MinOf ==
  ASSUME NEW T, T \subseteq Nat, T # {}
  PROVE  Min(T) \in T /\ \A y \in T : Min(T) <= y
BY LeastOf DEF Min

\* The choice from a single candidate.
LEMMA Only ==
  ASSUME NEW a
  PROVE  (CHOOSE x \in {a} : TRUE) = a
OBVIOUS

-----------------------------------------------------------------------------
(* ow_rom_search *)

\* The state of the search before the highest bit; the states after each bit.
Start(devices, id) == [listen |-> devices, next |-> Last, id |-> id]

Steps(f, i, devices, diff, id) ==
  f = [j \in i..Bits |-> IF j = Bits THEN Start(devices, id) ELSE Bit(f[j + 1], j + 1, diff, id)]

\* The bits are walked from the highest to the lowest one.
LEMMA StepsExist ==
  ASSUME NEW devices, NEW diff, NEW id
  PROVE  \E f : Steps(f, 0, devices, diff, id)
<1> USE BitsAssumption
<1> DEFINE Bad == {i \in 0..Bits : ~ \E f : Steps(f, i, devices, diff, id)}
<1>1. SUFFICES ASSUME Bad # {} PROVE FALSE
  OBVIOUS
<1>2. PICK x \in Bad : \A y \in Bad : y <= x
  BY <1>1, GreatestOf
<1>3. x \in 0..Bits
  OBVIOUS
<1>4. Steps([j \in Bits..Bits |-> Start(devices, id)], Bits, devices, diff, id)
  BY DEF Steps
<1>5. x < Bits
  BY <1>3, <1>4
<1>6. PICK f : Steps(f, x + 1, devices, diff, id)
  BY <1>2, <1>3, <1>5
<1> DEFINE g == [j \in x..Bits |-> IF j = x THEN Bit(f[x + 1], x + 1, diff, id) ELSE f[j]]
<1>7. ASSUME NEW j \in x..Bits
      PROVE  g[j] = IF j = Bits THEN Start(devices, id) ELSE Bit(g[j + 1], j + 1, diff, id)
  <2>1. CASE j = x
    BY <2>1, <1>3, <1>5
  <2>2. CASE j # x
    <3>1. j \in x + 1..Bits
      BY <2>2, <1>3
    <3>2. f[j] = IF j = Bits THEN Start(devices, id) ELSE Bit(f[j + 1], j + 1, diff, id)
      BY <3>1, <1>6 DEF Steps
    <3>3. j # Bits => j + 1 \in x..Bits /\ j + 1 # x
      BY <3>1, <1>3
    <3> QED
      BY <3>1, <3>2, <3>3, <2>2
  <2> QED
    BY <2>1, <2>2
<1>8. g = [j \in x..Bits |-> g[j]]
  OBVIOUS
<1> HIDE DEF g
<1>9. Steps(g, x, devices, diff, id)
  BY <1>7, <1>8 DEF Steps
<1> QED
  BY <1>9

\* What ow_rom_search returns is the state after the lowest bit.
LEMMA SearchSteps ==
  ASSUME NEW devices, NEW diff, NEW id
  PROVE  \E f : /\ Steps(f, 0, devices, diff, id)
                /\ RomSearch(devices, diff, id) = [diff |-> f[0].next, id |-> f[0].id]
<1> DEFINE walk[i \in 0..Bits] ==
             IF i = Bits THEN [listen |-> devices, next |-> Last, id |-> id]
             ELSE CHOOSE w \in {Bit(u, i + 1, diff, id) : u \in {walk[i + 1]}} : TRUE
<1>1. walk = CHOOSE f : f = [i \in 0..Bits |->
                 IF i = Bits THEN [listen |-> devices, next |-> Last, id |-> id]
                 ELSE CHOOSE w \in {Bit(u, i + 1, diff, id) : u \in {f[i + 1]}} : TRUE]
  OBVIOUS
<1>2. RomSearch(devices, diff, id) =
        CHOOSE hit \in {[diff |-> w.next, id |-> w.id] : w \in {walk[0]}} : TRUE
  BY DEF RomSearch
<1> HIDE DEF walk
<1>3. \A f : [i \in 0..Bits |->
                 IF i = Bits THEN [listen |-> devices, next |-> Last, id |-> id]
                 ELSE CHOOSE w \in {Bit(u, i + 1, diff, id) : u \in {f[i + 1]}} : TRUE]
           = [i \in 0..Bits |-> IF i = Bits THEN Start(devices, id)
                                 ELSE Bit(f[i + 1], i + 1, diff, id)]
  <2>1. \A a, i : {Bit(u, i + 1, diff, id) : u \in {a}} = {Bit(a, i + 1, diff, id)}
    OBVIOUS
  <2>2. \A a, i : (CHOOSE w \in {Bit(u, i + 1, diff, id) : u \in {a}} : TRUE) = Bit(a, i + 1, diff, id)
    BY <2>1, Only
  <2> QED
    BY <2>2 DEF Start
<1>4. walk = CHOOSE f : Steps(f, 0, devices, diff, id)
  BY <1>1, <1>3 DEF Steps
<1>5. Steps(walk, 0, devices, diff, id)
  BY <1>4, StepsExist
<1>6. {[diff |-> w.next, id |-> w.id] : w \in {walk[0]}} = {[diff |-> walk[0].next, id |-> walk[0].id]}
  OBVIOUS
<1>7. RomSearch(devices, diff, id) = [diff |-> walk[0].next, id |-> walk[0].id]
  BY <1>2, <1>6, Only
<1> QED
  BY <1>5, <1>7

\* Among the devices that share r's bits above i, both values of bit i occur.
Fork(P, r, i) == \E d, e \in P : d[i] = 0 /\ e[i] = 1 /\ Above(d, r, i) /\ Above(e, r, i)

\* The search after the bits above i: the devices that still listen are those
\* that share the bits it chose, its last difference is the lowest place where
\* the bus has a ROM below, and where both bits answered it chose as told.
Reached(w, i, P, diff, old) ==
  /\ w.id \in Rom /\ \A j \in 1..i : w.id[j] = old[j]
  /\ w.listen = {d \in P : Above(d, w.id, i)} /\ w.listen # {}
  /\ w.next \in {Last} \cup (i + 1..Bits)
  /\ w.next # Last => Branch(P, w.id, w.next)
  /\ \A j \in i + 1..Bits : Branch(P, w.id, j) => w.next # Last /\ w.next <= j
  /\ \A j \in i + 1..Bits : Fork(P, w.id, j) => w.id[j] = Choose(diff, old[j], j)

\* One bit of the search (the loop body of ow_rom_search).
LEMMA BitReached ==
  ASSUME NEW P \in SUBSET Rom, NEW diff \in 0..First, NEW old \in Rom,
         NEW k \in 1..Bits, NEW u, Reached(u, k, P, diff, old)
  PROVE  Reached(Bit(u, k, diff, old), k - 1, P, diff, old)
<1> USE BitsAssumption DEF First, Last
<1> DEFINE bits == {d[k] : d \in u.listen}
           b    == IF bits = {0, 1} THEN Choose(diff, old[k], k) ELSE CHOOSE x \in bits : TRUE
           w    == Bit(u, k, diff, old)
<1>1. /\ w.listen = {d \in u.listen : d[k] = b}
      /\ w.next = IF bits = {0, 1} /\ b = 1 THEN k ELSE u.next
      /\ w.id = [u.id EXCEPT ![k] = b]
  BY DEF Bit
<1>2. /\ u.id \in Rom /\ \A j \in 1..k : u.id[j] = old[j]
      /\ u.listen = {d \in P : Above(d, u.id, k)} /\ u.listen # {}
      /\ u.next \in {Last} \cup (k + 1..Bits)
      /\ u.next # Last => Branch(P, u.id, u.next)
      /\ \A j \in k + 1..Bits : Branch(P, u.id, j) => u.next # Last /\ u.next <= j
      /\ \A j \in k + 1..Bits : Fork(P, u.id, j) => u.id[j] = Choose(diff, old[j], j)
  BY DEF Reached
<1>3. \A d \in u.listen : d[k] \in {0, 1}
  BY <1>2 DEF Rom
<1>4. bits # {} /\ bits \subseteq {0, 1}
  <2>1. PICK d \in u.listen : TRUE
    BY <1>2
  <2>2. d[k] \in bits
    BY <2>1
  <2> QED
    BY <2>2, <1>3
<1>5. b \in bits
  <2>1. CASE bits = {0, 1}
    BY <2>1 DEF Choose
  <2>2. CASE bits # {0, 1}
    <3>1. b = CHOOSE x \in bits : TRUE
      BY <2>2
    <3> HIDE DEF b, bits
    <3> QED
      BY <3>1, <1>4
  <2> QED
    BY <2>1, <2>2
<1>6. b \in {0, 1}
  BY <1>4, <1>5
<1>7. PICK d0 \in u.listen : d0[k] = b
  BY <1>5
<1> HIDE DEF w
<1>8. bits = {0, 1} <=> Fork(P, u.id, k)
  <2>1. bits = {0, 1} <=> (0 \in bits /\ 1 \in bits)
    BY <1>4
  <2>2. 0 \in bits <=> \E d \in P : d[k] = 0 /\ Above(d, u.id, k)
    BY <1>2
  <2>3. 1 \in bits <=> \E d \in P : d[k] = 1 /\ Above(d, u.id, k)
    BY <1>2
  <2> HIDE DEF bits
  <2> QED
    BY <2>1, <2>2, <2>3 DEF Fork
<1>9. bits = {0, 1} => b = Choose(diff, old[k], k)
  OBVIOUS
<1> HIDE DEF b, bits
<1>10. w.id \in Rom /\ w.id[k] = b /\ \A j \in (1..Bits) \ {k} : w.id[j] = u.id[j]
  BY <1>1, <1>2, <1>6 DEF Rom
<1>11. \A d, j : j \in k..Bits => (Above(d, w.id, j) <=> Above(d, u.id, j))
  BY <1>10 DEF Above
<1>12. \A d : Above(d, w.id, k - 1) <=> (Above(d, u.id, k) /\ d[k] = b)
  <2>1. k - 1 + 1 = k
    OBVIOUS
  <2>2. k..Bits = {k} \cup (k + 1..Bits)
    OBVIOUS
  <2> QED
    BY <2>1, <2>2, <1>10 DEF Above
<1>13. \A j \in k + 1..Bits : /\ Branch(P, w.id, j) <=> Branch(P, u.id, j)
                              /\ Fork(P, w.id, j) <=> Fork(P, u.id, j)
  <2>1. ASSUME NEW j \in k + 1..Bits
        PROVE  w.id[j] = u.id[j] /\ \A d : Above(d, w.id, j) <=> Above(d, u.id, j)
    BY <1>10, <1>11
  <2> QED
    BY <2>1 DEF Branch, Fork
<1>14. Fork(P, w.id, k) <=> Fork(P, u.id, k)
  BY <1>11 DEF Fork
<1>15. Branch(P, w.id, k) <=> (Fork(P, u.id, k) /\ b = 1)
  <2>1. \A d : Above(d, w.id, k) <=> Above(d, u.id, k)
    BY <1>11
  <2>2. d0 \in P /\ Above(d0, u.id, k)
    BY <1>2, <1>7
  <2> QED
    BY <2>1, <2>2, <1>7, <1>10 DEF Branch, Fork
<1>16. w.listen = {d \in P : Above(d, w.id, k - 1)} /\ w.listen # {}
  <2>1. w.listen # {}
    BY <1>1, <1>7
  <2> QED
    BY <2>1, <1>1, <1>2, <1>12
<1>17. \A j \in 1..k - 1 : w.id[j] = old[j]
  BY <1>2, <1>10
<1>18. \A j \in k..Bits : j = k \/ j \in k + 1..Bits
  OBVIOUS
<1>19. \A j \in k..Bits : Fork(P, w.id, j) => w.id[j] = Choose(diff, old[j], j)
  <2>1. Fork(P, w.id, k) => w.id[k] = Choose(diff, old[k], k)
    BY <1>8, <1>9, <1>10, <1>14
  <2>2. ASSUME NEW j \in k + 1..Bits, Fork(P, w.id, j) PROVE w.id[j] = Choose(diff, old[j], j)
    BY <2>2, <1>2, <1>10, <1>13
  <2> QED
    BY <2>1, <2>2, <1>18
<1>20. w.next \in {Last} \cup (k..Bits)
  BY <1>1, <1>2
<1>21. w.next # Last => Branch(P, w.id, w.next)
  <2>1. CASE bits = {0, 1} /\ b = 1
    BY <2>1, <1>1, <1>8, <1>15
  <2>2. CASE ~(bits = {0, 1} /\ b = 1)
    BY <2>2, <1>1, <1>2, <1>13
  <2> QED
    BY <2>1, <2>2
<1>22. \A j \in k..Bits : Branch(P, w.id, j) => w.next # Last /\ w.next <= j
  <2>1. CASE bits = {0, 1} /\ b = 1
    BY <2>1, <1>1
  <2>2. CASE ~(bits = {0, 1} /\ b = 1)
    <3>1. ~Branch(P, w.id, k)
      BY <2>2, <1>8, <1>15
    <3> QED
      BY <3>1, <2>2, <1>1, <1>2, <1>13, <1>18
  <2> QED
    BY <2>1, <2>2
<1>23. k - 1 + 1 = k
  OBVIOUS
<1>24. Reached(w, k - 1, P, diff, old)
  BY <1>10, <1>16, <1>17, <1>19, <1>20, <1>21, <1>22, <1>23 DEF Reached
<1> QED
  BY <1>24 DEF w

\* The whole search, by induction over the bits: no bit is the first to go wrong.
LEMMA SearchReaches ==
  ASSUME NEW P \in SUBSET Rom, P # {}, NEW diff \in 0..First, NEW old \in Rom
  PROVE  \E w : /\ Reached(w, 0, P, diff, old)
                /\ RomSearch(P, diff, old) = [diff |-> w.next, id |-> w.id]
<1> USE BitsAssumption DEF First, Last
<1>1. PICK f : /\ Steps(f, 0, P, diff, old)
               /\ RomSearch(P, diff, old) = [diff |-> f[0].next, id |-> f[0].id]
  BY SearchSteps
<1>2. \A i \in 0..Bits : f[i] = IF i = Bits THEN Start(P, old) ELSE Bit(f[i + 1], i + 1, diff, old)
  BY <1>1 DEF Steps
<1> DEFINE Bad == {i \in 0..Bits : ~Reached(f[i], i, P, diff, old)}
<1>3. ASSUME Bad # {} PROVE FALSE
  <2>1. PICK x \in Bad : \A y \in Bad : y <= x
    BY <1>3, GreatestOf
  <2>2. x \in 0..Bits /\ ~Reached(f[x], x, P, diff, old)
    OBVIOUS
  <2>3. CASE x = Bits
    <3>1. f[x] = Start(P, old)
      BY <2>3, <1>2
    <3>2. x + 1..Bits = {}
      BY <2>3
    <3>3. \A d : Above(d, old, x)
      BY <3>2 DEF Above
    <3>4. Reached(Start(P, old), x, P, diff, old)
      BY <3>2, <3>3, <2>3 DEF Reached, Start
    <3> QED
      BY <3>1, <3>4, <2>2
  <2>4. CASE x # Bits
    <3>1. x + 1 \in 1..Bits /\ x + 1 - 1 = x
      BY <2>2, <2>4
    <3>2. Reached(f[x + 1], x + 1, P, diff, old)
      BY <3>1, <2>1
    <3>3. Reached(Bit(f[x + 1], x + 1, diff, old), x + 1 - 1, P, diff, old)
      BY <3>1, <3>2, BitReached
    <3> QED
      BY <3>1, <3>3, <2>2, <2>4, <1>2
  <2> QED
    BY <2>3, <2>4
<1>4. Reached(f[0], 0, P, diff, old)
  BY <1>3
<1> QED
  BY <1>1, <1>4

-----------------------------------------------------------------------------
(* The order of the ROMs *)

\* At the highest bit at which they differ, r has a zero.
Below(r, s) == \E i \in 1..Bits : r[i] = 0 /\ s[i] = 1 /\ Above(r, s, i)

\* Two different ROMs differ at a highest bit.
LEMMA FirstDifference ==
  ASSUME NEW r \in Rom, NEW s \in Rom, r # s
  PROVE  \E i \in 1..Bits : r[i] # s[i] /\ Above(r, s, i)
<1> USE BitsAssumption
<1> DEFINE D == {i \in 1..Bits : r[i] # s[i]}
<1>1. D # {}
  BY DEF Rom
<1>2. D \subseteq 0..Bits
  OBVIOUS
<1>3. PICK i \in D : \A j \in D : j <= i
  <2> HIDE DEF D
  <2> QED
    BY <1>1, <1>2, GreatestOf
<1>4. \A j \in i + 1..Bits : r[j] = s[j]
  BY <1>3
<1> QED
  BY <1>4 DEF Above

\* AtLeast and Below are complements, and Below is a strict total order.
LEMMA AtLeastNotBelow ==
  ASSUME NEW r \in Rom, NEW s \in Rom
  PROVE  AtLeast(r, s) <=> ~Below(r, s)
<1> USE BitsAssumption
<1>1. AtLeast(r, s) <=> r = s \/ \E i \in 1..Bits : r[i] = 1 /\ s[i] = 0 /\ Above(r, s, i)
  BY DEF AtLeast, Above
<1>2. ASSUME AtLeast(r, s), Below(r, s) PROVE FALSE
  <2>1. PICK i \in 1..Bits : r[i] = 0 /\ s[i] = 1 /\ Above(r, s, i)
    BY <1>2 DEF Below
  <2>2. PICK j \in 1..Bits : r[j] = 1 /\ s[j] = 0 /\ Above(r, s, j)
    BY <2>1, <1>1, <1>2
  <2>3. i < j \/ j < i
    BY <2>1, <2>2
  <2> QED
    BY <2>1, <2>2, <2>3 DEF Above
<1>3. ASSUME ~Below(r, s), r # s PROVE AtLeast(r, s)
  <2>1. PICK i \in 1..Bits : r[i] # s[i] /\ Above(r, s, i)
    BY <1>3, FirstDifference
  <2>2. r[i] \in {0, 1} /\ s[i] \in {0, 1}
    BY DEF Rom
  <2>3. ~(r[i] = 0 /\ s[i] = 1)
    BY <1>3, <2>1 DEF Below
  <2> QED
    BY <1>1, <2>1, <2>2, <2>3
<1> QED
  BY <1>1, <1>2, <1>3

LEMMA BelowTransitive ==
  ASSUME NEW r \in Rom, NEW s \in Rom, NEW t \in Rom, Below(r, s), Below(s, t)
  PROVE  Below(r, t)
<1> USE BitsAssumption
<1>1. PICK i \in 1..Bits : r[i] = 0 /\ s[i] = 1 /\ Above(r, s, i)
  BY DEF Below
<1>2. PICK j \in 1..Bits : s[j] = 0 /\ t[j] = 1 /\ Above(s, t, j)
  BY DEF Below
<1>3. CASE i < j
  <2>1. r[j] = 0 /\ Above(r, t, j)
    BY <1>1, <1>2, <1>3 DEF Above
  <2> QED
    BY <2>1, <1>2 DEF Below
<1>4. CASE j < i
  <2>1. t[i] = 1 /\ Above(r, t, i)
    BY <1>1, <1>2, <1>4 DEF Above
  <2> QED
    BY <2>1, <1>1 DEF Below
<1> QED
  BY <1>1, <1>2, <1>3, <1>4

LEMMA BelowIrreflexive ==
  ASSUME NEW r
  PROVE  ~Below(r, r)
BY DEF Below

LEMMA BelowTotal ==
  ASSUME NEW r \in Rom, NEW s \in Rom, r # s
  PROVE  Below(r, s) \/ Below(s, r)
<1>1. PICK i \in 1..Bits : r[i] # s[i] /\ Above(r, s, i)
  BY FirstDifference
<1>2. r[i] \in {0, 1} /\ s[i] \in {0, 1}
  BY DEF Rom
<1>3. Above(s, r, i)
  BY <1>1 DEF Above
<1> QED
  BY <1>1, <1>2, <1>3 DEF Below

\* A search finds a device of the bus, and leaves the place to resume from.
LEMMA SearchFinds ==
  ASSUME NEW P \in SUBSET Rom, P # {}, NEW diff \in 0..First, NEW old \in Rom
  PROVE  LET hit == RomSearch(P, diff, old)
         IN  /\ hit.id \in P
             /\ Resumes(P, hit.id, hit.diff)
             /\ \A i \in 1..Bits : Fork(P, hit.id, i) => hit.id[i] = Choose(diff, old[i], i)
<1> USE BitsAssumption
<1>1. PICK w : /\ Reached(w, 0, P, diff, old)
               /\ RomSearch(P, diff, old) = [diff |-> w.next, id |-> w.id]
  BY SearchReaches
<1>2. PICK d \in w.listen : TRUE
  BY <1>1 DEF Reached
<1>3. d \in P /\ Above(d, w.id, 0) /\ w.id \in Rom
  BY <1>1, <1>2 DEF Reached
<1>4. d = w.id
  BY <1>3 DEF Above, Rom
<1> QED
  BY <1>1, <1>3, <1>4 DEF Reached, Resumes

\* "Last device" is returned exactly when no ROM of the bus is below.
LEMMA DoneAtLeast ==
  ASSUME NEW P \in SUBSET Rom, NEW r \in P, NEW diff, Resumes(P, r, diff)
  PROVE  diff = Last <=> \A d \in P : AtLeast(d, r)
<1> USE BitsAssumption
<1>1. \A d \in P : AtLeast(d, r) <=> ~Below(d, r)
  BY AtLeastNotBelow
<1>2. (\E d \in P : Below(d, r)) <=> \E i \in 1..Bits : Branch(P, r, i)
  BY DEF Below, Branch
<1>3. diff # Last <=> \E i \in 1..Bits : Branch(P, r, i)
  BY DEF Resumes, Last
<1> QED
  BY <1>1, <1>2, <1>3

\* The first search of a bus finds its greatest ROM.
LEMMA FirstFindsGreatest ==
  ASSUME NEW P \in SUBSET Rom, P # {}, NEW old \in Rom
  PROVE  \A d \in P : AtLeast(RomSearch(P, First, old).id, d)
<1> USE BitsAssumption
<1> DEFINE h == RomSearch(P, First, old).id
<1>1. First \in 0..First
  BY DEF First
<1>2. h \in P /\ \A i \in 1..Bits : Fork(P, h, i) => h[i] = Choose(First, old[i], i)
  BY <1>1, SearchFinds
<1>3. \A i \in 1..Bits : Choose(First, old[i], i) = 1
  BY DEF Choose, First
<1> HIDE DEF h
<1>4. ASSUME NEW d \in P, Below(h, d) PROVE FALSE
  <2>1. PICK i \in 1..Bits : h[i] = 0 /\ d[i] = 1 /\ Above(h, d, i)
    BY <1>4 DEF Below
  <2>2. Above(d, h, i) /\ Above(h, h, i)
    BY <2>1 DEF Above
  <2>3. Fork(P, h, i)
    BY <1>2, <2>1, <2>2 DEF Fork
  <2> QED
    BY <1>2, <1>3, <2>1, <2>3
<1>5. \A d \in P : AtLeast(h, d)
  BY <1>2, <1>4, AtLeastNotBelow
<1> QED
  BY <1>5 DEF h

\* A search that resumes from a ROM of the bus finds the greatest ROM below it
\* (ow_rom_search with the diff it returned before).
THEOREM NextFindsNext ==
  ASSUME NEW P \in SUBSET Rom, NEW old \in P, NEW diff, Resumes(P, old, diff), diff # Last
  PROVE  LET h == RomSearch(P, diff, old).id
         IN  Below(h, old) /\ \A d \in P : Below(d, old) => AtLeast(h, d)
<1> USE BitsAssumption
<1> DEFINE h == RomSearch(P, diff, old).id
<1>1. diff \in 1..Bits /\ Branch(P, old, diff) /\ \A i \in 1..Bits : Branch(P, old, i) => diff <= i
  BY DEF Resumes
<1>2. h \in P /\ \A i \in 1..Bits : Fork(P, h, i) => h[i] = Choose(diff, old[i], i)
  <2>1. P # {} /\ diff \in 0..First /\ old \in Rom
    BY <1>1 DEF First
  <2> QED
    BY <2>1, SearchFinds
<1> HIDE DEF h
<1>3. h \in Rom /\ old \in Rom /\ old[diff] = 1
  BY <1>1, <1>2 DEF Branch
<1>4. \A i \in 1..Bits : h[i] \in {0, 1} /\ old[i] \in {0, 1}
  BY <1>3 DEF Rom
<1>5. ASSUME NEW i \in 1..Bits, NEW d \in P, d[i] # h[i], Above(d, h, i)
      PROVE  Fork(P, h, i)
  <2>1. d[i] \in {0, 1} /\ h[i] \in {0, 1}
    BY <1>4 DEF Rom
  <2>2. Above(h, h, i)
    BY DEF Above
  <2>3. CASE h[i] = 0
    BY <2>1, <2>2, <2>3, <1>2, <1>5 DEF Fork
  <2>4. CASE h[i] = 1
    BY <2>1, <2>2, <2>4, <1>2, <1>5 DEF Fork
  <2> QED
    BY <2>1, <2>3, <2>4
<1>6. h # old
  <2>1. SUFFICES ASSUME h = old PROVE FALSE
    OBVIOUS
  <2>2. PICK d \in P : d[diff] = 0 /\ Above(d, old, diff)
    BY <1>1 DEF Branch
  <2>3. Fork(P, h, diff)
    BY <2>1, <2>2, <1>1, <1>3, <1>5
  <2>4. h[diff] = Choose(diff, old[diff], diff)
    BY <2>3, <1>1, <1>2
  <2>5. Choose(diff, old[diff], diff) = 0
    BY <1>1, <1>3 DEF Choose
  <2>6. h[diff] = 1
    BY <2>1, <1>3
  <2> QED
    BY <2>4, <2>5, <2>6
<1>7. PICK k \in 1..Bits : h[k] # old[k] /\ Above(h, old, k)
  BY <1>3, <1>6, FirstDifference
<1>8. Above(old, h, k) /\ old[k] # h[k]
  BY <1>7 DEF Above
<1>9. h[k] = Choose(diff, old[k], k)
  BY <1>2, <1>5, <1>8
<1>10. k <= diff
  BY <1>1, <1>4, <1>7, <1>9 DEF Choose
<1>11. ~(k < diff)
  <2>1. SUFFICES ASSUME k < diff PROVE FALSE
    OBVIOUS
  <2>2. h[diff] = 1 /\ Above(h, old, diff)
    BY <2>1, <1>1, <1>3, <1>7 DEF Above
  <2>3. PICK d \in P : d[diff] = 0 /\ Above(d, old, diff)
    BY <1>1 DEF Branch
  <2>4. Above(d, h, diff)
    BY <2>2, <2>3 DEF Above
  <2>5. Fork(P, h, diff)
    BY <2>2, <2>3, <2>4, <1>1, <1>5
  <2>6. h[diff] = Choose(diff, old[diff], diff)
    BY <2>5, <1>1, <1>2
  <2> QED
    BY <2>2, <2>6, <1>1, <1>3 DEF Choose
<1>12. k = diff
  BY <1>1, <1>10, <1>11
<1>13. h[diff] = 0 /\ Above(h, old, diff)
  BY <1>4, <1>3, <1>7, <1>12
<1>14. Below(h, old)
  BY <1>1, <1>3, <1>13 DEF Below
<1>15. ASSUME NEW d \in P, Below(d, old), Below(h, d) PROVE FALSE
  <2>1. PICK i \in 1..Bits : d[i] = 0 /\ old[i] = 1 /\ Above(d, old, i)
    BY <1>15 DEF Below
  <2>2. Branch(P, old, i)
    BY <2>1 DEF Branch
  <2>3. diff <= i
    BY <1>1, <2>2
  <2>4. PICK j \in 1..Bits : h[j] = 0 /\ d[j] = 1 /\ Above(h, d, j)
    BY <1>15 DEF Below
  <2>5. Above(d, h, j)
    BY <2>4 DEF Above
  <2>6. h[j] = Choose(diff, old[j], j)
    BY <2>4, <2>5, <1>2, <1>5
  <2>7. diff <= j
    BY <2>4, <2>6, <1>1 DEF Choose
  <2>8. CASE i < j
    <3>1. h[j] = old[j] \/ j = diff
      BY <1>13, <2>7, <1>1 DEF Above
    <3>2. d[j] = old[j]
      BY <2>1, <2>8 DEF Above
    <3>3. j # diff
      BY <2>3, <2>8, <1>1
    <3> QED
      BY <3>1, <3>2, <3>3, <2>4
  <2>9. CASE j < i
    <3>1. h[i] = 0
      BY <2>1, <2>4, <2>9 DEF Above
    <3>2. i # diff
      BY <2>7, <2>9, <1>1
    <3>3. i \in diff + 1..Bits
      BY <3>2, <2>1, <2>3, <1>1
    <3>4. h[i] = 1
      BY <3>3, <2>1, <1>13 DEF Above
    <3> QED
      BY <3>1, <3>4
  <2> QED
    BY <2>1, <2>4, <2>8, <2>9
<1>16. \A d \in P : Below(d, old) => AtLeast(h, d)
  BY <1>2, <1>15, AtLeastNotBelow
<1> QED
  BY <1>14, <1>16 DEF h

-----------------------------------------------------------------------------
(* Types *)

\* A scan under way is at a bus.
TypeInv == TypeOK /\ (Scanning => scan.bus \in Bus)

Scans == [bus : Bus \cup {Out}, diff : 0..First, id : Devices \cup {None}]
Finds == [id : Devices, bus : Bus]

\* The codes that stand for no device are not devices.
LEMMA Roms ==
  /\ Devices \subseteq Rom /\ None \in Rom /\ None \notin Devices
  /\ Error \notin Devices
BY ThermometersAssumption DEF Rom, None, Error

\* What a search of a bus that answers finds is a device of that bus.
LEMMA HitOnBus ==
  ASSUME TypeOK, Answers(scan.bus),
         NEW hit, hit = RomSearch(Plugged(scan.bus), scan.diff, scan.id)
  PROVE  /\ hit.id \in Plugged(scan.bus) /\ hit.id \in Devices
         /\ Resumes(Plugged(scan.bus), hit.id, hit.diff) /\ hit.diff \in 0..First
<1> USE BitsAssumption
<1>1. Plugged(scan.bus) \in SUBSET Rom /\ Plugged(scan.bus) # {}
  BY Roms DEF Plugged, Answers
<1>2. scan.diff \in 0..First /\ scan.id \in Rom
  BY Roms DEF TypeOK
<1>3. hit.id \in Plugged(scan.bus) /\ Resumes(Plugged(scan.bus), hit.id, hit.diff)
  BY <1>1, <1>2, SearchFinds
<1>4. hit.diff \in 0..First
  BY <1>3 DEF Resumes, First, Last
<1>5. hit.id \in Devices
  BY <1>3 DEF Plugged
<1> QED
  BY <1>3, <1>4, <1>5

\* The entries of the map.
LEMMA Typed ==
  ASSUME TypeOK
  PROVE  /\ \A n \in Number : cfg.map[n].id \in Devices \cup {None}
         /\ \A n \in Number : cfg.map[n].index \in Number \cup {NoIndex}
BY DEF TypeOK, Configs, Entry

\* A device in the map is at the first of its entries.
LEMMA FirstEntry ==
  ASSUME NEW r
  PROVE  EntriesOf(r) # {} =>
           /\ Min(EntriesOf(r)) \in Number /\ cfg.map[Min(EntriesOf(r))].id = r
           /\ \A n \in Number : cfg.map[n].id = r => Min(EntriesOf(r)) <= n
<1>1. EntriesOf(r) \subseteq Nat
  BY ThermometersAssumption DEF EntriesOf, Number
<1> QED
  BY <1>1, MinOf DEF EntriesOf

\* The first empty entry is one.
LEMMA FirstEmpty ==
  LET E == {n \in Number : Empty(n)}
  IN  E # {} => Min(E) \in Number /\ Empty(Min(E))
<1> DEFINE E == {n \in Number : Empty(n)}
<1>1. E \subseteq Nat
  BY ThermometersAssumption DEF Number
<1>2. E # {} => Min(E) \in E
  BY <1>1, MinOf
<1> QED
  BY <1>2

\* The number of a device with a number is a number.
LEMMA NumberType ==
  ASSUME TypeOK, NEW r, Numbered(r)
  PROVE  NumberOf(r) \in Number
BY FirstEntry, Typed DEF Numbered, NumberOf

\* A scan that begins, and none.
LEMMA FirstIdle ==
  /\ FirstBus \in Scans /\ FirstBus.bus = 0 /\ 0 \in Bus /\ FirstBus.diff = First
  /\ Idle \in Scans /\ Idle.bus = Out /\ Out \notin Bus /\ FirstBus # Idle
<1> USE ThermometersAssumption, BitsAssumption
<1>1. FirstBus \in Scans /\ FirstBus.bus = 0 /\ 0 \in Bus /\ FirstBus.diff = First
  BY DEF FirstBus, Scans, Bus, First
<1>2. Idle \in Scans /\ Idle.bus = Out /\ Out \notin Bus
  BY DEF Idle, Scans, Bus, Out, First, Last
<1> QED
  BY <1>1, <1>2

\* The second scan and a restart begin with no slot, at the first bus if 1-Wire is
\* switched on (init_temperature).
LEMMA ScanBegins ==
  ASSUME Rescan \/ Restart
  PROVE  /\ found' = <<>> /\ read' = <<>> /\ temp' = ClearTemp
         /\ calm' = TRUE /\ edited' = FALSE
         /\ scan' = IF Enabled(cfg') THEN FirstBus ELSE Idle
<1>1. CASE Rescan
  BY <1>1, Zenon DEF Rescan, InitTemperature
<1>2. CASE Restart
  BY <1>2, Zenon DEF Restart, InitTemperature
<1> QED
  BY <1>1, <1>2

\* The initial state is typed.
LEMMA InitType == Init => TypeInv
<1> SUFFICES ASSUME Init PROVE TypeInv
  OBVIOUS
<1> USE ThermometersAssumption, BitsAssumption
<1>1. at \in [Devices -> Bus \cup {Out}] /\ shorted \in SUBSET Bus
  BY DEF Init
<1>2. found \in Seq(Finds) /\ Len(found) <= NTemp /\ read \in Seq(Devices)
  BY DEF Init
<1>3. temp \in [Slot -> Devices \cup {Error, Zero}] /\ place \in [Number -> Slot]
  BY DEF Init, Slot
<1>4. cfg \in Configs /\ saved \in Configs
  <2>1. Blank \in Entry
    BY DEF Blank, Entry, Number
  <2>2. \A map \in Left : map \in [Number -> Entry]
    BY <2>1 DEF Left, Entry
  <2> QED
    BY <2>2 DEF Init, Configs
<1>5. scan \in Scans /\ (Scanning => scan.bus \in Bus)
  BY FirstIdle DEF Init, Scanning
<1>6. rescanned \in BOOLEAN /\ events \in 0..MaxEvents /\ calm \in BOOLEAN /\ edited \in BOOLEAN
  <2>1. events \in 0..MaxEvents
    BY DEF Init
  <2>2. rescanned = FALSE /\ calm = TRUE /\ edited = FALSE
    BY Zenon DEF Init
  <2> QED
    BY <2>1, <2>2
<1> QED
  BY <1>1, <1>2, <1>3, <1>4, <1>5, <1>6 DEF TypeInv, TypeOK, Scans, Configs, Finds

\* Every step keeps the types: no slot beyond the last is written.
LEMMA NextType == TypeInv /\ [Next]_vars => TypeInv'
<1> SUFFICES ASSUME TypeInv, [Next]_vars PROVE TypeInv'
  OBVIOUS
<1> USE ThermometersAssumption, BitsAssumption
<1>0. TypeOK /\ (Scanning => scan.bus \in Bus)
  BY DEF TypeInv
<1>a. /\ at \in [Devices -> Bus \cup {Out}] /\ shorted \in SUBSET Bus
      /\ found \in Seq(Finds) /\ Len(found) <= NTemp
      /\ temp \in [Slot -> Devices \cup {Error, Zero}]
      /\ place \in [Number -> Slot]
      /\ cfg \in Configs /\ saved \in Configs
      /\ scan \in Scans
      /\ rescanned \in BOOLEAN /\ events \in 0..MaxEvents
      /\ read \in Seq(Devices) /\ calm \in BOOLEAN /\ edited \in BOOLEAN
  BY <1>0 DEF TypeOK, Scans, Configs, Finds
<1>b. Rescan \/ Restart =>
        /\ found' \in Seq(Finds) /\ Len(found') <= NTemp
        /\ temp' \in [Slot -> Devices \cup {Error, Zero}]
        /\ scan' \in Scans /\ (scan' # Idle => scan'.bus \in Bus)
        /\ read' \in Seq(Devices) /\ calm' \in BOOLEAN /\ edited' \in BOOLEAN
  <2> SUFFICES ASSUME Rescan \/ Restart
               PROVE  /\ found' \in Seq(Finds) /\ Len(found') <= NTemp
                      /\ temp' \in [Slot -> Devices \cup {Error, Zero}]
                      /\ scan' \in Scans /\ (scan' # Idle => scan'.bus \in Bus)
                      /\ read' \in Seq(Devices) /\ calm' \in BOOLEAN /\ edited' \in BOOLEAN
    OBVIOUS
  <2>1. scan' \in Scans /\ (scan' # Idle => scan'.bus \in Bus)
    BY ScanBegins, FirstIdle
  <2>2. ClearTemp \in [Slot -> Devices \cup {Error, Zero}]
    BY DEF ClearTemp
  <2>3. calm' \in BOOLEAN /\ edited' \in BOOLEAN
    BY ScanBegins, Zenon
  <2>4. found' \in Seq(Finds) /\ Len(found') <= NTemp /\ read' \in Seq(Devices)
    <3>1. << >> \in Seq(Finds) /\ << >> \in Seq(Devices) /\ Len(<< >>) <= NTemp
      OBVIOUS
    <3>2. found' = << >> /\ read' = << >>
      BY ScanBegins
    <3> HIDE ThermometersAssumption, BitsAssumption
    <3> QED
      BY <3>1, <3>2, Zenon
  <2> QED
    BY <2>1, <2>2, <2>3, <2>4, ScanBegins
<1>1. CASE Search
  <2>1. scan.bus \in Bus /\ Len(found) < NTemp
    BY <1>0, <1>1 DEF Search, SearchOn
  <2>2. CASE Answers(scan.bus)
    <3>1. PICK hit \in {RomSearch(Plugged(scan.bus), scan.diff, scan.id)} :
            /\ scan' = [scan EXCEPT !.diff = hit.diff, !.id = hit.id]
            /\ read' = Append(read, hit.id)
            /\ IF Skip(hit) \/ Kind[hit.id] = "serial"
               THEN UNCHANGED <<found, place, cfg>>
               ELSE /\ found' = Append(found, [id |-> hit.id, bus |-> scan.bus])
                    /\ AddFound(hit.id, NewSlot)
      BY <1>1, <2>2 DEF Search
    <3>2. hit.id \in Devices /\ hit.diff \in 0..First
      BY <1>0, <2>2, HitOnBus
    <3>3. scan' \in Scans /\ scan'.bus \in Bus
      BY <3>1, <3>2, <2>1, <1>a DEF Scans
    <3>4. read' \in Seq(Devices)
      BY <3>1, <3>2, <1>a
    <3>5. found' \in Seq(Finds) /\ Len(found') <= NTemp
      <4>1. [id |-> hit.id, bus |-> scan.bus] \in Finds
        BY <3>2, <2>1 DEF Finds
      <4>2. found' = found \/ found' = Append(found, [id |-> hit.id, bus |-> scan.bus])
        BY <3>1
      <4>3. ASSUME NEW f \in Finds
            PROVE  Append(found, f) \in Seq(Finds) /\ Len(Append(found, f)) = Len(found) + 1
        <5>1. found \in Seq(Finds)
          BY <1>a
        <5> QED
          BY <5>1
      <4>4. found \in Seq(Finds) /\ Len(found) \in Nat /\ Len(found) + 1 <= NTemp
        BY <2>1, <1>a
      <4>5. CASE found' = found
        BY <4>4, <4>5
      <4>6. CASE found' = Append(found, [id |-> hit.id, bus |-> scan.bus])
        BY <4>1, <4>3, <4>4, <4>6
      <4> QED
        BY <4>2, <4>5, <4>6
    <3>6. NewSlot \in Slot
      BY <2>1, <1>a DEF NewSlot, Slot
    <3>7. AddFound(hit.id, NewSlot) => place' \in [Number -> Slot] /\ cfg' \in Configs
      <4>1. CASE Numbered(hit.id)
        BY <4>1, <3>6, <1>0, <1>a, NumberType DEF AddFound
      <4>2. CASE ~Numbered(hit.id)
        <5>1. [id |-> hit.id, index |-> NoIndex] \in Entry
          BY <3>2 DEF Entry
        <5>2. cfg.map \in [Number -> Entry]
          BY <1>a DEF Configs
        <5>3. (\E n \in Number : Empty(n)) =>
                [cfg.map EXCEPT ![Min({n \in Number : Empty(n)})] = [id |-> hit.id, index |-> NoIndex]]
                  \in [Number -> Entry]
          BY <5>1, <5>2, FirstEmpty
        <5>4. \A map \in [Number -> Entry] : [cfg EXCEPT !.map = map] \in Configs
          BY <1>a DEF Configs
        <5> QED
          BY <5>3, <5>4, <4>2, <1>a DEF AddFound
      <4> QED
        BY <4>1, <4>2
    <3>8. place' \in [Number -> Slot] /\ cfg' \in Configs
      BY <3>1, <3>7, <1>a
    <3> QED
      BY <3>3, <3>4, <3>5, <3>8, <1>1, <1>a DEF Search, TypeInv, TypeOK, Scans, Configs, Finds, wiring
  <2>3. CASE ~Answers(scan.bus)
    <3>1. scan' \in Scans /\ scan'.bus \in Bus
      BY <2>1, <2>3, <1>1, <1>a, SMTT(30) DEF Search, Scans, First, Last
    <3> QED
      BY <3>1, <2>3, <1>1, <1>a DEF Search, TypeInv, TypeOK, Scans, Configs, Finds, wiring
  <2> QED
    BY <2>2, <2>3
<1>2. CASE NextBus
  <2>1. scan.bus + 1 \in Bus => Enter(scan.bus + 1) \in Scans /\ Enter(scan.bus + 1).bus \in Bus
    BY DEF Enter, Scans, First
  <2>2. Idle \in Scans
    BY DEF Idle, Scans, Last, First
  <2>3. scan' \in Scans /\ (scan' # Idle => scan'.bus \in Bus) /\ read' \in Seq(Devices)
    BY <2>1, <2>2, <1>2 DEF NextBus
  <2> QED
    BY <2>3, <1>2, <1>a DEF NextBus, TypeInv, TypeOK, Scans, Configs, Finds, wiring, slots, Scanning
<1>3. CASE Disturb
  <2>0. Scanning /\ scan' = [scan EXCEPT !.diff = Last]
    BY <1>3 DEF Disturb
  <2>1. scan' \in Scans /\ scan'.bus \in Bus
    BY <2>0, <1>0, <1>a, SMTT(30) DEF Scans, First, Last
  <2>2. events' \in 0..MaxEvents
    BY <1>3, <1>a DEF Disturb
  <2> QED
    BY <2>1, <2>2, <1>3, <1>a DEF Disturb, TypeInv, TypeOK, Scans, Configs, Finds, wiring, slots
<1>4. CASE Rescan
  BY <1>4, <1>a, <1>b DEF Rescan, TypeInv, TypeOK, Scans, Configs, Finds, wiring, Scanning
<1>5. CASE Measure
  <2>1. ASSUME NEW s \in Slot, s \in InUse PROVE Reading(found[s + 1]) \in Devices \cup {Error, Zero}
    <3>1. s + 1 \in 1..Len(found)
      BY <2>1, <1>a DEF InUse, Slot
    <3>2. found[s + 1] \in Finds
      BY <3>1, <1>a
    <3>3. found[s + 1].id \in Devices
      BY <3>2 DEF Finds
    <3> QED
      BY <3>3 DEF Reading
  <2>2. temp' \in [Slot -> Devices \cup {Error, Zero}]
    BY <2>1, <1>5, <1>a DEF Measure
  <2> QED
    BY <2>2, <1>0, <1>5, <1>a DEF Measure, TypeInv, TypeOK, Scans, Configs, Finds, wiring, history, Scanning
<1>6. CASE SetupPage
  <2>1. cfg' \in Configs /\ saved' \in Configs /\ edited' \in BOOLEAN
    <3>1. ASSUME NEW n \in Number, NEW k \in Number \cup {NoIndex}, SetNumber(n, k)
          PROVE  cfg' \in Configs /\ saved' \in Configs /\ edited' \in BOOLEAN
      <4>0. cfg.map \in [Number -> Entry] /\ cfg.map[n] \in Entry
        BY <1>a DEF Configs
      <4>1. [cfg.map[n] EXCEPT !.index = k] \in Entry
        BY <4>0 DEF Entry
      <4>2. cfg' = [cfg EXCEPT !.map = [cfg.map EXCEPT ![n] = [cfg.map[n] EXCEPT !.index = k]]]
        BY <3>1, <1>a DEF SetNumber, Configs
      <4>3. [cfg.map EXCEPT ![n] = [cfg.map[n] EXCEPT !.index = k]] \in [Number -> Entry]
        BY <4>0, <4>1
      <4>4. \A map \in [Number -> Entry] : [cfg EXCEPT !.map = map] \in Configs
        BY <1>a DEF Configs
      <4>5. cfg' \in Configs
        BY <4>2, <4>3, <4>4
      <4>6. saved' = saved /\ edited' = TRUE
        BY <3>1 DEF SetNumber
      <4> QED
        BY <4>5, <4>6, <1>a
    <3>2. ASSUME ClearMap PROVE cfg' \in Configs /\ saved' \in Configs /\ edited' \in BOOLEAN
      <4>1. Blank \in Entry
        BY DEF Blank, Entry, Number
      <4> QED
        BY <4>1, <3>2, <1>a DEF ClearMap, Configs
    <3>3. ASSUME SwitchBuses PROVE cfg' \in Configs /\ saved' \in Configs /\ edited' \in BOOLEAN
      BY <3>3, <1>a DEF SwitchBuses, Configs
    <3>4. ASSUME Save \/ Load PROVE cfg' \in Configs /\ saved' \in Configs /\ edited' \in BOOLEAN
      BY <3>4, <1>a DEF Save, Load
    <3> QED
      BY <3>1, <3>2, <3>3, <3>4, <1>6 DEF SetupPage
  <2>2. events' \in 0..MaxEvents
    BY <1>6, <1>a DEF SetupPage, Event
  <2> QED
    BY <2>1, <2>2, <1>0, <1>6, <1>a DEF SetupPage, TypeInv, TypeOK, Scans, Configs, Finds, wiring, slots, Scanning
<1>7. CASE World
  <2>1. at' \in [Devices -> Bus \cup {Out}] /\ shorted' \in SUBSET Bus
    <3>1. ASSUME NEW r \in Devices, Move(r) PROVE at' \in [Devices -> Bus \cup {Out}] /\ shorted' \in SUBSET Bus
      BY <3>1, <1>a DEF Move
    <3>2. ASSUME NEW b \in Bus, Short(b) PROVE at' \in [Devices -> Bus \cup {Out}] /\ shorted' \in SUBSET Bus
      BY <3>2, <1>a DEF Short
    <3> QED
      BY <3>1, <3>2, <1>7 DEF World
  <2>2. events' \in 0..MaxEvents
    BY <1>7, <1>a DEF World, Event
  <2> QED
    BY <2>1, <2>2, <1>0, <1>7, <1>a DEF World, TypeInv, TypeOK, Scans, Configs, Finds, slots, Scanning
<1>8. CASE Restart
  <2>1. place' \in [Number -> Slot]
    BY <1>8 DEF Restart, Slot
  <2>2. events' \in 0..MaxEvents
    BY <1>8, <1>a DEF Restart, Event
  <2> QED
    BY <2>1, <2>2, <1>8, <1>a, <1>b DEF Restart, TypeInv, TypeOK, Scans, Configs, Finds, wiring, Scanning
<1>9. CASE UNCHANGED vars
  BY <1>0, <1>9, <1>a DEF vars, wiring, slots, history, TypeInv, TypeOK, Scans, Configs, Finds, Finds, Scanning
<1> QED
  BY <1>1, <1>2, <1>3, <1>4, <1>5, <1>6, <1>7, <1>8, <1>9 DEF Next, Scan

\* Every variable keeps its type: a device is never stored beyond the last slot,
\* and no number is used that the map does not have (runtime_cfg.c).
THEOREM TypeCorrect == Spec => []TypeOK
<1>1. Spec => []TypeInv
  BY InitType, NextType, PTL DEF Spec
<1>2. TypeInv => TypeOK
  BY DEF TypeInv
<1> QED
  BY <1>1, <1>2, PTL

-----------------------------------------------------------------------------
(* What a search changes *)

\* The outcomes of a search: nothing answers, the device is no thermometer, it
\* is stored and numbered.
NoDevice ==
  /\ ~Answers(scan.bus)
  /\ scan' = [scan EXCEPT !.diff = Last]
  /\ UNCHANGED <<found, place, cfg, read>>

Passed(hit) ==
  /\ Kind[hit.id] # "thermometer"
  /\ UNCHANGED <<found, place, cfg>>

Taken(hit) ==
  /\ found' = Append(found, [id |-> hit.id, bus |-> scan.bus])
  /\ AddFound(hit.id, Len(found))

\* What a call of ow_rom_search by the scan does.
LEMMA SearchStep ==
  ASSUME TypeInv, Search
  PROVE  /\ scan.bus \in Bus /\ scan.diff # Last /\ Len(found) < NTemp
         /\ UNCHANGED <<at, shorted, calm, edited>>
         /\ \/ NoDevice
            \/ /\ Answers(scan.bus)
               /\ \E hit : /\ hit = RomSearch(Plugged(scan.bus), scan.diff, scan.id)
                           /\ hit.id \in Plugged(scan.bus) /\ hit.id \in Devices
                           /\ Resumes(Plugged(scan.bus), hit.id, hit.diff) /\ hit.diff \in 0..First
                           /\ scan' = [scan EXCEPT !.diff = hit.diff, !.id = hit.id]
                           /\ read' = Append(read, hit.id)
                           /\ Passed(hit) \/ Taken(hit)
<1>1. scan.bus \in Bus /\ scan.diff # Last /\ Len(found) < NTemp
  BY DEF TypeInv, Search, SearchOn
<1>2. UNCHANGED <<at, shorted, calm, edited>>
  BY DEF Search, wiring
<1>3. CASE ~Answers(scan.bus)
  BY <1>1, <1>2, <1>3 DEF Search, NoDevice
<1>4. CASE Answers(scan.bus)
  <2>1. PICK hit \in {RomSearch(Plugged(scan.bus), scan.diff, scan.id)} :
          /\ scan' = [scan EXCEPT !.diff = hit.diff, !.id = hit.id]
          /\ read' = Append(read, hit.id)
          /\ IF Skip(hit) \/ Kind[hit.id] = "serial"
             THEN UNCHANGED <<found, place, cfg>>
             ELSE /\ found' = Append(found, [id |-> hit.id, bus |-> scan.bus])
                  /\ AddFound(hit.id, NewSlot)
    BY <1>4 DEF Search
  <2>2. hit = RomSearch(Plugged(scan.bus), scan.diff, scan.id)
    OBVIOUS
  <2>3. /\ hit.id \in Plugged(scan.bus) /\ hit.id \in Devices
        /\ Resumes(Plugged(scan.bus), hit.id, hit.diff) /\ hit.diff \in 0..First
    BY <2>2, <1>4, HitOnBus DEF TypeInv
  <2>4. Passed(hit) \/ Taken(hit)
    BY <2>1 DEF Passed, Taken, Skip, NewSlot
  <2> QED
    BY <2>1, <2>2, <2>3, <2>4, <1>1, <1>2, <1>4
<1> QED
  BY <1>3, <1>4

-----------------------------------------------------------------------------
(* Permanent numbers *)

\* The entries of r, and the number they give it, as a function of the map; the
\* device in slot i is the only one found that has its number.
Entries(map, r)    == {n \in Number : map[n].id = r}
HasNumber(map, r)  == Entries(map, r) # {} /\ map[Min(Entries(map, r))].index # NoIndex
TheNumber(map, r)  == map[Min(Entries(map, r))].index
Sole(map, f, i)    ==
  /\ HasNumber(map, f[i].id)
  /\ \A j \in 1..Len(f) \ {i} : HasNumber(map, f[j].id) => TheNumber(map, f[j].id) # TheNumber(map, f[i].id)
InPlace(map, f, p) == \A i \in 1..Len(f) : Sole(map, f, i) => p[TheNumber(map, f[i].id)] = i - 1

\* NumberedInPlace, before and after a step.
LEMMA NumberedState ==
  /\ NumberedInPlace <=> (~edited => InPlace(cfg.map, found, place))
  /\ NumberedInPlace' <=> (~edited' => InPlace(cfg'.map, found', place'))
  /\ \A r : /\ Numbered(r) <=> HasNumber(cfg.map, r)
            /\ NumberOf(r) = TheNumber(cfg.map, r)
BY DEF NumberedInPlace, InPlace, Sole, HasNumber, TheNumber, Entries, Numbered, NumberOf, EntriesOf

\* An entry without a number, put where there was none, changes no device's number.
LEMMA NewEntry ==
  ASSUME NEW map, NEW new, NEW r \in Devices, ~HasNumber(map, r),
         NEW n \in Number, map[n].id = None,
         \A m \in Number : new[m] = IF m = n THEN [id |-> r, index |-> NoIndex] ELSE map[m]
  PROVE  \A s \in Devices : /\ HasNumber(new, s) <=> HasNumber(map, s)
                            /\ HasNumber(map, s) => TheNumber(new, s) = TheNumber(map, s)
<1>1. \A s : Entries(map, s) \subseteq Nat /\ Entries(new, s) \subseteq Nat
  BY ThermometersAssumption DEF Entries, Number
<1>2. TAKE s \in Devices
<1>3. s # None
  BY Roms
<1>4. CASE s # r
  <2>1. Entries(new, s) = Entries(map, s) /\ n \notin Entries(map, s)
    BY <1>3, <1>4 DEF Entries
  <2>2. Entries(map, s) # {} => new[Min(Entries(new, s))] = map[Min(Entries(map, s))]
    <3>1. Entries(map, s) # {} => Min(Entries(map, s)) \in Entries(map, s)
      BY <1>1, MinOf
    <3> QED
      BY <3>1, <2>1 DEF Entries
  <2> QED
    BY <2>1, <2>2 DEF HasNumber, TheNumber
<1>5. CASE s = r
  <2>1. Entries(new, r) = Entries(map, r) \cup {n}
    BY DEF Entries
  <2> DEFINE k == Min(Entries(new, r))
  <2>2. k \in Entries(new, r) /\ \A y \in Entries(new, r) : k <= y
    BY <2>1, <1>1, MinOf
  <2>3. new[k].index = NoIndex
    <3>1. CASE k = n
      BY <3>1
    <3>2. CASE k # n
      <4>1. k \in Entries(map, r)
        BY <3>2, <2>1, <2>2
      <4>2. Min(Entries(map, r)) \in Entries(map, r) /\ \A y \in Entries(map, r) : Min(Entries(map, r)) <= y
        BY <4>1, <1>1, MinOf
      <4>3. k = Min(Entries(map, r))
        <5>1. k <= Min(Entries(map, r)) /\ Min(Entries(map, r)) <= k
          BY <4>1, <4>2, <2>1, <2>2
        <5>2. k \in Nat /\ Min(Entries(map, r)) \in Nat
          BY <4>1, <4>2, <1>1
        <5> HIDE DEF k
        <5> QED
          BY <5>1, <5>2
      <4>4. map[k].index = NoIndex
        BY <4>1, <4>3 DEF HasNumber
      <4>5. k \in Number
        BY <4>1 DEF Entries
      <4> QED
        BY <4>4, <4>5, <3>2
    <3> QED
      BY <3>1, <3>2
  <2> QED
    BY <2>3, <1>5 DEF HasNumber
<1> QED
  BY <1>4, <1>5

\* A device that is found keeps every sole owner of a number in its place
\* (runtime_cfg.c, the map of numbers).
LEMMA TakenInPlace ==
  ASSUME TypeInv, NEW hit, hit.id \in Devices, Taken(hit), InPlace(cfg.map, found, place)
  PROVE  InPlace(cfg'.map, found', place')
<1> DEFINE r == hit.id
           L == Len(found)
<1>1. found \in Seq(Finds) /\ L \in Nat /\ place \in [Number -> Slot]
  BY DEF TypeInv, TypeOK, Finds
<1>2. /\ Len(found') = L + 1 /\ found'[L + 1].id = r
      /\ \A i \in 1..L : found'[i] = found[i] /\ found[i].id \in Devices
  <2>1. found' = Append(found, [id |-> r, bus |-> scan.bus])
    BY DEF Taken
  <2>2. Len(found') = L + 1 /\ found'[L + 1] = [id |-> r, bus |-> scan.bus]
    BY <2>1, <1>1
  <2>3. \A i \in 1..L : found'[i] = found[i] /\ found[i] \in Finds
    BY <2>1, <1>1
  <2> QED
    BY <2>2, <2>3 DEF Finds
<1>3. \A i \in 1..L + 1 : i = L + 1 \/ i \in 1..L
  BY <1>1
<1>4. CASE HasNumber(cfg.map, r)
  <2>1. cfg' = cfg /\ place' = [place EXCEPT ![TheNumber(cfg.map, r)] = L]
    BY <1>4, NumberedState DEF Taken, AddFound
  <2>2. TheNumber(cfg.map, r) \in Number
    BY <1>4, NumberType, NumberedState DEF TypeInv
  <2>3. ASSUME NEW i \in 1..L + 1, Sole(cfg.map, found', i)
        PROVE  place'[TheNumber(cfg.map, found'[i].id)] = i - 1
    <3>1. CASE i = L + 1
      BY <3>1, <2>1, <2>2, <1>1, <1>2
    <3>2. CASE i \in 1..L
      <4>1. L + 1 \in 1..Len(found') \ {i} /\ 1..L \ {i} \subseteq 1..Len(found') \ {i}
        BY <3>2, <1>1, <1>2
      <4>2. TheNumber(cfg.map, r) # TheNumber(cfg.map, found[i].id)
        BY <4>1, <3>2, <2>3, <1>2, <1>4 DEF Sole
      <4>3. Sole(cfg.map, found, i)
        BY <4>1, <3>2, <2>3, <1>2 DEF Sole
      <4>4. place[TheNumber(cfg.map, found[i].id)] = i - 1
        BY <4>3, <3>2 DEF InPlace
      <4>5. TheNumber(cfg.map, found[i].id) \in Number
        BY <4>3, NumberType, NumberedState DEF Sole, TypeInv
      <4> QED
        BY <4>2, <4>4, <4>5, <3>2, <2>1, <1>1, <1>2
    <3> QED
      BY <3>1, <3>2, <1>3
  <2> QED
    BY <2>1, <2>3, <1>2 DEF InPlace
<1>5. CASE ~HasNumber(cfg.map, r)
  <2>1. /\ place' = place
        /\ cfg' = IF \E n \in Number : Empty(n)
                  THEN [cfg EXCEPT !.map[Min({n \in Number : Empty(n)})] = [id |-> r, index |-> NoIndex]]
                  ELSE cfg
    BY <1>5, NumberedState DEF Taken, AddFound
  <2>2. \A s \in Devices : /\ HasNumber(cfg'.map, s) <=> HasNumber(cfg.map, s)
                           /\ HasNumber(cfg.map, s) => TheNumber(cfg'.map, s) = TheNumber(cfg.map, s)
    <3>1. CASE ~ \E n \in Number : Empty(n)
      BY <3>1, <2>1
    <3>2. CASE \E n \in Number : Empty(n)
      <4> DEFINE e == Min({n \in Number : Empty(n)})
      <4>1. e \in Number /\ cfg.map[e].id = None
        BY <3>2, FirstEmpty DEF Empty
      <4>2. cfg' = [cfg EXCEPT !.map[e] = [id |-> r, index |-> NoIndex]]
        BY <3>2, <2>1
      <4> HIDE DEF e
      <4>3. cfg \in Configs
        BY DEF TypeInv, TypeOK, Configs
      <4>4. \A m \in Number : cfg'.map[m] = IF m = e THEN [id |-> r, index |-> NoIndex] ELSE cfg.map[m]
        BY <4>1, <4>2, <4>3 DEF Configs
      <4> QED
        BY <4>1, <4>4, <1>5, NewEntry
    <3> QED
      BY <3>1, <3>2
  <2>3. ASSUME NEW i \in 1..L + 1, Sole(cfg'.map, found', i)
        PROVE  place'[TheNumber(cfg'.map, found'[i].id)] = i - 1
    <3>1. i # L + 1
      BY <2>2, <2>3, <1>2, <1>5 DEF Sole
    <3>2. i \in 1..L /\ found[i].id \in Devices /\ found'[i] = found[i]
      BY <3>1, <1>2, <1>3
    <3>3. Sole(cfg.map, found, i)
      <4>1. 1..L \ {i} \subseteq 1..Len(found') \ {i}
        BY <1>1, <1>2
      <4>2. HasNumber(cfg.map, found[i].id)
        BY <3>2, <2>2, <2>3 DEF Sole
      <4>3. ASSUME NEW j \in 1..L \ {i}, HasNumber(cfg.map, found[j].id)
            PROVE  TheNumber(cfg.map, found[j].id) # TheNumber(cfg.map, found[i].id)
        <5>1. found[j].id \in Devices /\ found'[j] = found[j]
          BY <1>2
        <5>2. HasNumber(cfg'.map, found[j].id)
          BY <5>1, <4>3, <2>2
        <5>3. TheNumber(cfg'.map, found[j].id) # TheNumber(cfg'.map, found[i].id)
          BY <5>1, <5>2, <4>1, <3>2, <2>3 DEF Sole
        <5> QED
          BY <5>1, <5>3, <4>2, <4>3, <3>2, <2>2
      <4> QED
        BY <4>2, <4>3 DEF Sole
    <3>4. place[TheNumber(cfg.map, found[i].id)] = i - 1
      BY <3>2, <3>3 DEF InPlace
    <3> QED
      BY <3>2, <3>3, <3>4, <2>1, <2>2 DEF Sole
  <2> QED
    BY <2>3, <1>2 DEF InPlace
<1> QED
  BY <1>4, <1>5

\* Every step keeps NumberedInPlace.
LEMMA NumberedStep ==
  ASSUME TypeInv, NumberedInPlace, [Next]_vars
  PROVE  NumberedInPlace'
<1>1. CASE Search
  <2>1. edited' = edited
    BY <1>1, SearchStep
  <2>2. CASE UNCHANGED <<found, place, cfg>>
    BY <2>1, <2>2, NumberedState
  <2>3. ASSUME NEW hit, hit.id \in Devices, Taken(hit) PROVE NumberedInPlace'
    BY <2>1, <2>3, NumberedState, TakenInPlace
  <2> QED
    BY <2>2, <2>3, <1>1, SearchStep DEF NoDevice, Passed
<1>2. CASE Rescan \/ Restart
  <2>1. found' = <<>>
    BY <1>2, ScanBegins
  <2>2. InPlace(cfg'.map, found', place')
    BY <2>1 DEF InPlace
  <2> QED
    BY <2>2, NumberedState
<1>3. CASE UNCHANGED <<found, place, cfg, edited>>
  BY <1>3, NumberedState
<1>4. CASE SetupPage
  <2>1. edited' = TRUE \/ UNCHANGED <<found, place, cfg, edited>>
    BY <1>4 DEF SetupPage, SetNumber, ClearMap, SwitchBuses, Save, Load, slots
  <2> QED
    BY <2>1, <1>3, NumberedState
<1>5. CASE NextBus \/ Disturb \/ Measure \/ World
  BY <1>3, <1>5 DEF NextBus, Disturb, Measure, World, slots, history
<1>6. CASE UNCHANGED vars
  BY <1>3, <1>6 DEF vars, slots, history
<1> QED
  BY <1>1, <1>2, <1>4, <1>5, <1>6 DEF Next, Scan

\* A device with a permanent number that nobody else claims is at its place.
THEOREM NumbersInPlace == Spec => []NumberedInPlace
<1>1. Init => NumberedInPlace
  BY DEF Init, NumberedInPlace
<1>2. TypeInv /\ NumberedInPlace /\ [Next]_vars => NumberedInPlace'
  BY NumberedStep
<1> QED
  BY <1>1, <1>2, InitType, NextType, PTL DEF Spec

-----------------------------------------------------------------------------
(* The order of a search *)

\* The devices of bus b, when a tells where each one is; the ROMs read so far
\* are those from the last one up; the scan resumes where it left off.
On(a, b)          == {r \in Devices : a[r] = b}
Replies(a, sh, b) == On(a, b) # {} /\ b \notin sh
Reads(sc, P, rd)  ==
  /\ Range(rd) = {r \in P : AtLeast(r, sc.id)}
  /\ Len(rd) = Cardinality(Range(rd))
  /\ sc.diff = Last <=> Range(rd) = P
Continues(sc, a, sh, rd, c) ==
  /\ sc # Idle /\ sc.diff = First => rd = <<>>
  /\ sc # Idle /\ c /\ sc.diff # First /\ Replies(a, sh, sc.bus) =>
       /\ sc.id \in On(a, sc.bus)
       /\ Resumes(On(a, sc.bus), sc.id, sc.diff)
       /\ Reads(sc, On(a, sc.bus), rd)

\* What is kept while the buses are left alone.
ScanInv == GoesOn /\ SearchInOrder

\* ScanInv, before and after a step.
LEMMA ScanState ==
  /\ ScanInv <=> Continues(scan, at, shorted, read, calm)
  /\ ScanInv' <=> Continues(scan', at', shorted', read', calm')
  /\ \A b : Plugged(b) = On(at, b) /\ (Answers(b) <=> Replies(at, shorted, b))
  /\ Scanning <=> scan # Idle
<1>1. ScanInv <=> Continues(scan, at, shorted, read, calm)
  BY DEF ScanInv, GoesOn, SearchInOrder, Continues, Reads, Replies, On, Plugged, Answers, Scanning
<1>2. ScanInv' <=> Continues(scan', at', shorted', read', calm')
  BY DEF ScanInv, GoesOn, SearchInOrder, Continues, Reads, Replies, On, Plugged, Answers, Scanning
<1> QED
  BY <1>1, <1>2 DEF Plugged, Answers, On, Replies, Scanning

\* A sequence has at least as many elements as its range.
LEMMA RangeOf ==
  ASSUME NEW S, NEW rd \in Seq(S)
  PROVE  /\ IsFiniteSet(Range(rd)) /\ Cardinality(Range(rd)) <= Len(rd)
         /\ \A x \in S : Range(Append(rd, x)) = Range(rd) \cup {x}
<1>1. rd \in Surjection(1..Len(rd), Range(rd))
  BY DEF Range, Surjection
<1>2. IsFiniteSet(1..Len(rd)) /\ Cardinality(1..Len(rd)) = Len(rd)
  <2>1. Len(rd) \in Nat /\ 1 \in Int /\ Len(rd) \in Int
    OBVIOUS
  <2>2. IsFiniteSet(1..Len(rd)) /\ Cardinality(1..Len(rd)) = IF 1 > Len(rd) THEN 0 ELSE Len(rd) - 1 + 1
    BY <2>1, FS_Interval
  <2> QED
    BY <2>1, <2>2
<1>3. IsFiniteSet(Range(rd)) /\ Cardinality(Range(rd)) <= Len(rd)
  BY <1>1, <1>2, FS_Surjection
<1>4. ASSUME NEW x \in S PROVE Range(Append(rd, x)) = Range(rd) \cup {x}
  <2>1. /\ DOMAIN rd = 1..Len(rd) /\ DOMAIN Append(rd, x) = 1..Len(rd) + 1
        /\ Append(rd, x)[Len(rd) + 1] = x
        /\ \A i \in 1..Len(rd) : Append(rd, x)[i] = rd[i]
    OBVIOUS
  <2>2. 1..Len(rd) + 1 = 1..Len(rd) \cup {Len(rd) + 1}
    OBVIOUS
  <2> QED
    BY <2>1, <2>2 DEF Range
<1> QED
  BY <1>3, <1>4

\* The first ROM of a bus is the greatest.
LEMMA ReadsFirst ==
  ASSUME NEW P \in SUBSET Devices, P # {}, NEW old \in Rom,
         NEW hit, hit = RomSearch(P, First, old), NEW sc, sc.id = hit.id, sc.diff = hit.diff
  PROVE  Reads(sc, P, <<hit.id>>)
<1> USE BitsAssumption
<1>1. P \in SUBSET Rom /\ First \in 0..First
  BY Roms DEF First
<1>2. hit.id \in P /\ Resumes(P, hit.id, hit.diff)
  BY <1>1, SearchFinds
<1>3. \A d \in P : AtLeast(hit.id, d)
  BY <1>1, FirstFindsGreatest
<1>4. {r \in P : AtLeast(r, hit.id)} = {hit.id}
  <2>1. AtLeast(hit.id, hit.id)
    BY DEF AtLeast
  <2>2. ASSUME NEW r \in P, AtLeast(r, hit.id), r # hit.id PROVE FALSE
    BY <2>2, <1>1, <1>2, <1>3, AtLeastNotBelow, BelowTotal
  <2> QED
    BY <2>1, <2>2, <1>2
<1>5. Range(<<hit.id>>) = {hit.id}
  BY DEF Range
<1>6. Cardinality({hit.id}) = 1
  BY FS_Singleton
<1>7. hit.diff = Last <=> {hit.id} = P
  <2>1. hit.diff = Last <=> \A d \in P : AtLeast(d, hit.id)
    BY <1>1, <1>2, DoneAtLeast
  <2> QED
    BY <2>1, <1>2, <1>4
<1> QED
  BY <1>4, <1>5, <1>6, <1>7 DEF Reads

\* The next one is the next below.
LEMMA ReadsNext ==
  ASSUME NEW P \in SUBSET Devices, NEW old \in P, NEW diff, Resumes(P, old, diff), diff # Last,
         NEW hit, hit = RomSearch(P, diff, old),
         NEW rd \in Seq(Devices), Range(rd) = {r \in P : AtLeast(r, old)},
         Len(rd) = Cardinality(Range(rd)),
         NEW sc, sc.id = hit.id, sc.diff = hit.diff
  PROVE  Reads(sc, P, Append(rd, hit.id))
<1> USE BitsAssumption
<1>1. P \in SUBSET Rom /\ P # {} /\ old \in Rom /\ diff \in 0..First
  BY Roms DEF Resumes, First, Last
<1>2. hit.id \in P /\ hit.id \in Devices /\ hit.id \in Rom /\ Resumes(P, hit.id, hit.diff)
  BY <1>1, SearchFinds
<1>3. Below(hit.id, old) /\ \A d \in P : Below(d, old) => AtLeast(hit.id, d)
  BY <1>1, NextFindsNext
<1>4. Range(Append(rd, hit.id)) = Range(rd) \cup {hit.id}
  BY <1>2, RangeOf
<1>5. hit.id \notin Range(rd)
  BY <1>1, <1>2, <1>3, AtLeastNotBelow
<1>6. ASSUME NEW r \in P PROVE AtLeast(r, hit.id) <=> AtLeast(r, old) \/ r = hit.id
  <2>1. r \in Rom
    BY <1>1
  <2>2. ASSUME AtLeast(r, old) PROVE AtLeast(r, hit.id)
    <3>1. ~Below(r, old)
      BY <2>1, <2>2, <1>1, AtLeastNotBelow
    <3>2. ~Below(r, hit.id)
      BY <3>1, <2>1, <1>1, <1>2, <1>3, BelowTransitive
    <3> QED
      BY <3>2, <2>1, <1>2, AtLeastNotBelow
  <2>3. AtLeast(hit.id, hit.id)
    BY DEF AtLeast
  <2>4. ASSUME ~AtLeast(r, old), AtLeast(r, hit.id), r # hit.id PROVE FALSE
    <3>1. Below(r, old)
      BY <2>1, <2>4, <1>1, AtLeastNotBelow
    <3>2. AtLeast(hit.id, r)
      BY <3>1, <1>3
    <3> QED
      BY <3>2, <2>1, <2>4, <1>2, AtLeastNotBelow, BelowTotal
  <2> QED
    BY <2>2, <2>3, <2>4
<1>7. Range(Append(rd, hit.id)) = {r \in P : AtLeast(r, hit.id)}
  BY <1>2, <1>4, <1>6
<1>8. Len(Append(rd, hit.id)) = Cardinality(Range(Append(rd, hit.id)))
  <2>1. IsFiniteSet(Range(rd))
    BY RangeOf
  <2>2. Cardinality(Range(rd) \cup {hit.id}) = Cardinality(Range(rd)) + 1
    BY <2>1, <1>5, FS_AddElement
  <2>3. Len(Append(rd, hit.id)) = Len(rd) + 1
    BY <1>2
  <2> QED
    BY <2>2, <2>3, <1>4
<1>9. hit.diff = Last <=> Range(Append(rd, hit.id)) = P
  <2>1. hit.diff = Last <=> \A d \in P : AtLeast(d, hit.id)
    BY <1>1, <1>2, DoneAtLeast
  <2> QED
    BY <2>1, <1>7
<1> QED
  BY <1>7, <1>8, <1>9 DEF Reads

\* Every step keeps the order of the search.
LEMMA ScanStep ==
  ASSUME TypeInv, ScanInv, [Next]_vars
  PROVE  ScanInv'
<1> USE BitsAssumption
<1>0. Continues(scan, at, shorted, read, calm)
  BY ScanState
<1>1. CASE Search
  <2>1. /\ scan \in Scans /\ read \in Seq(Devices) /\ scan.bus \in Bus /\ scan.diff # Last
        /\ UNCHANGED <<at, shorted, calm>>
    BY <1>1, SearchStep DEF TypeInv, TypeOK, Scans
  <2>2. scan # Idle
    BY <1>1 DEF Search, Scanning
  <2>3. CASE NoDevice
    <3>1. scan'.bus = scan.bus /\ scan'.diff = Last /\ ~Replies(at, shorted, scan.bus)
      BY <2>1, <2>3, ScanState DEF NoDevice, Scans
    <3>2. Last # First
      BY DEF Last, First
    <3>3. Continues(scan', at', shorted', read', calm')
      BY <3>1, <3>2, <2>1 DEF Continues
    <3> QED
      BY <3>3, ScanState
  <2>4. CASE ~NoDevice
    <3> DEFINE P == On(at, scan.bus)
    <3>1. PICK hit : /\ hit = RomSearch(P, scan.diff, scan.id)
                     /\ hit.id \in P
                     /\ Resumes(P, hit.id, hit.diff)
                     /\ scan' = [scan EXCEPT !.diff = hit.diff, !.id = hit.id]
                     /\ read' = Append(read, hit.id)
      BY <1>1, <2>4, SearchStep, ScanState
    <3>2. Replies(at, shorted, scan.bus)
      BY <1>1, <2>4, SearchStep, ScanState
    <3>3. scan'.bus = scan.bus /\ scan'.diff = hit.diff /\ scan'.id = hit.id
      BY <3>1, <2>1 DEF Scans
    <3>4. hit.diff # First
      BY <3>1 DEF Resumes, First, Last
    <3>5. P \in SUBSET Devices /\ P # {} /\ scan.id \in Rom
      BY <3>2, <2>1, Roms DEF On, Replies, Scans
    <3>6. ASSUME calm PROVE Reads(scan', P, read')
      <4>1. CASE scan.diff = First
        <5>1. read = <<>>
          BY <4>1, <2>2, <1>0 DEF Continues
        <5>2. read' = <<hit.id>>
          BY <5>1, <3>1
        <5> QED
          BY <5>2, <4>1, <3>1, <3>3, <3>5, ReadsFirst, ZenonT(30)
      <4>2. CASE scan.diff # First
        <5>1. scan.id \in P /\ Resumes(P, scan.id, scan.diff) /\ Reads(scan, P, read)
          BY <4>2, <3>2, <3>6, <2>2, <1>0 DEF Continues
        <5>2. Range(read) = {r \in P : AtLeast(r, scan.id)} /\ Len(read) = Cardinality(Range(read))
          BY <5>1 DEF Reads
        <5> HIDE DEF P
        <5> QED
          BY <5>1, <5>2, <3>1, <3>3, <3>5, <2>1, ReadsNext
      <4> QED
        BY <4>1, <4>2
    <3>7. Continues(scan', at', shorted', read', calm')
      BY <3>1, <3>3, <3>4, <3>6, <2>1 DEF Continues
    <3> QED
      BY <3>7, ScanState
  <2> QED
    BY <2>3, <2>4
<1>2. CASE read' = <<>> /\ (scan' = Idle \/ scan'.diff = First)
  <2>1. Continues(scan', at', shorted', read', calm')
    BY <1>2 DEF Continues
  <2> QED
    BY <2>1, ScanState
<1>3. CASE UNCHANGED <<scan, at, shorted, read, calm>>
  <2>1. Continues(scan', at', shorted', read', calm')
    BY <1>0, <1>3
  <2> QED
    BY <2>1, ScanState
<1>4. CASE Disturb
  <2>1. scan'.diff = Last /\ calm' = FALSE
    BY <1>4 DEF Disturb, TypeInv, TypeOK
  <2>2. Last # First
    BY DEF Last, First
  <2>3. Continues(scan', at', shorted', read', calm')
    BY <2>1, <2>2 DEF Continues
  <2> QED
    BY <2>3, ScanState
<1>5. CASE World
  <2>1. scan' = scan /\ read' = read /\ calm' = FALSE
    BY <1>5 DEF World
  <2>2. Continues(scan', at', shorted', read', calm')
    BY <2>1, <1>0 DEF Continues
  <2> QED
    BY <2>2, ScanState
<1>6. CASE NextBus
  BY <1>2, <1>6 DEF NextBus, Enter
<1>7. CASE Rescan \/ Restart
  <2>1. CASE scan' = Idle
    BY <2>1, ScanState DEF Continues
  <2>2. CASE scan' = FirstBus
    BY <2>2, <1>2, <1>7, ScanBegins, FirstIdle
  <2> QED
    BY <2>1, <2>2, <1>7, ScanBegins
<1>8. CASE Measure \/ SetupPage
  BY <1>3, <1>8 DEF Measure, SetupPage, wiring, history
<1>9. CASE UNCHANGED vars
  BY <1>3, <1>9 DEF vars, wiring, history
<1> QED
  BY <1>1, <1>4, <1>5, <1>6, <1>7, <1>8, <1>9 DEF Next, Scan

\* A search reads the ROMs of an undisturbed bus in order, each one once, and ends
\* with the last.
THEOREM SearchesInOrder == Spec => []SearchInOrder
<1>1. Init => ScanInv
  <2>1. Init => read = <<>> /\ (scan.diff = First \/ scan = Idle)
    BY FirstIdle DEF Init
  <2> QED
    BY <2>1, ScanState DEF Continues
<1>2. TypeInv /\ ScanInv /\ [Next]_vars => ScanInv'
  BY ScanStep
<1>3. ScanInv => SearchInOrder
  BY DEF ScanInv
<1> QED
  BY <1>1, <1>2, <1>3, InitType, NextType, PTL DEF Spec

-----------------------------------------------------------------------------
(* One slot for each thermometer *)

\* The slots of r on bus b; the slots of the bus under way hold ROMs that were
\* read; the thermometers due by now have one slot each.
SlotsIn(f, r, b)      == {i \in 1..Len(f) : f[i] = [id |-> r, bus |-> b]}
OfRead(sc, f, rd)     == \A i \in 1..Len(f) :
  f[i].bus <= sc.bus /\ (f[i].bus = sc.bus => f[i].id \in Range(rd))
SearchedIn(c, b) == Enabled(c) /\ (b = 0 \/ c.eight)
Due(r, sc, f, rd, a, sh, c) ==
  /\ Kind[r] = "thermometer" /\ a[r] \in Bus \ sh /\ SearchedIn(c, a[r])
  /\ \/ a[r] < sc.bus /\ Len(f) < NTemp
     \/ a[r] = sc.bus /\ r \in Range(rd)
OneEach(sc, f, rd, a, sh, c) ==
  \A r \in Devices : Due(r, sc, f, rd, a, sh, c) => Cardinality(SlotsIn(f, r, a[r])) = 1

\* SlotsOfRead and OneSlot, before and after a step.
LEMMA SlotState ==
  /\ SlotsOfRead <=> OfRead(scan, found, read)
  /\ SlotsOfRead' <=> OfRead(scan', found', read')
  /\ OneSlot <=> (calm /\ ~edited => OneEach(scan, found, read, at, shorted, cfg))
  /\ OneSlot' <=> (calm' /\ ~edited' => OneEach(scan', found', read', at', shorted', cfg'))
<1>1. SlotsOfRead <=> OfRead(scan, found, read)
  BY DEF SlotsOfRead, OfRead
<1>2. SlotsOfRead' <=> OfRead(scan', found', read')
  BY DEF SlotsOfRead, OfRead
<1>3. OneSlot <=> (calm /\ ~edited => OneEach(scan, found, read, at, shorted, cfg))
  BY DEF OneSlot, OneEach, Due, SlotsOf, SlotsIn, Searched, SearchedIn
<1>4. OneSlot' <=> (calm' /\ ~edited' => OneEach(scan', found', read', at', shorted', cfg'))
  BY DEF OneSlot, OneEach, Due, SlotsOf, SlotsIn, Searched, SearchedIn
<1> QED
  BY <1>1, <1>2, <1>3, <1>4

\* One more slot.
LEMMA AppendSlots ==
  ASSUME NEW f \in Seq(Finds), NEW x \in Finds
  PROVE  /\ Len(Append(f, x)) = Len(f) + 1 /\ Len(f) \in Nat
         /\ Append(f, x)[Len(f) + 1] = x
         /\ \A i \in 1..Len(f) : Append(f, x)[i] = f[i] /\ f[i] \in Finds
         /\ \A i \in 1..Len(Append(f, x)) : i \in 1..Len(f) \/ i = Len(f) + 1
         /\ \A r, b : SlotsIn(Append(f, x), r, b) =
                        SlotsIn(f, r, b) \cup {i \in {Len(f) + 1} : x = [id |-> r, bus |-> b]}
<1>1. Len(Append(f, x)) = Len(f) + 1 /\ Len(f) \in Nat /\ Append(f, x)[Len(f) + 1] = x
  OBVIOUS
<1>2. \A i \in 1..Len(f) : Append(f, x)[i] = f[i] /\ f[i] \in Finds
  OBVIOUS
<1>3. 1..Len(f) + 1 = 1..Len(f) \cup {Len(f) + 1}
  BY <1>1
<1> QED
  BY <1>1, <1>2, <1>3 DEF SlotsIn

\* Every step keeps SlotsOfRead.
LEMMA OfReadStep ==
  ASSUME TypeInv, SlotsOfRead, [Next]_vars
  PROVE  SlotsOfRead'
<1> USE ThermometersAssumption
<1>0. found \in Seq(Finds) /\ read \in Seq(Devices) /\ scan \in Scans
  BY DEF TypeInv, TypeOK, Finds, Scans
<1>a. \A i \in 1..Len(found) : found[i].bus \in Bus
  <2>1. \A i \in 1..Len(found) : found[i] \in Finds
    BY <1>0
  <2> QED
    BY <2>1 DEF Finds
<1>b. OfRead(scan, found, read)
  BY SlotState
<1>1. CASE UNCHANGED <<scan, found, read>>
  BY <1>b, <1>1, SlotState
<1>2. CASE found' = <<>>
  BY <1>2, SlotState DEF OfRead
<1>3. CASE Search
  <2>1. scan.bus \in Bus
    BY <1>3, SearchStep
  <2>2. CASE NoDevice
    <3>1. scan'.bus = scan.bus /\ found' = found /\ read' = read
      BY <2>2, <1>0 DEF NoDevice, Scans
    <3> QED
      BY <3>1, <1>b, SlotState DEF OfRead
  <2>3. CASE ~NoDevice
    <3>1. PICK hit : /\ hit.id \in Devices
                     /\ scan' = [scan EXCEPT !.diff = hit.diff, !.id = hit.id]
                     /\ read' = Append(read, hit.id)
                     /\ Passed(hit) \/ Taken(hit)
      BY <1>3, <2>3, SearchStep
    <3>2. scan'.bus = scan.bus
      BY <3>1, <1>0 DEF Scans
    <3>3. Range(read') = Range(read) \cup {hit.id}
      BY <3>1, <1>0, RangeOf
    <3>4. CASE Passed(hit)
      BY <3>2, <3>3, <3>4, <1>b, SlotState DEF OfRead, Passed
    <3>5. CASE Taken(hit)
      <4> DEFINE x == [id |-> hit.id, bus |-> scan.bus]
      <4>1. x \in Finds /\ x.id = hit.id /\ x.bus = scan.bus
        BY <3>1, <2>1 DEF Finds
      <4>2. found' = Append(found, x)
        BY <3>5 DEF Taken
      <4> HIDE DEF x
      <4>3. ASSUME NEW i \in 1..Len(found')
            PROVE  found'[i].bus <= scan.bus /\ (found'[i].bus = scan.bus => found'[i].id \in Range(read'))
        <5>1. CASE i \in 1..Len(found)
          <6>1. found'[i] = found[i]
            BY <5>1, <4>1, <4>2, <1>0, AppendSlots
          <6> QED
            BY <6>1, <5>1, <3>3, <1>b DEF OfRead
        <5>2. CASE i = Len(found) + 1
          <6>1. found'[i] = x
            BY <5>2, <4>1, <4>2, <1>0, AppendSlots
          <6>2. scan.bus <= scan.bus
            BY <2>1 DEF Bus
          <6> QED
            BY <6>1, <6>2, <4>1, <3>3
        <5> QED
          BY <5>1, <5>2, <4>1, <4>2, <1>0, AppendSlots
      <4> QED
        BY <4>3, <3>2, SlotState DEF OfRead
    <3> QED
      BY <3>1, <3>4, <3>5
  <2> QED
    BY <2>2, <2>3
<1>4. CASE NextBus
  <2>1. found' = found
    BY <1>4 DEF NextBus, slots
  <2>2. scan'.bus = Out \/ scan'.bus = scan.bus + 1
    BY <1>4 DEF NextBus, Enter, Idle
  <2>3. scan.bus \in Bus
    BY <1>4 DEF NextBus, TypeInv
  <2>4. \A i \in 1..Len(found) : found[i].bus < scan'.bus
    BY <2>2, <2>3, <1>a, <1>b, SMTT(30) DEF OfRead, Bus, Out
  <2>5. OfRead(scan', found', read')
    <3>1. scan'.bus \in Nat
      BY <2>2, <2>3 DEF Bus, Out
    <3>2. \A i \in 1..Len(found) : found[i].bus \in Nat
      BY <1>a DEF Bus
    <3> QED
      BY <3>1, <3>2, <2>1, <2>4 DEF OfRead
  <2> QED
    BY <2>5, SlotState
<1>5. CASE Disturb
  <2>1. scan'.bus = scan.bus /\ found' = found /\ read' = read
    BY <1>0, <1>5 DEF Disturb, Scans, slots
  <2> QED
    BY <2>1, <1>b, SlotState DEF OfRead
<1>6. CASE Rescan \/ Restart
  BY <1>2, <1>6, ScanBegins
<1>7. CASE Measure \/ SetupPage \/ World
  BY <1>1, <1>7 DEF Measure, SetupPage, World, slots, history
<1>8. CASE UNCHANGED vars
  BY <1>1, <1>8 DEF vars, slots, history
<1> QED
  BY <1>3, <1>4, <1>5, <1>6, <1>7, <1>8 DEF Next, Scan

\* A ROM that makes the sequence of distinct ones longer is a new one.
LEMMA NewRom ==
  ASSUME NEW rd \in Seq(Devices), NEW x \in Devices,
         Len(Append(rd, x)) = Cardinality(Range(Append(rd, x)))
  PROVE  x \notin Range(rd)
<1>1. SUFFICES ASSUME x \in Range(rd) PROVE FALSE
  OBVIOUS
<1>2. Range(Append(rd, x)) = Range(rd)
  <2>1. Range(Append(rd, x)) = Range(rd) \cup {x}
    BY RangeOf
  <2> QED
    BY <1>1, <2>1
<1>3. Cardinality(Range(rd)) <= Len(rd)
  BY RangeOf
<1>4. Len(Append(rd, x)) = Len(rd) + 1 /\ Len(rd) \in Nat
  OBVIOUS
<1>5. Len(rd) + 1 <= Len(rd)
  BY <1>2, <1>3, <1>4
<1> QED
  BY <1>4, <1>5

\* A device that was not read before gets its first slot.
LEMMA TakenOnce ==
  ASSUME TypeInv, SlotsOfRead, NEW hit, hit.id \in Devices, hit.id \notin Range(read),
         scan.bus \in Bus, Passed(hit) \/ Taken(hit),
         NEW r \in Devices, Kind[r] = "thermometer", NEW b \in Bus
  PROVE  /\ Len(found') < NTemp => Len(found) < NTemp
         /\ r # hit.id \/ b # scan.bus => SlotsIn(found', r, b) = SlotsIn(found, r, b)
         /\ r = hit.id /\ b = scan.bus => Cardinality(SlotsIn(found', r, b)) = 1
<1>0. found \in Seq(Finds) /\ Len(found) \in Nat /\ NTemp \in Nat
  BY ThermometersAssumption DEF TypeInv, TypeOK, Finds
<1>1. CASE Passed(hit)
  BY <1>1 DEF Passed
<1>2. CASE Taken(hit)
  <2> DEFINE x == [id |-> hit.id, bus |-> scan.bus]
  <2>1. x \in Finds
    BY DEF Finds
  <2>2. found' = Append(found, x)
    BY <1>2 DEF Taken
  <2>3. x = [id |-> r, bus |-> b] <=> r = hit.id /\ b = scan.bus
    <3>1. x = [id |-> r, bus |-> b] => x.id = r /\ x.bus = b
      BY DEF Finds
    <3> QED
      BY <3>1
  <2> HIDE DEF x
  <2>4. SlotsIn(found', r, b) = SlotsIn(found, r, b) \cup {i \in {Len(found) + 1} : x = [id |-> r, bus |-> b]}
    BY <2>1, <2>2, <1>0, AppendSlots
  <2>5. Len(found') = Len(found) + 1
    BY <2>1, <2>2, <1>0, AppendSlots
  <2>6. ASSUME r = hit.id, b = scan.bus PROVE Cardinality(SlotsIn(found', r, b)) = 1
    <3>1. SlotsIn(found, r, b) = {}
      BY <2>6, SlotState DEF SlotsIn, OfRead
    <3>2. SlotsIn(found', r, b) = {Len(found) + 1}
      BY <3>1, <2>3, <2>4, <2>6
    <3> QED
      BY <3>2, FS_Singleton
  <2> QED
    BY <2>3, <2>4, <2>5, <2>6, <1>0
<1> QED
  BY <1>1, <1>2

\* A search keeps OneEach, and so does the step to the next bus.
LEMMA SearchOneEach ==
  ASSUME TypeInv, ScanInv, SlotsOfRead, ScanInv', Search, calm,
         OneEach(scan, found, read, at, shorted, cfg)
  PROVE  OneEach(scan', found', read', at', shorted', cfg')
<1> USE BitsAssumption
<1>0. /\ scan \in Scans /\ read \in Seq(Devices) /\ scan.bus \in Bus
      /\ UNCHANGED <<at, shorted, calm>>
  BY SearchStep DEF TypeInv, TypeOK, Scans
<1>1. CASE NoDevice
  <2>1. scan'.bus = scan.bus /\ found' = found /\ read' = read /\ cfg' = cfg
    BY <1>1, <1>0 DEF NoDevice, Scans
  <2> QED
    BY <2>1, <1>0 DEF OneEach, Due
<1>2. CASE ~NoDevice
  <2>1. PICK hit : /\ hit.id \in Devices
                   /\ hit.id \in Plugged(scan.bus) /\ Resumes(Plugged(scan.bus), hit.id, hit.diff)
                   /\ scan' = [scan EXCEPT !.diff = hit.diff, !.id = hit.id]
                   /\ read' = Append(read, hit.id)
                   /\ Passed(hit) \/ Taken(hit)
    BY <1>2, SearchStep
  <2>2. scan'.bus = scan.bus /\ scan'.diff = hit.diff /\ hit.diff # First
    BY <2>1, <1>0 DEF Scans, Resumes, First, Last
  <2>3. Replies(at, shorted, scan.bus)
    BY <1>2, SearchStep, ScanState
  <2>4. scan' # Idle
    <3>1. scan'.bus # Out
      BY <2>2, <1>0, ThermometersAssumption DEF Bus, Out
    <3> QED
      BY <3>1 DEF Idle
  <2>5. Len(read') = Cardinality(Range(read'))
    BY <2>2, <2>3, <2>4, <1>0, ScanState DEF Continues, Reads
  <2>6. hit.id \notin Range(read) /\ Range(read') = Range(read) \cup {hit.id}
    BY <2>1, <2>5, <1>0, NewRom, RangeOf
  <2>7. \A b : SearchedIn(cfg', b) <=> SearchedIn(cfg, b)
    <3>1. cfg \in Configs
      BY DEF TypeInv, TypeOK, Configs
    <3> QED
      BY <3>1, <2>1 DEF Passed, Taken, AddFound, Configs, SearchedIn, Enabled
  <2>8. ASSUME NEW r \in Devices, Due(r, scan', found', read', at', shorted', cfg')
        PROVE  Cardinality(SlotsIn(found', r, at'[r])) = 1
    <3>1. /\ Kind[r] = "thermometer" /\ at[r] \in Bus \ shorted /\ SearchedIn(cfg, at[r])
          /\ \/ at[r] < scan.bus /\ Len(found') < NTemp
             \/ at[r] = scan.bus /\ r \in Range(read')
      BY <2>2, <2>7, <2>8, <1>0 DEF Due
    <3>2. /\ Len(found') < NTemp => Len(found) < NTemp
          /\ r # hit.id \/ at[r] # scan.bus => SlotsIn(found', r, at[r]) = SlotsIn(found, r, at[r])
          /\ r = hit.id /\ at[r] = scan.bus => Cardinality(SlotsIn(found', r, at[r])) = 1
      BY <3>1, <2>1, <2>6, <1>0, TakenOnce
    <3>3. CASE r = hit.id /\ at[r] = scan.bus
      BY <3>2, <3>3, <1>0
    <3>4. CASE ~(r = hit.id /\ at[r] = scan.bus)
      <4>1. at[r] < scan.bus => at[r] # scan.bus
        BY <3>1, <1>0 DEF Bus
      <4>2. Due(r, scan, found, read, at, shorted, cfg)
        BY <4>1, <3>1, <3>2, <3>4, <2>6 DEF Due
      <4> QED
        BY <4>2, <3>2, <3>4, <1>0 DEF OneEach
    <3> QED
      BY <3>3, <3>4
  <2> QED
    BY <2>8 DEF OneEach
<1> QED
  BY <1>1, <1>2

LEMMA NextBusOneEach ==
  ASSUME TypeInv, ScanInv, NextBus, calm,
         OneEach(scan, found, read, at, shorted, cfg)
  PROVE  OneEach(scan', found', read', at', shorted', cfg')
<1> USE ThermometersAssumption, BitsAssumption
<1>0. /\ scan.bus \in Bus /\ scan # Idle /\ ~SearchOn
      /\ scan' = IF scan.bus + 1 \in Bus /\ cfg.eight THEN Enter(scan.bus + 1) ELSE Idle
      /\ read' = <<>> /\ found' = found /\ cfg' = cfg /\ at' = at /\ shorted' = shorted
  BY DEF NextBus, TypeInv, wiring, slots, Scanning
<1>1. scan'.bus = Out \/ scan'.bus = scan.bus + 1
  BY <1>0 DEF Enter, Idle
<1>2. ASSUME NEW r \in Devices, Due(r, scan', found', read', at', shorted', cfg')
      PROVE  Due(r, scan, found, read, at, shorted, cfg)
  <2>1. /\ Kind[r] = "thermometer" /\ at[r] \in Bus \ shorted /\ SearchedIn(cfg, at[r])
        /\ \/ at[r] < scan'.bus /\ Len(found) < NTemp
           \/ at[r] = scan'.bus /\ r \in Range(<<>>)
    BY <1>0, <1>2 DEF Due
  <2>2. r \notin Range(<<>>)
    BY DEF Range
  <2>3. at[r] < scan'.bus /\ Len(found) < NTemp
    BY <2>1, <2>2
  <2>4. at[r] <= scan.bus
    <3>1. CASE scan.bus + 1 \in Bus /\ cfg.eight
      <4>1. scan'.bus = scan.bus + 1
        BY <3>1, <1>0 DEF Enter
      <4> QED
        BY <4>1, <2>1, <2>3, <1>0 DEF Bus
    <3>2. CASE ~cfg.eight
      BY <3>2, <2>1, <1>0 DEF Bus, SearchedIn
    <3>3. CASE scan.bus + 1 \notin Bus
      BY <3>3, <2>1, <1>0 DEF Bus
    <3> QED
      BY <3>1, <3>2, <3>3
  <2>5. CASE at[r] < scan.bus
    BY <2>5, <2>1, <2>3 DEF Due
  <2>6. CASE at[r] = scan.bus
    <3>1. scan.diff = Last /\ scan.diff # First
      BY <2>3, <1>0 DEF SearchOn, Last, First
    <3>2. r \in On(at, scan.bus)
      BY <2>6 DEF On
    <3>3. Replies(at, shorted, scan.bus)
      BY <3>2, <2>1, <2>6 DEF Replies
    <3>4. Reads(scan, On(at, scan.bus), read)
      BY <3>1, <3>3, <1>0, ScanState DEF Continues
    <3>5. r \in Range(read)
      BY <3>1, <3>2, <3>4 DEF Reads
    <3> QED
      BY <3>5, <2>1, <2>6 DEF Due
  <2> QED
    BY <2>1, <2>4, <2>5, <2>6, <1>0 DEF Bus
<1> QED
  BY <1>0, <1>2 DEF OneEach

\* Every step keeps OneSlot.
LEMMA OneSlotStep ==
  ASSUME TypeInv, ScanInv, ScanInv', SlotsOfRead, OneSlot, [Next]_vars
  PROVE  OneSlot'
<1> USE ThermometersAssumption
<1>1. CASE Search
  BY <1>1, SlotState, SearchOneEach, SearchStep
<1>2. CASE NextBus
  BY <1>2, SlotState, NextBusOneEach DEF NextBus
<1>3. CASE Rescan \/ Restart
  <2>1. read' = <<>> /\ (scan'.bus = 0 \/ ~Enabled(cfg'))
    BY <1>3, ScanBegins, FirstIdle
  <2>2. \A r : ~Due(r, scan', found', read', at', shorted', cfg')
    BY <2>1 DEF Due, Range, Bus, SearchedIn
  <2> QED
    BY <2>2, SlotState DEF OneEach
<1>4. CASE UNCHANGED <<scan, found, read, at, shorted, cfg, calm, edited>>
  BY <1>4, SlotState
<1>5. CASE calm' = FALSE \/ edited' = TRUE
  BY <1>5, SlotState
<1>6. CASE SetupPage
  <2>1. edited' = TRUE \/ UNCHANGED <<cfg, edited>>
    BY <1>6 DEF SetupPage, SetNumber, ClearMap, SwitchBuses, Save, Load
  <2> QED
    BY <2>1, <1>4, <1>5, <1>6 DEF SetupPage, wiring, slots
<1>7. CASE Disturb \/ World
  BY <1>5, <1>7 DEF Disturb, World
<1>8. CASE Measure
  BY <1>4, <1>8 DEF Measure, wiring, history
<1>9. CASE UNCHANGED vars
  BY <1>4, <1>9 DEF vars, wiring, slots, history
<1> QED
  BY <1>1, <1>2, <1>3, <1>6, <1>7, <1>8, <1>9 DEF Next, Scan

\* After a scan nobody disturbed every thermometer has exactly one slot.
THEOREM ScanFindsAll == Spec => []AllFound
<1>1. Init => ScanInv /\ SlotsOfRead /\ OneSlot
  <2>1. Init => /\ read = <<>> /\ found = <<>>
                /\ \/ scan.diff = First /\ scan.bus = 0
                   \/ scan = Idle /\ ~Enabled(cfg)
    BY FirstIdle DEF Init
  <2>2. Init => ScanInv
    BY <2>1, ScanState DEF Continues
  <2>3. Init => SlotsOfRead
    BY <2>1 DEF SlotsOfRead
  <2>4. Init => OneSlot
    <3>1. Init => \A r : ~Due(r, scan, found, read, at, shorted, cfg)
      BY <2>1, ThermometersAssumption DEF Due, Range, Bus, SearchedIn
    <3> QED
      BY <3>1, SlotState DEF OneEach
  <2> QED
    BY <2>2, <2>3, <2>4
<1>2. TypeInv /\ (ScanInv /\ SlotsOfRead /\ OneSlot) /\ [Next]_vars => (ScanInv /\ SlotsOfRead /\ OneSlot)'
  BY ScanStep, OfReadStep, OneSlotStep
<1>3. OneSlot => AllFound
  <2>1. SUFFICES ASSUME OneSlot, ~Scanning, calm, ~edited, Len(found) < NTemp,
                        NEW b \in Bus \ shorted, NEW r \in Devices,
                        Searched(b), at[r] = b, Kind[r] = "thermometer"
                 PROVE  Cardinality(SlotsOf(r, b)) = 1
    BY DEF AllFound
  <2>2. scan.bus = Out
    BY <2>1 DEF Scanning, Idle
  <2>3. at[r] < scan.bus
    BY <2>1, <2>2, ThermometersAssumption DEF Bus, Out
  <2> QED
    BY <2>1, <2>3 DEF OneSlot
<1> QED
  BY <1>1, <1>2, <1>3, InitType, NextType, PTL DEF Spec
=============================================================================
