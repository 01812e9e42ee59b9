---------------------------- MODULE JitterProofs ----------------------------
(***************************************************************************)
(* Proofs about the jitter buffer, for any number of slots and sequence    *)
(* numbers: that the window holds through every loss, delay and repeat,    *)
(* and what it means for late packets.                                     *)
(***************************************************************************)
EXTENDS Jitter, TLAPS

-----------------------------------------------------------------------------
(* Arithmetic *)

\* Sequence numbers and slots are in range.
LEMMA Ranges ==
  /\ SnCount \in Nat \ {0}
  /\ \A p \in Pos : p \in Int /\ SnOf(p) \in Sn
  /\ \A n \in Sn : SlotOf(n) \in Slot
  /\ Empty \notin Pos
<1>1. SnCount \in Nat \ {0} /\ BufferCount \in Nat \ {0}
  BY JitterAssumption
<1>2. \A p \in Nat : p % SnCount \in 0 .. SnCount - 1
  BY <1>1
<1>3. \A n \in Nat : n % BufferCount \in 0 .. BufferCount - 1
  BY <1>1
<1>4. Pos \subseteq Nat /\ Sn \subseteq Nat
  BY <1>1, JitterAssumption DEF Pos, Sn
<1>5. Empty \notin Pos
  <2>1. \A p \in Pos : p \in Int
    BY <1>4
  <2>2. Empty \notin Int
    BY JitterAssumption
  <2> QED
    BY <2>1, <2>2, Zenon
<1>6. \A p \in Pos : p \in Int /\ SnOf(p) \in Sn
  BY <1>2, <1>4 DEF SnOf, Sn
<1>7. \A n \in Sn : SlotOf(n) \in Slot
  BY <1>3, <1>4 DEF SlotOf, Slot
<1> QED
  BY <1>1, <1>5, <1>6, <1>7

\* Wrapping differences and successors.
LEMMA Wraps ==
  /\ \A a, b \in Sn : Sub(a, b) \in Sn
  /\ \A a \in Sn : Next1(a) \in Sn
  /\ \A a, b \in Sn : Sub(a, b) = 0 <=> a = b
  /\ \A a, b \in Sn : a # b => Sub(a, Next1(b)) = Sub(a, b) - 1
  /\ \A a \in Sn, w \in 0 .. SnCount - 1 : Sub(a, w) \in Sn /\ Sub(a, Sub(a, w)) = w
BY JitterAssumption DEF Sub, Next1, Sn

\* Differences of numbers with the same remainder.
LEMMA Laps ==
  ASSUME NEW q \in Int, NEW p \in Int, NEW k \in Int, NEW n \in Int, NEW r \in Int
  PROVE  /\ (q * n + r) - (p * n + r) = (q - p) * n
         /\ (q * n + r) - (p * n + r) + k * n = (q - p + k) * n
OBVIOUS

\* Two sequence numbers with the same slot, the one at most BufferCount ahead of
\* the other, are equal or exactly BufferCount apart.
LEMMA SameSlot ==
  ASSUME NEW a \in Sn, NEW b \in Sn, SlotOf(a) = SlotOf(b), Sub(a, b) <= BufferCount
  PROVE  a = b \/ Sub(a, b) = BufferCount
<1>1. SnCount \in Nat /\ BufferCount \in Nat \ {0} /\ SnCount % BufferCount = 0
  BY JitterAssumption
<1>2. \A n \in Nat : n = (n \div BufferCount) * BufferCount + (n % BufferCount) /\ n \div BufferCount \in Nat
  BY <1>1
<1> DEFINE qa == a \div BufferCount
           qb == b \div BufferCount
           k  == SnCount \div BufferCount
<1>3. a \in Nat /\ b \in Nat /\ a < SnCount /\ b < SnCount
  BY <1>1 DEF Sn
<1>4. /\ qa \in Nat /\ qb \in Nat /\ k \in Nat
      /\ a = qa * BufferCount + (a % BufferCount)
      /\ b = qb * BufferCount + (a % BufferCount)
      /\ SnCount = k * BufferCount
  BY <1>1, <1>2, <1>3 DEF SlotOf
<1>5. \E t \in Int : Sub(a, b) = t * BufferCount
  <2>1. a - b = (qa - qb) * BufferCount /\ a - b + SnCount = (qa - qb + k) * BufferCount
    <3> DEFINE r == a % BufferCount
    <3>1. r \in Int
      BY <1>1, <1>3
    <3>2. qa \in Int /\ qb \in Int /\ k \in Int /\ BufferCount \in Int
      BY <1>1, <1>4
    <3>3. a = qa * BufferCount + r /\ b = qb * BufferCount + r /\ SnCount = k * BufferCount
      BY <1>4
    <3> HIDE DEF qa, qb, k, r
    <3> QED
      BY <3>1, <3>2, <3>3, Laps
  <2>2. qa - qb \in Int /\ qa - qb + k \in Int
    BY <1>4
  <2> QED
    BY <2>1, <2>2 DEF Sub
<1>6. PICK t \in Int : Sub(a, b) = t * BufferCount
  BY <1>5
<1>7. Sub(a, b) \in Nat
  BY <1>1, Wraps DEF Sn
<1>8. t = 0 \/ t = 1
  <2>1. t >= 0
    BY <1>1, <1>6, <1>7
  <2>2. t <= 1
    BY <1>1, <1>6
  <2> QED
    BY <2>1, <2>2
<1>9. CASE t = 0
  BY <1>1, <1>6, <1>9, Wraps
<1>10. CASE t = 1
  BY <1>1, <1>6, <1>10
<1> QED
  BY <1>8, <1>9, <1>10
\* The same, for two numbers within the window of a third.
LEMMA SameLap ==
  ASSUME NEW o \in Sn, NEW a \in Sn, NEW b \in Sn, a # b, SlotOf(a) = SlotOf(b),
         Sub(a, o) < BufferCount, Sub(b, o) <= BufferCount
  PROVE  a = o /\ Sub(b, o) = BufferCount
<1>1. /\ BufferCount \in Nat /\ SnCount \in Nat
      /\ Sub(a, o) \in Nat /\ Sub(b, o) \in Nat /\ Sub(a, b) \in Nat /\ Sub(b, a) \in Nat
  BY Wraps, JitterAssumption DEF Sn
<1>2. \A x, y \in Sn : Sub(x, o) <= Sub(y, o) => Sub(y, x) = Sub(y, o) - Sub(x, o)
  BY <1>1 DEF Sub, Sn
<1>3. CASE Sub(a, o) <= Sub(b, o)
  <2>1. Sub(b, a) = Sub(b, o) - Sub(a, o)
    BY <1>2, <1>3
  <2>2. Sub(b, a) = BufferCount
    BY <1>1, <2>1, SameSlot
  <2>3. Sub(a, o) = 0 /\ Sub(b, o) = BufferCount
    BY <1>1, <2>1, <2>2
  <2> QED
    BY <2>3, Wraps
<1>4. CASE Sub(b, o) < Sub(a, o)
  <2>1. Sub(a, b) = Sub(a, o) - Sub(b, o)
    BY <1>1, <1>2, <1>4
  <2>2. Sub(a, b) < BufferCount
    BY <1>1, <2>1
  <2> QED
    BY <1>1, <2>2, SameSlot
<1> QED
  BY <1>1, <1>3, <1>4

-----------------------------------------------------------------------------
(* The window *)

\* Pushing a packet keeps the buffer well-formed and its window.
LEMMA PushStep ==
  ASSUME TypeOK, Window, NEW p \in Pos, Push(p)
  PROVE  /\ slots' \in [Slot -> Pos \cup {Empty}]
         /\ outSn' \in Sn
         /\ primed' \in BOOLEAN
         /\ inLine' \in BOOLEAN
         /\ Window'
<1> DEFINE start == StartFor(p)
           here  == SlotOf(SnOf(p))
<1>1. /\ slots \in [Slot -> Pos \cup {Empty}] /\ outSn \in Sn
      /\ SnOf(p) \in Sn /\ here \in Slot /\ p # Empty
  BY Ranges DEF TypeOK
<1>2. start \in Sn /\ outSn' = start /\ primed' = TRUE
  BY <1>1, Wraps, JitterAssumption DEF StartFor, Push
<1>3. slots' = IF Fits(p, start) THEN [slots EXCEPT ![here] = p] ELSE slots
  BY DEF Push
<1>4. slots' \in [Slot -> Pos \cup {Empty}]
  BY <1>1, <1>3
<1>5. start = outSn \/ IsEmpty
  BY DEF StartFor, Window
<1>6. ASSUME NEW i \in Slot, slots'[i] # Empty
      PROVE  i = SlotOf(SnOf(slots'[i])) /\ Ahead(slots'[i], start) <= BufferCount
  <2>1. CASE Fits(p, start) /\ i = here
    BY <1>1, <1>3, <2>1 DEF Fits
  <2>2. CASE ~(Fits(p, start) /\ i = here)
    <3>1. slots'[i] = slots[i]
      BY <1>1, <1>3, <2>2
    <3>2. start = outSn
      BY <1>5, <1>6, <3>1 DEF IsEmpty
    <3> QED
      BY <1>6, <3>1, <3>2 DEF Window
  <2> QED
    BY <2>1, <2>2
<1>7. Window'
  BY <1>2, <1>6 DEF Window, Ahead
<1>8. inLine' \in BOOLEAN
  BY DEF Push
<1> QED
  BY <1>2, <1>4, <1>7, <1>8

\* Reading moves on one packet at most, and only past an empty slot.
LEMMA PopStep ==
  ASSUME TypeOK, Window, Pop
  PROVE  /\ slots' \in [Slot -> Pos \cup {Empty}]
         /\ outSn' \in Sn
         /\ primed' \in BOOLEAN
         /\ last' \in Pos \cup {Empty}
         /\ inLine' \in BOOLEAN
         /\ Window'
<1> DEFINE at == SlotOf(outSn)
<1>1. /\ slots \in [Slot -> Pos \cup {Empty}] /\ outSn \in Sn /\ at \in Slot
      /\ last \in Pos \cup {Empty} /\ inLine \in BOOLEAN
  BY Ranges DEF TypeOK
<1>2. primed = TRUE /\ primed' = TRUE
  BY DEF Pop, TypeOK
<1>3. CASE Head = Empty /\ Skip /\ UNCHANGED <<last, inLine>>
  <2>1. outSn' = Next1(outSn) /\ slots' = slots /\ last' = last /\ inLine' = inLine
    BY <1>3 DEF Skip, Advance
  <2>2. outSn' \in Sn
    BY <1>1, <2>1, Wraps
  <2>3. ASSUME NEW i \in Slot, slots[i] # Empty
        PROVE  i = SlotOf(SnOf(slots[i])) /\ Ahead(slots[i], Next1(outSn)) <= BufferCount
    <3>1. i = SlotOf(SnOf(slots[i])) /\ Ahead(slots[i], outSn) <= BufferCount
      BY <2>3 DEF Window
    <3>2. SnOf(slots[i]) # outSn
      BY <1>3, <2>3, <3>1 DEF Head
    <3>3. SnOf(slots[i]) \in Sn
      BY <1>1, <2>3, Ranges
    <3>4. Ahead(slots[i], Next1(outSn)) = Ahead(slots[i], outSn) - 1 /\ Ahead(slots[i], outSn) \in Sn
      BY <1>1, <3>2, <3>3, Wraps DEF Ahead
    <3> QED
      BY <3>1, <3>4, JitterAssumption DEF Sn
  <2>4. Window'
    BY <1>2, <2>1, <2>3 DEF Window, Ahead
  <2> QED
    BY <1>1, <1>2, <2>1, <2>2, <2>4
<1>4. CASE Evict /\ UNCHANGED <<last, inLine>>
  <2>1. outSn' = outSn /\ slots' = [slots EXCEPT ![at] = Empty] /\ last' = last /\ inLine' = inLine
    BY <1>4 DEF Evict, Vacate
  <2>2. slots' \in [Slot -> Pos \cup {Empty}]
    BY <1>1, <2>1
  <2>3. Window'
    BY <1>1, <1>2, <2>1 DEF Window, Ahead
  <2> QED
    BY <1>1, <1>2, <2>1, <2>2, <2>3
<1>5. CASE Head # Empty /\ SnOf(Head) = outSn /\ Read(Head)
  <2>1. /\ outSn' = Next1(outSn) /\ slots' = [slots EXCEPT ![at] = Empty]
        /\ last' = slots[at] /\ inLine' = TRUE
    BY <1>5 DEF Read, Advance, Vacate, Head
  <2>2. outSn' \in Sn /\ slots' \in [Slot -> Pos \cup {Empty}] /\ last' \in Pos \cup {Empty}
    BY <1>1, <2>1, Wraps
  <2>3. ASSUME NEW i \in Slot, slots'[i] # Empty
        PROVE  i = SlotOf(SnOf(slots'[i])) /\ Ahead(slots'[i], Next1(outSn)) <= BufferCount
    <3>1. i # at /\ slots'[i] = slots[i]
      BY <1>1, <2>1, <2>3
    <3>2. i = SlotOf(SnOf(slots[i])) /\ Ahead(slots[i], outSn) <= BufferCount
      BY <2>3, <3>1 DEF Window
    <3>3. SnOf(slots[i]) # outSn
      BY <3>1, <3>2
    <3>4. SnOf(slots[i]) \in Sn
      BY <1>1, <2>3, <3>1, Ranges
    <3>5. Ahead(slots[i], Next1(outSn)) = Ahead(slots[i], outSn) - 1 /\ Ahead(slots[i], outSn) \in Sn
      BY <1>1, <3>3, <3>4, Wraps DEF Ahead
    <3> QED
      BY <3>1, <3>2, <3>5, JitterAssumption DEF Sn
  <2>4. Window'
    BY <1>2, <2>1, <2>3 DEF Window, Ahead
  <2> QED
    BY <1>2, <2>1, <2>2, <2>4
<1> QED
  BY <1>3, <1>4, <1>5 DEF Pop

JitterInv == TypeOK /\ Window

\* Every step keeps the types and the window.
LEMMA JitterStep == JitterInv /\ [Next]_vars => JitterInv'
<1> SUFFICES ASSUME TypeOK, Window, [Next]_vars PROVE TypeOK' /\ Window'
  BY DEF JitterInv
<1>1. ASSUME NEW p \in Pos, Arrive(p) PROVE TypeOK' /\ Window'
  <2>1. Push(p)
    BY <1>1 DEF Arrive
  <2>2. newest' \in Pos \cup {-1} /\ quiet' \in 0 .. Lifetime /\ oldest' = oldest /\ last' = last
    BY <1>1, JitterAssumption DEF Arrive, TypeOK
  <2> QED
    BY <2>1, <2>2, PushStep DEF TypeOK
<1>2. ASSUME NEW p \in Pos, Restart(p) PROVE TypeOK' /\ Window'
  <2>1. Push(p)
    BY <1>2 DEF Restart
  <2>2. newest' \in Pos \cup {-1} /\ quiet' \in 0 .. Lifetime /\ oldest' \in 0 .. MaxPos + 1 /\ last' = last
    BY <1>2, JitterAssumption DEF Restart, Pos
  <2> QED
    BY <2>1, <2>2, PushStep DEF TypeOK
<1>3. CASE Tick
  <2>1. Pop
    BY <1>3 DEF Tick
  <2>2. newest' = newest /\ quiet' \in 0 .. Lifetime /\ oldest' \in 0 .. MaxPos + 1
    BY <1>3, JitterAssumption DEF Tick, TypeOK, Pos
  <2> QED
    BY <2>1, <2>2, PopStep DEF TypeOK
<1>4. CASE Clear
  BY <1>4 DEF Clear, TypeOK, Window, IsEmpty, network
<1>5. CASE UNCHANGED vars
  BY <1>5 DEF vars, buffer, network, TypeOK, Window, IsEmpty, Ahead
<1> QED
  BY <1>1, <1>2, <1>3, <1>4, <1>5 DEF Next

\* The types and the window hold in every run.
LEMMA JitterAlways == Spec => []JitterInv
<1>1. ASSUME Init PROVE JitterInv
  <2>1. \A i \in Slot : slots[i] = Empty
    BY <1>1 DEF Init
  <2>2. slots \in [Slot -> Pos \cup {Empty}]
    BY <1>1 DEF Init
  <2>3. 0 \in Sn /\ 0 \in 0 .. MaxPos + 1 /\ 0 \in 0 .. Lifetime
    BY JitterAssumption DEF Sn
  <2>4. TypeOK
    BY <1>1, <2>2, <2>3 DEF Init, TypeOK
  <2>5. Window
    BY <2>1 DEF Window, IsEmpty
  <2> QED
    BY <2>4, <2>5 DEF JitterInv
<1> QED
  BY <1>1, JitterStep, PTL DEF Spec

\* Slots, positions and sequence numbers stay in range through every wrap.
THEOREM TypeCorrect == Spec => []TypeOK
<1>1. JitterInv => TypeOK
  BY DEF JitterInv
<1> QED
  BY <1>1, JitterAlways, PTL

\* No packet in the buffer is ever more than BufferCount ahead of reading: a
\* packet of another lap of the sequence numbers cannot be there.
THEOREM WindowHolds == Spec => []Window
<1>1. JitterInv => Window
  BY DEF JitterInv
<1> QED
  BY <1>1, JitterAlways, PTL

\* A late packet within the window is accepted, unless one that was exactly
\* BufferCount ahead has taken its slot.
THEOREM LateHolds == Spec => LateAccepted
<1> DEFINE Fair(p) ==
      Push(p) /\ primed /\ Ahead(p, outSn) < BufferCount
        => \/ \E q \in Pos : slots'[SlotOf(SnOf(p))] = q /\ SnOf(q) = SnOf(p)
           \/ SnOf(p) = outSn /\ Ahead(Head, outSn) = BufferCount
<1>1. ASSUME JitterInv PROVE [\A p \in Pos : Fair(p)]_vars
  <2> SUFFICES ASSUME NEW p \in Pos, Push(p), primed, Ahead(p, outSn) < BufferCount
               PROVE  \/ \E q \in Pos : slots'[SlotOf(SnOf(p))] = q /\ SnOf(q) = SnOf(p)
                      \/ SnOf(p) = outSn /\ Ahead(Head, outSn) = BufferCount
    OBVIOUS
  <2> DEFINE here == SlotOf(SnOf(p))
             q    == slots[here]
  <2>1. /\ slots \in [Slot -> Pos \cup {Empty}] /\ outSn \in Sn
        /\ SnOf(p) \in Sn /\ here \in Slot
    BY <1>1, Ranges DEF JitterInv, TypeOK
  <2>2. Ahead(p, outSn) \in Nat /\ BufferCount \in Nat
    BY <2>1, Wraps, JitterAssumption DEF Ahead, Sn
  <2>3. StartFor(p) = outSn
    BY <2>2 DEF StartFor
  <2>4. CASE q = Empty
    <3>1. slots' = [slots EXCEPT ![here] = p]
      BY <2>2, <2>3, <2>4 DEF Push, Fits
    <3> QED
      BY <2>1, <3>1
  <2>5. CASE q # Empty
    <3>1. slots' = slots
      BY <2>5 DEF Push, Fits
    <3>2. q \in Pos /\ SnOf(q) \in Sn /\ SlotOf(SnOf(q)) = here /\ Ahead(q, outSn) <= BufferCount
      BY <1>1, <2>1, <2>5, Ranges DEF JitterInv, Window
    <3>3. CASE SnOf(q) = SnOf(p)
      BY <3>1, <3>2, <3>3
    <3>4. CASE SnOf(q) # SnOf(p)
      <4>1. SnOf(p) = outSn /\ Ahead(q, outSn) = BufferCount
        BY <2>1, <2>2, <3>2, <3>4, SameLap DEF Ahead
      <4> QED
        BY <4>1 DEF Head
    <3> QED
      BY <3>3, <3>4
  <2> QED
    BY <2>4, <2>5
<1>2. JitterInv /\ [Next]_vars => [\A p \in Pos : Fair(p)]_vars
  BY <1>1
<1> QED
  BY <1>2, JitterAlways, PTL DEF Spec, LateAccepted

-----------------------------------------------------------------------------
(* The order *)

\* o is a position in the stream whose sequence number is n.  Which one outSn
\* means only shows in what is in the buffer: it is not known to the code.
Stands(o, n) == \E k \in Int : o = n + k * SnCount

\* Reading stands before position o, and what is buffered is of that lap.
Placed(o) ==
  /\ Stands(o, outSn)
  /\ \A i \in Slot : slots[i] # Empty =>
       slots[i] \in o .. o + BufferCount /\ slots[i] <= newest

\* Nothing that was read, or passed by, can still be read: either nothing as old
\* is on its way any more, or reading is past it, and not too far ahead of the
\* stream for a late packet to be told from an early one.
Past(o) ==
  inLine =>
    /\ last # Empty
    /\ last <= newest
    /\ \A i \in Slot : slots[i] # Empty => last < slots[i]
    /\ last < oldest \/ (last < o /\ o <= newest + 1 + quiet)

LineInv ==
  /\ primed => \E o \in Int : Placed(o) /\ Past(o)
  /\ inLine => primed

OrderInv == TypeOK /\ Window /\ LineInv

\* Multiples of the number of sequence numbers.
LEMMA Multiples ==
  ASSUME NEW m \in Int
  PROVE  /\ m * SnCount \in Int
         /\ m >= 1 => m * SnCount >= SnCount
         /\ m <= -1 => m * SnCount <= -SnCount
         /\ m = 0 => m * SnCount = 0
<1>1. SnCount \in Nat \ {0}
  BY Ranges
<1> QED
  BY <1>1

\* A packet is a whole number of laps away from where its number says it is.
LEMMA Apart ==
  ASSUME NEW n \in Sn, NEW p \in Pos, NEW o \in Int, Stands(o, n)
  PROVE  \E m \in Int : p = o + Ahead(p, n) + m * SnCount
<1> DEFINE kp == p \div SnCount
           a  == Ahead(p, n)
<1>1. /\ SnCount \in Nat \ {0} /\ p \in Nat
      /\ SnOf(p) \in 0 .. SnCount - 1 /\ n \in 0 .. SnCount - 1
  BY Ranges DEF Pos, Sn
<1>2. kp \in Int /\ p = SnOf(p) + kp * SnCount
  BY <1>1 DEF SnOf
<1>3. PICK k \in Int : o = n + k * SnCount
  BY DEF Stands
<1>4. PICK e \in {0, 1} : a = SnOf(p) - n + e * SnCount
  BY <1>1 DEF Ahead, Sub
<1> HIDE DEF kp, a
<1>5. p = o + a + (kp - k - e) * SnCount
  <2>1. /\ kp \in Int /\ k \in Int /\ e \in Int /\ SnCount \in Int
        /\ SnOf(p) \in Int /\ n \in Int
    BY <1>1, <1>2, <1>4
  <2>2. (kp - k - e) * SnCount = kp * SnCount - k * SnCount - e * SnCount
    BY <2>1
  <2>3. kp * SnCount \in Int /\ k * SnCount \in Int /\ e * SnCount \in Int
    BY <2>1
  <2> HIDE DEF Stands
  <2> QED
    BY <2>1, <2>2, <2>3, <1>2, <1>3, <1>4
<1>6. kp - k - e \in Int
  BY <1>2, <1>4
<1> QED
  BY <1>5, <1>6 DEF a

\* A packet in the window that is neither a lap too late nor a lap too early is
\* as far from reading as the sequence numbers say.
LEMMA SameLine ==
  ASSUME NEW n \in Sn, NEW p \in Pos, NEW o \in Int, Stands(o, n),
         Ahead(p, n) <= BufferCount,
         p > o + BufferCount - SnCount, p < o + SnCount
  PROVE  p = o + Ahead(p, n)
<1> DEFINE a == Ahead(p, n)
<1>1. PICK m \in Int : p = o + a + m * SnCount
  BY Apart
<1>2. a \in Nat /\ BufferCount \in Nat /\ SnCount \in Nat /\ p \in Int /\ a <= BufferCount
  <2>1. SnOf(p) \in Sn
    BY Ranges
  <2> QED
    BY <2>1, Ranges, Wraps, JitterAssumption DEF Ahead, Sn
<1> HIDE DEF a
<1>3. ~(m >= 1) /\ ~(m <= -1)
  BY <1>1, <1>2, Multiples
<1>4. m = 0
  BY <1>3
<1> QED
  BY <1>1, <1>2, <1>4, Multiples DEF a

\* A packet that arrives, and is neither too late nor too early, leaves reading
\* in line.
LEMMA PushInLine ==
  ASSUME OrderInv, NEW p \in Pos, Push(p),
         p >= oldest', p >= newest - Skew,
         \A i \in Slot : slots[i] # Empty => p <= slots[i] + Drift,
         oldest' \in Nat, oldest' = oldest \/ oldest' > newest,
         newest' = IF p > newest THEN p ELSE newest,
         quiet' = 0, last' = last
  PROVE  LineInv'
<1> DEFINE n    == StartFor(p)
           a    == Ahead(p, n)
           here == SlotOf(SnOf(p))
<1>1. /\ slots \in [Slot -> Pos \cup {Empty}] /\ outSn \in Sn /\ here \in Slot
      /\ SnOf(p) \in Sn /\ p \in Nat /\ p # Empty
  BY Ranges DEF OrderInv, TypeOK, Pos
<1>2. /\ BufferCount \in Nat \ {0} /\ SnCount \in Nat \ {0} /\ WaterLevel \in 0 .. SnCount - 1
      /\ Skew \in Nat /\ Drift \in Nat /\ Lifetime \in Nat /\ WaterLevel < BufferCount
      /\ 2 * BufferCount + Skew + Lifetime < SnCount /\ BufferCount + Drift < SnCount
  BY Ranges, JitterAssumption
<1>3. /\ newest \in Int /\ oldest \in Nat /\ quiet \in 0 .. Lifetime
      /\ newest' \in Int /\ newest' >= newest /\ newest' >= p
  BY <1>1 DEF OrderInv, TypeOK, Pos
<1>4. n \in Sn /\ outSn' = n /\ primed' = TRUE /\ inLine' = (inLine /\ primed /\ n = outSn)
  BY <1>1, <1>2, Wraps DEF StartFor, Push
<1>5. a \in Nat
  BY <1>1, <1>2, <1>4, Wraps DEF Ahead, Sn
<1>6. slots' = IF Fits(p, n) THEN [slots EXCEPT ![here] = p] ELSE slots
  BY DEF Push
<1>7. ASSUME inLine, last # Empty, last <= newest, last < oldest
      PROVE  last < p /\ last < oldest'
  BY <1>1, <1>3, <1>7 DEF OrderInv, TypeOK, Pos
<1>8. last # Empty => last \in Nat
  BY DEF OrderInv, TypeOK, Pos
<1>9. CASE IsEmpty
  <2>1. a <= BufferCount
    <3>1. CASE n = outSn /\ primed /\ ~(Ahead(p, outSn) > BufferCount)
      BY <1>1, <1>2, <1>5, <3>1
    <3>2. CASE n = Sub(SnOf(p), WaterLevel)
      <4>1. a = WaterLevel
        BY <1>1, <1>2, <3>2, Wraps DEF Ahead
      <4> QED
        BY <1>2, <4>1
    <3> QED
      BY <1>9, <3>1, <3>2 DEF StartFor
  <2>2. slots[here] = Empty
    BY <1>1, <1>9 DEF IsEmpty
  <2>3. slots' = [slots EXCEPT ![here] = p]
    BY <1>6, <2>1, <2>2 DEF Fits
  <2>4. \A i \in Slot : slots'[i] # Empty => slots'[i] = p
    BY <1>1, <1>9, <2>3 DEF IsEmpty
  <2>5. PICK m \in Int : p = n + a + m * SnCount
    <3>1. n \in Int
      BY <1>2, <1>4 DEF Sn
    <3> HIDE DEF n
    <3>2. Stands(n, n)
      <4>1. 0 \in Int /\ n = n + 0 * SnCount
        BY <1>2, <3>1
      <4> QED
        BY <4>1 DEF Stands
    <3> QED
      BY <1>4, <3>1, <3>2, Apart
  <2>6. PICK c \in Int : c = p - a
    BY <1>1, <1>5
  <2>7. Stands(c, n)
    <3>1. m * SnCount \in Int /\ n \in Int /\ a \in Int
      BY <1>2, <1>4, <1>5, Multiples DEF Sn
    <3> HIDE DEF a, n
    <3>2. c = n + m * SnCount
      BY <1>1, <2>5, <2>6, <3>1
    <3> QED
      BY <3>2 DEF Stands
  <2> HIDE DEF a, n
  <2>8. Placed(c)'
    <3>1. \A i \in Slot : slots'[i] # Empty => slots'[i] \in c .. c + BufferCount /\ slots'[i] <= newest'
      BY <1>1, <1>2, <1>3, <1>5, <2>1, <2>4, <2>6
    <3>2. Stands(c, outSn')
      BY <1>4, <2>7
    <3> QED
      BY <3>1, <3>2 DEF Placed, Stands
  <2>9. ASSUME inLine'
        PROVE  /\ last # Empty /\ last <= newest' /\ last < p
               /\ last < oldest' \/ (last < c /\ c <= newest' + 1)
    <3>1. inLine /\ primed /\ n = outSn
      BY <1>4, <2>9
    <3>2. PICK o \in Int : Placed(o) /\ Past(o)
      BY <3>1 DEF OrderInv, LineInv
    <3>3. last # Empty /\ last <= newest /\ last \in Nat
      BY <1>8, <3>1, <3>2 DEF Past
    <3>4. CASE last < oldest
      BY <1>3, <1>7, <3>1, <3>3, <3>4
    <3>5. CASE last < o /\ o <= newest + 1 + quiet
      <4>1. Stands(o, n)
        BY <3>1, <3>2 DEF Placed
      <4>2. PICK j \in Int : p = o + a + j * SnCount
        BY <1>4, <4>1, Apart DEF a
      <4>3. p > o + BufferCount - SnCount
        BY <1>1, <1>2, <1>3, <3>5
      <4>4. ~(j <= -1)
        BY <1>1, <1>2, <1>5, <2>1, <4>2, <4>3, Multiples
      <4>5. j * SnCount >= 0 /\ j * SnCount \in Int
        BY <1>2, <4>4, Multiples
      <4>6. c >= o
        BY <1>1, <1>5, <2>6, <4>2, <4>5
      <4>7. c <= p
        BY <1>1, <1>5, <2>6
      <4> QED
        BY <1>1, <1>3, <3>3, <3>5, <4>6, <4>7
    <3> QED
      BY <3>1, <3>2, <3>4, <3>5 DEF Past
  <2>10. Past(c)'
    BY <1>2, <1>3, <1>4, <2>4, <2>9 DEF Past
  <2> QED
    BY <1>4, <2>8, <2>10 DEF LineInv
<1>10. CASE ~IsEmpty
  <2>1. n = outSn /\ primed
    BY <1>10 DEF StartFor, OrderInv, Window
  <2>2. PICK o \in Int : Placed(o) /\ Past(o)
    BY <2>1 DEF OrderInv, LineInv
  <2>3. PICK i \in Slot : slots[i] # Empty
    BY <1>10 DEF IsEmpty
  <2>4. slots[i] \in o .. o + BufferCount /\ slots[i] <= newest /\ p <= slots[i] + Drift
    BY <2>2, <2>3 DEF Placed
  <2>5. p > o + BufferCount - SnCount /\ p < o + SnCount /\ o <= newest
    BY <1>1, <1>2, <1>3, <2>4
  <2>6. Fits(p, n) => p = o + a /\ a <= BufferCount
    <3>1. Stands(o, n)
      BY <2>1, <2>2 DEF Placed
    <3> HIDE DEF n
    <3> QED
      BY <1>4, <2>5, <3>1, SameLine DEF Fits
  <2> HIDE DEF a, n
  <2>7. \A s \in Slot : slots'[s] # Empty =>
          \/ slots'[s] = slots[s] /\ slots[s] # Empty
          \/ slots'[s] = p /\ p = o + a /\ a <= BufferCount
    BY <1>1, <1>6, <2>6
  <2>8. Placed(o)'
    <3>1. ASSUME NEW s \in Slot, slots'[s] # Empty
          PROVE  slots'[s] \in o .. o + BufferCount /\ slots'[s] <= newest'
      <4>1. CASE slots'[s] = slots[s] /\ slots[s] # Empty
        <5>1. slots[s] \in o .. o + BufferCount /\ slots[s] <= newest
          BY <2>2, <4>1 DEF Placed
        <5> QED
          BY <1>2, <1>3, <4>1, <5>1
      <4>2. CASE slots'[s] = p /\ p = o + a /\ a <= BufferCount
        BY <1>1, <1>2, <1>3, <1>5, <4>2
      <4> QED
        BY <2>7, <3>1, <4>1, <4>2
    <3>2. Stands(o, outSn')
      BY <1>4, <2>1, <2>2 DEF Placed
    <3> QED
      BY <3>1, <3>2 DEF Placed, Stands
  <2>9. ASSUME inLine'
        PROVE  /\ last # Empty /\ last <= newest'
               /\ \A s \in Slot : slots'[s] # Empty => last < slots'[s]
               /\ last < oldest' \/ (last < o /\ o <= newest' + 1)
    <3>1. inLine
      BY <1>4, <2>9
    <3>2. last # Empty /\ last <= newest /\ last \in Nat
      BY <1>8, <2>2, <3>1 DEF Past
    <3>3. last < oldest' \/ (last < o /\ o <= newest' + 1)
      BY <1>3, <1>7, <2>2, <2>5, <3>1, <3>2 DEF Past
    <3>4. ASSUME NEW s \in Slot, slots'[s] # Empty PROVE last < slots'[s]
      <4>1. CASE slots'[s] = slots[s] /\ slots[s] # Empty
        BY <2>2, <3>1, <4>1 DEF Past
      <4>2. CASE slots'[s] = p /\ p = o + a /\ a <= BufferCount
        BY <1>1, <1>3, <1>5, <3>2, <3>3, <4>2
      <4> QED
        BY <2>7, <3>4, <4>1, <4>2
    <3> QED
      BY <1>3, <3>2, <3>3, <3>4
  <2>10. Past(o)'
    BY <1>2, <1>3, <1>4, <2>9 DEF Past
  <2> QED
    BY <1>4, <2>8, <2>10 DEF LineInv
<1> QED
  BY <1>9, <1>10

\* A pop leaves reading in line: it moves on by one position, past the packet
\* that it reads or past none.
LEMMA TickInLine ==
  ASSUME OrderInv, Tick
  PROVE  LineInv'
<1> DEFINE at == SlotOf(outSn)
<1>1. /\ slots \in [Slot -> Pos \cup {Empty}] /\ outSn \in Sn /\ at \in Slot
      /\ inLine \in BOOLEAN /\ \A q \in Pos : q \in Nat /\ q # Empty
  BY Ranges DEF OrderInv, TypeOK, Pos
<1>2. /\ BufferCount \in Nat \ {0} /\ SnCount \in Nat \ {0} /\ Lifetime \in Nat
      /\ BufferCount < SnCount
  BY Ranges, JitterAssumption
<1>3. /\ newest \in Int /\ oldest \in Nat /\ quiet \in 0 .. Lifetime
      /\ newest' = newest
      /\ quiet' = IF quiet < Lifetime THEN quiet + 1 ELSE quiet
      /\ oldest' = IF quiet = Lifetime THEN newest + 1 ELSE oldest
  BY DEF OrderInv, TypeOK, Pos, Tick
<1>4. Pop /\ primed /\ primed' = primed
  BY DEF Tick, Pop
<1>5. PICK o \in Int : Placed(o) /\ Past(o)
  BY <1>4 DEF OrderInv, LineInv
<1>6. ASSUME NEW i \in Slot, slots[i] # Empty
      PROVE  /\ slots[i] \in o .. o + BufferCount /\ slots[i] <= newest /\ slots[i] \in Nat
             /\ slots[i] = o + Ahead(slots[i], outSn)
             /\ i = SlotOf(SnOf(slots[i]))
  <2>1. slots[i] \in Pos /\ slots[i] \in o .. o + BufferCount /\ slots[i] <= newest
    BY <1>1, <1>5, <1>6 DEF Placed
  <2>2. Ahead(slots[i], outSn) <= BufferCount /\ i = SlotOf(SnOf(slots[i]))
    BY <1>6 DEF OrderInv, Window
  <2>3. Stands(o, outSn)
    BY <1>5 DEF Placed
  <2>4. slots[i] > o + BufferCount - SnCount /\ slots[i] < o + SnCount
    BY <1>1, <1>2, <2>1
  <2>5. slots[i] = o + Ahead(slots[i], outSn)
    BY <1>1, <2>1, <2>2, <2>3, <2>4, SameLine
  <2> QED
    BY <1>1, <2>1, <2>2, <2>5
<1>7. ASSUME NEW i \in Slot, slots[i] # Empty, i # at
      PROVE  slots[i] \in o + 1 .. o + BufferCount
  <2>1. SnOf(slots[i]) \in Sn /\ SnOf(slots[i]) # outSn
    BY <1>1, <1>6, <1>7, Ranges
  <2>2. Ahead(slots[i], outSn) # 0 /\ Ahead(slots[i], outSn) \in Nat
    BY <1>1, <1>2, <2>1, Wraps DEF Ahead, Sn
  <2> QED
    BY <1>2, <1>6, <1>7, <2>2
<1>8. Stands(o + 1, Next1(outSn))
  <2>1. PICK k \in Int : o = outSn + k * SnCount
    BY <1>5 DEF Placed, Stands
  <2>2. k * SnCount \in Int /\ outSn \in Int
    BY <1>1, <1>2, Multiples DEF Sn
  <2>3. CASE outSn + 1 = SnCount
    <3>1. (k + 1) * SnCount = k * SnCount + SnCount /\ k + 1 \in Int
      BY <1>2
    <3>2. o + 1 = Next1(outSn) + (k + 1) * SnCount
      BY <1>2, <2>1, <2>2, <2>3, <3>1 DEF Next1
    <3> QED
      BY <3>1, <3>2 DEF Stands
  <2>4. CASE outSn + 1 # SnCount
    <3>1. o + 1 = Next1(outSn) + k * SnCount
      BY <1>2, <2>1, <2>2, <2>4 DEF Next1
    <3> QED
      BY <3>1 DEF Stands
  <2> QED
    BY <2>3, <2>4
<1>9. CASE Head = Empty /\ Skip /\ UNCHANGED <<last, inLine>>
  <2>1. slots' = slots /\ outSn' = Next1(outSn) /\ last' = last /\ inLine' = inLine
    BY <1>9 DEF Skip, Advance
  <2>2. slots[at] = Empty
    BY <1>9 DEF Head
  <2>3. PICK c \in Int : c = o + 1
    OBVIOUS
  <2>4. Placed(c)'
    <3>1. \A i \in Slot : slots'[i] # Empty => slots'[i] \in c .. c + BufferCount /\ slots'[i] <= newest'
      BY <1>2, <1>3, <1>6, <1>7, <2>1, <2>2, <2>3
    <3> QED
      BY <1>8, <2>1, <2>3, <3>1 DEF Placed, Stands
  <2>5. ASSUME inLine, last # Empty, last <= newest,
               last < oldest \/ (last < o /\ o <= newest + 1 + quiet)
        PROVE  last < oldest' \/ (last < c /\ c <= newest' + 1 + quiet')
    <3>1. last \in Nat
      BY <2>5 DEF OrderInv, TypeOK, Pos
    <3> QED
      BY <1>2, <1>3, <2>3, <2>5, <3>1
  <2>6. Past(c)'
    BY <1>3, <1>5, <2>1, <2>5 DEF Past
  <2> QED
    BY <1>4, <2>4, <2>6 DEF LineInv
<1>10. CASE Evict /\ UNCHANGED <<last, inLine>>
  <2>1. /\ slots' = [slots EXCEPT ![at] = Empty] /\ outSn' = outSn
        /\ last' = last /\ inLine' = inLine
    BY <1>10 DEF Evict, Vacate
  <2>2. \A i \in Slot : slots'[i] # Empty => slots'[i] = slots[i]
    BY <1>1, <2>1
  <2>3. Placed(o)'
    BY <1>3, <1>5, <2>1, <2>2 DEF Placed, Stands
  <2>4. ASSUME inLine, last # Empty, last <= newest,
               last < oldest \/ (last < o /\ o <= newest + 1 + quiet)
        PROVE  last < oldest' \/ (last < o /\ o <= newest' + 1 + quiet')
    <3>1. last \in Nat
      BY <2>4 DEF OrderInv, TypeOK, Pos
    <3> QED
      BY <1>2, <1>3, <2>4, <3>1
  <2>5. Past(o)'
    BY <1>3, <1>5, <2>1, <2>2, <2>4 DEF Past
  <2> QED
    BY <1>4, <2>3, <2>5 DEF LineInv
<1>11. CASE Head # Empty /\ SnOf(Head) = outSn /\ Read(Head)
  <2>1. /\ slots' = [slots EXCEPT ![at] = Empty] /\ outSn' = Next1(outSn)
        /\ last' = slots[at] /\ inLine' = TRUE
    BY <1>11 DEF Read, Advance, Vacate, Head
  <2>2. slots[at] # Empty /\ SnOf(slots[at]) = outSn
    BY <1>11 DEF Head
  <2>3. slots[at] = o /\ o <= newest /\ o \in Nat
    <3>1. Ahead(slots[at], outSn) = 0
      BY <1>1, <2>2, Wraps DEF Ahead
    <3> QED
      BY <1>1, <1>6, <2>2, <3>1
  <2>4. \A i \in Slot : slots'[i] # Empty => i # at /\ slots'[i] = slots[i]
    BY <1>1, <2>1
  <2>5. PICK c \in Int : c = o + 1
    OBVIOUS
  <2>6. \A i \in Slot : slots'[i] # Empty =>
          slots'[i] \in c .. o + BufferCount /\ slots'[i] <= newest'
    BY <1>3, <1>6, <1>7, <2>4, <2>5
  <2>7. Placed(c)'
    BY <1>2, <1>8, <2>1, <2>5, <2>6 DEF Placed, Stands
  <2>8. Past(c)'
    <3>1. last' = o /\ last' # Empty
      BY <2>1, <2>2, <2>3
    <3>2. \A i \in Slot : slots'[i] # Empty => o < slots'[i]
      BY <2>5, <2>6
    <3>3. o < c /\ c <= newest' + 1 + quiet' /\ o <= newest'
      BY <1>2, <1>3, <2>3, <2>5
    <3> QED
      BY <3>1, <3>2, <3>3 DEF Past
  <2> QED
    BY <1>4, <2>7, <2>8 DEF LineInv
<1> QED
  BY <1>4, <1>9, <1>10, <1>11 DEF Pop

\* Every step keeps reading in line.
LEMMA LineStep == OrderInv /\ [Next]_vars => LineInv'
<1> SUFFICES ASSUME OrderInv, [Next]_vars PROVE LineInv'
  OBVIOUS
<1>1. ASSUME NEW p \in Pos, Arrive(p) PROVE LineInv'
  <2>1. Push(p)
    BY <1>1 DEF Arrive
  <2>2. /\ p >= oldest' /\ p >= newest - Skew
        /\ \A i \in Slot : slots[i] # Empty => p <= slots[i] + Drift
        /\ oldest' \in Nat /\ oldest' = oldest
        /\ newest' = IF p > newest THEN p ELSE newest
        /\ quiet' = 0 /\ last' = last
    BY <1>1 DEF Arrive, OrderInv, TypeOK
  <2> QED
    BY <2>1, <2>2, PushInLine
<1>2. ASSUME NEW p \in Pos, Restart(p) PROVE LineInv'
  <2>1. Push(p) /\ p \in Nat
    BY <1>2 DEF Restart, Pos
  <2>2. newest \in Int /\ Skew \in Nat
    BY JitterAssumption DEF OrderInv, TypeOK, Pos
  <2>3. /\ p >= oldest' /\ p >= newest - Skew
        /\ \A i \in Slot : slots[i] # Empty => p <= slots[i] + Drift
        /\ oldest' \in Nat /\ oldest' > newest
        /\ newest' = IF p > newest THEN p ELSE newest
        /\ quiet' = 0 /\ last' = last
    BY <1>2, <2>1, <2>2 DEF Restart, IsEmpty
  <2> QED
    BY <2>1, <2>3, PushInLine
<1>3. CASE Tick
  BY <1>3, TickInLine
<1>4. CASE Clear
  BY <1>4 DEF Clear, LineInv
<1>5. CASE UNCHANGED vars
  BY <1>5 DEF vars, buffer, network, OrderInv, LineInv, Placed, Past, Stands
<1> QED
  BY <1>1, <1>2, <1>3, <1>4, <1>5 DEF Next

\* A packet that is read is later in the stream than the one read before it.
LEMMA ReadStep ==
  OrderInv /\ [Next]_vars => [Reading /\ inLine => Head > last]_vars
<1> SUFFICES ASSUME OrderInv, Head # Empty, inLine PROVE Head > last
  BY DEF Reading
<1>1. SlotOf(outSn) \in Slot
  BY Ranges DEF OrderInv, TypeOK
<1>2. last < Head
  BY <1>1 DEF OrderInv, LineInv, Past, Head
<1>3. last \in Int /\ Head \in Int
  <2>1. last # Empty
    BY DEF OrderInv, LineInv, Past
  <2> QED
    BY <1>1, <2>1 DEF OrderInv, TypeOK, Pos, Head
<1> QED
  BY <1>2, <1>3

\* Packets are read in the order in which they were sent, and none twice, for as
\* long as reading is not started afresh.
THEOREM OrderHolds == Spec => InOrder
<1>1. Init => LineInv
  BY DEF Init, LineInv
<1>2. JitterInv /\ LineInv /\ [Next]_vars => LineInv'
  BY LineStep DEF JitterInv, OrderInv
<1>3. JitterInv /\ LineInv /\ [Next]_vars => [Reading /\ inLine => Head > last]_vars
  BY ReadStep DEF JitterInv, OrderInv
<1> QED
  BY <1>1, <1>2, <1>3, JitterAlways, PTL DEF Spec, InOrder
=============================================================================
