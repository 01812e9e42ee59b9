------------------------------- MODULE Jitter -------------------------------
(***************************************************************************)
(* The jitter buffer of a channel, src/rust/src/channel/jitter.rs.  The    *)
(* receive loop pushes packets as the network brings them; a tick pops     *)
(* one every 20 ms, or a few while they carry DTMF.  The buffer knows      *)
(* packets by their 16-bit sequence number only, keeps number n in slot    *)
(* n % BufferCount, and reads slots in turn, starting WaterLevel behind    *)
(* the first packet it sees.                                               *)
(*                                                                         *)
(* A packet is modelled by its position in the sender's stream, from which *)
(* its sequence number follows.  The network loses, repeats, delays and    *)
(* reorders packets, but not for ever: it never brings one more than Skew  *)
(* behind the newest, nor any old one after Lifetime pops without a        *)
(* packet.  And no lap of the sequence numbers fits into the few pops that *)
(* a packet spends in the buffer.                                          *)
(***************************************************************************)
EXTENDS Integers

CONSTANTS
  SnCount,      \* sequence numbers (2^16 in the code)
  BufferCount,  \* slots (32 in the code)
  WaterLevel,   \* how far behind the first packet reading starts (10)
  Skew,         \* network: how late a packet can be, in packets
  Drift,        \* network: how far the stream goes on while a packet is buffered
  Lifetime,     \* network: how late a packet can be, in pops without one
  MaxPos,       \* bound: the last position of the stream
  Empty         \* "no packet"

ASSUME JitterAssumption ==
  /\ BufferCount \in Nat \ {0}
  /\ SnCount \in Nat
  /\ SnCount % BufferCount = 0
  /\ WaterLevel \in 0 .. BufferCount - 1
  /\ 2 * BufferCount + Skew + Lifetime < SnCount
  /\ BufferCount + Drift < SnCount
  /\ Skew \in Nat
  /\ Drift \in Nat
  /\ Lifetime \in Nat
  /\ MaxPos \in Nat
  /\ Empty \notin Int

Pos == 0 .. MaxPos

VARIABLES
  slots,   \* the buffer
  outSn,   \* the next sequence number to read
  primed,  \* outSn has been set since the buffer was created or cleared
  newest,  \* network: the last position sent, -1 before the first
  oldest,  \* network: no older position is still on its way
  quiet,   \* network: pops since a packet arrived, up to Lifetime
  last,    \* history: the last position read since clear, or Empty
  inLine   \* history: outSn has not been set again since then

buffer  == <<slots, outSn, primed>>
network == <<newest, oldest, quiet>>
vars == <<buffer, network, last, inLine>>

Slot == 0 .. BufferCount - 1
Sn   == 0 .. SnCount - 1

TypeOK ==
  /\ slots  \in [Slot -> Pos \cup {Empty}]
  /\ outSn  \in Sn
  /\ primed \in BOOLEAN
  /\ newest \in Pos \cup {-1}
  /\ oldest \in 0 .. MaxPos + 1
  /\ quiet  \in 0 .. Lifetime
  /\ last   \in Pos \cup {Empty}
  /\ inLine \in BOOLEAN

Init ==
  /\ slots  = [i \in Slot |-> Empty]
  /\ outSn  = 0
  /\ primed = FALSE
  /\ newest = -1
  /\ oldest = 0
  /\ quiet  = 0
  /\ last   = Empty
  /\ inLine = FALSE

\* u16::wrapping_sub and wrapping_add.
Sub(a, b) == IF a >= b THEN a - b ELSE a - b + SnCount

Next1(a) == IF a + 1 = SnCount THEN 0 ELSE a + 1

SnOf(p) == p % SnCount

SlotOf(sn) == sn % BufferCount

Ahead(p, from) == Sub(SnOf(p), from)

IsEmpty == \A i \in Slot : slots[i] = Empty

-----------------------------------------------------------------------------
(* push, pop and clear. *)

\* Where reading stands once p is pushed: WaterLevel behind it when it is the
\* first packet, or out of the window of a buffer that has drained.
StartFor(p) ==
  IF ~primed \/ (IsEmpty /\ Ahead(p, outSn) > BufferCount)
    THEN Sub(SnOf(p), WaterLevel) ELSE outSn

\* Mutant of Fits: no window.
FitsAlways(p, start) == slots[SlotOf(SnOf(p))] = Empty

\* Mutant of Fits: what comes after its successors is too late.
FitsLast(p, start) ==
  /\ Ahead(p, start) <= BufferCount
  /\ slots[SlotOf(SnOf(p))] = Empty
  /\ slots[SlotOf(Next1(SnOf(p)))] = Empty

\* In the window, and the slot is free.
Fits(p, start) ==
  /\ Ahead(p, start) <= BufferCount
  /\ slots[SlotOf(SnOf(p))] = Empty

Push(p) ==
  LET start == StartFor(p) IN
  /\ outSn' = start
  /\ primed' = TRUE
  /\ slots' = IF Fits(p, start) THEN [slots EXCEPT ![SlotOf(SnOf(p))] = p] ELSE slots
  /\ inLine' = (inLine /\ primed /\ start = outSn)

Head == slots[SlotOf(outSn)]

Vacate == slots' = [slots EXCEPT ![SlotOf(outSn)] = Empty]

Advance == outSn' = Next1(outSn)

\* Mutant of Skip: the hole is not passed.
SkipNot == UNCHANGED <<outSn, slots>>

\* A hole: it is passed, and the tick gets nothing.
Skip == Advance /\ UNCHANGED slots

\* Another packet where the next one should be: it is thrown out, and the
\* tick gets nothing; reading does not move.
Evict == Vacate /\ UNCHANGED outSn

Read(p) ==
  /\ Advance
  /\ Vacate
  /\ last' = p
  /\ inLine' = TRUE

Pop ==
  /\ primed
  /\ \/ /\ Head = Empty
        /\ Skip
        /\ UNCHANGED <<last, inLine>>
     \/ /\ Head # Empty
        /\ SnOf(Head) # outSn
        /\ Evict
        /\ UNCHANGED <<last, inLine>>
     \/ /\ Head # Empty
        /\ SnOf(Head) = outSn
        /\ Read(Head)
  /\ UNCHANGED primed

-----------------------------------------------------------------------------
(* The network, the tick, and the actor that enters a mix. *)

\* The receive loop gets a packet: the next of the stream, one further on
\* when some are lost, or a late or repeated one.
Arrive(p) ==
  /\ p >= oldest
  /\ p >= newest - Skew
  /\ \A i \in Slot : slots[i] # Empty => p <= slots[i] + Drift
  /\ newest' = IF p > newest THEN p ELSE newest
  /\ quiet' = 0
  /\ Push(p)
  /\ UNCHANGED <<oldest, last>>

\* The stream goes on elsewhere, after the buffer has drained.
Restart(p) ==
  /\ IsEmpty
  /\ p > newest
  /\ oldest' = p
  /\ newest' = p
  /\ quiet' = 0
  /\ Push(p)
  /\ UNCHANGED last

\* A pop by the tick.
Tick ==
  /\ Pop
  /\ quiet' = IF quiet < Lifetime THEN quiet + 1 ELSE quiet
  /\ oldest' = IF quiet = Lifetime THEN newest + 1 ELSE oldest
  /\ UNCHANGED newest

\* clear, when the channel enters a mix: what comes next starts afresh.
Clear ==
  /\ slots' = [i \in Slot |-> Empty]
  /\ primed' = FALSE
  /\ last' = Empty
  /\ inLine' = FALSE
  /\ UNCHANGED <<outSn, network>>

Next ==
  \/ \E p \in Pos : (p <= newest + Skew + 1 /\ Arrive(p)) \/ Restart(p)
  \/ Tick
  \/ Clear

Spec == Init /\ [][Next]_vars

\* The ticks of a channel never stop while it lives.
FairSpec == Spec /\ WF_vars(Tick)
-----------------------------------------------------------------------------

\* Every packet in the buffer is in its slot and at most BufferCount ahead of
\* reading, so that no lap of the sequence numbers is ever mistaken.
Window ==
  /\ \A i \in Slot :
       slots[i] # Empty => /\ i = SlotOf(SnOf(slots[i]))
                           /\ Ahead(slots[i], outSn) <= BufferCount
  /\ ~primed => IsEmpty

\* What Tick does when the packet that is next is there.
Reading == Head # Empty /\ outSn' = Next1(outSn)

(***************************************************************************)
(* Whatever is lost, late or repeated, packets are read in the order in    *)
(* which they were sent, and none twice, for as long as outSn is not set   *)
(* again (by clear, or by a packet that restarts an empty buffer).         *)
(***************************************************************************)
InOrder == [][Reading /\ inLine => Head > last]_vars

(***************************************************************************)
(* A packet within the window is accepted, late as it may be, unless one   *)
(* that was exactly BufferCount ahead has taken its slot.                  *)
(***************************************************************************)
LateAccepted ==
  [][\A p \in Pos :
       Push(p) /\ primed /\ Ahead(p, outSn) < BufferCount
         => \/ \E q \in Pos : slots'[SlotOf(SnOf(p))] = q /\ SnOf(q) = SnOf(p)
            \/ SnOf(p) = outSn /\ Ahead(Head, outSn) = BufferCount]_vars

HeadInTurn == Head = Empty \/ SnOf(Head) = outSn

\* While ticks go on, no packet stays in the buffer for ever, unless the network
\* keeps repeating one that is exactly BufferCount ahead.
NoneStuck ==
  <>[]HeadInTurn => \A i \in Slot : (slots[i] # Empty ~> slots[i] = Empty)
=============================================================================
