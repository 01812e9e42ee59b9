-------------------------------- MODULE Dtmf --------------------------------
(***************************************************************************)
(* DTMF digits of one channel, src/rust/src/channel/dtmf.rs, from the      *)
(* digit that is dialled to the telephone-event at the other end.          *)
(*                                                                         *)
(* A channel has two senders: "send" for the digits that JavaScript dials, *)
(* "relay" for those heard from the other members of its mix.  A sender    *)
(* makes of each digit a burst, Body packets and then End end packets, one *)
(* per tick, all with the timestamp of the first.  Both share the RTP      *)
(* stream.  At the other end, which is taken to be projectrtp too, a       *)
(* receiver reports a digit once for each burst.                           *)
(*                                                                         *)
(* The jitter buffer between them hands packets on in order (Jitter); they *)
(* may be lost.  Timestamps count ticks.                                   *)
(***************************************************************************)
EXTENDS Integers, Sequences

CONSTANTS
  Digits,
  Body,      \* EVENT_REPEATS (11 in the code)
  End,       \* END_REPEATS (3)
  Gap,       \* INTER_DIGIT_GAP_TICKS (10)
  NewBurst,  \* NEW_BURST_TS_DELTA, in ticks (20)
  SnCount,   \* sequence numbers (2^16)
  MaxQuiet,  \* network: packets between two that the receiver gets
  MaxDialled,\* bound: digits dialled or relayed
  MaxTicks,  \* bound: ticks
  MaxMoves,  \* bound: holds and moves
  None

ASSUME DtmfAssumption ==
  /\ Body \in Nat \ {0}
  /\ End \in Nat \ {0}
  /\ Gap \in Nat \ {0}
  /\ NewBurst \in Nat \ {0}
  /\ NewBurst < Body + End + Gap
  /\ SnCount \in Nat \ {0}
  /\ MaxQuiet \in Nat
  /\ MaxDialled \in Nat
  /\ MaxTicks \in Nat
  /\ MaxMoves \in Nat
  /\ None \notin Nat
  /\ None \notin Digits
  /\ None \notin [digit : Digits, burst : Nat]

Senders == {"send", "relay"}
Other(k) == IF k = "send" THEN "relay" ELSE "send"

VARIABLES
  mode,      \* the channel is "local" or "mixed"
  sending,   \* direction.send is set, and the remote is known
  now,       \* outTs: the media clock
  step,      \* where the tick is: before, or at one of the senders
  outSn,     \* the number of the next packet
  sender,    \* the two senders
  receiver,  \* the other end's DtmfReceiver
  dialled,   \* bound: the digits dialled so far
  moves,     \* bound: the holds and moves so far
  quiet,     \* network: packets since the receiver got one
  bursts,    \* history: the bursts begun, and what became of them
  waited,    \* history: calls for which the next digit has waited
  crossed    \* history: a burst was begun before another sender's was over

channel == <<mode, sending, now, step, outSn, sender>>
vars == <<channel, receiver, dialled, moves, quiet, bursts, waited, crossed>>

Sn == 0 .. SnCount - 1

Sub(a, b) == IF a >= b THEN a - b ELSE a - b + SnCount

NextSn(n) == IF n + 1 = SnCount THEN 0 ELSE n + 1

Burst ==
  [digit : Digits, ts : Nat, by : Senders, heard : BOOLEAN, stale : BOOLEAN, reports : Nat]

Sender ==
  [queue : Seq(Digits), current : [digit : Digits, burst : Nat] \cup {None},
   body : 0 .. Body, end : 0 .. End, ts : Nat \cup {None}, gap : 0 .. Gap]

Receiver ==
  [sn : Sn \cup {None}, event : Digits \cup {None}, ts : Nat \cup {None}]

TypeOK ==
  /\ mode \in {"local", "mixed"}
  /\ sending \in BOOLEAN
  /\ now \in Nat
  /\ step \in {"tick"} \cup Senders
  /\ outSn \in Sn
  /\ sender \in [Senders -> Sender]
  /\ receiver \in Receiver
  /\ dialled \in Nat
  /\ moves \in Nat
  /\ quiet \in 0 .. MaxQuiet
  /\ bursts \in Seq(Burst)
  /\ waited \in [Senders -> Nat]
  /\ crossed \in BOOLEAN

NewSender ==
  [queue |-> <<>>, current |-> None, body |-> 0, end |-> 0, ts |-> None, gap |-> Gap]

NewReceiver == [sn |-> None, event |-> None, ts |-> None]

Init ==
  /\ mode = "local"
  /\ sending = TRUE
  /\ now = 0
  /\ step = "tick"
  /\ outSn = 0
  /\ sender = [k \in Senders |-> NewSender]
  /\ receiver = NewReceiver
  /\ dialled = 0
  /\ moves = 0
  /\ quiet = 0
  /\ bursts = <<>>
  /\ waited = [k \in Senders |-> 0]
  /\ crossed = FALSE

-----------------------------------------------------------------------------
(* The receiver. *)

\* The packet is newer than the last, in u16 arithmetic.
Advanced(n) == receiver.sn = None \/ Sub(n, receiver.sn) \in 1 .. (SnCount \div 2) - 1

\* u32 arithmetic: an older timestamp is far ahead.
BigGap(ts) == receiver.ts # None /\ (ts < receiver.ts \/ ts - receiver.ts >= NewBurst)

SameBurst(digit, ts) == receiver.event = digit /\ ~BigGap(ts)

\* Mutant of Stamp: the clock, not the start of the burst.
StampNow(b) == now

\* The timestamp of burst b's packets.
Stamp(b) == bursts[b].ts

\* A packet of burst b, which arrives, is the first of a new event.
Reports(b, end) == Advanced(outSn) /\ ~end /\ ~SameBurst(bursts[b].digit, Stamp(b))

\* Half of the numbers have gone by since the last one that the receiver took, which
\* in 16 bits is the same as going back.
HalfGone == receiver.sn # None /\ Sub(outSn, receiver.sn) \notin 1 .. (SnCount \div 2) - 1

\* The history of a burst after one of its packets has arrived.
Noted(x, end, report) ==
  [x EXCEPT !.heard = @ \/ ~end, !.stale = @ \/ HalfGone,
            !.reports = IF report THEN @ + 1 ELSE @]

\* A packet of burst b arrives.
Feed(b, end) ==
  /\ receiver' =
       IF ~Advanced(outSn) THEN receiver
       ELSE IF end THEN [sn |-> outSn, event |-> None, ts |-> None]
       ELSE IF Reports(b, end) THEN [sn |-> outSn, event |-> bursts[b].digit, ts |-> Stamp(b)]
       ELSE [receiver EXCEPT !.sn = outSn]
  /\ bursts' = [bursts EXCEPT ![b] = Noted(@, end, Reports(b, end))]

-----------------------------------------------------------------------------
(* The senders. *)

Idle(k) == sender[k].current = None

\* A packet goes out that the receiver does not get: it is lost, or not DTMF.
Missed ==
  /\ quiet < MaxQuiet
  /\ quiet' = quiet + 1
  /\ outSn' = NextSn(outSn)

\* A packet of burst b goes out.
Sent(b, end) ==
  \/ Feed(b, end) /\ quiet' = 0 /\ outSn' = NextSn(outSn)
  \/ Missed /\ UNCHANGED <<receiver, bursts>>

\* idle_ticks_since_burst in a call of next_event.
Rested(k) == IF sender[k].gap < Gap THEN sender[k].gap + 1 ELSE sender[k].gap

Ready(k) == Idle(k) /\ sender[k].queue # <<>> /\ Rested(k) = Gap

\* What comes after the call: in a mix, that of the other sender.
CallEnds(k) == step' = IF k = "send" /\ mode = "mixed" THEN "relay" ELSE "tick"

\* next_event finds no digit, or none that may go out yet.  A local channel then
\* sends what it plays or echoes, if anything.
Rest(k) ==
  /\ step = k
  /\ Idle(k)
  /\ ~Ready(k)
  /\ sender' = [sender EXCEPT ![k].gap = Rested(k)]
  /\ waited' = [waited EXCEPT ![k] = IF sender[k].queue = <<>> THEN 0 ELSE @ + 1]
  /\ CallEnds(k)
  /\ \/ UNCHANGED <<outSn, quiet>>
     \/ mode = "local" /\ Missed
  /\ UNCHANGED <<mode, sending, now, receiver, dialled, moves, bursts, crossed>>

\* next_event takes a digit; the same call goes on with SendBody.
Begin(k) ==
  LET digit == Head(sender[k].queue) IN
  /\ step = k
  /\ Ready(k)
  /\ sender' = [sender EXCEPT ![k] =
       [queue |-> Tail(@.queue),
        current |-> [digit |-> digit, burst |-> Len(bursts) + 1],
        body |-> Body, end |-> End, ts |-> now, gap |-> Gap]]
  /\ bursts' = Append(bursts,
       [digit |-> digit, ts |-> now, by |-> k, heard |-> FALSE, stale |-> FALSE, reports |-> 0])
  /\ waited' = [waited EXCEPT ![k] = 0]
  /\ crossed' = (crossed \/ ~Idle(Other(k)) \/ sender[Other(k)].gap < Gap)
  /\ UNCHANGED <<mode, sending, now, step, outSn, receiver, dialled, moves, quiet>>

SendBody(k) ==
  /\ step = k
  /\ ~Idle(k)
  /\ sender[k].body > 0
  /\ Sent(sender[k].current.burst, FALSE)
  /\ sender' = [sender EXCEPT ![k].body = @ - 1]
  /\ CallEnds(k)
  /\ UNCHANGED <<mode, sending, now, dialled, moves, waited, crossed>>

\* Mutant of Ended: the gap is not begun anew.
EndedNoGap(s) == [s EXCEPT !.end = 0, !.current = None, !.ts = None]

\* The last packet of the burst has been sent.
Ended(s) == [s EXCEPT !.end = 0, !.current = None, !.ts = None, !.gap = 0]

\* One end packet less to send.
AfterEnd(s) == IF s.end = 1 THEN Ended(s) ELSE [s EXCEPT !.end = @ - 1]

SendEnd(k) ==
  /\ step = k
  /\ ~Idle(k)
  /\ sender[k].body = 0
  /\ Sent(sender[k].current.burst, TRUE)
  /\ sender' = [sender EXCEPT ![k] = AfterEnd(@)]
  /\ CallEnds(k)
  /\ UNCHANGED <<mode, sending, now, dialled, moves, waited, crossed>>

-----------------------------------------------------------------------------
(* The channel's ticks and commands. *)

\* A tick, up to the senders, which are not called on hold; a mixed channel has
\* sent the sound of the mix by then, if there is any.
Tick ==
  /\ step = "tick"
  /\ now < MaxTicks
  /\ now' = now + 1
  /\ step' = IF sending THEN "send" ELSE "tick"
  /\ \/ UNCHANGED <<outSn, quiet>>
     \/ mode = "mixed" /\ sending /\ Missed
  /\ UNCHANGED <<mode, sending, sender, receiver, dialled, moves, bursts, waited, crossed>>

Enqueue(k, digit) ==
  /\ step = "tick"
  /\ dialled < MaxDialled
  /\ dialled' = dialled + 1
  /\ sender' = [sender EXCEPT ![k].queue = Append(@, digit)]
  /\ UNCHANGED <<mode, sending, now, step, outSn, receiver, moves, quiet, bursts, waited, crossed>>

\* JavaScript dials.
Dial(digit) == Enqueue("send", digit)

\* Another member of the mix hears a digit.
Relay(digit) == mode = "mixed" /\ Enqueue("relay", digit)

\* direction, or remote.
Hold ==
  /\ step = "tick"
  /\ moves < MaxMoves
  /\ moves' = moves + 1
  /\ sending' = ~sending
  /\ UNCHANGED <<mode, now, step, outSn, sender, receiver, dialled, quiet, bursts, waited, crossed>>

\* EnterMix and LeaveMix: the senders go along as they are.
Move ==
  /\ step = "tick"
  /\ moves < MaxMoves
  /\ moves' = moves + 1
  /\ mode' = IF mode = "local" THEN "mixed" ELSE "local"
  /\ UNCHANGED <<sending, now, step, outSn, sender, receiver, dialled, quiet, bursts, waited, crossed>>

Next ==
  \/ \E k \in Senders : Rest(k) \/ Begin(k) \/ SendBody(k) \/ SendEnd(k)
  \/ \E digit \in Digits : Dial(digit) \/ Relay(digit)
  \/ Tick
  \/ Hold
  \/ Move

Spec == Init /\ [][Next]_vars
-----------------------------------------------------------------------------

\* No press of a digit is reported twice, whatever is lost, unless a burst began
\* before one of the other sender was over.
OncePerPress ==
  ~crossed => \A b \in DOMAIN bursts : bursts[b].reports <= 1

\* A press of which anything but end packets arrives is reported, even if it is
\* the same digit again and the ends of the first were lost: unless it crossed one of
\* the other sender, or a packet of it came after half of the numbers had gone by
\* without one that the receiver took, when feed ignores it for an old one.
NoneMissed ==
  ~crossed => \A b \in DOMAIN bursts :
    bursts[b].heard /\ ~bursts[b].stale => bursts[b].reports >= 1

\* A digit that is next never waits longer than the gap after the last one,
\* across holds and moves in and out of a mix.
Prompt == \A k \in Senders : waited[k] < Gap
=============================================================================
