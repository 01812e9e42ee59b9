-------------------------------- MODULE Audio --------------------------------
(***************************************************************************)
(* Where the sound of a tick comes from and where it goes: the codec       *)
(* bundle of src/rust/src/codec.rs and the audio phases of the local tick  *)
(* (tick.rs) and of the mixer's (mixer.rs).                                *)
(*                                                                         *)
(* Samples are abstracted to their provenance: a sound is the set of the   *)
(* sources that can be heard in it, and silence is the empty set.  A       *)
(* channel's bundle keeps one frame in several representations, decoded    *)
(* when they are first asked for; it is emptied when it is fed, and not    *)
(* otherwise, so what it held before is still there in a tick that feeds   *)
(* nothing.  Such sound is told by its source not being fresh.             *)
(*                                                                         *)
(* The channels that are mixed are in one group; the others tick locally.  *)
(***************************************************************************)
EXTENDS Naturals, FiniteSets

CONSTANTS
  Channel,
  Narrow,     \* the codecs of 8 kHz: PCMU, PCMA, iLBC
  Wideband,   \* G.722, of 16 kHz
  Unknown,    \* any payload type that is not decoded
  MaxTicks,
  MaxCommands,
  None

Codec == Narrow \cup {Wideband}

\* What a channel got from its remote, or from its own player or writer.
Source == [of : Channel, from : {"remote", "own"}, fresh : BOOLEAN]

Sound == SUBSET Source

Silence == {}

Packet == Codec \cup {Unknown, None}

ASSUME AudioAssumption ==
  /\ IsFiniteSet(Channel)
  /\ Wideband \notin Narrow
  /\ Unknown \notin Codec
  /\ None \notin Codec \cup {Unknown}
  /\ {MaxTicks, MaxCommands} \subseteq Nat
  /\ \A s \in Sound : None # s

Bundle == [codec   : Packet,
           wire    : {None} \cup Sound,
           narrow  : {None} \cup Sound,
           wide    : {None} \cup Sound,
           encoded : [Codec -> {None} \cup Sound]]

\* The two legs of what is recorded.
Recording == [own : {None} \cup Sound, other : {None} \cup Sound]

\* What the readers get, for every direction and format there is.
Taps == [in      : Sound,
         in16    : {None} \cup Sound,
         out     : {None} \cup Sound,
         out16   : {None} \cup Sound,
         encoded : [Codec -> {None} \cup Sound]]

VARIABLES
  mixed,      \* the members of the group
  send, recv, \* direction
  echo,
  remote,     \* remote_pt, or None when there is no address to send to
  tapped,     \* the channels with readers
  phase,      \* how far the mixer's tick is
  heard,      \* inbound_this_tick
  cache,      \* codecx
  frame,      \* in the last tick: a member's contribution to the mix
  sent,       \* in the last tick: the sound that was sent to the remote
  recorded,   \* in the last tick: what was given to the recorders
  tap,        \* in the last tick: what was given to the readers
  ticks,      \* bounds
  commands

config == <<mixed, send, recv, echo, remote, tapped>>
outputs == <<frame, sent, recorded, tap>>
bounds == <<ticks, commands>>
vars == <<config, phase, heard, cache, outputs, bounds>>

Empty == [codec |-> None, wire |-> None, narrow |-> None, wide |-> None,
          encoded |-> [p \in Codec |-> None]]

Nothing == [c \in Channel |-> None]

TypeOK ==
  /\ mixed \subseteq Channel
  /\ send \in [Channel -> BOOLEAN]
  /\ recv \in [Channel -> BOOLEAN]
  /\ echo \subseteq Channel
  /\ remote \in [Channel -> Codec \cup {None}]
  /\ tapped \subseteq Channel
  /\ phase \in {"idle", "mix", "record"}
  /\ heard \subseteq mixed
  /\ cache \in [Channel -> Bundle]
  /\ frame \in [Channel -> {None} \cup Sound]
  /\ sent \in [Channel -> {None} \cup Sound]
  /\ recorded \in [Channel -> {None} \cup Recording]
  /\ \A c \in Channel : recorded[c] # None => recorded[c].own # None
  /\ tap \in [Channel -> {None} \cup Taps]
  /\ ticks \in 0 .. MaxTicks
  /\ commands \in 0 .. MaxCommands

\* Opened, given an address or not, mixed or not, before the first tick.
Init ==
  /\ mixed \in SUBSET Channel
  /\ send = [c \in Channel |-> TRUE]
  /\ recv = [c \in Channel |-> TRUE]
  /\ echo = {}
  /\ remote \in [Channel -> Codec \cup {None}]
  /\ tapped = {}
  /\ phase = "idle"
  /\ heard = {}
  /\ cache = [c \in Channel |-> Empty]
  /\ frame = Nothing
  /\ sent = Nothing
  /\ recorded = Nothing
  /\ tap = Nothing
  /\ ticks = 0
  /\ commands = 0

-----------------------------------------------------------------------------
(* The codec bundle. *)

Or(s, t) == IF s # None THEN s ELSE t

FromRemote(c) == {[of |-> c, from |-> "remote", fresh |-> TRUE]}

FromOwn(c) == {[of |-> c, from |-> "own", fresh |-> TRUE]}

Stale(s) == IF s = None THEN None ELSE {[t EXCEPT !.fresh = FALSE] : t \in s}

\* A bundle when the next tick begins.
Aged(k) == [codec |-> k.codec, wire |-> Stale(k.wire), narrow |-> Stale(k.narrow),
            wide |-> Stale(k.wide), encoded |-> [p \in Codec |-> Stale(k.encoded[p])]]

\* feed_wire
FedWire(codec, s) == [Empty EXCEPT !.codec = codec, !.wire = s]

\* feed_linear_8k
FedLinear(s) == [Empty EXCEPT !.narrow = s]

\* A wire of this codec is held.
Holds(k, codecs) == k.codec \in codecs /\ k.wire # None

\* What require_narrowband_8k and require_wideband_16k return.
NarrowOf(k) ==
  IF k.narrow # None THEN k.narrow
  ELSE IF Holds(k, Narrow) THEN k.wire
  ELSE IF k.wide # None THEN k.wide
  ELSE IF Holds(k, {Wideband}) THEN k.wire
  ELSE None

WideOf(k) ==
  IF k.wide # None THEN k.wide
  ELSE IF Holds(k, {Wideband}) THEN k.wire
  ELSE NarrowOf(k)

\* What they leave in the bundle.
WithNarrow(k) ==
  [k EXCEPT !.narrow = NarrowOf(k),
            !.wide = IF k.narrow = None /\ Holds(k, {Wideband}) THEN WideOf(k) ELSE @]

WithWide(k) ==
  [k EXCEPT !.wide = WideOf(k),
            !.narrow = IF k.wide = None /\ ~Holds(k, {Wideband}) THEN NarrowOf(k) ELSE @]

\* The linear samples that a codec is encoded from.
LinearOf(k, codec) == IF codec = Wideband THEN WideOf(k) ELSE NarrowOf(k)

WithLinear(k, codec) == IF codec = Wideband THEN WithWide(k) ELSE WithNarrow(k)

\* require_wire_as
EncodedAs(k, codec) == Or(k.encoded[codec], LinearOf(k, codec))

WithEncoded(k, codec) ==
  IF k.encoded[codec] # None THEN k
  ELSE [WithLinear(k, codec) EXCEPT !.encoded[codec] = LinearOf(k, codec)]

\* What encode_from takes from the source's bundle.
EncodedFrom(src, codec) == IF Holds(src, {codec}) THEN src.wire ELSE LinearOf(src, codec)

\* is_wideband
IsWideband(c, k) == Wideband \in {k.codec, remote[c]}

\* A reader of every format has asked the bundle for its frame.
Read(k) == [WithNarrow(WithWide(k)) EXCEPT !.encoded = [p \in Codec |-> EncodedAs(k, p)]]

\* A packet's payload is fed and decoded.
Received(c, k, packet) ==
  IF packet = None THEN k ELSE WithNarrow(FedWire(packet, FromRemote(c)))

Decoded(c, k, packet) == IF packet = None THEN None ELSE NarrowOf(Received(c, k, packet))

-----------------------------------------------------------------------------
(* The tick of a channel that is not mixed. *)

\* Mutant of LocalRecording: no silence is made up for a missing packet.
LocalRecordingBare(c, k, in, out) ==
  [own |-> IF IsWideband(c, k) THEN WideOf(k) ELSE in, other |-> out]

\* What a recorder is given: on a wideband channel both legs at 16 kHz.
LocalRecording(c, k, in, out) ==
  [own |-> IF IsWideband(c, k) THEN Or(WideOf(k), in) ELSE in, other |-> out]

\* send_player_frame leaves this in the bundle.
Prompted(c) == WithEncoded(FedLinear(FromOwn(c)), remote[c])

\* send_echo: the packet goes back as it came, decoded or not.
Echoed(c, packet) == IF c \in echo /\ packet # None THEN FromRemote(c) ELSE None

\* Mutant of LocalOut: the bundle is asked before it is fed.
LocalOutUnfed(c, packet, out, dtmf) ==
  IF ~send[c] \/ remote[c] = None \/ dtmf THEN None
  ELSE IF out THEN EncodedAs(Aged(cache[c]), remote[c])
  ELSE Echoed(c, packet)

\* Digits go first, then the player or writer, then the echo of a packet.
LocalOut(c, packet, out, dtmf) ==
  IF ~send[c] \/ remote[c] = None \/ dtmf THEN None
  ELSE IF out THEN Prompted(c).encoded[remote[c]]
  ELSE Echoed(c, packet)

Ticked == ticks < MaxTicks /\ ticks' = ticks + 1 /\ UNCHANGED commands

\* The tick of a channel touches its own variables only, so nothing is lost by
\* letting it wait for the mixer.
LocalTick(c) ==
  /\ Ticked
  /\ phase = "idle"
  /\ c \notin mixed
  /\ \E packet \in Packet, out, dtmf \in BOOLEAN :
       LET aged    == Aged(cache[c])
           decoded == Decoded(c, aged, packet)
           inbound == Or(decoded, Silence)
           played  == IF out THEN FromOwn(c) ELSE IF c \in echo THEN inbound ELSE Silence
           sounds  == decoded # None \/ out
           fed     == Received(c, aged, packet)
           taken   == IF sounds /\ IsWideband(c, fed) THEN WithWide(fed) ELSE fed
           read    == IF c \in tapped THEN Read(taken) ELSE taken
           plays   == send[c] /\ remote[c] # None /\ ~dtmf /\ out
       IN /\ recorded' = [Nothing EXCEPT ![c] =
                            IF sounds THEN LocalRecording(c, fed, inbound, played) ELSE None]
          /\ tap' = [Nothing EXCEPT ![c] =
                       IF c \in tapped
                         THEN [in |-> inbound, in16 |-> WideOf(taken),
                               out |-> played, out16 |-> None,
                               encoded |-> [p \in Codec |-> EncodedAs(taken, p)]]
                         ELSE None]
          /\ sent' = [Nothing EXCEPT ![c] = LocalOut(c, packet, out, dtmf)]
          /\ cache' = [cache EXCEPT ![c] =
                         IF plays THEN Prompted(c) ELSE read]
  /\ frame' = Nothing
  /\ heard' = {}
  /\ UNCHANGED <<config, phase>>

-----------------------------------------------------------------------------
(* The tick of the mixer: every phase is done for all members, and what it  *)
(* does for one does not depend on the others' turn.                        *)

\* Mutant of ProcessInbound: what a member plays itself is not fed.
ProcessInboundOnly(c, packet, out) == Received(c, Aged(cache[c]), packet)

\* Mutant of ProcessInbound: it is fed without forgetting what was held.
ProcessInboundKeeping(c, packet, out) ==
  LET aged == Aged(cache[c]) IN
  IF Decoded(c, aged, packet) = None /\ out THEN [aged EXCEPT !.narrow = FromOwn(c)]
                                           ELSE Received(c, aged, packet)

\* process_inbound: what comes in is fed to the bundle; if nothing does, what
\* the channel itself plays.  A tick of digits only is one without either.
ProcessInbound(c, packet, out) ==
  LET aged == Aged(cache[c]) IN
  IF Decoded(c, aged, packet) = None /\ out THEN FedLinear(FromOwn(c))
                                           ELSE Received(c, aged, packet)

\* populate_mix_frame
Contribution(c, packet, out) ==
  LET decoded == Decoded(c, Aged(cache[c]), packet) IN
  IF ~recv[c] THEN None
  ELSE IF decoded = None /\ out THEN FromOwn(c)
  ELSE decoded

\* What is played beside a packet that is decoded is not heard: `out' leaves it.
InboundPhase ==
  /\ Ticked
  /\ phase = "idle"
  /\ mixed # {}
  /\ phase' = IF Cardinality(mixed) = 1 THEN "record" ELSE "mix"
  /\ \E packet \in [mixed -> Packet] :
     \E out \in SUBSET {c \in mixed : packet[c] \notin Codec} :
       /\ cache' = [c \in Channel |->
            IF c \in mixed THEN ProcessInbound(c, packet[c], c \in out) ELSE cache[c]]
       /\ frame' = [c \in Channel |->
            IF c \in mixed THEN Contribution(c, packet[c], c \in out) ELSE None]
       /\ heard' = {c \in mixed : recv[c] /\ Decoded(c, Aged(cache[c]), packet[c]) # None}
  /\ sent' = Nothing
  /\ recorded' = Nothing
  /\ tap' = Nothing
  /\ UNCHANGED config

Peer(c) == CHOOSE d \in mixed : d # c

\* send_leg sends what the source has to the other's remote.
LegOpen(src) == send[src] /\ frame[src] # None /\ remote[Peer(src)] # None

\* encode_from keeps the wire in the bundle of the leg that it is sent on; what
\* it decodes for it stays in the source's.
AfterLegs(c) ==
  LET codec  == remote[Peer(c)]
      asked  == IF LegOpen(c) /\ ~Holds(cache[c], {codec}) THEN WithLinear(cache[c], codec)
                                                        ELSE cache[c]
  IN IF LegOpen(Peer(c))
       THEN [asked EXCEPT !.encoded[remote[c]] = EncodedFrom(cache[Peer(c)], remote[c])]
       ELSE asked

Mix2 ==
  /\ phase = "mix"
  /\ Cardinality(mixed) = 2
  /\ phase' = "record"
  /\ cache' = [c \in Channel |-> IF c \in mixed THEN AfterLegs(c) ELSE cache[c]]
  /\ sent' = [c \in Channel |-> IF c \in mixed /\ LegOpen(Peer(c))
                                 THEN EncodedFrom(cache[Peer(c)], remote[c]) ELSE sent[c]]
  /\ UNCHANGED <<config, heard, frame, recorded, tap, bounds>>

\* Mutant of Others: the member's own frame is not taken off.
OthersAndOwn(c) == UNION {frame[d] : d \in {e \in mixed : frame[e] # None}}

\* The sum of all frames, less the member's own.
Others(c) == UNION {frame[d] : d \in {e \in mixed \ {c} : frame[e] # None}}

\* The member's bundle is fed what it is to be sent.
Summed(c) == WithEncoded(FedLinear(Others(c)), remote[c])

MixAll ==
  /\ phase = "mix"
  /\ Cardinality(mixed) > 2
  /\ phase' = "record"
  /\ LET out == {c \in mixed : send[c] /\ remote[c] # None} IN
       /\ cache' = [c \in Channel |->
            IF c \in out THEN Summed(c) ELSE cache[c]]
       /\ sent' = [c \in Channel |->
            IF c \in out THEN Summed(c).encoded[remote[c]] ELSE sent[c]]
  /\ UNCHANGED <<config, heard, frame, recorded, tap, bounds>>

\* Mutants of PeerNarrow and PeerWide: a peer that was not heard is asked, too.
PeerNarrowHeld(c) ==
  IF Cardinality(mixed) # 2 THEN None ELSE Or(NarrowOf(cache[Peer(c)]), Silence)

PeerWideHeld(c) ==
  IF Cardinality(mixed) # 2 THEN None ELSE Or(WideOf(cache[Peer(c)]), Silence)

\* In a mix of two, each member's sound is taken for its peer's recordings.
PeerNarrow(c) ==
  IF Cardinality(mixed) # 2 THEN None
  ELSE IF Peer(c) \in heard THEN Or(NarrowOf(cache[Peer(c)]), Silence) ELSE Silence

PeerWide(c) ==
  IF Cardinality(mixed) # 2 THEN None
  ELSE IF Peer(c) \in heard THEN Or(WideOf(cache[Peer(c)]), Silence) ELSE Silence

\* A member's bundle after that, and after its own recorders have asked.
Asked(c) ==
  IF Cardinality(mixed) = 2 \/ IsWideband(c, cache[c]) THEN WithWide(WithNarrow(cache[c]))
                                                      ELSE WithNarrow(cache[c])

\* write_recordings: wideband channels are recorded at 16 kHz.
MixRecording(c) ==
  IF IsWideband(c, cache[c]) THEN [own |-> WideOf(cache[c]), other |-> PeerWide(c)]
                             ELSE [own |-> NarrowOf(cache[c]), other |-> PeerNarrow(c)]

MixTap(c) ==
  [in |-> NarrowOf(cache[c]), in16 |-> WideOf(cache[c]),
   out |-> PeerNarrow(c), out16 |-> PeerWide(c),
   encoded |-> [p \in Codec |-> EncodedAs(Asked(c), p)]]

PostMixPhase ==
  /\ phase = "record"
  /\ phase' = "idle"
  /\ recorded' = [c \in Channel |-> IF c \in heard THEN MixRecording(c) ELSE recorded[c]]
  /\ tap' = [c \in Channel |-> IF c \in heard \cap tapped THEN MixTap(c) ELSE tap[c]]
  /\ cache' = [c \in Channel |->
       IF c \in heard THEN IF c \in tapped THEN Read(Asked(c)) ELSE Asked(c)
                      ELSE cache[c]]
  /\ UNCHANGED <<config, heard, frame, sent, bounds>>

-----------------------------------------------------------------------------
(* Commands come between ticks; what the last tick gave is then forgotten. *)

BetweenTicks ==
  /\ phase = "idle"
  /\ commands < MaxCommands
  /\ commands' = commands + 1
  /\ frame' = Nothing
  /\ sent' = Nothing
  /\ recorded' = Nothing
  /\ tap' = Nothing
  /\ heard' = {}
  /\ UNCHANGED <<phase, cache, ticks>>

EnterMix(c) ==
  /\ BetweenTicks
  /\ c \notin mixed
  /\ mixed' = mixed \cup {c}
  /\ UNCHANGED <<send, recv, echo, remote, tapped>>

LeaveMix(c) ==
  /\ BetweenTicks
  /\ c \in mixed
  /\ mixed' = mixed \ {c}
  /\ UNCHANGED <<send, recv, echo, remote, tapped>>

Direction(c) ==
  /\ BetweenTicks
  /\ \E s, r \in BOOLEAN :
       /\ send' = [send EXCEPT ![c] = s]
       /\ recv' = [recv EXCEPT ![c] = r]
  /\ UNCHANGED <<mixed, echo, remote, tapped>>

Echo(c) ==
  /\ BetweenTicks
  /\ echo' \in {echo \cup {c}, echo \ {c}}
  /\ UNCHANGED <<mixed, send, recv, remote, tapped>>

\* A remote is given, or another codec.
Remote(c) ==
  /\ BetweenTicks
  /\ \E codec \in Codec : remote' = [remote EXCEPT ![c] = codec]
  /\ UNCHANGED <<mixed, send, recv, echo, tapped>>

\* A reader is made, or the last one destroyed.
Tap(c) ==
  /\ BetweenTicks
  /\ tapped' \in {tapped \cup {c}, tapped \ {c}}
  /\ UNCHANGED <<mixed, send, recv, echo, remote>>

Next ==
  \/ \E c \in Channel : LocalTick(c)
  \/ InboundPhase
  \/ Mix2
  \/ MixAll
  \/ PostMixPhase
  \/ \E c \in Channel : EnterMix(c)
  \/ \E c \in Channel : LeaveMix(c)
  \/ \E c \in Channel : Direction(c)
  \/ \E c \in Channel : Echo(c)
  \/ \E c \in Channel : Remote(c)
  \/ \E c \in Channel : Tap(c)

Spec == Init /\ [][Next]_vars
-----------------------------------------------------------------------------
(* What is heard where. *)

Theirs(c) == UNION {{[of |-> d, from |-> f, fresh |-> TRUE] : f \in {"remote", "own"}} :
                    d \in mixed \ {c}}

\* What a member is sent is this tick's sound of all the other members that have
\* any, whatever its bundle held before: no echo of its own, nothing from an
\* earlier tick, and nobody left out.
MixMinus == \A c \in mixed : sent[c] # None => sent[c] = Others(c) /\ sent[c] \subseteq Theirs(c)

\* In a mix of two, what comes from one member with an open line is sent to the
\* other, also if it is the member's own player while its remote is silent.
Bridged ==
  \A c \in mixed :
    phase = "record" /\ Cardinality(mixed) = 2 /\ send[c] /\ frame[c] # None
      /\ remote[Peer(c)] # None => sent[Peer(c)] = frame[c]

\* Alone, a channel sends its own player or what it echoes, of this tick.
SentAlone == \A c \in Channel \ mixed : sent[c] # None => sent[c] \in {FromOwn(c), FromRemote(c)}

\* All that a bundle holds is one frame, but for what a peer's leg has encoded.
OneFrame ==
  \A c \in Channel :
    LET k == cache[c]
        held == {k.narrow, k.wide} \cup (IF k.codec \in Codec THEN {k.wire} ELSE {}) IN
    \A s, t \in held \ {None} : s = t

\* In a mix of up to two, the recorders' own leg is what came in this tick, and
\* the other leg what came in at the peer, or silence, but never the own leg
\* again; in a larger mix the bundle has been fed the mix by then.
TwoLegs ==
  \A c \in mixed : recorded[c] # None =>
    /\ Cardinality(mixed) <= 2 => recorded[c].own = FromRemote(c)
    /\ Cardinality(mixed) = 2 => recorded[c].other \in {FromRemote(Peer(c)), Silence}

\* Readers at 8 kHz, and at 16 kHz in a mix of up to two, get this tick's sound
\* or silence.
ReadNow ==
  \A c \in Channel : tap[c] # None =>
    /\ tap[c].in \in {FromRemote(c), Silence} \/ (c \in mixed /\ Cardinality(mixed) > 2)
    /\ c \in mixed /\ Cardinality(mixed) <= 2 => tap[c].in16 = FromRemote(c)
    /\ c \in mixed /\ Cardinality(mixed) = 2 =>
         {tap[c].out, tap[c].out16} \subseteq {FromRemote(Peer(c)), Silence}

\* What is sent is right, alone and in a mix of any size.
Sends == MixMinus /\ Bridged /\ SentAlone

\* And so is what recorders and readers take.
Takes == TwoLegs /\ ReadNow
=============================================================================
